----------------------------- MODULE Navigation -----------------------------
(***************************************************************************)
(* Going back in a navigation controller.  A page is left by the system's  *)
(* back indicator, which asks navigationBar:shouldPopItem:, by the back    *)
(* button of BaseViewController, by the edge swipe, by the back and close  *)
(* buttons of BaseWebController, or by the program.  The first two do not  *)
(* pop at once: they ask the page, then dispatch a block that pops         *)
(* whatever is on top when the main queue comes to it.  In between, other  *)
(* blocks of the queue and other touches may push and pop.  An animated    *)
(* pop takes the page from the stack at once; but until its transition has *)
(* ended, the page still has its navigation controller.                    *)
(***************************************************************************)
EXTENDS Naturals, Sequences

CONSTANTS
  Controller,  \* the pages
  Root,        \* the page at the bottom
  Answers,     \* pages that implement navigationShouldPopOnBackButton
  Vetoes,      \* those whose implementation returns NO
  Web,         \* pages that are a BaseWebController
  Class,       \* names of classes
  ClassOf,     \* the class of each page
  MaxPending,  \* bound: blocks dispatched at the same time
  MaxPages     \* bound: H5 pages behind the one a web page shows

\* The roots of the four tabs override nothing, and neither does
\* BaseWebController.
ASSUME NavigationAssumption ==
  /\ Root \in Controller
  /\ Answers \subseteq Controller /\ Vetoes \subseteq Answers
  /\ Web \subseteq Controller /\ Web \cap Answers = {}
  /\ Root \notin Answers \cup Web
  /\ ClassOf \in [Controller -> Class]
  /\ MaxPending \in Nat /\ MaxPages \in Nat

VARIABLES
  viewControllers,  \* UINavigationController.viewControllers
  items,            \* the pages whose items are in UINavigationBar.items
  pending,          \* the dispatched blocks: who pops, and which page was asked
  departing,        \* the pages that were popped and whose transition runs
  stuck,            \* an interactive pop began with nothing below
  pages,            \* for every web page, how many H5 pages it can go back
  closeItem         \* the web pages that show the close button

web == <<pages, closeItem>>
controllers == <<viewControllers, items, departing>>
stackVars == <<viewControllers, items, departing, pending, stuck, pages, closeItem>>

Pages(s) == {s[i] : i \in 1..Len(s)}
Top == viewControllers[Len(viewControllers)]

StackTypeOK ==
  /\ viewControllers \in Seq(Controller)
  /\ items \in Seq(Controller)
  /\ viewControllers # <<>> /\ viewControllers[1] = Root
  /\ \A i, j \in 1..Len(viewControllers) : viewControllers[i] = viewControllers[j] => i = j
  /\ departing \subseteq Controller
  /\ pending \in Seq([by : {"bar", "page"}, asked : Controller])
  /\ Len(pending) <= MaxPending
  /\ stuck \in BOOLEAN
  /\ pages \in [Web -> 0..MaxPages]
  /\ closeItem \subseteq Web

StackInit ==
  /\ viewControllers = <<Root>>
  /\ items = <<Root>>
  /\ departing = {}
  /\ pending = <<>>
  /\ stuck = FALSE
  /\ pages = [c \in Web |-> 0]
  /\ closeItem = {}

-----------------------------------------------------------------------------
(***************************************************************************)
(* Popping.  UIKit shortens the stack and then has the bar pop its items,  *)
(* for which the bar asks its delegate again.                              *)
(***************************************************************************)

\* Faulty variant: the delegate takes the bar's question for a touch.
BarIsAheadNever(stack, bar) == FALSE

\* The first guard of navigationBar:shouldPopItem: the controller is gone
\* already, its item may follow.
BarIsAhead(stack, bar) == Len(stack) < Len(bar)

\* The stack becomes s, a prefix of it, and the bar follows.  The pages above
\* leave in a transition, or at once.
PopTo(s, animated) ==
  /\ viewControllers' = s
  /\ items' = IF BarIsAhead(s, items) THEN SubSeq(items, 1, Len(s)) ELSE items
  /\ departing' = departing \cup IF animated THEN Pages(viewControllers) \ Pages(s) ELSE {}

\* popViewControllerAnimated: does nothing at the root.
PopViewController(animated) ==
  IF Len(viewControllers) > 1
    THEN PopTo(SubSeq(viewControllers, 1, Len(viewControllers) - 1), animated)
    ELSE UNCHANGED controllers

\* The transition in which c leaves has ended, and UIKit takes c's navigation
\* controller away.
TransitionEnds(c) ==
  /\ c \in departing
  /\ departing' = departing \ {c}
  /\ UNCHANGED <<viewControllers, items, pending, stuck, web>>

\* c.navigationController is not nil.
HasNavigationController(c) == c \in Pages(viewControllers) \cup departing

ShouldPop(c) == c \notin Vetoes

Dispatch(by, c) ==
  /\ Len(pending) < MaxPending
  /\ pending' = Append(pending, [by |-> by, asked |-> c])

-----------------------------------------------------------------------------
(***************************************************************************)
(* Back.                                                                   *)
(***************************************************************************)

\* The user touches the system's back indicator.  The item stays: the bar
\* follows the controllers when the block has run.
NavigationBarShouldPopItem ==
  /\ Len(viewControllers) > 1 /\ Top \notin Web
  /\ IF BarIsAhead(viewControllers, items)
       THEN items' = SubSeq(items, 1, Len(items) - 1) /\ UNCHANGED pending
       ELSE /\ IF ShouldPop(Top) THEN Dispatch("bar", Top) ELSE UNCHANGED pending
            /\ UNCHANGED items
  /\ UNCHANGED <<viewControllers, departing, stuck, web>>

\* backItemClick: the user touches the page's own back button.
BackItemClick ==
  /\ Len(viewControllers) > 1 /\ Top \notin Web
  /\ IF ShouldPop(Top) THEN Dispatch("page", Top) ELSE UNCHANGED pending
  /\ UNCHANGED <<controllers, stuck, web>>

\* Faulty variant: the page's block keeps the navigation controller.
RunBlockOfKeptController ==
  /\ pending # <<>>
  /\ pending' = Tail(pending)
  /\ PopViewController(TRUE)
  /\ UNCHANGED <<stuck, web>>

\* The main queue runs the next block.  The page's block reads the page's
\* navigationController only now, and finds nil if the page has left and its
\* transition is over.
RunPopBlock ==
  /\ pending # <<>>
  /\ pending' = Tail(pending)
  /\ IF Head(pending).by = "page" /\ ~HasNavigationController(Head(pending).asked)
       THEN UNCHANGED controllers
       ELSE PopViewController(TRUE)
  /\ UNCHANGED <<stuck, web>>

\* Faulty variant: the number of controllers is not looked at.
GestureBeginsAnywhere == ShouldPop(Top) /\ Top \notin Web

\* gestureRecognizerShouldBegin: the delegate that UIKit had set lets no page
\* with a left button of its own be swiped away.
GestureRecognizerShouldBegin ==
  IF Top \in Answers
    THEN ShouldPop(Top)
    ELSE Len(viewControllers) >= 2 /\ Top \notin Web

\* The user swipes from the edge to the end.  The interactive pop of a lone
\* controller leaves the screen without response.
SwipeBack ==
  /\ GestureRecognizerShouldBegin
  /\ PopViewController(TRUE)
  /\ stuck' = (stuck \/ Len(viewControllers) = 1)
  /\ UNCHANGED <<pending, web>>

-----------------------------------------------------------------------------
(***************************************************************************)
(* The web page, and the program.                                          *)
(***************************************************************************)

\* The user follows a link.
FollowLink ==
  /\ Top \in Web
  /\ pages[Top] < MaxPages
  /\ pages' = [pages EXCEPT ![Top] = @ + 1]
  /\ UNCHANGED <<controllers, pending, stuck, closeItem>>

\* backNative: goes back one H5 page and offers the close button, or closes.
BackNative ==
  /\ Top \in Web
  /\ IF pages[Top] > 0
       THEN /\ pages' = [pages EXCEPT ![Top] = @ - 1]
            /\ closeItem' = closeItem \cup {Top}
            /\ UNCHANGED controllers
       ELSE PopViewController(TRUE) /\ UNCHANGED web
  /\ UNCHANGED <<pending, stuck>>

\* closeNative
CloseNative ==
  /\ Top \in closeItem
  /\ PopViewController(TRUE)
  /\ UNCHANGED <<pending, stuck, web>>

\* The program shows page c, which is neither in the stack nor just leaving it.
PushViewController(c) ==
  /\ ~HasNavigationController(c)
  /\ viewControllers' = Append(viewControllers, c)
  /\ items' = Append(items, c)
  /\ pages' = [w \in Web |-> IF w = c THEN 0 ELSE pages[w]]
  /\ closeItem' = closeItem \ {c}
  /\ UNCHANGED <<departing, pending, stuck>>

\* The lowest position of class n in the stack is i.
FirstOf(n, i) ==
  /\ ClassOf[viewControllers[i]] = n
  /\ \A j \in 1..i - 1 : ClassOf[viewControllers[j]] # n

Absent(n) == \A c \in Pages(viewControllers) : ClassOf[c] # n

\* backToControllerName: the first name that is in the stack is popped to; if
\* there is none, one page is popped.  (A page without a navigation controller
\* does nothing.)
BackToControllerName(names, animated) ==
  /\ \/ /\ \A k \in 1..Len(names) : Absent(names[k])
        /\ PopViewController(animated)
     \/ \E k \in 1..Len(names), i \in 1..Len(viewControllers) :
          /\ \A l \in 1..k - 1 : Absent(names[l])
          /\ FirstOf(names[k], i)
          /\ PopTo(SubSeq(viewControllers, 1, i), animated)
  /\ UNCHANGED <<pending, stuck, web>>

StackNext ==
  \/ NavigationBarShouldPopItem \/ BackItemClick \/ RunPopBlock \/ SwipeBack
  \/ FollowLink \/ BackNative \/ CloseNative
  \/ \E c \in Controller : PushViewController(c) \/ TransitionEnds(c)
  \/ \E m, n \in Class, animated \in BOOLEAN :
       BackToControllerName(<<m>>, animated) \/ BackToControllerName(<<m, n>>, animated)

StackSpec == StackInit /\ [][StackNext]_stackVars

-----------------------------------------------------------------------------
(***************************************************************************)
(* Properties.                                                             *)
(***************************************************************************)

\* The bar shows the items of exactly the pages in the stack, however pops by
\* touch, swipe and program follow on each other.
BarFollowsStack == items = viewControllers

\* The screen is never lost to a swipe at the root.
NeverStuck == ~stuck

BlockRuns == pending # <<>> /\ pending' = Tail(pending)

\* A back button of BaseViewController removes a page below the page it
\* belongs to only while that page's own transition is running: a block that
\* comes later removes nothing below, however often the button was touched,
\* whatever left the stack since and whatever was shown instead.
OwnBackStopsAtOwner ==
  [][BlockRuns /\ Head(pending).by = "page" /\ Head(pending).asked \notin departing =>
       \A i \in 1..Len(viewControllers) :
         i <= Len(viewControllers') \/
           \E j \in 1..i : viewControllers[j] = Head(pending).asked]_stackVars
=============================================================================
