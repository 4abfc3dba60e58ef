------------------------------- MODULE TabBar -------------------------------
(***************************************************************************)
(* The tab bar of the application: TabBarController shows one of its       *)
(* children, the one at selectedIndex, and TabBar draws over the system's  *)
(* bar a button for each of them, the selected one lit.  A button finds    *)
(* its child by its tag, which is bound when the bar is laid out; the      *)
(* system's own buttons, which know nothing of TabBar, are removed by the  *)
(* layout of the controller.  Two buttons carry a red dot.                 *)
(*                                                                         *)
(* UIKit delivers no touch before the layout that is due has been made.    *)
(***************************************************************************)
EXTENDS Naturals

CONSTANTS
  LastTab,      \* index of the last button; the source has 3
  MaxLayout  \* bound: how often the bar is laid out

ASSUME TabBarAssumption == LastTab \in Nat /\ MaxLayout \in Nat \ {0}

VARIABLES
  selectedIndex,   \* UITabBarController.selectedIndex
  selectedButton,  \* TabBar.selectedButton
  lit,             \* the buttons with selected = YES
  tag,             \* UIView.tag of every button
  shown, hidden,   \* for every button, how many dot views it has of either kind
  systemButtons,   \* the system's buttons lie over the bar
  needsLayout,     \* the layouts that are due
  layouts,         \* how often the bar has been laid out
  wanted           \* history: the buttons whose dot was last asked to show

selection == <<selectedIndex, selectedButton, lit>>
dots == <<shown, hidden, wanted>>
tabBarVars == <<selectedIndex, selectedButton, lit, tag, shown, hidden, systemButtons,
                needsLayout, layouts, wanted>>

Button == 0..LastTab
Dotted == {1, 2} \cap Button

TabBarTypeOK ==
  /\ selectedIndex \in Button
  /\ selectedButton \in Button
  /\ lit \subseteq Button
  /\ tag \in [Button -> Button]
  /\ shown \in [Button -> 0..MaxLayout]
  /\ hidden \in [Button -> 0..MaxLayout]
  /\ systemButtons \in BOOLEAN
  /\ needsLayout \subseteq {"controller", "bar"}
  /\ layouts \in 0..MaxLayout
  /\ wanted \subseteq Button

\* After init: the first button was clicked as it was added, all tags are 0.
TabBarInit ==
  /\ selectedIndex = 0
  /\ selectedButton = 0
  /\ lit = {0}
  /\ tag = [b \in Button |-> 0]
  /\ shown = [b \in Button |-> 0]
  /\ hidden = [b \in Button |-> 0]
  /\ systemButtons = TRUE
  /\ needsLayout = {"controller", "bar"}
  /\ layouts = 0
  /\ wanted = {}

-----------------------------------------------------------------------------
(***************************************************************************)
(* Layout.                                                                 *)
(***************************************************************************)

\* viewWillAppear: removes the controls among the subviews of the bar.
ViewWillAppear ==
  /\ systemButtons' = FALSE
  /\ UNCHANGED <<selection, tag, dots, needsLayout, layouts>>

\* viewWillLayoutSubviews: removes every subview that is no TabBar.
ViewWillLayoutSubviews ==
  /\ "controller" \in needsLayout
  /\ needsLayout' = needsLayout \ {"controller"}
  /\ systemButtons' = FALSE
  /\ UNCHANGED <<selection, tag, dots, layouts>>

\* Faulty variant: the new dot is not hidden.
LayoutShowsDot ==
  /\ "bar" \in needsLayout
  /\ layouts < MaxLayout
  /\ needsLayout' = needsLayout \ {"bar"}
  /\ layouts' = layouts + 1
  /\ tag' = [b \in Button |-> b]
  /\ shown' = [b \in Button |-> IF b \in Dotted THEN shown[b] + 1 ELSE shown[b]]
  /\ UNCHANGED <<selection, hidden, wanted, systemButtons>>

\* Faulty variant: the tags are counted from one.
LayoutTagsFromOne ==
  /\ "bar" \in needsLayout
  /\ layouts < MaxLayout
  /\ needsLayout' = needsLayout \ {"bar"}
  /\ layouts' = layouts + 1
  /\ tag' = [b \in Button |-> b + 1]
  /\ hidden' = [b \in Button |-> IF b \in Dotted THEN hidden[b] + 1 ELSE hidden[b]]
  /\ UNCHANGED <<selection, shown, wanted, systemButtons>>

\* layoutSubviews: binds the tags, and gives the second and the third button
\* one more hidden dot, whether or not they have one already.
LayoutSubviews ==
  /\ "bar" \in needsLayout
  /\ layouts < MaxLayout
  /\ needsLayout' = needsLayout \ {"bar"}
  /\ layouts' = layouts + 1
  /\ tag' = [b \in Button |-> b]
  /\ hidden' = [b \in Button |-> IF b \in Dotted THEN hidden[b] + 1 ELSE hidden[b]]
  /\ UNCHANGED <<selection, shown, wanted, systemButtons>>

\* A rotation, or a return from a pushed page: UIKit makes its buttons anew.
SystemRelayout ==
  /\ layouts < MaxLayout
  /\ needsLayout' = {"controller", "bar"}
  /\ systemButtons' = TRUE
  /\ UNCHANGED <<selection, tag, dots, layouts>>

-----------------------------------------------------------------------------
(***************************************************************************)
(* Selection and dots.                                                     *)
(***************************************************************************)

\* tabBar:didSelectedButtonFrom:to: and the lighting of the button.
Select(b, index) ==
  /\ selectedIndex' = index
  /\ lit' = (lit \ {selectedButton}) \cup {b}
  /\ selectedButton' = b

\* The user touches the b-th button: the system's, if it lies over the bar, or
\* TabBar's, which calls buttonClick: with its tag.
Touch(b) ==
  /\ needsLayout = {}
  /\ IF systemButtons
       THEN selectedIndex' = b /\ UNCHANGED <<selectedButton, lit>>
       ELSE Select(b, tag[b])
  /\ UNCHANGED <<tag, dots, systemButtons, needsLayout, layouts>>

\* Faulty variant: the button that was lit stays lit.
SetIndexLeavesLit(i) ==
  /\ selectedIndex' = i
  /\ lit' = lit \cup {i}
  /\ selectedButton' = i
  /\ UNCHANGED <<tag, dots, systemButtons, needsLayout, layouts>>

\* setSelectTabbarIndex: from the program.
SetSelectTabbarIndex(i) ==
  /\ Select(i, i)
  /\ UNCHANGED <<tag, dots, systemButtons, needsLayout, layouts>>

\* showBadgeOnItemIndex: shows all dot views of the button.  One that has none
\* yet, before the first layout, forgets the call.
ShowBadgeOnItemIndex(b) ==
  /\ shown' = [shown EXCEPT ![b] = @ + hidden[b]]
  /\ hidden' = [hidden EXCEPT ![b] = 0]
  /\ wanted' = IF layouts > 0 THEN wanted \cup {b} ELSE wanted
  /\ UNCHANGED <<selection, tag, systemButtons, needsLayout, layouts>>

\* hideBadgeOnItemIndex: hides them all.
HideBadgeOnItemIndex(b) ==
  /\ hidden' = [hidden EXCEPT ![b] = @ + shown[b]]
  /\ shown' = [shown EXCEPT ![b] = 0]
  /\ wanted' = wanted \ {b}
  /\ UNCHANGED <<selection, tag, systemButtons, needsLayout, layouts>>

TabBarNext ==
  \/ ViewWillAppear \/ ViewWillLayoutSubviews \/ LayoutSubviews \/ SystemRelayout
  \/ \E b \in Button : \/ Touch(b)
                       \/ SetSelectTabbarIndex(b)
                       \/ ShowBadgeOnItemIndex(b)
                       \/ HideBadgeOnItemIndex(b)

TabBarSpec == TabBarInit /\ [][TabBarNext]_tabBarVars

-----------------------------------------------------------------------------
(***************************************************************************)
(* Properties.                                                             *)
(***************************************************************************)

\* The bar and the controller agree: exactly the selected button is lit, and it
\* is the button of the child on screen, whoever selected it, a finger or the
\* program, and whenever the bar was laid out in between.
SelectionAgrees == lit = {selectedButton} /\ selectedIndex = selectedButton

\* A dot is seen exactly while the last call was to show it (calls before the
\* first layout aside), however many views the layouts have piled up.
DotFollowsCalls == \A b \in Dotted : shown[b] > 0 <=> b \in wanted
=============================================================================
