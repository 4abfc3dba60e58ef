------------------------------ MODULE AppProofs ------------------------------
(***************************************************************************)
(* What holds of the tab bar, of the update alert, of navigation and of    *)
(* the launch for every value of their constants.                          *)
(***************************************************************************)
EXTENDS TabBar, VersionCheck, Navigation, AppLaunch, TLAPS

-----------------------------------------------------------------------------
(***************************************************************************)
(* For every number of buttons and of layouts, the tab bar shows the       *)
(* selection and the dots it was asked for.                                *)
(***************************************************************************)

\* What the layouts owe to the touches: tags are bound once the bar is laid
\* out, and the system's buttons are gone once the controller is.
LayoutDone ==
  /\ "bar" \notin needsLayout => tag = [b \in Button |-> b]
  /\ "controller" \notin needsLayout => ~systemButtons

\* Every layout gives a dotted button one view; no other button has any.
DotsCounted ==
  /\ \A b \in Dotted : shown[b] + hidden[b] = layouts
  /\ \A b \in Button \ Dotted : shown[b] + hidden[b] = 0

BarInv == TabBarTypeOK /\ LayoutDone /\ DotsCounted /\ SelectionAgrees /\ DotFollowsCalls

LEMMA InitBarInv == TabBarInit => BarInv
<1> SUFFICES ASSUME TabBarInit PROVE BarInv
  OBVIOUS
<1>1. 0 \in 0..LastTab /\ 0 \in 0..MaxLayout
  BY TabBarAssumption
<1>2. TabBarTypeOK
  BY <1>1 DEF TabBarInit, TabBarTypeOK, Button
<1>3. LayoutDone /\ DotsCounted /\ SelectionAgrees /\ DotFollowsCalls
  BY DEF TabBarInit, LayoutDone, DotsCounted, SelectionAgrees, DotFollowsCalls, Dotted
<1> QED  BY <1>2, <1>3 DEF BarInv

LEMMA LayoutKeepsBarInv ==
  ASSUME BarInv,
         ViewWillAppear \/ ViewWillLayoutSubviews \/ LayoutSubviews \/ SystemRelayout
  PROVE  BarInv'
<1> USE TabBarAssumption DEF BarInv
<1>1. CASE ViewWillAppear \/ ViewWillLayoutSubviews \/ SystemRelayout
  BY <1>1 DEF ViewWillAppear, ViewWillLayoutSubviews, SystemRelayout, selection, dots,
              TabBarTypeOK, LayoutDone, DotsCounted, SelectionAgrees, DotFollowsCalls
<1>2. CASE LayoutSubviews
  <2> USE <1>2 DEF LayoutSubviews, selection
  <2>1. \A b \in Button : /\ shown[b] \in 0..MaxLayout
                          /\ hidden[b] \in 0..MaxLayout
                          /\ shown[b] + hidden[b] \in {0, layouts}
                          /\ b \in Dotted => shown[b] + hidden[b] = layouts
    BY DEF TabBarTypeOK, DotsCounted
  <2>2. layouts \in Nat /\ layouts + 1 \in 0..MaxLayout
    BY DEF TabBarTypeOK
  <2>3. \A b \in Dotted : hidden[b] + 1 \in 0..MaxLayout
    BY <2>1, <2>2 DEF Dotted
  <2>4. TabBarTypeOK'
    BY <2>2, <2>3 DEF TabBarTypeOK
  <2>5. LayoutDone'
    BY DEF LayoutDone
  <2>6. DotsCounted'
    BY <2>1, <2>2 DEF DotsCounted, Dotted
  <2>7. SelectionAgrees' /\ DotFollowsCalls'
    BY DEF SelectionAgrees, DotFollowsCalls
  <2> QED  BY <2>4, <2>5, <2>6, <2>7
<1> QED  BY <1>1, <1>2

LEMMA SelectionKeepsInv ==
  ASSUME BarInv, NEW b \in Button, Touch(b) \/ SetSelectTabbarIndex(b)
  PROVE  BarInv'
<1> USE DEF BarInv
<1>1. /\ selectedIndex' = b
      /\ selectedButton' = b
      /\ lit' = (lit \ {selectedButton}) \cup {b}
      /\ UNCHANGED <<tag, dots, systemButtons, needsLayout, layouts>>
  BY DEF Touch, SetSelectTabbarIndex, Select, LayoutDone
<1>2. SelectionAgrees'
  BY <1>1 DEF SelectionAgrees
<1> QED
  BY <1>1, <1>2 DEF TabBarTypeOK, LayoutDone, DotsCounted, DotFollowsCalls, dots

LEMMA DotsKeepInv ==
  ASSUME BarInv, NEW b \in Button, ShowBadgeOnItemIndex(b) \/ HideBadgeOnItemIndex(b)
  PROVE  BarInv'
<1> USE DEF BarInv
<1>1. /\ UNCHANGED <<selectedIndex, selectedButton, lit, tag, systemButtons, needsLayout, layouts>>
      /\ shown' \in [Button -> Nat] /\ hidden' \in [Button -> Nat]
      /\ \A c \in Button : c # b => shown'[c] = shown[c] /\ hidden'[c] = hidden[c]
      /\ shown'[b] + hidden'[b] = shown[b] + hidden[b]
      /\ shown'[b] > 0 => ShowBadgeOnItemIndex(b) /\ shown[b] + hidden[b] > 0
      /\ HideBadgeOnItemIndex(b) => shown'[b] = 0
      /\ ShowBadgeOnItemIndex(b) => hidden'[b] = 0
  BY DEF ShowBadgeOnItemIndex, HideBadgeOnItemIndex, TabBarTypeOK, selection
<1>2. layouts \in Nat /\ MaxLayout \in Nat /\ layouts <= MaxLayout
  BY TabBarAssumption DEF TabBarTypeOK
<1>3. DotsCounted'
  BY <1>1, <1>2 DEF DotsCounted, Dotted, TabBarTypeOK
<1>4. \A c \in Button : shown'[c] \in 0..MaxLayout /\ hidden'[c] \in 0..MaxLayout
  <2>1. \A c \in Button : shown'[c] + hidden'[c] <= MaxLayout
    BY <1>1, <1>2, <1>3 DEF DotsCounted
  <2> QED  BY <1>1, <1>2, <2>1
<1>5. TabBarTypeOK'
  BY <1>1, <1>4 DEF TabBarTypeOK, ShowBadgeOnItemIndex, HideBadgeOnItemIndex
<1>6. DotFollowsCalls'
  <2> SUFFICES ASSUME NEW c \in Dotted PROVE shown'[c] > 0 <=> c \in wanted'
    BY DEF DotFollowsCalls
  <2>0. c \in Button
    BY DEF Dotted
  <2>1. CASE c # b
    BY <1>1, <2>0, <2>1 DEF DotFollowsCalls, ShowBadgeOnItemIndex, HideBadgeOnItemIndex
  <2>2. CASE c = b /\ HideBadgeOnItemIndex(b)
    BY <1>1, <2>2 DEF HideBadgeOnItemIndex
  <2>3. CASE c = b /\ ShowBadgeOnItemIndex(b)
    <3>1. shown'[b] = layouts
      BY <1>1, <1>2, <1>3, <2>3 DEF DotsCounted
    <3>2. CASE layouts > 0
      BY <2>3, <3>1, <3>2 DEF ShowBadgeOnItemIndex
    <3>3. CASE layouts = 0
      <4>1. shown[b] = 0
        BY <2>3, <3>3 DEF DotsCounted, TabBarTypeOK, Dotted
      <4> QED  BY <2>3, <3>1, <3>3, <4>1 DEF ShowBadgeOnItemIndex, DotFollowsCalls
    <3> QED  BY <1>2, <3>2, <3>3
  <2> QED  BY <2>1, <2>2, <2>3
<1> QED
  BY <1>1, <1>3, <1>5, <1>6 DEF LayoutDone, SelectionAgrees

LEMMA BarInvariance == TabBarSpec => []BarInv
<1>1. BarInv /\ [TabBarNext]_tabBarVars => BarInv'
  <2> SUFFICES ASSUME BarInv, [TabBarNext]_tabBarVars PROVE BarInv'
    OBVIOUS
  <2>1. CASE UNCHANGED tabBarVars
    BY <2>1 DEF tabBarVars, BarInv, TabBarTypeOK, LayoutDone, DotsCounted, SelectionAgrees, DotFollowsCalls
  <2>2. CASE TabBarNext
    BY <2>2, LayoutKeepsBarInv, SelectionKeepsInv, DotsKeepInv DEF TabBarNext
  <2> QED  BY <2>1, <2>2
<1> QED  BY InitBarInv, <1>1, PTL DEF TabBarSpec

\* Exactly the button of the child on screen is lit, for any number of buttons:
\* no touch meets an unbound tag or a button of the system.
THEOREM BarAgreesWithController == TabBarSpec => []SelectionAgrees
<1> QED  BY BarInvariance, PTL DEF BarInv

\* The dots show what was last asked for, however often the bar is laid out.
THEOREM DotsAreRight == TabBarSpec => []DotFollowsCalls
<1> QED  BY BarInvariance, PTL DEF BarInv

-----------------------------------------------------------------------------
(***************************************************************************)
(* For any set of versions, a declined update stays declined.              *)
(***************************************************************************)

(***************************************************************************)
(* The inductive invariant.  Of the declined versions only the last is     *)
(* remembered: that suffices because the archive holds nothing but the     *)
(* last version named, and because an alert that outlives its version      *)
(* keeps the later one from being shown, and so from being declined.       *)
(***************************************************************************)
ArchiveIsLast == appInfo # NoInfo => appInfo.version = lastVersion

LastIsRemembered == ~wentBack /\ lastVersion \in declined => no_version = lastVersion

OldAlertShields ==
  actionSheet # NoInfo /\ ~wentBack /\ actionSheet.version # lastVersion
    => lastVersion \notin declined

UpdateInv ==
  VersionTypeOK /\ ArchiveIsLast /\ LastIsRemembered /\ OldAlertShields /\ DeclinedStaysDeclined

\* A version is told from no version.
LEMMA InfoIsSomething ==
  ASSUME NEW info \in Info
  PROVE  info # NoInfo /\ info.version \in Version /\ info.version # None /\ info.force \in BOOLEAN
BY VersionAssumption DEF Info, NoInfo

LEMMA UpdateInit == VersionInit => UpdateInv
BY DEF VersionInit, UpdateInv, VersionTypeOK, ArchiveIsLast, LastIsRemembered, OldAlertShields,
       DeclinedStaysDeclined, NoInfo, None

LEMMA NamingKeeps ==
  ASSUME UpdateInv, NEW info \in Info, NameVersion(info)
  PROVE  UpdateInv'
<1> USE DEF UpdateInv
<1>1. /\ info # NoInfo /\ info.version \in Version
      /\ appInfo' = info /\ lastVersion' = info.version
      /\ UNCHANGED <<appVersion, no_version, actionSheet, raised, declined>>
      /\ wentBack' \in BOOLEAN
  BY InfoIsSomething DEF NameVersion, VersionTypeOK
<1>2. ~wentBack' => ~wentBack /\ (info.version \notin declined \/ info.version = lastVersion)
  BY DEF NameVersion, VersionTypeOK
<1>3. VersionTypeOK' /\ ArchiveIsLast'
  BY <1>1 DEF VersionTypeOK, ArchiveIsLast
<1>4. LastIsRemembered'
  BY <1>1, <1>2 DEF LastIsRemembered
<1>5. OldAlertShields' /\ DeclinedStaysDeclined'
  BY <1>1, <1>2 DEF OldAlertShields, DeclinedStaysDeclined
<1> QED  BY <1>3, <1>4, <1>5

LEMMA CheckKeeps ==
  ASSUME UpdateInv, StartCheckOperate
  PROVE  UpdateInv'
<1> USE DEF UpdateInv
<1>1. /\ UNCHANGED <<appVersion, appInfo, no_version, lastVersion, declined, wentBack>>
      /\ raised' \in BOOLEAN
  BY DEF StartCheckOperate, versionHistory
<1>2. \/ actionSheet' = actionSheet
      \/ /\ actionSheet' = appInfo /\ appInfo.version # None
         /\ appInfo.force \/ appInfo.version # no_version
  BY DEF StartCheckOperate, Present, IsNewer
<1>3. CASE actionSheet' = actionSheet
  BY <1>1, <1>3 DEF VersionTypeOK, ArchiveIsLast, LastIsRemembered, OldAlertShields, DeclinedStaysDeclined
<1>4. CASE /\ actionSheet' = appInfo /\ appInfo.version # None
           /\ appInfo.force \/ appInfo.version # no_version
  <2>1. appInfo # NoInfo /\ appInfo.version = lastVersion
    BY <1>4 DEF ArchiveIsLast, NoInfo
  <2>2. ~appInfo.force /\ ~wentBack => lastVersion \notin declined
    BY <1>4, <2>1 DEF LastIsRemembered
  <2>3. VersionTypeOK' /\ ArchiveIsLast' /\ LastIsRemembered'
    BY <1>1, <1>4 DEF VersionTypeOK, ArchiveIsLast, LastIsRemembered
  <2>4. OldAlertShields' /\ DeclinedStaysDeclined'
    BY <1>1, <1>4, <2>1, <2>2 DEF OldAlertShields, DeclinedStaysDeclined
  <2> QED  BY <2>3, <2>4
<1> QED  BY <1>2, <1>3, <1>4

LEMMA AnswerKeeps ==
  ASSUME UpdateInv, GoToUpdate \/ DoNotRemind
  PROVE  UpdateInv'
<1> USE DEF UpdateInv
<1>1. /\ actionSheet # NoInfo /\ actionSheet \in Info /\ actionSheet.version \in Version
      /\ actionSheet' = NoInfo
      /\ UNCHANGED <<appVersion, appInfo, raised, lastVersion, wentBack>>
  BY InfoIsSomething DEF GoToUpdate, DoNotRemind, VersionTypeOK, versionHistory
<1>2. ArchiveIsLast' /\ OldAlertShields' /\ DeclinedStaysDeclined'
  BY <1>1 DEF ArchiveIsLast, OldAlertShields, DeclinedStaysDeclined
<1>3. CASE GoToUpdate
  BY <1>1, <1>2, <1>3 DEF GoToUpdate, VersionTypeOK, LastIsRemembered, versionHistory
<1>4. CASE DoNotRemind
  <2>1. no_version' = actionSheet.version /\ declined' = declined \cup {actionSheet.version}
    BY <1>4 DEF DoNotRemind
  <2>2. VersionTypeOK'
    BY <1>1, <2>1 DEF VersionTypeOK
  <2>3. LastIsRemembered'
    BY <1>1, <2>1 DEF LastIsRemembered, OldAlertShields
  <2> QED  BY <1>2, <2>2, <2>3
<1> QED  BY <1>3, <1>4

LEMMA UpdateNext == ASSUME UpdateInv, [VersionNext]_versionVars PROVE UpdateInv'
<1> USE DEF UpdateInv
<1>1. CASE UNCHANGED versionVars
  BY <1>1 DEF versionVars, VersionTypeOK, ArchiveIsLast, LastIsRemembered, OldAlertShields,
              DeclinedStaysDeclined
<1>2. CASE ClearInfo
  BY <1>2 DEF ClearInfo, versionHistory, VersionTypeOK, ArchiveIsLast, LastIsRemembered, OldAlertShields,
              DeclinedStaysDeclined
<1>3. CASE \E v \in Released : Restart(v)
  BY <1>3 DEF Restart, versionHistory, VersionTypeOK, ArchiveIsLast, LastIsRemembered, OldAlertShields,
              DeclinedStaysDeclined
<1>4. CASE StartCheckOperate
  BY <1>4, CheckKeeps
<1>5. CASE GoToUpdate \/ DoNotRemind
  BY <1>5, AnswerKeeps
<1>6. CASE \E info \in Info : NameVersion(info)
  BY <1>6, NamingKeeps
<1> QED  BY <1>1, <1>2, <1>3, <1>4, <1>5, <1>6 DEF VersionNext

\* An update that the user declined is not offered again while the server names other
\* versions, whatever the versions and although the code remembers one (line 74).
THEOREM DeclinedIsDeclined == VersionSpec => []DeclinedStaysDeclined
<1>1. VersionInit => UpdateInv
  BY UpdateInit
<1>2. UpdateInv /\ [VersionNext]_versionVars => UpdateInv'
  BY UpdateNext
<1>3. UpdateInv => DeclinedStaysDeclined
  BY DEF UpdateInv
<1> QED  BY <1>1, <1>2, <1>3, PTL DEF VersionSpec

\* The code's comparison is the order of versions of three parts.
LEMMA CompareIsOrder ==
  ASSUME NEW a \in Seq(Nat), NEW s \in Seq(Nat)
  PROVE  VersionCompare(a, s) <=> Len(a) = 3 /\ Len(s) = 3 /\ Precedes(a, s)
<1>1. ASSUME Len(a) = 3, Len(s) = 3
      PROVE  VersionCompare(a, s) <=> Precedes(a, s)
  <2>1. /\ a[1] \in Nat /\ a[2] \in Nat /\ a[3] \in Nat
        /\ s[1] \in Nat /\ s[2] \in Nat /\ s[3] \in Nat
    <3>1. ASSUME NEW q \in Seq(Nat), NEW j \in 1..Len(q) PROVE q[j] \in Nat
      BY <3>1
    <3>2. 1 \in 1..3 /\ 2 \in 1..3 /\ 3 \in 1..3
      OBVIOUS
    <3> QED  BY <1>1, <3>1, <3>2
  <2>2. Precedes(a, s) <=> \E n \in {1, 2, 3} : a[n] < s[n] /\ \A m \in 1..n - 1 : a[m] = s[m]
    <3>1. 1..Len(a) = {1, 2, 3}
      BY <1>1
    <3> QED  BY <3>1 DEF Precedes
  <2>3. 1..1 - 1 = {} /\ 1..2 - 1 = {1} /\ 1..3 - 1 = {1, 2}
    OBVIOUS
  <2>4. Precedes(a, s) <=> \/ a[1] < s[1]
                           \/ a[2] < s[2] /\ a[1] = s[1]
                           \/ a[3] < s[3] /\ a[1] = s[1] /\ a[2] = s[2]
    BY <2>2, <2>3
  <2> QED  BY <1>1, <2>1, <2>4 DEF VersionCompare
<1> QED  BY <1>1 DEF VersionCompare

\* Exactly the versions that come after the application's own, and that are forced or
\* were not just declined, are shown (lines 33-64), whatever the versions: the ones
\* that would raise on the comparison with the declined one are never newer.
THEOREM AlertsAreRight == VersionSpec => AlertsFollowVersions
<1>1. VersionInit => UpdateInv
  BY UpdateInit
<1>2. UpdateInv /\ [VersionNext]_versionVars => UpdateInv'
  BY UpdateNext
<1>3. ASSUME UpdateInv, actionSheet = NoInfo, StartCheckOperate
      PROVE  actionSheet' # NoInfo <=>
               /\ appInfo.version # None
               /\ Comparable(appVersion, appInfo.version)
               /\ Precedes(PartsOf[appVersion], PartsOf[appInfo.version])
               /\ appInfo.force \/ appInfo.version # no_version
  <2> DEFINE v == appInfo.version
  <2>1. CASE appInfo = NoInfo
    BY <1>3, <2>1 DEF StartCheckOperate, Present, IsNewer, NoInfo
  <2>2. CASE appInfo \in Info
    <3>1. /\ v \in Version /\ v # None /\ appInfo # NoInfo /\ appVersion \in Version
          /\ PartsOf[v] \in Seq(Nat) /\ PartsOf[appVersion] \in Seq(Nat)
      BY <1>3, <2>2, InfoIsSomething, VersionAssumption DEF UpdateInv, VersionTypeOK
    <3>2. IsNewer(v) <=> Comparable(appVersion, v) /\ Precedes(PartsOf[appVersion], PartsOf[v])
      BY <3>1, CompareIsOrder DEF IsNewer, Comparable
    <3>3. IsNewer(v) => v \notin Numbers
      BY <3>1, VersionAssumption DEF IsNewer, VersionCompare
    <3>4. ~raised'
      BY <1>3, <3>3 DEF StartCheckOperate
    <3>5. actionSheet' # NoInfo <=> IsNewer(v) /\ (appInfo.force \/ v # no_version)
      BY <1>3, <3>1, <3>4 DEF StartCheckOperate, Present
    <3> QED  BY <3>1, <3>2, <3>5
  <2> QED  BY <1>3, <2>1, <2>2 DEF UpdateInv, VersionTypeOK
<1>4. UpdateInv /\ [VersionNext]_versionVars =>
        [actionSheet = NoInfo /\ StartCheckOperate =>
           LET v == appInfo.version
           IN  actionSheet' # NoInfo <=>
                 /\ v # None
                 /\ Comparable(appVersion, v) /\ Precedes(PartsOf[appVersion], PartsOf[v])
                 /\ appInfo.force \/ v # no_version]_versionVars
  BY <1>3
<1> QED  BY <1>1, <1>2, <1>4, PTL DEF VersionSpec, AlertsFollowVersions

-----------------------------------------------------------------------------
(***************************************************************************)
(* For every set of pages, classes and answers, and however many blocks    *)
(* are dispatched: the bar follows the stack, no swipe is stuck, and a     *)
(* page's own back button never pops what lies below the page.             *)
(***************************************************************************)

StackInv == StackTypeOK /\ BarFollowsStack /\ NeverStuck

Block == [by : {"bar", "page"}, asked : Controller]

\* The stack is never empty, and no page is in it twice.
GoodStack(s) ==
  /\ s \in Seq(Controller)
  /\ s # <<>> /\ s[1] = Root
  /\ \A i, j \in 1..Len(s) : s[i] = s[j] => i = j

LEMMA PrefixIsGood ==
  ASSUME NEW s, GoodStack(s), NEW n \in 1..Len(s)
  PROVE  GoodStack(SubSeq(s, 1, n)) /\ Len(SubSeq(s, 1, n)) = n
<1>1. Len(s) \in Nat /\ n \in Nat /\ 1 <= n /\ n <= Len(s)
  BY DEF GoodStack
<1>2. /\ SubSeq(s, 1, n) \in Seq(Controller)
      /\ Len(SubSeq(s, 1, n)) = n
      /\ \A i \in 1..n : SubSeq(s, 1, n)[i] = s[i]
  BY <1>1 DEF GoodStack
<1>3. SubSeq(s, 1, n) # <<>>
  BY <1>1, <1>2
<1> QED  BY <1>1, <1>2, <1>3 DEF GoodStack

\* A pop to a prefix leaves a good stack and a bar that follows it.
LEMMA PopIsGood ==
  ASSUME GoodStack(viewControllers), items = viewControllers,
         departing \subseteq Controller, NEW animated,
         NEW n \in 1..Len(viewControllers), PopTo(SubSeq(viewControllers, 1, n), animated)
  PROVE  /\ GoodStack(viewControllers') /\ items' = viewControllers' /\ Len(viewControllers') = n
         /\ departing' \subseteq Controller
<1>0. departing' \subseteq Controller
  <2>1. Pages(viewControllers) \subseteq Controller
    BY DEF GoodStack, Pages
  <2> QED  BY <2>1 DEF PopTo
<1>1. GoodStack(viewControllers') /\ Len(viewControllers') = n
  BY PrefixIsGood DEF PopTo
<1>2. CASE n < Len(viewControllers)
  <2>1. viewControllers' = SubSeq(viewControllers, 1, n)
    BY DEF PopTo
  <2>2. items' = SubSeq(viewControllers, 1, n)
    BY <1>1, <1>2, <2>1 DEF PopTo, BarIsAhead
  <2> QED  BY <1>0, <1>1, <2>1, <2>2
<1>3. CASE n = Len(viewControllers)
  <2>1. SubSeq(viewControllers, 1, n) = viewControllers
    BY <1>3 DEF GoodStack
  <2> QED  BY <1>0, <1>1, <1>3, <2>1 DEF PopTo, BarIsAhead
<1> QED  BY <1>0, <1>1, <1>2, <1>3

LEMMA PopViewControllerIsGood ==
  ASSUME GoodStack(viewControllers), items = viewControllers,
         departing \subseteq Controller, NEW animated, PopViewController(animated)
  PROVE  /\ GoodStack(viewControllers') /\ items' = viewControllers'
         /\ departing' \subseteq Controller
<1>1. CASE Len(viewControllers) > 1
  <2>1. Len(viewControllers) - 1 \in 1..Len(viewControllers)
    BY <1>1 DEF GoodStack
  <2> QED  BY <1>1, <2>1, PopIsGood DEF PopViewController
<1>2. CASE ~(Len(viewControllers) > 1)
  BY <1>2 DEF PopViewController, controllers
<1> QED  BY <1>1, <1>2

LEMMA TypeOKIsGood == StackTypeOK <=> /\ GoodStack(viewControllers)
                                 /\ items \in Seq(Controller)
                                 /\ departing \subseteq Controller
                                 /\ pending \in Seq(Block)
                                 /\ Len(pending) <= MaxPending
                                 /\ stuck \in BOOLEAN
                                 /\ pages \in [Web -> 0..MaxPages]
                                 /\ closeItem \subseteq Web
<1> QED  BY DEF StackTypeOK, GoodStack, Block

LEMMA InitStackInv == StackInit => StackInv
<1> SUFFICES ASSUME StackInit PROVE StackInv
  OBVIOUS
<1>1. 0 \in 0..MaxPages /\ 0 <= MaxPending
  BY NavigationAssumption
<1>2. GoodStack(<<Root>>)
  BY NavigationAssumption DEF GoodStack
<1>3. <<>> \in Seq(Block) /\ Len(<<>>) = 0
  OBVIOUS
<1>4. [c \in Web |-> 0] \in [Web -> 0..MaxPages]
  BY <1>1
<1>5. <<Root>> \in Seq(Controller)
  BY NavigationAssumption
<1>6. StackTypeOK
  BY <1>1, <1>2, <1>3, <1>4, <1>5, TypeOKIsGood DEF StackInit
<1> QED  BY <1>6 DEF StackInit, StackInv, BarFollowsStack, NeverStuck

\* The top of a good stack is a page, and the root only when it is alone.
LEMMA TopIsPage ==
  ASSUME GoodStack(viewControllers)
  PROVE  /\ Len(viewControllers) \in Nat \ {0}
         /\ Top \in Controller
         /\ Len(viewControllers) = 1 => Top = Root
<1>1. Len(viewControllers) \in Nat \ {0}
  BY DEF GoodStack
<1> QED  BY <1>1 DEF GoodStack, Top

\* A dispatch adds a block, within the bound.
LEMMA DispatchAddsBlock ==
  ASSUME StackTypeOK, NEW by \in {"bar", "page"}, NEW c \in Controller, Dispatch(by, c)
  PROVE  /\ pending' \in Seq(Block)
         /\ Len(pending') = Len(pending) + 1
         /\ Len(pending') <= MaxPending
<1>1. [by |-> by, asked |-> c] \in Block
  BY DEF Block
<1>2. pending \in Seq(Block) /\ MaxPending \in Nat
  BY NavigationAssumption DEF StackTypeOK, Block
<1>3. pending' = Append(pending, [by |-> by, asked |-> c]) /\ Len(pending) < MaxPending
  BY DEF Dispatch
<1>4. pending' \in Seq(Block) /\ Len(pending') = Len(pending) + 1
  BY <1>1, <1>2, <1>3
<1> QED  BY <1>2, <1>3, <1>4

\* The touches that ask and dispatch, and the touches inside a web page.
LEMMA TouchesKeepInv ==
  ASSUME StackInv, NavigationBarShouldPopItem \/ BackItemClick \/ FollowLink
  PROVE  StackInv'
<1> USE NavigationAssumption DEF StackInv
<1>1. GoodStack(viewControllers)
  BY TypeOKIsGood
<1>2. CASE NavigationBarShouldPopItem \/ BackItemClick
  <2>1. /\ UNCHANGED <<viewControllers, items, departing, stuck, pages, closeItem>>
        /\ \/ UNCHANGED pending
           \/ \E by \in {"bar", "page"} : Dispatch(by, Top)
    BY <1>2 DEF NavigationBarShouldPopItem, BackItemClick, BarFollowsStack, BarIsAhead, controllers, web
  <2>2. pending' \in Seq(Block) /\ Len(pending') <= MaxPending
    <3>1. CASE UNCHANGED pending
      BY <3>1 DEF StackTypeOK, Block
    <3>2. CASE \E by \in {"bar", "page"} : Dispatch(by, Top)
      BY <1>1, <3>2, TopIsPage, DispatchAddsBlock
    <3> QED  BY <2>1, <3>1, <3>2
  <2> QED  BY <2>1, <2>2 DEF StackTypeOK, BarFollowsStack, NeverStuck, Block
<1>3. CASE FollowLink
  <2>1. pages[Top] + 1 \in 0..MaxPages
    BY <1>3 DEF FollowLink, StackTypeOK
  <2>2. pages' \in [Web -> 0..MaxPages]
    BY <1>3, <2>1 DEF FollowLink, StackTypeOK
  <2> QED  BY <1>3, <2>2 DEF FollowLink, controllers, StackTypeOK, BarFollowsStack, NeverStuck
<1> QED  BY <1>2, <1>3

\* The steps that shorten the stack.
LEMMA PopsKeepInv ==
  ASSUME StackInv,
         \/ RunPopBlock \/ SwipeBack \/ BackNative \/ CloseNative
         \/ \E names, animated : BackToControllerName(names, animated)
  PROVE  StackInv'
<1> USE NavigationAssumption DEF StackInv, web
<1>1. GoodStack(viewControllers) /\ items = viewControllers /\ departing \subseteq Controller
  BY TypeOKIsGood DEF BarFollowsStack
<1>2. ASSUME NEW animated, PopViewController(animated)
      PROVE  /\ GoodStack(viewControllers') /\ items' = viewControllers'
             /\ departing' \subseteq Controller
  BY <1>1, <1>2, PopViewControllerIsGood
<1>3. CASE RunPopBlock
  <2>1. /\ GoodStack(viewControllers') /\ items' = viewControllers'
        /\ departing' \subseteq Controller
    BY <1>1, <1>2, <1>3 DEF RunPopBlock, controllers
  <2>2. pending' \in Seq(Block) /\ Len(pending') <= MaxPending
    BY <1>3 DEF RunPopBlock, StackTypeOK, Block
  <2> QED
    BY <1>3, <2>1, <2>2, TypeOKIsGood DEF RunPopBlock, StackTypeOK, GoodStack, BarFollowsStack, NeverStuck, Block
<1>4. CASE SwipeBack
  <2>1. Len(viewControllers) # 1
    <3>1. Len(viewControllers) = 1 => Top = Root
      BY <1>1, TopIsPage
    <3>2. Top \in Answers \/ Len(viewControllers) >= 2
      BY <1>4 DEF SwipeBack, GestureRecognizerShouldBegin
    <3>3. Root \notin Answers
      OBVIOUS
    <3> HIDE NavigationAssumption DEF StackInv
    <3>4. ~(1 >= 2)
      OBVIOUS
    <3> QED  BY <3>1, <3>2, <3>3, <3>4
  <2> QED
    BY <1>2, <1>4, <2>1 DEF SwipeBack, StackTypeOK, GoodStack, BarFollowsStack, NeverStuck
<1>5. CASE BackNative
  <2>1. /\ GoodStack(viewControllers') /\ items' = viewControllers'
        /\ departing' \subseteq Controller
    BY <1>1, <1>2, <1>5 DEF BackNative, controllers
  <2>2. pages' \in [Web -> 0..MaxPages]
    <3>1. pages[Top] > 0 => pages[Top] - 1 \in 0..MaxPages
      BY <1>5 DEF BackNative, StackTypeOK
    <3>2. CASE pages[Top] > 0
      <4>1. pages' = [pages EXCEPT ![Top] = pages[Top] - 1]
        BY <1>5, <3>2 DEF BackNative
      <4> QED  BY <3>1, <3>2, <4>1 DEF StackTypeOK
    <3>3. CASE ~(pages[Top] > 0)
      <4>1. pages' = pages
        BY <1>5, <3>3 DEF BackNative, web
      <4> QED  BY <4>1 DEF StackTypeOK
    <3> QED  BY <3>2, <3>3
  <2>3. closeItem' \subseteq Web
    BY <1>5 DEF BackNative, StackTypeOK
  <2> QED
    BY <1>5, <2>1, <2>2, <2>3 DEF BackNative, StackTypeOK, GoodStack, BarFollowsStack, NeverStuck
<1>6. CASE CloseNative
  BY <1>2, <1>6 DEF CloseNative, StackTypeOK, GoodStack, BarFollowsStack, NeverStuck
<1>7. ASSUME NEW names, NEW animated, BackToControllerName(names, animated) PROVE StackInv'
  <2>1. /\ GoodStack(viewControllers') /\ items' = viewControllers'
        /\ departing' \subseteq Controller
    BY <1>1, <1>2, <1>7, PopIsGood DEF BackToControllerName
  <2> QED
    BY <1>7, <2>1 DEF BackToControllerName, StackTypeOK, GoodStack, BarFollowsStack, NeverStuck
<1> QED  BY <1>3, <1>4, <1>5, <1>6, <1>7

\* The end of a transition.
LEMMA TransitionKeepsInv ==
  ASSUME StackInv, NEW c, TransitionEnds(c)
  PROVE  StackInv'
<1> QED  BY DEF TransitionEnds, web, StackInv, StackTypeOK, BarFollowsStack, NeverStuck

LEMMA PushKeepsInv ==
  ASSUME StackInv, NEW c \in Controller, PushViewController(c)
  PROVE  StackInv'
<1> USE NavigationAssumption DEF StackInv, PushViewController
<1>1. GoodStack(viewControllers) /\ items = viewControllers
  BY TypeOKIsGood DEF BarFollowsStack
<1>2. GoodStack(viewControllers')
  <2>1. /\ Len(viewControllers) \in Nat \ {0}
        /\ viewControllers' \in Seq(Controller)
        /\ Len(viewControllers') = Len(viewControllers) + 1
        /\ \A i \in 1..Len(viewControllers) : viewControllers'[i] = viewControllers[i]
        /\ viewControllers'[Len(viewControllers) + 1] = c
    BY <1>1 DEF GoodStack
  <2>2. \A i \in 1..Len(viewControllers) : viewControllers[i] # c
    BY DEF HasNavigationController, Pages
  <2> QED  BY <1>1, <2>1, <2>2 DEF GoodStack
<1>3. pages' \in [Web -> 0..MaxPages] /\ closeItem' \subseteq Web
  BY DEF StackTypeOK
<1> QED
  BY <1>1, <1>2, <1>3 DEF StackTypeOK, GoodStack, BarFollowsStack, NeverStuck

LEMMA StackInvariance == StackSpec => []StackInv
<1>1. StackInv /\ [StackNext]_stackVars => StackInv'
  <2> SUFFICES ASSUME StackInv, [StackNext]_stackVars PROVE StackInv'
    OBVIOUS
  <2>1. CASE UNCHANGED stackVars
    BY <2>1 DEF stackVars, StackInv, StackTypeOK, BarFollowsStack, NeverStuck
  <2>2. CASE StackNext
    BY <2>2, TouchesKeepInv, PopsKeepInv, PushKeepsInv, TransitionKeepsInv DEF StackNext
  <2> QED  BY <2>1, <2>2
<1> QED  BY InitStackInv, <1>1, PTL DEF StackSpec

\* The bar shows the items of exactly the pages in the stack.
THEOREM BarFollows == StackSpec => []BarFollowsStack
<1> QED  BY StackInvariance, PTL DEF StackInv

\* No swipe begins where there is nothing below.
THEOREM SwipeIsNeverStuck == StackSpec => []NeverStuck
<1> QED  BY StackInvariance, PTL DEF StackInv

\* A page's own back button removes a page below that page only while the page's
\* own transition is running; a block that comes later removes nothing below.
THEOREM OwnBackIsSafe == StackSpec => OwnBackStopsAtOwner
<1> DEFINE Stops ==
      BlockRuns /\ Head(pending).by = "page" /\ Head(pending).asked \notin departing =>
        \A i \in 1..Len(viewControllers) :
          i <= Len(viewControllers') \/
            \E j \in 1..i : viewControllers[j] = Head(pending).asked
<1>1. StackInv /\ [StackNext]_stackVars => [Stops]_stackVars
  <2> SUFFICES ASSUME StackInv, StackNext, BlockRuns, Head(pending).by = "page",
                          Head(pending).asked \notin departing
                   PROVE  Stops
    BY DEF stackVars
  <2>1. Len(pending') < Len(pending)
    BY DEF BlockRuns, StackInv, StackTypeOK
  <2>3. GoodStack(viewControllers)
    BY TypeOKIsGood DEF StackInv
  <2>2. RunPopBlock
    <3>1. ASSUME NavigationBarShouldPopItem \/ BackItemClick PROVE FALSE
      <4>1. \/ UNCHANGED pending
            \/ Dispatch("bar", Top) \/ Dispatch("page", Top)
        BY <3>1 DEF NavigationBarShouldPopItem, BackItemClick
      <4>2. StackTypeOK /\ Top \in Controller /\ Len(pending) \in Nat
        BY <2>3, TopIsPage DEF StackInv, StackTypeOK
      <4> QED  BY <2>1, <4>1, <4>2, DispatchAddsBlock
    <3>2. ASSUME \/ SwipeBack \/ FollowLink \/ BackNative \/ CloseNative
                 \/ \E c : PushViewController(c) \/ TransitionEnds(c)
                 \/ \E names, animated : BackToControllerName(names, animated)
          PROVE  FALSE
      <4>1. pending' = pending
        BY <3>2 DEF SwipeBack, FollowLink, BackNative, CloseNative, PushViewController,
                    TransitionEnds, BackToControllerName
      <4> QED  BY <2>1, <4>1 DEF StackInv, StackTypeOK
    <3> QED  BY <3>1, <3>2 DEF StackNext
  <2>4. CASE Head(pending).asked \notin Pages(viewControllers)
    <3>1. viewControllers' = viewControllers
      BY <2>2, <2>4 DEF RunPopBlock, HasNavigationController, controllers
    <3> QED  BY <2>3, <3>1 DEF GoodStack
  <2>5. CASE Head(pending).asked \in Pages(viewControllers)
    <3>1. PICK j \in 1..Len(viewControllers) : viewControllers[j] = Head(pending).asked
      BY <2>5 DEF Pages
    <3>2. PopViewController(TRUE)
      BY <2>2, <2>5 DEF RunPopBlock, HasNavigationController
    <3>3. Len(viewControllers') >= Len(viewControllers) - 1
      <4>1. CASE Len(viewControllers) > 1
        <5>1. Len(viewControllers) - 1 \in 1..Len(viewControllers)
          BY <2>3, <4>1 DEF GoodStack
        <5> QED  BY <2>3, <3>2, <4>1, <5>1, PrefixIsGood DEF PopViewController, PopTo
      <4>2. CASE ~(Len(viewControllers) > 1)
        BY <2>3, <3>2, <4>2 DEF PopViewController, controllers, GoodStack
      <4> QED  BY <4>1, <4>2
    <3>4. ASSUME NEW i \in 1..Len(viewControllers), ~(i <= Len(viewControllers'))
          PROVE  i = Len(viewControllers)
      <4>1. Len(viewControllers') \in Nat /\ Len(viewControllers) \in Nat
        BY <2>3, <3>2, PopViewControllerIsGood DEF GoodStack, StackInv, StackTypeOK, BarFollowsStack
      <4> QED  BY <3>3, <3>4, <4>1
    <3> QED  BY <3>1, <3>4
  <2> QED  BY <2>4, <2>5
<1> QED  BY <1>1, StackInvariance, PTL DEF OwnBackStopsAtOwner, StackSpec

-----------------------------------------------------------------------------
(***************************************************************************)
(* The launch, for every bound on the delegate's requests.                 *)
(***************************************************************************)

(***************************************************************************)
(* The inductive invariant.  A process that does not run has no memory: no *)
(* page, no request and no verdict survives it.  The other parts are the   *)
(* safety properties of the launch, each of which needs this one, because  *)
(* it speaks of the verdicts and requests of the current process only.     *)
(***************************************************************************)
NothingSurvives ==
  ~Running => root = "none" /\ place = "first" /\ ~loadingRequest
              /\ delegateRequests = 0 /\ ~banNotice /\ heard = {}

\* A running process has a page, and the user can only have moved in the tab
\* bar.
HasPage == /\ Running => root \in {"loading", "tabbar"}
           /\ place = "moved" => root = "tabbar"

LaunchInvariant ==
  /\ TypeOK
  /\ NothingSurvives
  /\ HasPage
  /\ RootFollowsVerdicts
  /\ DeniedSeesNotice
  /\ NoticeNeedsDenial
  /\ LoadingAwaitsAnswer

USE DEF Running, InFlight, Reachable, Unreachable

\* The first state satisfies the invariant.
LEMMA InitInvariant == Init => LaunchInvariant
<1> SUFFICES ASSUME Init PROVE LaunchInvariant
  OBVIOUS
<1>a. delegateRequests \in 0..MaxDelegateRequests
  BY MaxDelegateRequestsAssumption DEF Init
<1>1. TypeOK
  BY <1>a DEF Init, TypeOK
<1>2. NothingSurvives /\ HasPage
  BY DEF Init, NothingSurvives, HasPage
<1>3. RootFollowsVerdicts /\ DeniedSeesNotice /\ NoticeNeedsDenial
      /\ LoadingAwaitsAnswer
  BY DEF Init, RootFollowsVerdicts, DeniedSeesNotice, NoticeNeedsDenial,
         LoadingAwaitsAnswer
<1> QED BY <1>1, <1>2, <1>3 DEF LaunchInvariant

\* The verdicts of an answer.
LEMMA VerdictKinds == \A r \in Reply : Verdict(r) \in {"admit", "deny", "silent"}
BY DEF Reply, Verdict

\* The end of the process re-establishes the invariant, whatever it leaves in
\* the archive.
LEMMA GoneInvariant ==
  ASSUME ProcessGone, archive' \in {"absent", "saved", "torn"}
  PROVE  LaunchInvariant'
<1>a. delegateRequests' \in 0..MaxDelegateRequests
  BY MaxDelegateRequestsAssumption DEF ProcessGone
<1>1. TypeOK'
  BY <1>a DEF ProcessGone, TypeOK
<1>2. NothingSurvives' /\ HasPage'
  BY DEF ProcessGone, NothingSurvives, HasPage
<1>3. /\ RootFollowsVerdicts' /\ DeniedSeesNotice'
      /\ NoticeNeedsDenial' /\ LoadingAwaitsAnswer'
  BY DEF ProcessGone, RootFollowsVerdicts, DeniedSeesNotice, NoticeNeedsDenial,
         LoadingAwaitsAnswer
<1> QED BY <1>1, <1>2, <1>3 DEF LaunchInvariant

\* An answer heard by a running process keeps the invariant, when the request
\* it answers is taken off; the presenter of the notice is the loading page or
\* the current root, so that on the loading page the notice does appear.
LEMMA HearReplyInvariant ==
  ASSUME LaunchInvariant, Running,
         NEW r \in Reply, NEW presenter,
         root = "loading" => presenter = root,
         HearReply(r, presenter),
         UNCHANGED <<proc, netStatus>>,
         loadingRequest' \in BOOLEAN,
         delegateRequests' \in 0..MaxDelegateRequests
  PROVE  LaunchInvariant'
<1> USE DEF LaunchInvariant, HasPage, RootFollowsVerdicts
<1>1. heard' = heard \cup {Verdict(r)} /\ archive' \in {"absent", "saved", "torn"}
  BY DEF HearReply, TypeOK
<1>2. CASE Verdict(r) = "admit"
  <2>1. root' = "tabbar" /\ place' = "first" /\ banNotice' \in {FALSE, banNotice}
    BY <1>2 DEF HearReply, SwitchRootViewController
  <2>2. TypeOK' /\ NothingSurvives'
    BY <1>1, <1>2, <2>1 DEF TypeOK, NothingSurvives
  <2>3. HasPage' /\ RootFollowsVerdicts'
    BY <1>1, <1>2, <2>1
  <2>4. DeniedSeesNotice' /\ LoadingAwaitsAnswer'
    BY <2>1 DEF DeniedSeesNotice, LoadingAwaitsAnswer
  <2>5. NoticeNeedsDenial'
    BY <1>1, <2>1 DEF NoticeNeedsDenial
  <2> QED BY <2>2, <2>3, <2>4, <2>5
<1>3. CASE Verdict(r) = "deny"
  <2>1. banNotice' = (banNotice \/ presenter = root) /\ UNCHANGED <<root, place>>
    BY <1>3 DEF HearReply, PresentNotice
  <2>2. TypeOK' /\ NothingSurvives'
    BY <1>1, <1>3, <2>1 DEF TypeOK, NothingSurvives
  <2>3. HasPage' /\ RootFollowsVerdicts'
    BY <1>1, <1>3, <2>1
  <2>4. DeniedSeesNotice' /\ LoadingAwaitsAnswer'
    BY <2>1 DEF DeniedSeesNotice, LoadingAwaitsAnswer
  <2>5. NoticeNeedsDenial'
    BY <1>1, <1>3 DEF NoticeNeedsDenial
  <2> QED BY <2>2, <2>3, <2>4, <2>5
<1>4. CASE Verdict(r) = "silent"
  <2>1. UNCHANGED <<root, place, banNotice>>
    BY <1>4 DEF HearReply
  <2>2. TypeOK' /\ NothingSurvives'
    BY <1>1, <1>4, <2>1 DEF TypeOK, NothingSurvives
  <2>3. HasPage' /\ RootFollowsVerdicts'
    BY <1>1, <1>4, <2>1
  <2>4. DeniedSeesNotice' /\ NoticeNeedsDenial'
    BY <1>1, <1>4, <2>1 DEF DeniedSeesNotice, NoticeNeedsDenial
  <2>5. LoadingAwaitsAnswer'
    BY <1>1, <1>4 DEF LoadingAwaitsAnswer
  <2> QED BY <2>2, <2>3, <2>4, <2>5
<1> QED BY <1>2, <1>3, <1>4, VerdictKinds

\* Every step keeps the invariant.
LEMMA NextInvariant == LaunchInvariant /\ [Next]_vars => LaunchInvariant'
<1> SUFFICES ASSUME LaunchInvariant, [Next]_vars PROVE LaunchInvariant'
  OBVIOUS
<1> USE MaxDelegateRequestsAssumption
<1>a. TypeOK
  BY DEF LaunchInvariant
<1>1. CASE DidFinishLaunching
  BY <1>1 DEF DidFinishLaunching, LaunchInvariant, TypeOK, NothingSurvives,
       HasPage, RootFollowsVerdicts, DeniedSeesNotice, NoticeNeedsDenial,
       LoadingAwaitsAnswer
<1>2. CASE Kill \/ ReadTornArchive \/ MalformedReply \/ ExitAnimationEnds
  BY <1>a, <1>2, GoneInvariant
     DEF Kill, ReadTornArchive, MalformedReply, ExitAnimationEnds, TypeOK
<1>3. CASE KilledWhileSaving
  BY <1>3, GoneInvariant DEF KilledWhileSaving
<1>4. ASSUME NEW s \in Unreachable, ReportUnreachable(s) PROVE LaunchInvariant'
  BY <1>4 DEF ReportUnreachable, LaunchInvariant, TypeOK, NothingSurvives,
       HasPage, RootFollowsVerdicts, DeniedSeesNotice, NoticeNeedsDenial,
       LoadingAwaitsAnswer
<1>5. ASSUME NEW s \in Reachable, ReportReachable(s) PROVE LaunchInvariant'
  <2>1. /\ delegateRequests' \in delegateRequests .. MaxDelegateRequests
        /\ delegateRequests \in Nat
    BY <1>a, <1>5 DEF ReportReachable, DownInitAPP, TypeOK
  <2> QED
    BY <1>5, <2>1 DEF ReportReachable, LaunchInvariant, TypeOK, NothingSurvives,
       HasPage, RootFollowsVerdicts, DeniedSeesNotice, NoticeNeedsDenial,
       LoadingAwaitsAnswer
<1>6. CASE AnswerLoading
  <2>1. PICK r \in Reply : LoadingReply(r)
    BY <1>6 DEF AnswerLoading
  <2>2. Running
    BY <2>1 DEF LoadingReply, LaunchInvariant, NothingSurvives
  <2> QED BY <1>a, <2>1, <2>2, HearReplyInvariant DEF LoadingReply, TypeOK
<1>7. CASE AnswerDelegate
  <2>1. PICK r \in Reply : DelegateReply(r)
    BY <1>7 DEF AnswerDelegate
  <2>2. Running
    BY <2>1 DEF DelegateReply, LaunchInvariant, NothingSurvives
  <2>3. delegateRequests' \in 0..MaxDelegateRequests
    BY <1>a, <2>1 DEF DelegateReply, TypeOK
  <2> QED BY <1>a, <2>1, <2>2, <2>3, HearReplyInvariant DEF DelegateReply, TypeOK
<1>8. CASE TapExit
  BY <1>8 DEF TapExit, LaunchInvariant, TypeOK, NothingSurvives,
       HasPage, RootFollowsVerdicts, DeniedSeesNotice, NoticeNeedsDenial,
       LoadingAwaitsAnswer
<1>9. CASE MoveInTabBar
  BY <1>9 DEF MoveInTabBar, LaunchInvariant, TypeOK, NothingSurvives,
       HasPage, RootFollowsVerdicts, DeniedSeesNotice, NoticeNeedsDenial,
       LoadingAwaitsAnswer
<1>10. CASE ClearCaches
  BY <1>10 DEF ClearCaches, processVars, LaunchInvariant, TypeOK, NothingSurvives,
       HasPage, RootFollowsVerdicts, DeniedSeesNotice, NoticeNeedsDenial,
       LoadingAwaitsAnswer
<1>11. CASE UNCHANGED vars
  BY <1>11 DEF vars, processVars, LaunchInvariant, TypeOK, NothingSurvives,
       HasPage, RootFollowsVerdicts, DeniedSeesNotice, NoticeNeedsDenial,
       LoadingAwaitsAnswer
<1> QED
  BY <1>1, <1>2, <1>3, <1>4, <1>5, <1>6, <1>7, <1>8, <1>9, <1>10, <1>11 DEF Next

\* The invariant holds in every reachable state.
LEMMA LaunchInvariance == Spec => []LaunchInvariant
BY InitInvariant, NextInvariant, PTL DEF Spec

\* Types: no field of the delegate or of the window leaves its range.
THEOREM LaunchTypeCorrect == Spec => []TypeOK
<1>1. LaunchInvariant => TypeOK
  BY DEF LaunchInvariant
<1> QED BY <1>1, LaunchInvariance, PTL

\* The window shows the tab bar exactly when an answer admitted the user.
THEOREM RootIsRight == Spec => []RootFollowsVerdicts
<1>1. LaunchInvariant => RootFollowsVerdicts
  BY DEF LaunchInvariant
<1> QED BY <1>1, LaunchInvariance, PTL

\* The notice of a disabled account: a denied user on the loading page sees it,
\* and nobody sees it, or has his process ended, without a denial.
THEOREM NoticeIsRight == Spec => []NoticeFollowsDenial
<1>1. LaunchInvariant => NoticeFollowsDenial
  BY DEF LaunchInvariant, NoticeFollowsDenial
<1> QED BY <1>1, LaunchInvariance, PTL

\* The safety core of the liveness of the launch: a loading page without a
\* notice has an answer to wait for.
THEOREM NeverForgotten == Spec => []LoadingAwaitsAnswer
<1>1. LaunchInvariant => LoadingAwaitsAnswer
  BY DEF LaunchInvariant
<1> QED BY <1>1, LaunchInvariance, PTL

-----------------------------------------------------------------------------
(***************************************************************************)
(* A settled user stays where he is: without a request in flight only the  *)
(* network monitor could start one, and it finds the archive filled.       *)
(***************************************************************************)
LEMMA SettledStep ==
  ASSUME LaunchInvariant, [Next]_vars, Settled
  PROVE  Settled' \/ proc' # "up"
<1> USE DEF Settled
<1>1. CASE DidFinishLaunching
  BY <1>1 DEF DidFinishLaunching
<1>2. CASE Kill \/ ReadTornArchive \/ MalformedReply \/ KilledWhileSaving
             \/ ExitAnimationEnds
  BY <1>2 DEF Kill, ReadTornArchive, MalformedReply, KilledWhileSaving,
              ExitAnimationEnds, ProcessGone
<1>3. CASE \/ \E s \in Unreachable : ReportUnreachable(s)
           \/ \E s \in Reachable : ReportReachable(s)
  BY <1>3 DEF ReportUnreachable, ReportReachable, DownInitAPP
<1>4. CASE AnswerLoading \/ AnswerDelegate
  BY <1>4 DEF AnswerLoading, AnswerDelegate, LoadingReply, DelegateReply
<1>5. CASE TapExit \/ MoveInTabBar \/ ClearCaches
  BY <1>5 DEF TapExit, MoveInTabBar, ClearCaches
<1>6. CASE UNCHANGED vars
  BY <1>6 DEF vars, processVars
<1> QED BY <1>1, <1>2, <1>3, <1>4, <1>5, <1>6 DEF Next

\* Changes of the network never throw a settled user out of his page.
THEOREM SettledUserStays == Spec => SettledStays
<1>1. LaunchInvariant /\ [Next]_vars
        => [Settled => Settled' \/ proc' # "up"]_vars
  BY SettledStep
<1> QED BY <1>1, LaunchInvariance, PTL DEF Spec, SettledStays

-----------------------------------------------------------------------------
(***************************************************************************)
(* The launch implements the safety part of the gate: the end of a leaving *)
(* process, which is fairness, stays with the model checker.               *)
(***************************************************************************)
LEMMA GateInit == Init => Gate!Init
BY DEF Init, Gate!Init, phase

\* An answer admits, bars, tells, or changes nothing that the gate shows.
LEMMA HearReplyGate ==
  ASSUME LaunchInvariant, LaunchInvariant', Running,
         NEW r \in Reply, NEW presenter,
         HearReply(r, presenter), proc' = proc
  PROVE  Gate!Next \/ UNCHANGED <<phase, "deny" \in heard>>
<1> USE DEF LaunchInvariant, HasPage, TypeOK, DeniedSeesNotice, NoticeNeedsDenial,
            RootFollowsVerdicts
<1>1. heard' = heard \cup {Verdict(r)}
  BY DEF HearReply
<1>2. CASE proc = "leaving"
  <2>1. phase = "leaving" /\ phase' = "leaving"
    BY <1>2 DEF phase
  <2>2. ("deny" \in heard) /\ ("deny" \in heard)'
    BY <1>1, <1>2
  <2> QED BY <2>1, <2>2
<1>3. CASE proc = "up" /\ Verdict(r) = "admit"
  <2>1. root' = "tabbar"
    BY <1>3 DEF HearReply, SwitchRootViewController
  <2>2. phase' = "in"
    BY <1>3, <2>1 DEF phase
  <2>3. phase \in {"in", "barred", "deciding"}
    BY <1>3 DEF phase
  <2>4. ("deny" \in heard)' <=> ("deny" \in heard)
    BY <1>1, <1>3
  <2> QED BY <2>2, <2>3, <2>4 DEF Gate!Next, Gate!Admit
<1>4. CASE proc = "up" /\ Verdict(r) = "deny"
  <2>1. UNCHANGED root
    BY <1>4 DEF HearReply, PresentNotice
  <2>2. ("deny" \in heard)'
    BY <1>1, <1>4
  <2>3. CASE root = "tabbar"
    <3>1. phase = "in" /\ phase' = "in"
      BY <1>4, <2>1, <2>3 DEF phase
    <3> QED BY <2>2, <3>1 DEF Gate!Next, Gate!Tell
  <2>4. CASE root = "loading"
    <3>1. phase' = "barred"
      BY <1>4, <2>1, <2>2, <2>4 DEF phase
    <3>2. CASE banNotice
      <4>1. phase = "barred" /\ "deny" \in heard
        BY <1>4, <2>4, <3>2 DEF phase
      <4> QED BY <2>2, <3>1, <4>1
    <3>3. CASE ~banNotice
      <4>1. phase = "deciding"
        BY <1>4, <2>4, <3>3 DEF phase
      <4> QED BY <2>2, <3>1, <4>1 DEF Gate!Next, Gate!Bar
    <3> QED BY <3>2, <3>3
  <2> QED BY <1>4, <2>3, <2>4
<1>5. CASE proc = "up" /\ Verdict(r) = "silent"
  <2>1. UNCHANGED <<root, banNotice>>
    BY <1>5 DEF HearReply
  <2>2. phase' = phase
    BY <2>1 DEF phase
  <2>3. ("deny" \in heard)' <=> ("deny" \in heard)
    BY <1>1, <1>5
  <2> QED BY <2>2, <2>3
<1> QED BY <1>2, <1>3, <1>4, <1>5, VerdictKinds

\* Every step of the launch is a step of the gate, or changes nothing it shows.
LEMMA GateStep ==
  ASSUME LaunchInvariant, LaunchInvariant', [Next]_vars
  PROVE  Gate!Next \/ UNCHANGED <<phase, "deny" \in heard>>
<1> USE DEF LaunchInvariant, HasPage, TypeOK
<1>1. CASE DidFinishLaunching
  <2>1. phase = "off" /\ phase' = "deciding" /\ "deny" \notin heard
    BY <1>1 DEF DidFinishLaunching, phase, NothingSurvives
  <2>2. "deny" \notin heard'
    BY <1>1, <2>1 DEF DidFinishLaunching
  <2> QED BY <2>1, <2>2 DEF Gate!Next, Gate!Start
<1>2. CASE Kill \/ ReadTornArchive \/ MalformedReply \/ KilledWhileSaving
             \/ ExitAnimationEnds
  <2>1. Running /\ ProcessGone
    BY <1>2 DEF Kill, ReadTornArchive, MalformedReply, KilledWhileSaving,
                ExitAnimationEnds, NothingSurvives
  <2>2. phase # "off" /\ phase' = "off" /\ "deny" \notin heard'
    BY <2>1 DEF ProcessGone, phase
  <2> QED BY <2>2 DEF Gate!Next, Gate!Stop
<1>3. CASE \/ \E s \in Unreachable : ReportUnreachable(s)
           \/ \E s \in Reachable : ReportReachable(s)
           \/ MoveInTabBar
  <2>1. UNCHANGED <<proc, root, banNotice, heard>>
    BY <1>3 DEF ReportUnreachable, ReportReachable, MoveInTabBar
  <2> QED BY <2>1 DEF phase
<1>4. CASE AnswerLoading
  <2>1. PICK r \in Reply : LoadingReply(r)
    BY <1>4 DEF AnswerLoading
  <2>2. Running
    BY <2>1 DEF LoadingReply, NothingSurvives
  <2> QED BY <2>1, <2>2, HearReplyGate DEF LoadingReply
<1>5. CASE AnswerDelegate
  <2>1. PICK r \in Reply : DelegateReply(r)
    BY <1>5 DEF AnswerDelegate
  <2>2. Running
    BY <2>1 DEF DelegateReply, NothingSurvives
  <2> QED BY <2>1, <2>2, HearReplyGate DEF DelegateReply
<1>6. CASE TapExit
  <2>1. phase \in {"in", "barred"} /\ phase' = "leaving"
    BY <1>6 DEF TapExit, phase
  <2>2. "deny" \in heard /\ heard' = heard
    BY <1>6 DEF TapExit, NoticeNeedsDenial
  <2> QED BY <2>1, <2>2 DEF Gate!Next, Gate!Leave
<1>7. CASE ClearCaches \/ UNCHANGED vars
  BY <1>7 DEF ClearCaches, vars, processVars, phase
<1> QED BY <1>1, <1>2, <1>3, <1>4, <1>5, <1>6, <1>7 DEF Next

\* The launch implements the gate, fairness aside: nobody leaves without having
\* been told, and a decision is never taken back silently.
THEOREM LaunchImplementsGate ==
  Spec => Gate!Init /\ [][Gate!Next]_<<phase, "deny" \in heard>>
<1>1. LaunchInvariant /\ LaunchInvariant' /\ [Next]_vars
        => [Gate!Next]_<<phase, "deny" \in heard>>
  BY GateStep
<1> QED BY <1>1, GateInit, LaunchInvariance, PTL DEF Spec
=============================================================================
