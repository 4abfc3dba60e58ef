----------------------------- MODULE AppLaunch -----------------------------
(***************************************************************************)
(* The launch of the application, from the creation of the process to the  *)
(* replacement of the loading page by the tab bar.                         *)
(*                                                                         *)
(* Two objects ask the server for the same "init" answer: the loading page *)
(* once, when its view loads, and the application delegate each time the   *)
(* network comes back while no app information is archived.  The answers   *)
(* arrive on the main queue in any order, and each of them may archive the *)
(* app information, install a new tab bar as root of the window, or show   *)
(* the notice of a disabled account, whose only button ends the process.   *)
(*                                                                         *)
(* The server, the network monitor, UIKit and the user are the environment.*)
(***************************************************************************)
EXTENDS Naturals

CONSTANT MaxDelegateRequests  \* bound: requests of the delegate in flight at once

ASSUME MaxDelegateRequestsAssumption == MaxDelegateRequests \in Nat

VARIABLES
  proc,              \* "down", "up", or "leaving": the exit animation runs
  root,              \* root view controller of the window
  place,             \* has the user moved in the tab bar that is now root?
  netStatus,         \* AppDelegate.netStatus
  archive,           \* the App_Info file; it survives the process
  loadingRequest,    \* is the request of the loading page in flight?
  delegateRequests,  \* number of the delegate's requests in flight
  banNotice,         \* is a notice of a disabled account on the screen?
  heard              \* history: the verdicts this process has been told

processVars == <<root, place, netStatus, loadingRequest, delegateRequests,
                 banNotice, heard>>
vars == <<proc, archive, processVars>>

(***************************************************************************)
(* The answers of the server as the init handler tells them apart.         *)
(*   failed       no answer, an unreadable one, or an error other than 400 *)
(*   failed400    an error whose text happens to be "400"                  *)
(*   normal       app information of an account in good standing           *)
(*   empty        success without app information: the status reads as 0   *)
(*   banned       app information with status 400                          *)
(*   unlisted     app information with a status that is neither 0 nor 400  *)
(*   malformed    JSON of another shape, on which a message send raises    *)
(***************************************************************************)
Reply == {"failed", "failed400", "normal", "empty", "banned", "unlisted",
          "malformed"}

CarriesInfo(r) == r \in {"normal", "banned", "unlisted"}

\* What the handler tells the requester; nothing at all for a status that no
\* branch lists.
Verdict(r) == CASE r \in {"failed", "normal", "empty"} -> "admit"
                [] r \in {"failed400", "banned"}       -> "deny"
                [] OTHER                               -> "silent"

Reachable   == {"wwan", "wifi"}
Unreachable == {"unknown", "notReachable"}

TypeOK ==
  /\ proc \in {"down", "up", "leaving"}
  /\ root \in {"none", "loading", "tabbar"}
  /\ place \in {"first", "moved"}
  /\ netStatus \in Reachable \cup Unreachable
  /\ archive \in {"absent", "saved", "torn"}
  /\ loadingRequest \in BOOLEAN
  /\ delegateRequests \in 0..MaxDelegateRequests
  /\ banNotice \in BOOLEAN
  /\ heard \subseteq {"admit", "deny", "silent"}

Running == proc # "down"

\* Before the first launch.  netStatus is a zeroed field, and zero is
\* AFNetworkReachabilityStatusNotReachable.
Init ==
  /\ proc = "down"
  /\ root = "none"
  /\ place = "first"
  /\ netStatus = "notReachable"
  /\ archive = "absent"
  /\ loadingRequest = FALSE
  /\ delegateRequests = 0
  /\ banNotice = FALSE
  /\ heard = {}

-----------------------------------------------------------------------------
(***************************************************************************)
(* The process.                                                            *)
(***************************************************************************)

\* Faulty variant: the loading page trusts the archive, as the delegate does.
LaunchTrustsArchive ==
  /\ proc = "down"
  /\ proc' = "up"
  /\ root' = "loading"
  /\ loadingRequest' = (archive # "saved")
  /\ UNCHANGED <<archive, place, netStatus, delegateRequests, banNotice, heard>>

\* didFinishLaunchingWithOptions: the loading page becomes root, and its
\* viewDidLoad sends the init request without looking at the archive.
DidFinishLaunching ==
  /\ proc = "down"
  /\ proc' = "up"
  /\ root' = "loading"
  /\ loadingRequest' = TRUE
  /\ UNCHANGED <<archive, place, netStatus, delegateRequests, banNotice, heard>>

\* The process ends, and its memory with it.
ProcessGone ==
  /\ proc' = "down"
  /\ root' = "none"
  /\ place' = "first"
  /\ netStatus' = "notReachable"
  /\ loadingRequest' = FALSE
  /\ delegateRequests' = 0
  /\ banNotice' = FALSE
  /\ heard' = {}

\* The user or the system kills the process.
Kill == Running /\ ProcessGone /\ UNCHANGED archive

-----------------------------------------------------------------------------
(***************************************************************************)
(* The delegate: reachability and its own init request.                    *)
(***************************************************************************)

ReportUnreachable(s) ==
  /\ Running
  /\ netStatus' = s
  /\ UNCHANGED <<proc, archive, root, place, loadingRequest,
                 delegateRequests, banNotice, heard>>

\* Faulty variant: downInitAPP does not look at the archive.
DownInitAPPAlways ==
  /\ delegateRequests < MaxDelegateRequests
  /\ delegateRequests' = delegateRequests + 1

\* AppDelegate.downInitAPP when the archive can be read.
DownInitAPP ==
  \/ archive = "saved" /\ UNCHANGED delegateRequests
  \/ /\ archive = "absent"
     /\ delegateRequests < MaxDelegateRequests
     /\ delegateRequests' = delegateRequests + 1

\* A report equal to the last one is possible; only a return from an
\* unreachable status calls downInitAPP.
ReportReachable(s) ==
  /\ Running
  /\ IF netStatus \in Unreachable THEN DownInitAPP
                                  ELSE UNCHANGED delegateRequests
  /\ netStatus' = s
  /\ UNCHANGED <<proc, archive, root, place, loadingRequest, banNotice, heard>>

\* Unarchiving a torn file raises inside the block that the reading queue
\* runs, outside the @try of getObject: the process aborts.
ReadTornArchive ==
  /\ Running
  /\ netStatus \in Unreachable
  /\ archive = "torn"
  /\ ProcessGone
  /\ UNCHANGED archive

-----------------------------------------------------------------------------
(***************************************************************************)
(* The answers.                                                            *)
(***************************************************************************)

\* A new TabBarController becomes root.  A notice presented by the replaced
\* root disappears with it or is left over it: both happen, with the version
\* of the system.
SwitchRootViewController ==
  /\ root' = "tabbar"
  /\ place' = "first"
  /\ banNotice' \in {FALSE, banNotice}

\* Faulty variant: the second of two notices takes the first one down.
PresentNoticeToggles(presenter) ==
  /\ banNotice' = (~banNotice /\ presenter = root)
  /\ UNCHANGED <<root, place>>

\* UIKit ignores a presentation by a controller that is no longer in the
\* window, or that presents already.
PresentNotice(presenter) ==
  /\ banNotice' = (banNotice \/ presenter = root)
  /\ UNCHANGED <<root, place>>

\* Faulty variant: the handler of a failure lacks the else branch, so that a
\* denied user is also let in.
HearReplyWithoutElse(r, presenter) ==
  /\ archive' = IF CarriesInfo(r) THEN "saved" ELSE archive
  /\ heard' = heard \cup {Verdict(r)}
  /\ \/ Verdict(r) \in {"admit", "deny"} /\ SwitchRootViewController
     \/ Verdict(r) = "silent" /\ UNCHANGED <<root, place, banNotice>>

\* Faulty variant: every failure is shown as the notice of a disabled account.
HearReplyAlwaysNotice(r, presenter) ==
  /\ archive' = IF CarriesInfo(r) THEN "saved" ELSE archive
  /\ heard' = heard \cup {Verdict(r)}
  /\ \/ Verdict(r) = "admit" /\ SwitchRootViewController
     \/ (Verdict(r) = "deny" \/ r = "failed") /\ PresentNotice(presenter)
     \/ Verdict(r) = "silent" /\ UNCHANGED <<root, place, banNotice>>

\* SystemApi.initWithDict: the archive is written before the verdict is given.
HearReply(r, presenter) ==
  /\ archive' = IF CarriesInfo(r) THEN "saved" ELSE archive
  /\ heard' = heard \cup {Verdict(r)}
  /\ \/ Verdict(r) = "admit"  /\ SwitchRootViewController
     \/ Verdict(r) = "deny"   /\ PresentNotice(presenter)
     \/ Verdict(r) = "silent" /\ UNCHANGED <<root, place, banNotice>>

\* Faulty variant: the loading page has no delegate that could switch the root.
LoadingReplyWithoutDelegate(r) ==
  /\ loadingRequest
  /\ loadingRequest' = FALSE
  /\ IF Verdict(r) = "admit"
       THEN UNCHANGED <<archive, heard, root, place, banNotice>>
       ELSE HearReply(r, "loading")
  /\ UNCHANGED <<proc, netStatus, delegateRequests>>

\* The answer to the loading page, which presents the notice itself.
LoadingReply(r) ==
  /\ loadingRequest
  /\ loadingRequest' = FALSE
  /\ HearReply(r, "loading")
  /\ UNCHANGED <<proc, netStatus, delegateRequests>>

\* An answer to the delegate, which presents the notice on the current root.
DelegateReply(r) ==
  /\ delegateRequests > 0
  /\ delegateRequests' = delegateRequests - 1
  /\ HearReply(r, root)
  /\ UNCHANGED <<proc, netStatus, loadingRequest>>

InFlight == loadingRequest \/ delegateRequests > 0

\* An answer of an unexpected shape raises on the main queue: before the archive
\* is written when the app information is no dictionary, after it when only the
\* status cannot be read as a number.
MalformedReply == InFlight /\ ProcessGone /\ archive' \in {archive, "saved"}

\* The process dies while it writes the archive, which is not done atomically:
\* the file is left truncated to nothing, which reads as absent, or torn.
KilledWhileSaving ==
  /\ InFlight
  /\ archive' \in {"absent", "torn"}
  /\ ProcessGone

\* The file is kept in Library/Caches, which the system clears when it needs
\* room and the application does not run.
ClearCaches ==
  /\ proc = "down"
  /\ archive # "absent"
  /\ archive' = "absent"
  /\ UNCHANGED <<proc, processVars>>

-----------------------------------------------------------------------------
(***************************************************************************)
(* The user.                                                               *)
(***************************************************************************)

\* Faulty variant: the button closes the notice and nothing more.
TapExitOnlyCloses ==
  /\ proc = "up"
  /\ banNotice
  /\ banNotice' = FALSE
  /\ UNCHANGED <<proc, archive, root, place, netStatus, loadingRequest,
                 delegateRequests, heard>>

\* The only button of the notice; the window shrinks to nothing at once, so
\* nothing can be tapped any more.
TapExit ==
  /\ proc = "up"
  /\ banNotice
  /\ proc' = "leaving"
  /\ banNotice' = FALSE
  /\ UNCHANGED <<archive, root, place, netStatus, loadingRequest,
                 delegateRequests, heard>>

\* The completion block of the animation calls exit(0).
ExitAnimationEnds == proc = "leaving" /\ ProcessGone /\ UNCHANGED archive

\* The user goes somewhere in the tab bar, which no notice covers.
MoveInTabBar ==
  /\ proc = "up"
  /\ root = "tabbar"
  /\ ~banNotice
  /\ place = "first"
  /\ place' = "moved"
  /\ UNCHANGED <<proc, archive, root, netStatus, loadingRequest,
                 delegateRequests, banNotice, heard>>

-----------------------------------------------------------------------------
AnswerLoading  == \E r \in Reply \ {"malformed"} : LoadingReply(r)
AnswerDelegate == \E r \in Reply \ {"malformed"} : DelegateReply(r)

Next ==
  \/ DidFinishLaunching
  \/ Kill
  \/ \E s \in Unreachable : ReportUnreachable(s)
  \/ \E s \in Reachable : ReportReachable(s)
  \/ ReadTornArchive
  \/ AnswerLoading
  \/ AnswerDelegate
  \/ MalformedReply
  \/ KilledWhileSaving
  \/ ClearCaches
  \/ TapExit
  \/ ExitAnimationEnds
  \/ MoveInTabBar

\* Every request ends: the session task of AFNetworking calls one of its two
\* blocks, at the latest when it times out.  Animations end.  Nothing else is
\* assumed: the user, the network monitor and the launch owe nothing.
Fairness ==
  /\ WF_vars(AnswerLoading)
  /\ WF_vars(AnswerDelegate)
  /\ WF_vars(ExitAnimationEnds)

Spec == Init /\ [][Next]_vars /\ Fairness

-----------------------------------------------------------------------------
(***************************************************************************)
(* Properties.                                                             *)
(***************************************************************************)

\* The tab bar is root exactly when some answer has admitted the user: no
\* interleaving of the two requesters loses the switch, repeats the loading
\* page, or lets a user in whom no answer admitted.
RootFollowsVerdicts == Running => (root = "tabbar" <=> "admit" \in heard)

\* On the loading page a denied user sees the notice as long as he has not
\* accepted it, whichever of the two requesters was denied, and how often.
DeniedSeesNotice ==
  proc = "up" /\ root = "loading" /\ "deny" \in heard => banNotice

\* The notice and the exit of the process need a denial: a network failure or
\* an unreadable answer never ends the process.
NoticeNeedsDenial == banNotice \/ proc = "leaving" => "deny" \in heard

\* The notice is shown to whom it is meant for, and to nobody else.
NoticeFollowsDenial == DeniedSeesNotice /\ NoticeNeedsDenial

\* A loading page without a notice waits for an answer that is still to come,
\* except after a status that no branch of the handler lists.
LoadingAwaitsAnswer ==
  proc = "up" /\ root = "loading" /\ ~banNotice /\ "silent" \notin heard
    => InFlight

\* The user has gone somewhere, the app information is archived, and no answer
\* is awaited.
Settled ==
  proc = "up" /\ place = "moved" /\ archive = "saved" /\ ~InFlight

\* A settled user stays settled until the process ends: the network may go and
\* come back as it likes, nothing asks the server again, and no new tab bar
\* throws him back to the first page.
SettledStays == [][Settled => Settled' \/ proc' # "up"]_vars

\* What the notice says: an account it was shown to is disabled, and its only
\* way is out of the application.  The loading page of a denied user is never
\* replaced by the tab bar.
DeniedIsNotAdmitted ==
  [][root = "loading" /\ "deny" \in heard => root' # "tabbar"]_vars

\* The loading page is always left behind: for the tab bar, for the notice, or
\* by the end of the process; an unlisted status is the one exception.
LaunchResolves ==
  (proc = "up" /\ root = "loading")
    ~> (root = "tabbar" \/ banNotice \/ proc # "up" \/ "silent" \in heard)

-----------------------------------------------------------------------------
(***************************************************************************)
(* The launch implements the gate.                                         *)
(***************************************************************************)
phase ==
  CASE proc = "down"                  -> "off"
    [] proc = "leaving"               -> "leaving"
    [] proc = "up" /\ root = "tabbar" -> "in"
    [] proc = "up" /\ root # "tabbar" -> IF banNotice THEN "barred" ELSE "deciding"

Gate == INSTANCE LaunchGate WITH phase <- phase, told <- "deny" \in heard

\* Every behaviour of the launch is one of the gate, the end of a leaving
\* process included.
ImplementsGate == Gate!Spec
=============================================================================
