------------------------- MODULE PermissionPrompts -------------------------
(***************************************************************************)
(* The prompts of CJXPermissionsManage, location apart.                    *)
(*                                                                         *)
(* A request is one call of a get...Permissions: method, made on the main  *)
(* thread.  It is answered at once from the status, or the system is asked *)
(* and its handler, called on some thread, dispatches the answer to the    *)
(* main queue.  A refusal also creates an alert, which is presented one    *)
(* more turn of the main queue later, on the page that was on top when the *)
(* alert was created.                                                      *)
(*                                                                         *)
(* The module is about one process: changing the status of anything but    *)
(* pushes and cellular data in Settings ends it.                           *)
(***************************************************************************)
EXTENDS Naturals, Sequences

CONSTANTS
  Request,     \* calls of get...Permissions:
  KindOf,      \* what each of them asks for
  Page,        \* the page under all alerts
  Together,    \* bound: which requests may be made in one life of the process
  MaxChanges   \* bound: changes in Settings

StatusFirst == {"photo", "camera", "microphone", "speech", "contacts"}
AlwaysAsk == {"push", "calendar", "reminder"}
Changeable == {"push", "network"}
Kind == StatusFirst \cup AlwaysAsk \cup {"network", "bluetooth"}

ASSUME PromptAssumption ==
  /\ KindOf \in [Request -> Kind]
  /\ Page \notin Request
  /\ Together \subseteq SUBSET Request
  /\ MaxChanges \in Nat

VARIABLES
  status,       \* what the system has on record; "denied" includes restricted
  changes,      \* how often the user has changed it in Settings
  autoPresent,  \* CJXPermissionsManage.autoPresent
  asked,        \* requests that were made
  waiting,      \* requests whose handler the system has still to call
  notifiers,    \* network requests whose CTCellularData lives
  due,          \* those of them whose notifier the system has still to call
  main,         \* blocks dispatched to the main queue
  alerts,       \* alerts on screen, each presented by the one before it
  lost,         \* requests whose alert UIKit refused to present
  answers       \* history: the calls of each completion

promptVars == <<status, changes, autoPresent, asked, waiting, notifiers, due, main,
          alerts, lost, answers>>

Status == {"undetermined", "authorized", "denied"}
Outcome == {"granted", "refused", "error"}
Block == [do : {"answer"}, request : Request, with : Outcome]
           \cup [do : {"present"}, request : Request, with : Request \cup {Page}]

PromptTypeOK ==
  /\ status \in [Kind -> Status]
  /\ changes \in 0..MaxChanges
  /\ autoPresent \in BOOLEAN
  /\ asked \subseteq Request
  /\ waiting \subseteq asked
  /\ notifiers \subseteq asked
  /\ due \subseteq notifiers
  /\ main \in Seq(Block)
  /\ alerts \in Seq(Request)
  /\ lost \subseteq Request
  /\ answers \in [Request -> Seq(BOOLEAN)]

\* Kinds that are not asked for have one status only, to have fewer states.
PromptInit ==
  /\ status \in [Kind -> Status]
  /\ \E p \in Together : \A k \in Kind :
       (\A r \in p : KindOf[r] # k) => status[k] = "undetermined"
  /\ changes = 0
  /\ autoPresent = FALSE
  /\ asked = {} /\ waiting = {} /\ notifiers = {} /\ due = {}
  /\ main = <<>> /\ alerts = <<>> /\ lost = {}
  /\ answers = [r \in Request |-> <<>>]

-----------------------------------------------------------------------------
(***************************************************************************)
(* Answers and alerts.                                                     *)
(***************************************************************************)

Complete(r, authorized) == answers' = [answers EXCEPT ![r] = Append(@, authorized)]

\* topViewController: the end of the chain of presented controllers.
TopViewController == IF alerts = <<>> THEN Page ELSE alerts[Len(alerts)]

Presentation(r) == [do |-> "present", request |-> r, with |-> TopViewController]
Answer(r, outcome) == [do |-> "answer", request |-> r, with |-> outcome]

\* The queue after createAlertWithMessage:, with q in it before.
CreateAlert(q, r) == IF autoPresent THEN Append(q, Presentation(r)) ELSE q

Grant(q, r) ==
  /\ Complete(r, TRUE)
  /\ main' = q

\* Whether the alert is created before or after the completion is called makes
\* no difference as long as the completion presents nothing itself.
Refuse(q, r) ==
  /\ Complete(r, FALSE)
  /\ main' = CreateAlert(q, r)

\* What get...Permissions: does at once with a status that is known.
AnswerFromStatus(r, s) ==
  /\ \/ s = "authorized" /\ Grant(main, r)
     \/ s = "denied" /\ Refuse(main, r)
  /\ UNCHANGED <<waiting, notifiers, due>>

-----------------------------------------------------------------------------
(***************************************************************************)
(* The calls.                                                              *)
(***************************************************************************)

\* The system is asked; what it knows already it answers through the handler.
AskSystem(r) ==
  /\ waiting' = waiting \cup {r}
  /\ UNCHANGED <<main, answers, notifiers, due>>

\* Photos, camera, microphone, speech and contacts look at the status first.
GetByStatus(r) ==
  /\ KindOf[r] \in StatusFirst
  /\ \/ status[KindOf[r]] = "undetermined" /\ AskSystem(r)
     \/ AnswerFromStatus(r, status[KindOf[r]])

\* getPushPermissions:, getCalendarPermissions: and getReminderPermissions:.
GetByAsking(r) ==
  /\ KindOf[r] \in AlwaysAsk
  /\ AskSystem(r)

\* getNetworkPermissions: reads the restriction of a CTCellularData it has just
\* made, which may not know it yet.  Nothing in the code keeps that object, so
\* that its notifier may be gone when the method returns.
GetNetworkPermissions(r) ==
  /\ KindOf[r] = "network"
  /\ \/ AnswerFromStatus(r, status["network"])
     \/ /\ notifiers' = notifiers \cup {r}
        /\ due' = due \cup {r}
        /\ UNCHANGED <<waiting, main, answers>>
     \/ UNCHANGED <<waiting, notifiers, due, main, answers>>

\* getBluetoothPermissions: starts a scan if the status is not determined, and
\* forgets the completion; it creates no alert.
GetBluetoothPermissions(r) ==
  /\ KindOf[r] = "bluetooth"
  /\ \/ status["bluetooth"] = "undetermined" /\ UNCHANGED answers
     \/ status["bluetooth"] = "authorized" /\ Complete(r, TRUE)
     \/ status["bluetooth"] = "denied" /\ Complete(r, FALSE)
  /\ UNCHANGED <<waiting, notifiers, due, main>>

Get(r) ==
  /\ r \notin asked
  /\ \E p \in Together : asked \cup {r} \subseteq p
  /\ asked' = asked \cup {r}
  /\ GetByStatus(r) \/ GetByAsking(r) \/ GetNetworkPermissions(r) \/ GetBluetoothPermissions(r)
  /\ UNCHANGED <<status, changes, autoPresent, alerts, lost>>

SetAutoPresent ==
  /\ autoPresent' = ~autoPresent
  /\ UNCHANGED <<status, changes, asked, waiting, notifiers, due, main, alerts, lost, answers>>

-----------------------------------------------------------------------------
(***************************************************************************)
(* The system and the user.                                                *)
(***************************************************************************)

\* The user answers the prompt, which the system shows once for a kind.
Decide(k) ==
  /\ status[k] = "undetermined"
  /\ \E r \in waiting : KindOf[r] = k
  /\ \E s \in {"authorized", "denied"} : status' = [status EXCEPT ![k] = s]
  /\ UNCHANGED <<changes, autoPresent, asked, waiting, notifiers, due, main, alerts, lost, answers>>

\* In Settings the user changes what can be changed without ending the process.
Change(k) ==
  /\ k \in Changeable /\ status[k] # "undetermined"
  /\ changes < MaxChanges
  /\ changes' = changes + 1
  /\ \E s \in {"authorized", "denied"} \ {status[k]} : status' = [status EXCEPT ![k] = s]
  /\ due' = IF k = "network" THEN notifiers ELSE due
  /\ UNCHANGED <<autoPresent, asked, waiting, notifiers, main, alerts, lost, answers>>

\* Faulty variant: a refusal of contacts is only noticed by its error.
ReportedByError(k) ==
  IF status[k] = "authorized" THEN {"granted"}
  ELSE IF k = "contacts" THEN {"granted", "error"}
  ELSE {"refused"}

\* What a handler is told.  Contacts may report an error along with a refusal.
Reported(k) ==
  IF status[k] = "authorized" THEN {"granted"}
  ELSE IF k = "contacts" THEN {"refused", "error"}
  ELSE {"refused"}

\* The system calls the handler of a request, which dispatches the answer.
HandlerCalled(r) ==
  /\ r \in waiting
  /\ status[KindOf[r]] # "undetermined"
  /\ waiting' = waiting \ {r}
  /\ \E outcome \in Reported(KindOf[r]) : main' = Append(main, Answer(r, outcome))
  /\ UNCHANGED <<status, changes, autoPresent, asked, notifiers, due, alerts, lost, answers>>

\* Faulty variant: a report overtakes those that wait in the queue.
NotifierCalledUnordered(r) ==
  /\ r \in due
  /\ due' = due \ {r}
  /\ \E outcome \in Reported("network") : main' = <<Answer(r, outcome)>> \o main
  /\ UNCHANGED <<status, changes, autoPresent, asked, waiting, notifiers, alerts, lost, answers>>

\* The system calls cellularDataRestrictionDidUpdateNotifier with the
\* restriction of that moment.
NotifierCalled(r) ==
  /\ r \in due
  /\ due' = due \ {r}
  /\ \E outcome \in Reported("network") : main' = Append(main, Answer(r, outcome))
  /\ UNCHANGED <<status, changes, autoPresent, asked, waiting, notifiers, alerts, lost, answers>>

\* The user leaves the alert on top, by either of its buttons.
DismissAlert ==
  /\ alerts # <<>>
  /\ alerts' = SubSeq(alerts, 1, Len(alerts) - 1)
  /\ UNCHANGED <<status, changes, autoPresent, asked, waiting, notifiers, due, main, lost, answers>>

-----------------------------------------------------------------------------
(***************************************************************************)
(* The main queue.                                                         *)
(***************************************************************************)

\* Faulty variants: an error is answered and then answered again as a refusal,
\* or returns without an answer.
RunAnswerWithoutReturn ==
  /\ main # <<>> /\ Head(main).do = "answer"
  /\ LET r == Head(main).request
     IN  \/ Head(main).with = "granted" /\ Grant(Tail(main), r)
         \/ Head(main).with = "refused" /\ Refuse(Tail(main), r)
         \/ /\ Head(main).with = "error"
            /\ answers' = [answers EXCEPT ![r] = @ \o <<FALSE, FALSE>>]
            /\ main' = CreateAlert(Tail(main), r)
  /\ UNCHANGED <<status, changes, autoPresent, asked, waiting, notifiers, due, alerts, lost>>

RunAnswerErrorSilent ==
  /\ main # <<>> /\ Head(main).do = "answer"
  /\ LET r == Head(main).request
     IN  \/ Head(main).with = "granted" /\ Grant(Tail(main), r)
         \/ Head(main).with = "refused" /\ Refuse(Tail(main), r)
         \/ Head(main).with = "error" /\ main' = Tail(main) /\ UNCHANGED answers
  /\ UNCHANGED <<status, changes, autoPresent, asked, waiting, notifiers, due, alerts, lost>>

\* An answer runs.  An error of contacts is answered without an alert.
RunAnswer ==
  /\ main # <<>> /\ Head(main).do = "answer"
  /\ LET r == Head(main).request
     IN  \/ Head(main).with = "granted" /\ Grant(Tail(main), r)
         \/ Head(main).with = "refused" /\ Refuse(Tail(main), r)
         \/ Head(main).with = "error" /\ Complete(r, FALSE) /\ main' = Tail(main)
  /\ UNCHANGED <<status, changes, autoPresent, asked, waiting, notifiers, due, alerts, lost>>

\* A presentation runs.  UIKit presents on a controller that is on screen and
\* presents nothing yet; otherwise it logs a warning and does nothing.
RunPresentation ==
  /\ main # <<>> /\ Head(main).do = "present"
  /\ main' = Tail(main)
  /\ \/ /\ Head(main).with = TopViewController
        /\ alerts' = Append(alerts, Head(main).request)
        /\ UNCHANGED lost
     \/ /\ Head(main).with # TopViewController
        /\ lost' = lost \cup {Head(main).request}
        /\ UNCHANGED alerts
  /\ UNCHANGED <<status, changes, autoPresent, asked, waiting, notifiers, due, answers>>

RunMain == RunAnswer \/ RunPresentation

PromptNext ==
  \/ \E r \in Request : Get(r) \/ HandlerCalled(r) \/ NotifierCalled(r)
  \/ \E k \in Kind : Decide(k) \/ Change(k)
  \/ SetAutoPresent \/ DismissAlert \/ RunMain

\* The main queue runs what is dispatched to it, and the frameworks call the
\* handler of a request once there is a decision.  Nothing obliges the user.
PromptFairness ==
  /\ WF_promptVars(RunMain)
  /\ \A r \in Request : WF_promptVars(HandlerCalled(r))

PromptSpec == PromptInit /\ [][PromptNext]_promptVars /\ PromptFairness

-----------------------------------------------------------------------------
(***************************************************************************)
(* Properties.                                                             *)
(***************************************************************************)

\* Whatever cannot change without ending the process.
Lasting == Kind \ Changeable

\* Requests for the same lasting permission all hear what the user has decided,
\* at most once each, whether they were made before the decision or after it and
\* however their handlers and blocks are ordered (the handlers of lines 40-95,
\* 135-158, 249-296 and 335-367).
AnswerIsDecision ==
  \A r \in Request : KindOf[r] \in Lasting =>
    answers[r] \in {<<>>, <<status[KindOf[r]] = "authorized">>}

\* A completion that the notifier of lines 103-118 has called at all was last
\* called with the restriction in force, as soon as no call of it is under way:
\* the queue must not let an earlier report overtake a later one.
NetworkFollows ==
  \A r \in notifiers \ due :
    (\A i \in DOMAIN main : main[i] # Answer(r, "granted") /\ main[i] # Answer(r, "refused"))
      => /\ answers[r] # <<>>
         /\ answers[r][Len(answers[r])] = (status["network"] = "authorized")

\* No request is answered twice by anything but the notifier, nor answered while
\* its handler is still to come (one handler and one dispatch for each call).
AnsweredOnce ==
  \A r \in Request \ notifiers :
    /\ Len(answers[r]) <= 1
    /\ r \in waiting => answers[r] = <<>>

\* A request that waits for a decision is answered once the user has decided,
\* whatever other requests and alerts are under way.
DecisionIsTold ==
  \A r \in Request :
    (r \in waiting /\ status[KindOf[r]] # "undetermined") ~> (answers[r] # <<>>)
=============================================================================
