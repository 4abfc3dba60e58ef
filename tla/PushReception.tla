--------------------------- MODULE PushReception ---------------------------
(***************************************************************************)
(* The reception of pushes by the application delegate.                    *)
(*                                                                         *)
(* The server sends a JPush message on two channels: as a notification,    *)
(* for which the system asks the delegate how to present it, and as a      *)
(* custom message over the connection of the JPush SDK.  isJPush decides   *)
(* between them: it is NO for the first fifteen seconds of the process,    *)
(* while the SDK delivers what it has kept, and YES from then on.  A GeTui *)
(* message comes as a payload of the GeTui SDK only.  Deliveries are       *)
(* delayed, reordered and lost; the user comes and goes.                   *)
(***************************************************************************)
EXTENDS FiniteSets

CONSTANTS
  JPushMessages,  \* sent as a notification and as a custom message
  GeTuiMessages,  \* sent as a payload
  Readable,       \* the messages whose content is a dictionary with keys
  NoMessage       \* no message

Message == JPushMessages \cup GeTuiMessages

ASSUME PushAssumption ==
  /\ JPushMessages \cap GeTuiMessages = {}
  /\ Readable \subseteq Message
  /\ NoMessage \notin Message

VARIABLES
  appState,      \* "killed" or UIApplicationState
  isJPush,       \* AppDelegate.isJPush
  pushDict,      \* AppDelegate.pushDict
  notification,  \* JPush messages whose notification is still to come
  custom,        \* JPush messages whose custom message is still to come
  payload,       \* GeTui messages still to come
  unanswered,    \* notifications whose completion handler was never called
  seen,          \* history: how a message was given to the user or the app
  noted          \* history: its deliveries, with the mode they found

pushVars == <<appState, isJPush, pushDict, notification, custom, payload,
          unanswered, seen, noted>>

Channel == {"notification", "custom", "payload"}
AppState == {"killed", "active", "inactive", "background"}

PushTypeOK ==
  /\ appState \in AppState
  /\ isJPush \in BOOLEAN
  /\ pushDict \in Readable \cup {NoMessage}
  /\ notification \subseteq JPushMessages
  /\ custom \subseteq JPushMessages
  /\ payload \subseteq GeTuiMessages
  /\ unanswered \subseteq JPushMessages
  /\ seen \in [Message -> SUBSET {"banner", "taken"}]
  /\ noted \in [Message -> SUBSET (Channel \X {"early", "late", "away"})]

PushInit ==
  /\ appState = "killed"
  /\ isJPush = FALSE
  /\ pushDict = NoMessage
  /\ notification = JPushMessages
  /\ custom = JPushMessages
  /\ payload = GeTuiMessages
  /\ unanswered = {}
  /\ seen = [m \in Message |-> {}]
  /\ noted = [m \in Message |-> {}]

\* How a delivery finds the delegate: active before or after the first fifteen
\* seconds, or not active.
Mode == IF appState # "active" THEN "away" ELSE IF isJPush THEN "late" ELSE "early"

See(m, how) == seen' = [seen EXCEPT ![m] = @ \cup {how}]
Note(m, channel) == noted' = [noted EXCEPT ![m] = @ \cup {<<channel, Mode>>}]

-----------------------------------------------------------------------------
(***************************************************************************)
(* The process and its timer.                                              *)
(***************************************************************************)

\* didFinishLaunching; a remote notification may launch in the background.
DidFinishLaunching ==
  /\ appState = "killed"
  /\ appState' \in {"active", "background"}
  /\ isJPush' = FALSE
  /\ UNCHANGED <<pushDict, notification, custom, payload, unanswered, seen, noted>>

\* The application resigns, enters the background, or becomes active.
ChangeState ==
  /\ \/ appState \in {"active", "background"} /\ appState' = "inactive"
     \/ appState = "inactive" /\ appState' \in {"active", "background"}
  /\ UNCHANGED <<isJPush, pushDict, notification, custom, payload, unanswered,
                 seen, noted>>

\* The block of dispatch_after, fifteen seconds after the launch.
FifteenSeconds ==
  /\ appState # "killed"
  /\ ~isJPush
  /\ isJPush' = TRUE
  /\ UNCHANGED <<appState, pushDict, notification, custom, payload, unanswered,
                 seen, noted>>

Terminate ==
  /\ appState # "killed"
  /\ appState' = "killed"
  /\ isJPush' = FALSE
  /\ pushDict' = NoMessage
  /\ UNCHANGED <<notification, custom, payload, unanswered, seen, noted>>

-----------------------------------------------------------------------------
(***************************************************************************)
(* Deliveries.                                                             *)
(***************************************************************************)

\* pushDict is kept for the alert, whose body is commented out.
Take(m) == pushDict' = m /\ See(m, "taken")

\* networkDidReceiveMessage:
NetworkDidReceiveMessage(m) ==
  /\ appState # "killed"
  /\ m \in custom
  /\ custom' = custom \ {m}
  /\ IF isJPush /\ appState = "active" /\ m \in Readable
       THEN Take(m)
       ELSE UNCHANGED <<pushDict, seen>>
  /\ Note(m, "custom")
  /\ UNCHANGED <<appState, isJPush, notification, payload, unanswered>>

\* Faulty variant: the notification is presented in both modes.
WillPresentAlways(m) ==
  /\ appState \in {"active", "inactive"}
  /\ m \in notification
  /\ notification' = notification \ {m}
  /\ See(m, "banner")
  /\ Note(m, "notification")
  /\ UNCHANGED <<appState, isJPush, pushDict, custom, payload, unanswered>>

\* jpushNotificationCenter:willPresentNotification: in the foreground.  The
\* completion handler presents the banner; in the late mode it is not called.
WillPresent(m) ==
  /\ appState \in {"active", "inactive"}
  /\ m \in notification
  /\ notification' = notification \ {m}
  /\ IF appState = "active" /\ isJPush
       THEN unanswered' = unanswered \cup {m} /\ UNCHANGED seen
       ELSE See(m, "banner") /\ UNCHANGED unanswered
  /\ Note(m, "notification")
  /\ UNCHANGED <<appState, isJPush, pushDict, custom, payload>>

\* The system presents by itself what comes while the application is away.
SystemPresents(m) ==
  /\ appState \in {"killed", "background"}
  /\ m \in notification
  /\ notification' = notification \ {m}
  /\ See(m, "banner")
  /\ Note(m, "notification")
  /\ UNCHANGED <<appState, isJPush, pushDict, custom, payload, unanswered>>

\* GeTuiSdkDidReceivePayloadData:...: an offline message is dropped, and so is
\* everything that comes while the application is inactive.
GeTuiSdkDidReceivePayload(m, offLine) ==
  /\ appState # "killed"
  /\ m \in payload
  /\ payload' = payload \ {m}
  /\ IF appState \in {"active", "background"} /\ ~offLine /\ m \in Readable
       THEN Take(m)
       ELSE UNCHANGED <<pushDict, seen>>
  /\ Note(m, "payload")
  /\ UNCHANGED <<appState, isJPush, notification, custom, unanswered>>

\* A delivery that never comes.
Lose(m) ==
  /\ \/ m \in notification /\ notification' = notification \ {m} /\ UNCHANGED <<custom, payload>>
     \/ m \in custom /\ custom' = custom \ {m} /\ UNCHANGED <<notification, payload>>
     \/ m \in payload /\ payload' = payload \ {m} /\ UNCHANGED <<notification, custom>>
  /\ UNCHANGED <<appState, isJPush, pushDict, unanswered, seen, noted>>

PushNext ==
  \/ DidFinishLaunching \/ ChangeState \/ FifteenSeconds \/ Terminate
  \/ \E m \in JPushMessages : \/ NetworkDidReceiveMessage(m)
                              \/ WillPresent(m)
                              \/ SystemPresents(m)
  \/ \E m \in GeTuiMessages, offLine \in BOOLEAN : GeTuiSdkDidReceivePayload(m, offLine)
  \/ \E m \in Message : Lose(m)

PushSpec == PushInit /\ [][PushNext]_pushVars

-----------------------------------------------------------------------------
(***************************************************************************)
(* Properties.                                                             *)
(***************************************************************************)

\* A JPush message both of whose deliveries find an active application in the
\* same mode is given exactly once: as a banner in the first fifteen seconds,
\* to the application after them, whatever their order, and whatever restarts
\* lie between them.
GivenOnce ==
  \A m \in JPushMessages \cap Readable, mode \in {"early", "late"} :
    noted[m] = {<<"notification", mode>>, <<"custom", mode>>}
      => \E how \in {"banner", "taken"} : seen[m] = {how}

\* The system asks how to present a notification and must be told: every call
\* of willPresentNotification ends with a call of its completion handler.
PresentationAnswered == unanswered = {}
=============================================================================
