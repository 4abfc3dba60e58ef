-------------------------- MODULE PermissionProofs --------------------------
(***************************************************************************)
(* For any requests and kinds: no request is answered twice except by a    *)
(* notifier, requests for a lasting permission all hear the decision, and  *)
(* the notifier's completion the restriction in force.  Every answer about *)
(* the location has a ground in what the user had chosen meanwhile.        *)
(***************************************************************************)
EXTENDS PermissionPrompts, LocationPermission, TLAPS

-----------------------------------------------------------------------------
(***************************************************************************)
(* The main queue.                                                         *)
(***************************************************************************)

LEMMA TailOfQueue ==
  ASSUME NEW S, NEW q \in Seq(S), q # <<>>
  PROVE  /\ Head(q) = q[1] /\ Head(q) \in S
         /\ Tail(q) \in Seq(S)
         /\ Len(q) \in Nat /\ Len(q) >= 1
         /\ Len(Tail(q)) = Len(q) - 1
         /\ \A n \in 1..Len(Tail(q)) : Tail(q)[n] = q[n + 1]
<1>1. Len(q) \in Nat /\ Len(q) >= 1 /\ Head(q) = q[1] /\ Head(q) \in S
  OBVIOUS
<1>2. Tail(q) \in Seq(S) /\ Len(Tail(q)) = Len(q) - 1
  OBVIOUS
<1>3. \A n \in 1..Len(Tail(q)) : Tail(q)[n] = q[n + 1]
  OBVIOUS
<1> QED  BY <1>1, <1>2, <1>3

LEMMA AppendToQueue ==
  ASSUME NEW S, NEW q \in Seq(S), NEW b \in S
  PROVE  /\ Append(q, b) \in Seq(S)
         /\ Len(q) \in Nat
         /\ Len(Append(q, b)) = Len(q) + 1
         /\ \A n \in 1..Len(q) : Append(q, b)[n] = q[n]
         /\ Append(q, b)[Len(q) + 1] = b
<1> QED  OBVIOUS

LEMMA BlockFields ==
  ASSUME NEW b \in Block
  PROVE  /\ b.request \in Request
         /\ b.do \in {"answer", "present"}
         /\ b.do = "answer" => b.with \in Outcome
<1> QED  BY DEF Block

LEMMA BlocksAreBlocks ==
  ASSUME PromptTypeOK, NEW r \in Request
  PROVE  /\ Presentation(r) \in Block /\ Presentation(r).do = "present"
         /\ \A o \in Outcome : Answer(r, o) \in Block
<1>1. TopViewController \in Request \cup {Page}
  <2>1. alerts \in Seq(Request)
    BY DEF PromptTypeOK
  <2>2. alerts # <<>> => alerts[Len(alerts)] \in Request
    BY <2>1
  <2> QED  BY <2>2 DEF TopViewController
<1> QED  BY <1>1 DEF Presentation, Answer, Block

\* No step removes more than the first block, and what it adds at the end is a
\* presentation, unless it is the answer of a handler.
Adds(q, p) == p = q \/ \E r \in Request : p = Append(q, Presentation(r))

LEMMA CreateAlertAdds ==
  ASSUME NEW r \in Request, NEW q PROVE Adds(q, CreateAlert(q, r))
<1> QED  BY DEF Adds, CreateAlert

LEMMA AddsKeepsType ==
  ASSUME PromptTypeOK, NEW q \in Seq(Block), NEW p, Adds(q, p)
  PROVE  /\ p \in Seq(Block) /\ Len(q) \in Nat /\ Len(p) \in Nat /\ Len(q) <= Len(p)
         /\ \A n \in 1..Len(q) : p[n] = q[n]
         /\ \A n \in 1..Len(p) : n > Len(q) => p[n].do = "present"
<1>1. CASE p = q
  BY <1>1
<1>2. CASE \E r \in Request : p = Append(q, Presentation(r))
  <2>1. PICK r \in Request : p = Append(q, Presentation(r))
    BY <1>2
  <2>2. Presentation(r) \in Block /\ Presentation(r).do = "present"
    BY BlocksAreBlocks
  <2>3. /\ p \in Seq(Block) /\ Len(q) \in Nat /\ Len(p) = Len(q) + 1
        /\ \A n \in 1..Len(q) : p[n] = q[n]
        /\ p[Len(q) + 1] = Presentation(r)
    BY <2>1, <2>2, AppendToQueue
  <2>4. \A n \in 1..Len(p) : n > Len(q) => n = Len(q) + 1
    BY <2>3
  <2> QED  BY <2>2, <2>3, <2>4
<1> QED  BY <1>1, <1>2 DEF Adds

\* What a call of get...Permissions: does to the queue and the answers.
LEMMA GetEffect ==
  ASSUME NEW r \in Request, Get(r)
  PROVE  /\ Adds(main, main')
         /\ \/ answers' = answers
            \/ Complete(r, TRUE) /\ status[KindOf[r]] = "authorized"
            \/ Complete(r, FALSE) /\ status[KindOf[r]] = "denied"
         /\ waiting' = waiting \/ (waiting' = waiting \cup {r} /\ answers' = answers
                                   /\ KindOf[r] \in StatusFirst \cup AlwaysAsk)
         /\ notifiers' = notifiers \/ (notifiers' = notifiers \cup {r} /\ answers' = answers
                                       /\ KindOf[r] = "network")
         /\ due' = due \/ (due' = due \cup {r} /\ notifiers' = notifiers \cup {r})
<1>1. ASSUME NEW s, AnswerFromStatus(r, s)
      PROVE  /\ Adds(main, main')
             /\ UNCHANGED <<waiting, notifiers, due>>
             /\ \/ Complete(r, TRUE) /\ s = "authorized"
                \/ Complete(r, FALSE) /\ s = "denied"
  BY <1>1, CreateAlertAdds DEF AnswerFromStatus, Grant, Refuse, Adds
<1>2. CASE GetByStatus(r)
  <2>1. CASE AskSystem(r)
    BY <1>2, <2>1 DEF GetByStatus, AskSystem, Adds
  <2>2. CASE AnswerFromStatus(r, status[KindOf[r]])
    BY <2>2, <1>1
  <2> QED  BY <1>2, <2>1, <2>2 DEF GetByStatus
<1>3. CASE GetByAsking(r)
  BY <1>3 DEF GetByAsking, AskSystem, Adds
<1>4. CASE GetNetworkPermissions(r)
  <2>1. CASE AnswerFromStatus(r, status["network"])
    BY <1>4, <2>1, <1>1 DEF GetNetworkPermissions
  <2>2. CASE ~AnswerFromStatus(r, status["network"])
    BY <1>4, <2>2 DEF GetNetworkPermissions, Adds
  <2> QED  BY <2>1, <2>2
<1>5. CASE GetBluetoothPermissions(r)
  BY <1>5 DEF GetBluetoothPermissions, Adds
<1> QED  BY <1>2, <1>3, <1>4, <1>5 DEF Get

-----------------------------------------------------------------------------
(***************************************************************************)
(* Types.                                                                  *)
(***************************************************************************)

LEMMA CompleteKeepsType ==
  ASSUME PromptTypeOK, NEW r \in Request, NEW b \in BOOLEAN, Complete(r, b)
  PROVE  answers' \in [Request -> Seq(BOOLEAN)]
<1>1. answers[r] \in Seq(BOOLEAN)
  BY DEF PromptTypeOK
<1>2. Append(answers[r], b) \in Seq(BOOLEAN)
  BY <1>1
<1> QED  BY <1>2 DEF Complete, PromptTypeOK

LEMMA InitType == PromptInit => PromptTypeOK
<1> SUFFICES ASSUME PromptInit PROVE PromptTypeOK
  OBVIOUS
<1>1. 0 \in 0..MaxChanges
  BY PromptAssumption
<1>2. main \in Seq(Block) /\ alerts \in Seq(Request) /\ answers \in [Request -> Seq(BOOLEAN)]
  BY DEF PromptInit
<1> QED  BY <1>1, <1>2 DEF PromptInit, PromptTypeOK

LEMMA NextType == PromptTypeOK /\ [PromptNext]_promptVars => PromptTypeOK'
<1> SUFFICES ASSUME PromptTypeOK, [PromptNext]_promptVars PROVE PromptTypeOK'
  OBVIOUS
<1>1. ASSUME NEW r \in Request, Get(r) PROVE PromptTypeOK'
  <2>1. main \in Seq(Block)
    BY DEF PromptTypeOK
  <2>2. main' \in Seq(Block)
    BY <1>1, <2>1, GetEffect, AddsKeepsType
  <2>3. answers' \in [Request -> Seq(BOOLEAN)]
    BY <1>1, GetEffect, CompleteKeepsType DEF PromptTypeOK
  <2>4. /\ asked' = asked \cup {r}
        /\ UNCHANGED <<status, changes, autoPresent, alerts, lost>>
    BY <1>1 DEF Get
  <2>5. /\ waiting' = waiting \/ waiting' = waiting \cup {r}
        /\ notifiers' = notifiers \/ notifiers' = notifiers \cup {r}
        /\ due' = due \/ (due' = due \cup {r} /\ notifiers' = notifiers \cup {r})
    BY <1>1, GetEffect
  <2> QED  BY <2>2, <2>3, <2>4, <2>5 DEF PromptTypeOK
<1>2. ASSUME NEW r \in Request, HandlerCalled(r) \/ NotifierCalled(r) PROVE PromptTypeOK'
  <2>1. \E o \in Outcome : main' = Append(main, Answer(r, o))
    BY <1>2 DEF HandlerCalled, NotifierCalled, Reported, Outcome
  <2>2. main' \in Seq(Block)
    BY <2>1, BlocksAreBlocks, AppendToQueue DEF PromptTypeOK
  <2> QED  BY <1>2, <2>2 DEF HandlerCalled, NotifierCalled, PromptTypeOK
<1>3. ASSUME NEW k \in Kind, Decide(k) PROVE PromptTypeOK'
  BY <1>3 DEF Decide, PromptTypeOK, Status
<1>4. ASSUME NEW k \in Kind, Change(k) PROVE PromptTypeOK'
  <2>1. changes' \in 0..MaxChanges
    BY <1>4, PromptAssumption DEF Change, PromptTypeOK
  <2>2. status' \in [Kind -> Status]
    BY <1>4 DEF Change, PromptTypeOK, Status
  <2> QED  BY <1>4, <2>1, <2>2 DEF Change, PromptTypeOK
<1>5. CASE SetAutoPresent
  BY <1>5 DEF SetAutoPresent, PromptTypeOK
<1>6. CASE DismissAlert
  <2>1. alerts \in Seq(Request)
    BY DEF PromptTypeOK
  <2>2. Len(alerts) - 1 \in 0..Len(alerts)
    BY <1>6, <2>1 DEF DismissAlert
  <2>3. SubSeq(alerts, 1, Len(alerts) - 1) \in Seq(Request)
    BY <2>1, <2>2
  <2> QED  BY <1>6, <2>3 DEF DismissAlert, PromptTypeOK
<1>7. CASE RunAnswer
  <2>1. /\ main \in Seq(Block) /\ main # <<>>
        /\ Head(main).request \in Request
        /\ Tail(main) \in Seq(Block)
    BY <1>7, TailOfQueue, BlockFields DEF RunAnswer, PromptTypeOK
  <2>2. Adds(Tail(main), main')
    BY <1>7, <2>1, CreateAlertAdds DEF RunAnswer, Grant, Refuse, Adds
  <2>3. main' \in Seq(Block)
    BY <2>1, <2>2, AddsKeepsType
  <2>4. answers' \in [Request -> Seq(BOOLEAN)]
    BY <1>7, <2>1, CompleteKeepsType DEF RunAnswer, Grant, Refuse
  <2> QED  BY <1>7, <2>3, <2>4 DEF RunAnswer, PromptTypeOK
<1>8. CASE RunPresentation
  <2>1. /\ Head(main).request \in Request
        /\ Tail(main) \in Seq(Block)
    BY <1>8, TailOfQueue, BlockFields DEF RunPresentation, PromptTypeOK
  <2>2. Append(alerts, Head(main).request) \in Seq(Request)
    BY <2>1, AppendToQueue DEF PromptTypeOK
  <2> QED  BY <1>8, <2>1, <2>2 DEF RunPresentation, PromptTypeOK
<1>9. CASE UNCHANGED promptVars
  BY <1>9 DEF promptVars, PromptTypeOK
<1> QED  BY <1>1, <1>2, <1>3, <1>4, <1>5, <1>6, <1>7, <1>8, <1>9 DEF PromptNext, RunMain

\* Every variable keeps its type, whatever is asked.
THEOREM TypeCorrect == PromptSpec => []PromptTypeOK
<1> QED  BY InitType, NextType, PTL DEF PromptSpec

-----------------------------------------------------------------------------
(***************************************************************************)
(* Answers.  An answer in the queue is that of a request whose handler has *)
(* been called; it is the only one of that request, which has not been     *)
(* answered yet, unless a notifier made it.                                *)
(***************************************************************************)

IsAnswer(n, r) == main[n].do = "answer" /\ main[n].request = r

Decided(r) == status[KindOf[r]] # "undetermined"

QueueInv ==
  \A r \in Request : \A n \in 1..Len(main) : IsAnswer(n, r) =>
    /\ r \in asked \ waiting
    /\ KindOf[r] \in Lasting =>
         Decided(r) /\ (main[n].with = "granted" <=> status[KindOf[r]] = "authorized")
    /\ r \notin notifiers =>
         answers[r] = <<>> /\ \A m \in 1..Len(main) : IsAnswer(m, r) => m = n

RequestInv ==
  \A r \in Request :
    /\ r \notin asked => answers[r] = <<>>
    /\ r \in waiting => answers[r] = <<>> /\ KindOf[r] # "network"
    /\ r \in notifiers => KindOf[r] = "network"
    /\ r \notin notifiers => Len(answers[r]) <= 1
    /\ KindOf[r] \in Lasting =>
         \/ answers[r] = <<>>
         \/ status[KindOf[r]] = "authorized" /\ answers[r] = <<TRUE>>
         \/ status[KindOf[r]] = "denied" /\ answers[r] = <<FALSE>>

PromptInv == PromptTypeOK /\ QueueInv /\ RequestInv

LEMMA PromptInvIsEnough == PromptInv => AnsweredOnce /\ AnswerIsDecision
<1> SUFFICES ASSUME PromptInv PROVE AnsweredOnce /\ AnswerIsDecision
  OBVIOUS
<1>1. AnsweredOnce
  BY DEF PromptInv, RequestInv, AnsweredOnce
<1>2. ASSUME NEW r \in Request, KindOf[r] \in Lasting
      PROVE  answers[r] \in {<<>>, <<status[KindOf[r]] = "authorized">>}
  <2>1. CASE status[KindOf[r]] = "authorized"
    <3>1. (status[KindOf[r]] = "authorized") = TRUE
      BY <2>1
    <3>2. answers[r] = <<>> \/ answers[r] = <<TRUE>>
      BY <1>2, <2>1 DEF PromptInv, RequestInv
    <3> QED  BY <3>1, <3>2
  <2>2. CASE status[KindOf[r]] # "authorized"
    <3>1. (status[KindOf[r]] = "authorized") = FALSE
      BY <2>2
    <3>2. answers[r] = <<>> \/ answers[r] = <<FALSE>>
      BY <1>2, <2>2 DEF PromptInv, RequestInv
    <3> QED  BY <3>1, <3>2
  <2> QED  BY <2>1, <2>2
<1> QED  BY <1>1, <1>2 DEF AnswerIsDecision

LEMMA InitPrompt == PromptInit => PromptInv
<1> SUFFICES ASSUME PromptInit PROVE PromptInv
  OBVIOUS
<1>1. Len(main) = 0
  BY DEF PromptInit
<1>2. QueueInv
  BY <1>1 DEF QueueInv
<1>3. RequestInv
  <2>1. \A r \in Request : answers[r] = <<>> /\ r \notin waiting /\ r \notin notifiers
    BY DEF PromptInit
  <2>2. Len(<<>>) <= 1
    OBVIOUS
  <2> QED  BY <2>1, <2>2 DEF RequestInv
<1> QED  BY <1>2, <1>3, InitType DEF PromptInv

\* A completed request: what its answers become.
LEMMA CompleteEffect ==
  ASSUME PromptTypeOK, NEW r \in Request, NEW b \in BOOLEAN, Complete(r, b)
  PROVE  /\ answers[r] = <<>> => answers'[r] = <<b>> /\ Len(answers'[r]) = 1
         /\ \A s \in Request : s # r => answers'[s] = answers[s]
<1>1. answers' = [answers EXCEPT ![r] = Append(answers[r], b)]
  BY DEF Complete
<1>2. Append(<<>>, b) = <<b>> /\ Len(<<b>>) = 1
  OBVIOUS
<1>3. answers'[r] = Append(answers[r], b)
  BY <1>1 DEF PromptTypeOK
<1>4. \A s \in Request : s # r => answers'[s] = answers[s]
  BY <1>1 DEF PromptTypeOK
<1> QED  BY <1>2, <1>3, <1>4

LEMMA GetKeepsInv ==
  ASSUME PromptInv, NEW r \in Request, Get(r) PROVE PromptInv'
<1>1. PromptTypeOK'
  BY NextType DEF PromptInv, PromptNext
<1>2. /\ r \notin asked /\ asked' = asked \cup {r} /\ status' = status
      /\ r \notin waiting /\ r \notin notifiers /\ answers[r] = <<>>
  BY DEF Get, PromptInv, PromptTypeOK, RequestInv
<1>3. /\ Len(main) \in Nat /\ Len(main') \in Nat /\ Len(main) <= Len(main')
      /\ \A n \in 1..Len(main) : main'[n] = main[n]
      /\ \A n \in 1..Len(main') : n > Len(main) => main'[n].do = "present"
  <2>1. main \in Seq(Block) /\ PromptTypeOK
    BY DEF PromptInv, PromptTypeOK
  <2>2. Adds(main, main')
    BY GetEffect
  <2> QED  BY <2>1, <2>2, AddsKeepsType
<1>4. \A s \in Request : s # r => answers'[s] = answers[s]
  <2>1. PromptTypeOK
    BY DEF PromptInv
  <2> QED  BY <2>1, GetEffect, CompleteEffect
<1>5. QueueInv'
  <2> SUFFICES ASSUME NEW s \in Request, NEW n \in 1..Len(main'), IsAnswer(n, s)'
               PROVE  /\ s \in asked' \ waiting'
                      /\ KindOf[s] \in Lasting =>
                           Decided(s)' /\ (main'[n].with = "granted"
                                             <=> status'[KindOf[s]] = "authorized")
                      /\ s \notin notifiers' =>
                           answers'[s] = <<>> /\ \A m \in 1..Len(main') : IsAnswer(m, s)' => m = n
    BY DEF QueueInv
  <2>1. \A m \in 1..Len(main') : IsAnswer(m, s)' => m \in 1..Len(main) /\ IsAnswer(m, s)
    BY <1>3 DEF IsAnswer
  <2>2. n \in 1..Len(main) /\ IsAnswer(n, s) /\ main'[n] = main[n]
    BY <2>1, <1>3
  <2>3. s \in asked \ waiting /\ s # r
    BY <1>2, <2>2 DEF PromptInv, QueueInv
  <2>4. s \notin waiting' /\ (s \in notifiers <=> s \in notifiers')
    BY <2>3, GetEffect
  <2> QED  BY <1>2, <1>4, <2>1, <2>2, <2>3, <2>4 DEF PromptInv, QueueInv, Decided
<1>6. RequestInv'
  <2> SUFFICES ASSUME NEW s \in Request
               PROVE  /\ s \notin asked' => answers'[s] = <<>>
                      /\ s \in waiting' => answers'[s] = <<>> /\ KindOf[s] # "network"
                      /\ s \in notifiers' => KindOf[s] = "network"
                      /\ s \notin notifiers' => Len(answers'[s]) <= 1
                      /\ KindOf[s] \in Lasting =>
                           \/ answers'[s] = <<>>
                           \/ status'[KindOf[s]] = "authorized" /\ answers'[s] = <<TRUE>>
                           \/ status'[KindOf[s]] = "denied" /\ answers'[s] = <<FALSE>>
    BY DEF RequestInv
  <2>1. CASE s # r
    <3>1. answers'[s] = answers[s] /\ (s \in asked' <=> s \in asked)
      BY <1>2, <1>4, <2>1
    <3>2. (s \in waiting' <=> s \in waiting) /\ (s \in notifiers' <=> s \in notifiers)
      <4>1. waiting' = waiting \/ waiting' = waiting \cup {r}
        BY GetEffect
      <4>2. notifiers' = notifiers \/ notifiers' = notifiers \cup {r}
        BY GetEffect
      <4> QED  BY <2>1, <4>1, <4>2
    <3> QED  BY <1>2, <3>1, <3>2 DEF PromptInv, RequestInv
  <2>2. CASE s = r
    <3>1. \/ answers'[r] = <<>> /\ answers' = answers
          \/ answers'[r] = <<TRUE>> /\ Len(answers'[r]) = 1 /\ status[KindOf[r]] = "authorized"
             /\ waiting' = waiting /\ notifiers' = notifiers
          \/ answers'[r] = <<FALSE>> /\ Len(answers'[r]) = 1 /\ status[KindOf[r]] = "denied"
             /\ waiting' = waiting /\ notifiers' = notifiers
      <4>1. CASE answers' = answers
        BY <4>1, <1>2
      <4>2. CASE Complete(r, TRUE) /\ status[KindOf[r]] = "authorized"
        <5>1. answers'[r] = <<TRUE>> /\ Len(answers'[r]) = 1
          BY <4>2, <1>2, CompleteEffect DEF PromptInv
        <5>2. answers' # answers
          BY <5>1, <1>2
        <5> QED  BY <4>2, <5>1, <5>2, GetEffect
      <4>3. CASE Complete(r, FALSE) /\ status[KindOf[r]] = "denied"
        <5>1. answers'[r] = <<FALSE>> /\ Len(answers'[r]) = 1
          BY <4>3, <1>2, CompleteEffect DEF PromptInv
        <5>2. answers' # answers
          BY <5>1, <1>2
        <5> QED  BY <4>3, <5>1, <5>2, GetEffect
      <4> QED  BY <4>1, <4>2, <4>3, GetEffect
    <3>2. r \in asked'
      BY <1>2
    <3>3. r \in waiting' => answers' = answers /\ KindOf[r] # "network"
      BY <1>2, GetEffect DEF StatusFirst, AlwaysAsk
    <3>4. r \in notifiers' => KindOf[r] = "network"
      BY <1>2, GetEffect
    <3>5. Len(<<>>) = 0
      OBVIOUS
    <3>6. r \notin notifiers' => Len(answers'[r]) <= 1
      <4>1. answers'[r] = <<>> \/ Len(answers'[r]) = 1
        BY <3>1
      <4>2. CASE answers'[r] = <<>>
        BY <3>5, <4>2
      <4>3. CASE Len(answers'[r]) = 1
        BY <4>3
      <4> QED  BY <4>1, <4>2, <4>3
    <3>7. r \in waiting' => answers'[r] = <<>> /\ KindOf[r] # "network"
      BY <1>2, <3>3
    <3>8. \/ answers'[r] = <<>>
          \/ status'[KindOf[r]] = "authorized" /\ answers'[r] = <<TRUE>>
          \/ status'[KindOf[r]] = "denied" /\ answers'[r] = <<FALSE>>
      BY <1>2, <3>1
    <3> QED  BY <2>2, <3>2, <3>4, <3>6, <3>7, <3>8
  <2> QED  BY <2>1, <2>2
<1> QED  BY <1>1, <1>5, <1>6 DEF PromptInv

LEMMA CalledKeepsInv ==
  ASSUME PromptInv, NEW r \in Request, HandlerCalled(r) \/ NotifierCalled(r)
  PROVE  PromptInv'
<1>1. PromptTypeOK'
  BY NextType DEF PromptInv, PromptNext
<1>2. /\ UNCHANGED <<status, asked, notifiers, answers>>
      /\ waiting' \subseteq waiting
      /\ r \notin waiting'
      /\ r \in asked
      /\ r \in waiting \/ r \in notifiers
  <2>1. CASE HandlerCalled(r)
    BY <2>1 DEF HandlerCalled, PromptInv, PromptTypeOK
  <2>2. CASE NotifierCalled(r)
    <3>1. r \in notifiers /\ r \in asked /\ waiting' = waiting
      BY <2>2 DEF NotifierCalled, PromptInv, PromptTypeOK
    <3>2. r \notin waiting
      BY <3>1 DEF PromptInv, RequestInv
    <3> QED  BY <2>2, <3>1, <3>2 DEF NotifierCalled
  <2> QED  BY <2>1, <2>2
<1>3. PICK o \in Outcome :
        /\ main' = Append(main, Answer(r, o))
        /\ KindOf[r] \in Lasting => Decided(r) /\ (o = "granted" <=> status[KindOf[r]] = "authorized")
  <2>1. CASE HandlerCalled(r)
    BY <2>1 DEF HandlerCalled, Reported, Outcome, Decided
  <2>2. CASE NotifierCalled(r)
    <3>1. KindOf[r] = "network"
      BY <2>2 DEF NotifierCalled, PromptInv, PromptTypeOK, RequestInv
    <3>2. KindOf[r] \notin Lasting
      BY <3>1 DEF Lasting, Changeable
    <3> QED  BY <2>2, <3>2 DEF NotifierCalled, Reported, Outcome
  <2> QED  BY <2>1, <2>2
<1>4. /\ Len(main) \in Nat /\ Len(main') = Len(main) + 1
      /\ \A n \in 1..Len(main) : main'[n] = main[n]
      /\ main'[Len(main) + 1] = Answer(r, o)
  <2>1. main \in Seq(Block) /\ Answer(r, o) \in Block
    BY BlocksAreBlocks DEF PromptInv, PromptTypeOK
  <2> QED  BY <1>3, <2>1, AppendToQueue
\* The old answers are not those of r, unless a notifier made them.
<1>5. ASSUME NEW n \in 1..Len(main), IsAnswer(n, r), r \notin notifiers PROVE FALSE
  BY <1>2, <1>5 DEF PromptInv, QueueInv
<1>6. QueueInv'
  <2> SUFFICES ASSUME NEW s \in Request, NEW n \in 1..Len(main'), IsAnswer(n, s)'
               PROVE  /\ s \in asked' \ waiting'
                      /\ KindOf[s] \in Lasting =>
                           Decided(s)' /\ (main'[n].with = "granted"
                                             <=> status'[KindOf[s]] = "authorized")
                      /\ s \notin notifiers' =>
                           answers'[s] = <<>> /\ \A m \in 1..Len(main') : IsAnswer(m, s)' => m = n
    BY DEF QueueInv
  <2>1. \A m \in 1..Len(main') : \/ m \in 1..Len(main) /\ main'[m] = main[m]
                                 \/ m = Len(main) + 1
    BY <1>4
  <2>2. Answer(r, o).request = r /\ Answer(r, o).with = o
    BY DEF Answer
  <2>3. CASE n \in 1..Len(main) /\ main'[n] = main[n]
    <3>1. IsAnswer(n, s)
      BY <2>3 DEF IsAnswer
    <3>2. s \in asked \ waiting
      BY <2>3, <3>1 DEF PromptInv, QueueInv
    <3>3. ASSUME s \notin notifiers, NEW m \in 1..Len(main'), IsAnswer(m, s)' PROVE m = n
      <4>1. CASE m \in 1..Len(main) /\ main'[m] = main[m]
        BY <2>3, <3>1, <3>3, <4>1 DEF PromptInv, QueueInv, IsAnswer
      <4>2. CASE m = Len(main) + 1
        <5>1. s = r
          BY <1>4, <2>2, <3>3, <4>2 DEF IsAnswer
        <5> QED  BY <1>5, <2>3, <3>1, <3>3, <5>1
      <4> QED  BY <2>1, <4>1, <4>2
    <3> QED  BY <1>2, <2>3, <3>1, <3>2, <3>3 DEF PromptInv, QueueInv, Decided
  <2>4. CASE n = Len(main) + 1
    <3>1. s = r /\ main'[n].with = o
      BY <1>4, <2>2, <2>4 DEF IsAnswer
    <3>2. ASSUME r \notin notifiers PROVE answers[r] = <<>>
      BY <1>2, <3>2 DEF PromptInv, RequestInv
    <3>3. ASSUME r \notin notifiers, NEW m \in 1..Len(main'), IsAnswer(m, r)' PROVE m = n
      <4>1. CASE m \in 1..Len(main) /\ main'[m] = main[m]
        BY <1>5, <3>3, <4>1 DEF IsAnswer
      <4> QED  BY <2>1, <2>4, <4>1
    <3> QED  BY <1>2, <1>3, <3>1, <3>2, <3>3 DEF Decided
  <2> QED  BY <2>1, <2>3, <2>4
<1>7. RequestInv'
  BY <1>2 DEF PromptInv, RequestInv
<1> QED  BY <1>1, <1>6, <1>7 DEF PromptInv

\* What a turn of the main queue does to the queue and the answers: what is an answer
\* afterwards was one before, a place further back.
LEMMA RunShifts ==
  ASSUME PromptInv, RunMain, NEW r \in Request, r = Head(main).request
  PROVE  /\ main[1] = Head(main) /\ Len(main) \in Nat /\ Len(main) >= 1 /\ Len(main') \in Nat
         /\ UNCHANGED <<status, asked, waiting, notifiers, due>>
         /\ RunAnswer <=> main[1].do = "answer"
         /\ \A s \in Request : \A n \in 1..Len(main') : IsAnswer(n, s)' =>
               n + 1 \in 2..Len(main) /\ main'[n] = main[n + 1] /\ IsAnswer(n + 1, s)
         /\ \A n \in 2..Len(main) : n - 1 \in 1..Len(main') /\ main'[n - 1] = main[n]
         /\ \A s \in Request : s # r => answers'[s] = answers[s]
         /\ RunPresentation => answers' = answers
         /\ RunAnswer => \/ Complete(r, TRUE) /\ Head(main).with = "granted"
                         \/ Complete(r, FALSE) /\ Head(main).with # "granted"
<1>1. PromptTypeOK' /\ PromptTypeOK /\ main \in Seq(Block) /\ main # <<>>
  BY NextType DEF PromptInv, PromptNext, RunMain, RunAnswer, RunPresentation, PromptTypeOK
<1>2. /\ Head(main) = main[1] /\ Len(main) \in Nat /\ Len(main) >= 1
      /\ Tail(main) \in Seq(Block) /\ Len(Tail(main)) = Len(main) - 1
      /\ \A n \in 1..Len(Tail(main)) : Tail(main)[n] = main[n + 1]
      /\ main[1].request = r
  BY <1>1, TailOfQueue
<1>3. UNCHANGED <<status, asked, waiting, notifiers, due>>
  BY DEF RunMain, RunAnswer, RunPresentation
<1>4. Adds(Tail(main), main')
  BY <1>2, CreateAlertAdds DEF RunMain, RunAnswer, RunPresentation, Grant, Refuse, Adds
<1>5. /\ Len(main') \in Nat /\ Len(Tail(main)) <= Len(main')
      /\ \A n \in 1..Len(Tail(main)) : main'[n] = Tail(main)[n]
      /\ \A n \in 1..Len(main') : n > Len(Tail(main)) => main'[n].do = "present"
  <2>1. Tail(main) \in Seq(Block)
    BY <1>2
  <2> QED  BY <1>1, <1>4, <2>1, AddsKeepsType
<1>6. ASSUME NEW s \in Request, NEW n \in 1..Len(main'), IsAnswer(n, s)'
      PROVE  n + 1 \in 2..Len(main) /\ main'[n] = main[n + 1] /\ IsAnswer(n + 1, s)
  <2>1. n \in 1..Len(Tail(main))
    BY <1>2, <1>5, <1>6 DEF IsAnswer
  <2>2. n + 1 \in 2..Len(main) /\ main'[n] = main[n + 1]
    BY <1>2, <1>5, <2>1
  <2> QED  BY <1>6, <2>2 DEF IsAnswer
<1>7. ASSUME NEW n \in 2..Len(main)
      PROVE  n - 1 \in 1..Len(main') /\ main'[n - 1] = main[n]
  <2>1. n - 1 \in 1..Len(Tail(main)) /\ (n - 1) + 1 = n
    BY <1>2
  <2>2. main'[n - 1] = Tail(main)[n - 1] /\ Tail(main)[n - 1] = main[n]
    BY <1>2, <1>5, <2>1
  <2> QED  BY <1>2, <1>5, <2>1, <2>2
<1>8. /\ \A s \in Request : s # r => answers'[s] = answers[s]
      /\ RunPresentation => answers' = answers
      /\ RunAnswer => \/ Complete(r, TRUE) /\ Head(main).with = "granted"
                      \/ Complete(r, FALSE) /\ Head(main).with # "granted"
  <2>1. RunAnswer => \/ Complete(r, TRUE) /\ Head(main).with = "granted"
                     \/ Complete(r, FALSE) /\ Head(main).with # "granted"
    BY DEF RunAnswer, Grant, Refuse
  <2>2. RunPresentation => answers' = answers
    BY DEF RunPresentation
  <2>3. RunAnswer => \A s \in Request : s # r => answers'[s] = answers[s]
    BY <1>1, <2>1, CompleteEffect
  <2> QED  BY <2>1, <2>2, <2>3 DEF RunMain
<1>9. RunAnswer <=> main[1].do = "answer"
  BY <1>2 DEF RunMain, RunAnswer, RunPresentation
<1> QED  BY <1>2, <1>3, <1>5, <1>6, <1>7, <1>8, <1>9

LEMMA RunKeepsInv == ASSUME PromptInv, RunMain PROVE PromptInv'
<1>1. PromptTypeOK' /\ PromptTypeOK /\ main \in Seq(Block) /\ main # <<>>
  BY NextType DEF PromptInv, PromptNext, RunMain, RunAnswer, RunPresentation, PromptTypeOK
<1>0. PICK r \in Request : r = Head(main).request
  BY <1>1, TailOfQueue, BlockFields
<1>2. /\ Head(main) = main[1] /\ Len(main) \in Nat /\ Len(main) >= 1
      /\ main[1].request = r
  BY <1>0, <1>1, TailOfQueue
<1>3. UNCHANGED <<status, asked, waiting, notifiers>>
  BY <1>0, RunShifts
<1>5. \A s \in Request : \A n \in 1..Len(main') : IsAnswer(n, s)' =>
        n + 1 \in 2..Len(main) /\ main'[n] = main[n + 1] /\ IsAnswer(n + 1, s)
  BY <1>0, RunShifts
\* An answer that runs is the only one of its request.
<1>6. ASSUME RunAnswer, r \notin notifiers
      PROVE  answers[r] = <<>> /\ \A n \in 1..Len(main') : ~IsAnswer(n, r)'
  <2>1. 1 \in 1..Len(main) /\ IsAnswer(1, r)
    BY <1>2, <1>6 DEF RunAnswer, IsAnswer
  <2>2. answers[r] = <<>> /\ \A m \in 1..Len(main) : IsAnswer(m, r) => m = 1
    BY <1>2, <1>6, <2>1 DEF PromptInv, QueueInv
  <2>3. ASSUME NEW n \in 1..Len(main'), IsAnswer(n, r)' PROVE FALSE
    <3>1. n + 1 \in 2..Len(main) /\ IsAnswer(n + 1, r)
      BY <1>5, <2>3
    <3>2. n + 1 \in 1..Len(main) /\ n + 1 # 1
      BY <1>2, <3>1
    <3> QED  BY <2>2, <3>1, <3>2
  <2> QED  BY <2>2, <2>3
<1>7. /\ \A s \in Request : s # r => answers'[s] = answers[s]
      /\ RunPresentation => answers' = answers
      /\ RunAnswer => \/ Complete(r, TRUE) /\ Head(main).with = "granted"
                      \/ Complete(r, FALSE) /\ Head(main).with # "granted"
  BY <1>0, RunShifts
<1>8. QueueInv'
  <2> SUFFICES ASSUME NEW s \in Request, NEW n \in 1..Len(main'), IsAnswer(n, s)'
               PROVE  /\ s \in asked' \ waiting'
                      /\ KindOf[s] \in Lasting =>
                           Decided(s)' /\ (main'[n].with = "granted"
                                             <=> status'[KindOf[s]] = "authorized")
                      /\ s \notin notifiers' =>
                           answers'[s] = <<>> /\ \A m \in 1..Len(main') : IsAnswer(m, s)' => m = n
    BY DEF QueueInv
  <2>1. n + 1 \in 1..Len(main) /\ main'[n] = main[n + 1] /\ IsAnswer(n + 1, s)
    <3>1. n + 1 \in 2..Len(main) /\ main'[n] = main[n + 1] /\ IsAnswer(n + 1, s)
      BY <1>5
    <3> QED  BY <1>2, <3>1
  <2>2. /\ s \in asked \ waiting
        /\ KindOf[s] \in Lasting =>
             Decided(s) /\ (main[n + 1].with = "granted" <=> status[KindOf[s]] = "authorized")
        /\ s \notin notifiers =>
             answers[s] = <<>> /\ \A m \in 1..Len(main) : IsAnswer(m, s) => m = n + 1
    BY <2>1 DEF PromptInv, QueueInv
  <2>3. ASSUME s \notin notifiers, NEW m \in 1..Len(main'), IsAnswer(m, s)' PROVE m = n
    <3>1. m + 1 \in 2..Len(main) /\ IsAnswer(m + 1, s)
      BY <1>5, <2>3
    <3>2. m + 1 \in 1..Len(main)
      BY <1>2, <3>1
    <3>3. m + 1 = n + 1
      BY <2>2, <2>3, <3>1, <3>2
    <3> QED  BY <3>3
  <2>4. ASSUME s \notin notifiers PROVE answers'[s] = answers[s]
    <3>1. CASE RunPresentation
      BY <1>7, <3>1
    <3>2. CASE RunAnswer
      <4>1. s # r
        BY <1>6, <2>4, <3>2
      <4> QED  BY <1>7, <4>1
    <3> QED  BY <3>1, <3>2 DEF RunMain
  <2>5. Decided(s)' <=> Decided(s)
    BY <1>3 DEF Decided
  <2> QED  BY <1>3, <2>1, <2>2, <2>3, <2>4, <2>5
<1>9. RequestInv'
  <2> SUFFICES ASSUME NEW s \in Request
               PROVE  /\ s \notin asked' => answers'[s] = <<>>
                      /\ s \in waiting' => answers'[s] = <<>> /\ KindOf[s] # "network"
                      /\ s \in notifiers' => KindOf[s] = "network"
                      /\ s \notin notifiers' => Len(answers'[s]) <= 1
                      /\ KindOf[s] \in Lasting =>
                           \/ answers'[s] = <<>>
                           \/ status'[KindOf[s]] = "authorized" /\ answers'[s] = <<TRUE>>
                           \/ status'[KindOf[s]] = "denied" /\ answers'[s] = <<FALSE>>
    BY DEF RequestInv
  <2>1. CASE answers'[s] = answers[s]
    <3>1. /\ s \notin asked => answers[s] = <<>>
          /\ s \in waiting => answers[s] = <<>> /\ KindOf[s] # "network"
          /\ s \in notifiers => KindOf[s] = "network"
      BY DEF PromptInv, RequestInv
    <3>2. s \notin notifiers => Len(answers[s]) <= 1
      BY DEF PromptInv, RequestInv
    <3>3. KindOf[s] \in Lasting =>
            \/ answers[s] = <<>>
            \/ status[KindOf[s]] = "authorized" /\ answers[s] = <<TRUE>>
            \/ status[KindOf[s]] = "denied" /\ answers[s] = <<FALSE>>
      BY DEF PromptInv, RequestInv
    <3>4. s \notin notifiers' => Len(answers'[s]) <= 1
      BY <1>3, <2>1, <3>2
    <3> QED  BY <1>3, <2>1, <3>1, <3>3, <3>4
  <2>2. CASE answers'[s] # answers[s]
    <3>1. s = r /\ RunAnswer
      BY <1>7, <2>2 DEF RunMain
    <3>2. 1 \in 1..Len(main) /\ IsAnswer(1, r)
      BY <1>2, <3>1 DEF RunAnswer, IsAnswer
    <3>3. /\ r \in asked \ waiting
          /\ KindOf[r] \in Lasting =>
               Decided(r) /\ (main[1].with = "granted" <=> status[KindOf[r]] = "authorized")
      BY <1>2, <3>2 DEF PromptInv, QueueInv
    <3>4. r \in notifiers => KindOf[r] = "network"
      BY <1>2 DEF PromptInv, RequestInv
    <3>5. KindOf[r] \in Lasting => r \notin notifiers
      BY <3>4 DEF Lasting, Changeable
    <3>6. ASSUME r \notin notifiers
          PROVE  /\ Len(answers'[r]) = 1
                 /\ \/ answers'[r] = <<TRUE>> /\ main[1].with = "granted"
                    \/ answers'[r] = <<FALSE>> /\ main[1].with # "granted"
      <4>1. answers[r] = <<>>
        BY <1>6, <3>1, <3>6
      <4> QED  BY <1>1, <1>2, <1>7, <3>1, <4>1, CompleteEffect
    <3>7. Decided(r) /\ status[KindOf[r]] # "authorized" => status[KindOf[r]] = "denied"
      <4>1. status[KindOf[r]] \in Status
        BY <1>1, <1>2, PromptAssumption DEF PromptTypeOK
      <4> QED  BY <4>1 DEF Decided, Status
    <3>8. KindOf[r] \in Lasting =>
            \/ status[KindOf[r]] = "authorized" /\ answers'[r] = <<TRUE>>
            \/ status[KindOf[r]] = "denied" /\ answers'[r] = <<FALSE>>
      BY <3>3, <3>5, <3>6, <3>7
    <3>9. r \notin notifiers => Len(answers'[r]) <= 1
      <4> SUFFICES ASSUME r \notin notifiers PROVE Len(answers'[r]) <= 1
        OBVIOUS
      <4>1. Len(answers'[r]) = 1
        BY <3>6
      <4> QED  BY <4>1
    <3> QED  BY <1>3, <3>1, <3>3, <3>4, <3>8, <3>9
  <2> QED  BY <2>1, <2>2
<1> QED  BY <1>1, <1>8, <1>9 DEF PromptInv

LEMMA NextPrompt == PromptInv /\ [PromptNext]_promptVars => PromptInv'
<1> SUFFICES ASSUME PromptInv, [PromptNext]_promptVars PROVE PromptInv'
  OBVIOUS
<1>1. PromptTypeOK'
  BY NextType DEF PromptInv
<1>2. ASSUME NEW k \in Kind, Decide(k) \/ Change(k) PROVE PromptInv'
  <2>1. /\ UNCHANGED <<asked, waiting, notifiers, main, answers>>
        /\ \A j \in Lasting : status[j] # "undetermined" => status'[j] = status[j]
    <3>1. CASE Decide(k)
      BY <3>1 DEF Decide, PromptInv, PromptTypeOK, Lasting
    <3>2. CASE Change(k)
      BY <3>2 DEF Change, PromptInv, PromptTypeOK, Lasting
    <3> QED  BY <1>2, <3>1, <3>2
  <2>2. QueueInv'
    BY <2>1 DEF PromptInv, QueueInv, Decided, IsAnswer
  <2>3. RequestInv'
    BY <2>1 DEF PromptInv, RequestInv
  <2> QED  BY <1>1, <2>2, <2>3 DEF PromptInv
<1>3. CASE SetAutoPresent \/ DismissAlert \/ UNCHANGED promptVars
  <2>1. UNCHANGED <<status, asked, waiting, notifiers, main, answers>>
    BY <1>3 DEF SetAutoPresent, DismissAlert, promptVars
  <2>2. QueueInv'
    BY <2>1 DEF PromptInv, QueueInv, IsAnswer, Decided
  <2>3. RequestInv'
    BY <2>1 DEF PromptInv, RequestInv
  <2> QED  BY <1>1, <2>2, <2>3 DEF PromptInv
<1> QED  BY <1>2, <1>3, GetKeepsInv, CalledKeepsInv, RunKeepsInv DEF PromptNext

LEMMA PromptInvariant == PromptSpec => []PromptInv
<1> QED  BY InitPrompt, NextPrompt, PTL DEF PromptSpec

\* No request is answered twice except by a notifier.
THEOREM AnsweredOnceAlways == PromptSpec => []AnsweredOnce
<1> QED  BY PromptInvariant, PromptInvIsEnough, PTL

\* All requests for a lasting permission hear the user's decision.
THEOREM DecisionIsAnswered == PromptSpec => []AnswerIsDecision
<1> QED  BY PromptInvariant, PromptInvIsEnough, PTL

-----------------------------------------------------------------------------
(***************************************************************************)
(* The notifier.  The last report of a notifier that is up to date is the  *)
(* restriction in force, whether it is still in the queue or has run.      *)
(***************************************************************************)

NetAuthorized == status["network"] = "authorized"

Told(r) == answers[r] # <<>> /\ answers[r][Len(answers[r])] = NetAuthorized

IsLastReport(n, r) ==
  /\ IsAnswer(n, r)
  /\ main[n].with \in {"granted", "refused"}
  /\ main[n].with = "granted" <=> NetAuthorized
  /\ \A m \in 1..Len(main) : IsAnswer(m, r) => m <= n

UpToDate(r) ==
  \/ (\A n \in 1..Len(main) : ~IsAnswer(n, r)) /\ Told(r)
  \/ \E n \in 1..Len(main) : IsLastReport(n, r)

LastReport == \A r \in notifiers \ due : UpToDate(r)

NotifierInv == PromptInv /\ LastReport

LEMMA LastReportIsEnough == NotifierInv => NetworkFollows
<1> SUFFICES ASSUME NotifierInv, NEW r \in notifiers \ due,
                    \A i \in DOMAIN main : main[i] # Answer(r, "granted") /\ main[i] # Answer(r, "refused")
             PROVE  Told(r)
  BY DEF NetworkFollows, Told, NetAuthorized
<1>1. ASSUME NEW n \in 1..Len(main), IsLastReport(n, r) PROVE FALSE
  <2>1. main \in Seq(Block)
    BY DEF NotifierInv, PromptInv, PromptTypeOK
  <2>2. n \in DOMAIN main /\ main[n] \in Block
    BY <2>1, <1>1
  <2>3. main[n] \in [do : {"answer"}, request : Request, with : Outcome]
    BY <1>1, <2>2 DEF Block, IsLastReport, IsAnswer
  <2>4. main[n] = [do |-> "answer", request |-> r, with |-> main[n].with]
    BY <1>1, <2>3 DEF IsLastReport, IsAnswer
  <2> QED  BY <1>1, <2>2, <2>4 DEF IsLastReport, Answer
<1> QED  BY <1>1 DEF NotifierInv, LastReport, UpToDate

\* Blocks of others at the end of the queue leave a notifier up to date.
LEMMA StretchKeeps ==
  ASSUME NEW r \in Request, UpToDate(r), Len(main) \in Nat, Len(main') \in Nat,
         Len(main) <= Len(main'),
         \A n \in 1..Len(main) : main'[n] = main[n],
         \A n \in 1..Len(main') : n > Len(main) => ~IsAnswer(n, r)',
         answers'[r] = answers[r], NetAuthorized' <=> NetAuthorized
  PROVE  UpToDate(r)'
<1>1. \A n \in 1..Len(main') : IsAnswer(n, r)' => n \in 1..Len(main) /\ IsAnswer(n, r)
  BY DEF IsAnswer
<1>2. CASE (\A n \in 1..Len(main) : ~IsAnswer(n, r)) /\ Told(r)
  <2>1. NetAuthorized' = NetAuthorized
    BY DEF NetAuthorized
  <2> QED  BY <1>1, <1>2, <2>1 DEF UpToDate, Told
<1>3. ASSUME NEW n \in 1..Len(main), IsLastReport(n, r) PROVE UpToDate(r)'
  <2>1. n \in 1..Len(main') /\ IsAnswer(n, r)'
    BY <1>3 DEF IsLastReport, IsAnswer
  <2>2. IsLastReport(n, r)'
    BY <1>1, <1>3, <2>1 DEF IsLastReport
  <2> QED  BY <2>1, <2>2 DEF UpToDate
<1> QED  BY <1>2, <1>3 DEF UpToDate

LEMMA GetKeepsReport ==
  ASSUME NotifierInv, NEW r \in Request, Get(r) PROVE LastReport'
<1>1. notifiers' \ due' \subseteq notifiers \ due /\ r \notin notifiers
  BY DEF Get, GetByStatus, GetByAsking, GetNetworkPermissions, GetBluetoothPermissions,
         AskSystem, AnswerFromStatus, NotifierInv, PromptInv, PromptTypeOK
<1>2. PromptTypeOK /\ main \in Seq(Block) /\ main' \in Seq(Block) /\ Adds(main, main')
  BY GetEffect, NextType DEF NotifierInv, PromptInv, PromptTypeOK, PromptNext
<1>3. /\ Len(main) \in Nat /\ Len(main') \in Nat /\ Len(main) <= Len(main')
      /\ \A n \in 1..Len(main) : main'[n] = main[n]
      /\ \A n \in 1..Len(main') : n > Len(main) => main'[n].do = "present"
  BY <1>2, AddsKeepsType
<1>4. ASSUME NEW s \in notifiers \ due PROVE UpToDate(s)'
  <2>1. s \in Request /\ s # r /\ UpToDate(s)
    BY <1>1, <1>2 DEF NotifierInv, LastReport, PromptTypeOK
  <2>2. answers'[s] = answers[s]
    BY <1>2, <2>1, GetEffect, CompleteEffect
  <2>3. NetAuthorized' <=> NetAuthorized
    BY DEF Get, NetAuthorized
  <2>4. \A n \in 1..Len(main') : n > Len(main) => ~IsAnswer(n, s)'
    BY <1>3 DEF IsAnswer
  <2> QED  BY <1>3, <2>1, <2>2, <2>3, <2>4, StretchKeeps
<1> QED  BY <1>1, <1>4 DEF LastReport

LEMMA CalledKeepsReport ==
  ASSUME NotifierInv, NEW r \in Request, HandlerCalled(r) \/ NotifierCalled(r)
  PROVE  LastReport'
<1>1. PromptTypeOK /\ main \in Seq(Block) /\ UNCHANGED <<status, notifiers, answers>>
  BY DEF NotifierInv, PromptInv, PromptTypeOK, HandlerCalled, NotifierCalled
<1>2. PICK o \in Outcome :
        /\ main' = Append(main, Answer(r, o))
        /\ NotifierCalled(r) => o \in {"granted", "refused"} /\ (o = "granted" <=> NetAuthorized)
  <2>1. CASE HandlerCalled(r) /\ ~NotifierCalled(r)
    BY <2>1 DEF HandlerCalled, Reported, Outcome
  <2>2. CASE NotifierCalled(r)
    BY <2>2 DEF NotifierCalled, Reported, Outcome, NetAuthorized
  <2> QED  BY <2>1, <2>2
<1>3. Answer(r, o) \in Block
  BY <1>1, BlocksAreBlocks
<1>4. /\ Len(main) \in Nat /\ Len(main') = Len(main) + 1
      /\ \A n \in 1..Len(main) : main'[n] = main[n]
      /\ main'[Len(main) + 1] = Answer(r, o)
  BY <1>1, <1>2, <1>3, AppendToQueue
<1>5. NetAuthorized' <=> NetAuthorized
  BY <1>1 DEF NetAuthorized
<1>6. ASSUME NEW s \in notifiers \ due, s # r PROVE UpToDate(s)'
  <2>1. s \in Request /\ UpToDate(s)
    BY <1>1 DEF NotifierInv, LastReport, PromptTypeOK
  <2>2. \A n \in 1..Len(main') : n > Len(main) => n = Len(main) + 1
    BY <1>4
  <2>3. \A n \in 1..Len(main') : n > Len(main) => ~IsAnswer(n, s)'
    BY <1>4, <1>6, <2>2 DEF IsAnswer, Answer
  <2>4. Len(main') \in Nat /\ Len(main) <= Len(main')
    BY <1>4
  <2> QED  BY <1>1, <1>4, <1>5, <2>1, <2>3, <2>4, StretchKeeps
<1>7. CASE NotifierCalled(r)
  <2>1. due' = due \ {r} /\ r \in notifiers
    BY <1>1, <1>7 DEF NotifierCalled, PromptTypeOK
  <2>2. PICK last \in 1..Len(main') :
          last = Len(main) + 1 /\ \A m \in 1..Len(main') : m <= last
    BY <1>4
  <2>3. IsLastReport(last, r)'
    <3>1. /\ main'[last].do = "answer"
          /\ main'[last].request = r
          /\ main'[last].with = o
      BY <1>4, <2>2 DEF Answer
    <3>2. o \in {"granted", "refused"} /\ (o = "granted" <=> NetAuthorized')
      BY <1>2, <1>5, <1>7
    <3> QED  BY <2>2, <3>1, <3>2 DEF IsLastReport, IsAnswer
  <2>4. UpToDate(r)'
    BY <2>3 DEF UpToDate
  <2> QED  BY <1>1, <1>6, <2>1, <2>4 DEF LastReport
<1>8. CASE HandlerCalled(r)
  <2>1. r \in waiting /\ due' = due
    BY <1>8 DEF HandlerCalled
  <2>2. r \notin notifiers
    BY <2>1 DEF NotifierInv, PromptInv, RequestInv
  <2> QED  BY <1>1, <1>6, <2>1, <2>2 DEF LastReport
<1> QED  BY <1>7, <1>8

LEMMA RunKeepsReport == ASSUME NotifierInv, RunMain PROVE LastReport'
<1>1. PromptInv /\ PromptTypeOK /\ main \in Seq(Block) /\ main # <<>>
  BY DEF NotifierInv, PromptInv, RunMain, RunAnswer, RunPresentation, PromptTypeOK
<1>2. PICK r \in Request : r = Head(main).request
  BY <1>1, TailOfQueue, BlockFields
<1>3. /\ main[1] = Head(main) /\ Len(main) \in Nat /\ Len(main) >= 1 /\ Len(main') \in Nat
      /\ UNCHANGED <<status, notifiers, due>>
      /\ RunAnswer <=> main[1].do = "answer"
      /\ \A s \in Request : \A n \in 1..Len(main') : IsAnswer(n, s)' =>
            n + 1 \in 2..Len(main) /\ IsAnswer(n + 1, s)
      /\ \A n \in 2..Len(main) : n - 1 \in 1..Len(main') /\ main'[n - 1] = main[n]
      /\ \A s \in Request : s # r => answers'[s] = answers[s]
      /\ RunPresentation => answers' = answers
      /\ RunAnswer => \/ Complete(r, TRUE) /\ main[1].with = "granted"
                      \/ Complete(r, FALSE) /\ main[1].with # "granted"
  BY <1>1, <1>2, RunShifts
<1>4. NetAuthorized' = NetAuthorized
  BY <1>3 DEF NetAuthorized
<1> SUFFICES ASSUME NEW s \in notifiers \ due PROVE UpToDate(s)'
  BY <1>3 DEF LastReport
<1>5. s \in Request /\ UpToDate(s)
  BY <1>1 DEF NotifierInv, LastReport, PromptTypeOK
\* Nothing of s is in the queue: nothing becomes of it.
<1>6. CASE (\A n \in 1..Len(main) : ~IsAnswer(n, s)) /\ Told(s)
  <2>1. \A n \in 1..Len(main') : ~IsAnswer(n, s)'
    <3>1. \A n \in 2..Len(main) : n \in 1..Len(main)
      BY <1>3
    <3> QED  BY <1>3, <1>5, <1>6, <3>1
  <2>2. answers'[s] = answers[s]
    <3>1. 1 \in 1..Len(main)
      BY <1>3
    <3>2. ~(main[1].do = "answer" /\ main[1].request = s)
      BY <1>6, <3>1 DEF IsAnswer
    <3>3. CASE RunAnswer
      BY <1>2, <1>3, <1>5, <3>2, <3>3
    <3>4. CASE RunPresentation
      BY <1>3, <3>4
    <3> QED  BY <3>3, <3>4 DEF RunMain
  <2> QED  BY <1>4, <1>6, <2>1, <2>2 DEF UpToDate, Told
\* The last report of s moves one place to the front, or runs.
<1>7. ASSUME NEW n \in 2..Len(main), IsLastReport(n, s) PROVE UpToDate(s)'
  <2>1. n - 1 \in 1..Len(main') /\ main'[n - 1] = main[n]
    BY <1>3, <1>7
  <2>2. ASSUME NEW m \in 1..Len(main'), IsAnswer(m, s)' PROVE m <= n - 1
    <3>1. m + 1 \in 1..Len(main) /\ IsAnswer(m + 1, s)
      BY <1>3, <1>5, <2>2
    <3>2. m + 1 <= n
      BY <1>7, <3>1 DEF IsLastReport
    <3> QED  BY <3>2
  <2>3. IsLastReport(n - 1, s)'
    BY <1>4, <1>7, <2>1, <2>2 DEF IsLastReport, IsAnswer
  <2> QED  BY <2>1, <2>3 DEF UpToDate
<1>8. CASE IsLastReport(1, s)
  <2>1. \A m \in 1..Len(main') : ~IsAnswer(m, s)'
    <3> SUFFICES ASSUME NEW m \in 1..Len(main'), IsAnswer(m, s)' PROVE FALSE
      OBVIOUS
    <3>1. m + 1 \in 1..Len(main) /\ IsAnswer(m + 1, s)
      BY <1>3, <1>5
    <3>2. m + 1 <= 1
      BY <1>8, <3>1 DEF IsLastReport
    <3> QED  BY <3>2
  <2>2. RunAnswer /\ s = r /\ (main[1].with = "granted" <=> NetAuthorized)
    BY <1>2, <1>3, <1>8 DEF IsLastReport, IsAnswer
  <2>3. NetAuthorized \in BOOLEAN
    BY DEF NetAuthorized
  <2>4. Complete(s, NetAuthorized)
    <3>1. CASE NetAuthorized
      <4>1. NetAuthorized = TRUE
        BY <3>1, <2>3
      <4> QED  BY <1>3, <2>2, <3>1, <4>1
    <3>2. CASE ~NetAuthorized
      <4>1. NetAuthorized = FALSE
        BY <3>2, <2>3
      <4> QED  BY <1>3, <2>2, <3>2, <4>1
    <3> QED  BY <3>1, <3>2
  <2>5. answers[s] \in Seq(BOOLEAN) /\ answers'[s] = Append(answers[s], NetAuthorized)
    BY <1>1, <1>5, <2>4 DEF Complete, PromptTypeOK
  <2>6. answers'[s] # <<>> /\ answers'[s][Len(answers'[s])] = NetAuthorized
    <3> HIDE DEF NetAuthorized
    <3> QED  BY <2>3, <2>5, AppendToQueue
  <2> QED  BY <1>4, <2>1, <2>6 DEF UpToDate, Told
<1>9. \A n \in 1..Len(main) : n = 1 \/ n \in 2..Len(main)
  BY <1>3
<1> QED  BY <1>5, <1>6, <1>7, <1>8, <1>9 DEF UpToDate

LEMMA NextReport == NotifierInv /\ [PromptNext]_promptVars => NotifierInv'
<1> SUFFICES ASSUME NotifierInv, [PromptNext]_promptVars PROVE NotifierInv'
  OBVIOUS
<1>1. PromptInv'
  BY NextPrompt DEF NotifierInv
\* Nothing is asked about cellular data; a change of it is due to every notifier.
<1>2. ASSUME NEW k \in Kind, Decide(k) \/ Change(k) PROVE LastReport'
  <2>1. UNCHANGED <<notifiers, main, answers>>
    BY <1>2 DEF Decide, Change
  <2>2. CASE k = "network"
    <3>1. Change(k)
      BY <1>2, <2>2 DEF Decide, NotifierInv, PromptInv, RequestInv, PromptTypeOK
    <3>2. due' = notifiers
      BY <2>2, <3>1 DEF Change
    <3> QED  BY <2>1, <3>2 DEF LastReport
  <2>3. CASE k # "network"
    <3>1. due' = due
      BY <1>2, <2>3 DEF Decide, Change
    <3>2. status'["network"] = status["network"]
      BY <1>2, <2>3 DEF Decide, Change, NotifierInv, PromptInv, PromptTypeOK, Kind
    <3>3. NetAuthorized' = NetAuthorized
      BY <3>2 DEF NetAuthorized
    <3> QED  BY <2>1, <3>1, <3>3
             DEF NotifierInv, LastReport, UpToDate, Told, IsLastReport, IsAnswer
  <2> QED  BY <2>2, <2>3
<1>3. ASSUME SetAutoPresent \/ DismissAlert \/ UNCHANGED promptVars PROVE LastReport'
  <2>1. UNCHANGED <<status, notifiers, due, main, answers>>
    BY <1>3 DEF SetAutoPresent, DismissAlert, promptVars
  <2> QED  BY <2>1
           DEF NotifierInv, LastReport, UpToDate, Told, IsLastReport, IsAnswer, NetAuthorized
<1>4. LastReport'
  BY <1>2, <1>3, GetKeepsReport, CalledKeepsReport, RunKeepsReport DEF PromptNext
<1> QED  BY <1>1, <1>4 DEF NotifierInv

LEMMA InitReport == PromptInit => NotifierInv
<1>1. PromptInit => LastReport
  BY DEF PromptInit, LastReport
<1> QED  BY <1>1, InitPrompt DEF NotifierInv

\* A completion that the notifier has called was last called with the restriction in
\* force, once nothing of it is under way, however many notifiers and changes there are.
THEOREM NotifierFollows == PromptSpec => []NetworkFollows
<1>1. PromptInit => NotifierInv
  BY InitReport
<1>2. NotifierInv /\ [PromptNext]_promptVars => NotifierInv'
  BY NextReport
<1>3. NotifierInv => NetworkFollows
  BY LastReportIsEnough
<1> QED  BY <1>1, <1>2, <1>3, PTL DEF PromptSpec

-----------------------------------------------------------------------------
(***************************************************************************)
(* The location.  A request lives under the status of the moment, once it  *)
(* has captured one; so does the status that its block captured, and so    *)
(* does the completion that is kept.                                       *)
(***************************************************************************)
LivesUnderStatus ==
  /\ \A r \in LocationRequest : since[r] # {} => r \in called /\ AuthorizationStatus \in since[r]
  /\ \A r \in LocationRequest \ called : replies[r] = <<>>

CapturedInLife ==
  /\ \A i \in 1..Len(blocks) : blocks[i].status \in since[blocks[i].request]
  /\ getLocation # Nobody => since[getLocation] # {}

Grounded(r, yes) ==
  IF yes THEN since[r] \cap {"whenInUse", "always"} # {}
  ELSE "denied" \in since[r] \/ (r \in Always /\ "whenInUse" \in since[r])

LocationInv == LocationTypeOK /\ LivesUnderStatus /\ CapturedInLife /\ AnswersAreGrounded

\* What is dispatched is of a request.
LEMMA MainTyped ==
  ASSUME LocationTypeOK, NEW i \in 1..Len(blocks)
  PROVE  /\ blocks[i] \in [request : LocationRequest, status : LocationStatus]
         /\ blocks[i].request \in LocationRequest
<1>1. ASSUME NEW S, NEW q \in Seq(S), NEW j \in 1..Len(q) PROVE q[j] \in S
  BY <1>1
<1>2. blocks[i] \in [request : LocationRequest, status : LocationStatus]
  BY <1>1 DEF LocationTypeOK
<1> QED  BY <1>2

\* Answering one request with an answer that has its ground keeps all grounded.
LEMMA CompleteGrounded ==
  ASSUME LocationTypeOK, AnswersAreGrounded, NEW r \in LocationRequest, NEW yes \in BOOLEAN,
         CallCompletion(r, yes), Grounded(r, yes), since' = since
  PROVE  replies' \in [LocationRequest -> Seq(BOOLEAN)] /\ AnswersAreGrounded'
<1>1. /\ replies[r] \in Seq(BOOLEAN)
      /\ replies' = [replies EXCEPT ![r] = Append(replies[r], yes)]
  BY DEF CallCompletion, LocationTypeOK
<1>2. Append(replies[r], yes) \in Seq(BOOLEAN)
  BY <1>1
<1>3. replies' \in [LocationRequest -> Seq(BOOLEAN)]
  BY <1>1, <1>2 DEF LocationTypeOK
<1>4. ASSUME NEW q \in LocationRequest, NEW i \in DOMAIN replies'[q]
      PROVE  Grounded(q, replies'[q][i])
  <2>1. CASE q # r
    <3>1. replies'[q] = replies[q]
      BY <1>1, <2>1 DEF LocationTypeOK
    <3> QED  BY <1>4, <3>1 DEF AnswersAreGrounded, Grounded
  <2>2. CASE q = r
    <3>1. replies'[r] = Append(replies[r], yes)
      BY <1>1 DEF LocationTypeOK
    <3>2. \/ i \in DOMAIN replies[r] /\ replies'[r][i] = replies[r][i]
          \/ replies'[r][i] = yes
      BY <1>1, <1>4, <2>2, <3>1
    <3> QED  BY <2>2, <3>2 DEF AnswersAreGrounded, Grounded
  <2> QED  BY <2>1, <2>2
<1>5. AnswersAreGrounded'
  BY <1>4 DEF AnswersAreGrounded, Grounded
<1> QED  BY <1>3, <1>5

\* What the user does: requests live on under the new status, and what they have
\* lived under stays.
LEMMA NowKeeps ==
  ASSUME LocationInv, NEW s \in LocationStatus, Now(s), s = AuthorizationStatus'
  PROVE  /\ since' \in [LocationRequest -> SUBSET LocationStatus]
         /\ delegateDue' \in BOOLEAN
         /\ LivesUnderStatus' /\ CapturedInLife' /\ AnswersAreGrounded'
<1> USE DEF LocationInv
<1>1. /\ since' = [r \in LocationRequest |->
                     IF r \in called /\ since[r] # {} THEN since[r] \cup {s} ELSE since[r]]
      /\ UNCHANGED <<delegateSet, blocks, getLocation, called, replies>>
      /\ delegateDue' \in BOOLEAN
  BY DEF Now, LocationTypeOK
<1>2. /\ since' \in [LocationRequest -> SUBSET LocationStatus]
      /\ \A r \in LocationRequest : since[r] \subseteq since'[r]
      /\ \A r \in LocationRequest : since'[r] # {} => r \in called /\ s \in since'[r]
  BY <1>1 DEF LocationTypeOK, LivesUnderStatus
<1>3. LivesUnderStatus'
  BY <1>1, <1>2 DEF LivesUnderStatus
<1>4. CapturedInLife'
  <2>1. \A i \in 1..Len(blocks) : blocks[i].request \in LocationRequest
    BY MainTyped
  <2> QED  BY <1>1, <1>2, <2>1 DEF CapturedInLife, LocationTypeOK
<1>5. AnswersAreGrounded'
  BY <1>1, <1>2 DEF AnswersAreGrounded
<1> QED  BY <1>1, <1>2, <1>3, <1>4, <1>5

LEMMA GetLocationKeepsInv ==
  ASSUME LocationInv, NEW r \in LocationRequest, GetAlwaysLocationPermissions(r)
  PROVE  LocationInv'
<1> USE DEF LocationInv
<1>1. /\ r \notin called /\ called' = called \cup {r}
      /\ UNCHANGED <<system, getLocation, replies>>
      /\ since[r] = {} /\ replies[r] = <<>>
  BY DEF GetAlwaysLocationPermissions, LivesUnderStatus
<1>2. CASE GetWithoutServices(r)
  BY <1>1, <1>2 DEF GetWithoutServices, LocationTypeOK, LivesUnderStatus, CapturedInLife,
                    AnswersAreGrounded, AuthorizationStatus, system
<1>3. CASE GetWithServices(r)
  <2> DEFINE new == [request |-> r, status |-> AuthorizationStatus]
  <2>1. /\ AuthorizationStatus \in LocationStatus /\ AuthorizationStatus' = AuthorizationStatus
        /\ new \in [request : LocationRequest, status : LocationStatus]
    BY <1>1 DEF AuthorizationStatus, system, LocationTypeOK, LocationStatus, Choice
  <2>2. /\ blocks' = Append(blocks, new) /\ delegateSet' = TRUE /\ delegateDue' \in BOOLEAN
        /\ since' = [since EXCEPT ![r] = {AuthorizationStatus}]
    BY <1>3 DEF GetWithServices, LocationTypeOK
  <2>3. /\ blocks' \in Seq([request : LocationRequest, status : LocationStatus])
        /\ Len(blocks') = Len(blocks) + 1 /\ blocks'[Len(blocks) + 1] = new
        /\ \A i \in 1..Len(blocks) : blocks'[i] = blocks[i]
    BY <2>1, <2>2 DEF LocationTypeOK
  <2>4. /\ since'[r] = {AuthorizationStatus}
        /\ \A q \in LocationRequest \ {r} : since'[q] = since[q]
        /\ since' \in [LocationRequest -> SUBSET LocationStatus]
    BY <2>1, <2>2 DEF LocationTypeOK
  <2>5. LocationTypeOK'
    BY <1>1, <2>2, <2>3, <2>4 DEF LocationTypeOK, system
  <2>6. LivesUnderStatus'
    BY <1>1, <2>1, <2>4 DEF LivesUnderStatus
  <2>7. CapturedInLife'
    <3>1. \A i \in 1..Len(blocks) : blocks[i].request \in LocationRequest /\ blocks[i].request # r
      BY <1>1, MainTyped DEF CapturedInLife
    <3>2. \A i \in 1..Len(blocks') : blocks'[i].status \in since'[blocks'[i].request]
      <4> SUFFICES ASSUME NEW i \in 1..Len(blocks')
                   PROVE  blocks'[i].status \in since'[blocks'[i].request]
        OBVIOUS
      <4>1. CASE i \in 1..Len(blocks)
        BY <2>3, <2>4, <3>1, <4>1 DEF CapturedInLife
      <4>2. CASE i = Len(blocks) + 1
        BY <2>3, <2>4, <4>2
      <4>3. Len(blocks) \in Nat
        BY DEF LocationTypeOK
      <4> QED  BY <2>3, <4>1, <4>2, <4>3
    <3>3. getLocation' # Nobody => since'[getLocation'] # {}
      BY <1>1, <2>4 DEF CapturedInLife, LocationTypeOK
    <3> QED  BY <3>2, <3>3 DEF CapturedInLife
  <2>8. AnswersAreGrounded'
    BY <1>1, <2>4 DEF AnswersAreGrounded
  <2> QED  BY <2>5, <2>6, <2>7, <2>8
<1> QED  BY <1>2, <1>3 DEF GetAlwaysLocationPermissions

LEMMA BlockKeepsInv == ASSUME LocationInv, RunBlock PROVE LocationInv'
<1> USE DEF LocationInv
<1> DEFINE r == Head(blocks).request
           s == Head(blocks).status
<1>1. /\ r \in LocationRequest /\ s \in LocationStatus /\ s \in since[r]
      /\ blocks' \in Seq([request : LocationRequest, status : LocationStatus])
      /\ \A i \in 1..Len(blocks') : \E j \in 1..Len(blocks) : blocks'[i] = blocks[j]
  <2>1. /\ blocks # <<>> /\ blocks' = Tail(blocks)
        /\ blocks \in Seq([request : LocationRequest, status : LocationStatus])
    BY DEF RunBlock, LocationTypeOK
  <2>2. /\ 1 \in 1..Len(blocks) /\ Head(blocks) = blocks[1]
        /\ blocks[1] \in [request : LocationRequest, status : LocationStatus]
    <3>1. 1 \in 1..Len(blocks) /\ Head(blocks) = blocks[1]
      BY <2>1
    <3> QED  BY <3>1, MainTyped
  <2>3. /\ blocks' \in Seq([request : LocationRequest, status : LocationStatus])
        /\ \A i \in 1..Len(blocks') : i + 1 \in 1..Len(blocks) /\ blocks'[i] = blocks[i + 1]
    BY <2>1
  <2> QED  BY <2>2, <2>3 DEF CapturedInLife
<1>2. /\ UNCHANGED <<servicesOn, authorized, switches, delegateSet, delegateDue, called, since>>
      /\ AuthorizationStatus' = AuthorizationStatus
  BY DEF RunBlock, AuthorizationStatus
<1>3. BlockRefuses(r, s) \/ BlockAsks(r, s) \/ BlockAnswers(r, s)
  BY DEF RunBlock
<1>4. \A i \in 1..Len(blocks') : blocks'[i].status \in since'[blocks'[i].request]
  BY <1>1, <1>2 DEF CapturedInLife
<1>5. r \in called
  BY <1>1 DEF LivesUnderStatus
<1> HIDE DEF r, s
<1>6. CASE BlockAsks(r, s)
  <2>1. getLocation' = r /\ replies' = replies /\ offered' \subseteq Choice
    BY <1>6, LocationAssumption DEF BlockAsks, RequestAuthorization, LocationTypeOK, Choice
  <2>2. LocationTypeOK'
    BY <1>1, <1>2, <2>1 DEF LocationTypeOK
  <2>3. LivesUnderStatus' /\ AnswersAreGrounded'
    BY <1>2, <2>1 DEF LivesUnderStatus, AnswersAreGrounded
  <2> QED  BY <1>1, <1>2, <1>4, <2>1, <2>2, <2>3 DEF CapturedInLife
<1>7. ASSUME NEW yes \in BOOLEAN, CallCompletion(r, yes), Grounded(r, yes),
             UNCHANGED <<offered, getLocation>>
      PROVE  LocationInv'
  <2>1. replies' \in [LocationRequest -> Seq(BOOLEAN)] /\ AnswersAreGrounded'
    BY <1>1, <1>2, <1>7, CompleteGrounded
  <2>2. \A q \in LocationRequest \ {r} : replies'[q] = replies[q]
    BY <1>7 DEF CallCompletion, LocationTypeOK
  <2>3. LocationTypeOK'
    BY <1>1, <1>2, <1>7, <2>1 DEF LocationTypeOK
  <2>4. LivesUnderStatus'
    BY <1>2, <1>5, <2>2 DEF LivesUnderStatus
  <2>5. CapturedInLife'
    BY <1>2, <1>4, <1>7 DEF CapturedInLife
  <2> QED  BY <2>1, <2>3, <2>4, <2>5
<1>8. CASE BlockRefuses(r, s)
  <2>1. Grounded(r, FALSE)
    BY <1>1, <1>8 DEF BlockRefuses, Grounded
  <2> QED  BY <1>7, <1>8, <2>1 DEF BlockRefuses
<1>9. CASE BlockAnswers(r, s)
  <2> DEFINE yes == r \in Always => s = "always"
  <2>1. s \in {"whenInUse", "always"} /\ CallCompletion(r, yes) /\ UNCHANGED <<offered, getLocation>>
    BY <1>9 DEF BlockAnswers
  <2>2. yes \in BOOLEAN /\ Grounded(r, yes)
    BY <1>1, <2>1 DEF Grounded
  <2> QED  BY <1>7, <2>1, <2>2
<1> QED  BY <1>3, <1>6, <1>8, <1>9

LEMMA DelegateKeepsInv ==
  ASSUME LocationInv, DidChangeAuthorizationStatus
  PROVE  LocationInv'
<1> USE DEF LocationInv
<1>1. /\ delegateDue' = FALSE
      /\ UNCHANGED <<servicesOn, authorized, switches, offered, delegateSet, blocks,
                     getLocation, called, since>>
      /\ AuthorizationStatus' = AuthorizationStatus
  BY DEF DidChangeAuthorizationStatus, system, AuthorizationStatus
<1>2. CASE UNCHANGED replies
  BY <1>1, <1>2 DEF LocationTypeOK, LivesUnderStatus, CapturedInLife, AnswersAreGrounded
<1>3. CASE ~UNCHANGED replies
  <2> DEFINE yes == AuthorizationStatus # "denied"
  <2>1. /\ AuthorizationStatus \in Choice /\ getLocation # Nobody
        /\ CallCompletion(getLocation, yes)
    BY <1>3 DEF DidChangeAuthorizationStatus
  <2>2. /\ getLocation \in LocationRequest /\ getLocation \in called
        /\ AuthorizationStatus \in since[getLocation]
    BY <2>1 DEF LocationTypeOK, CapturedInLife, LivesUnderStatus
  <2>3. yes \in BOOLEAN /\ Grounded(getLocation, yes)
    BY <2>1, <2>2 DEF Grounded, Choice
  <2>4. replies' \in [LocationRequest -> Seq(BOOLEAN)] /\ AnswersAreGrounded'
    BY <1>1, <2>1, <2>2, <2>3, CompleteGrounded
  <2>5. \A q \in LocationRequest \ {getLocation} : replies'[q] = replies[q]
    BY <2>1 DEF CallCompletion, LocationTypeOK
  <2>6. LocationTypeOK'
    BY <1>1, <2>4 DEF LocationTypeOK
  <2>7. LivesUnderStatus'
    BY <1>1, <2>2, <2>5 DEF LivesUnderStatus
  <2>8. CapturedInLife'
    BY <1>1 DEF CapturedInLife
  <2> QED  BY <2>4, <2>6, <2>7, <2>8
<1> QED  BY <1>2, <1>3

LEMMA UserKeepsInv ==
  ASSUME LocationInv, Choose \/ ChangeChoice \/ SwitchServices
  PROVE  LocationInv'
<1> USE DEF LocationInv
<1>1. \E s \in LocationStatus : Now(s) /\ s = AuthorizationStatus'
  <2>1. CASE Choose
    BY <2>1 DEF Choose, AuthorizationStatus, LocationTypeOK, LocationStatus
  <2>2. CASE ChangeChoice
    BY <2>2 DEF ChangeChoice, AuthorizationStatus, LocationTypeOK, LocationStatus
  <2>3. CASE SwitchServices
    BY <2>3 DEF SwitchServices, AuthorizationStatus, LocationTypeOK, LocationStatus, Choice
  <2> QED  BY <2>1, <2>2, <2>3
<1>2. /\ servicesOn' \in BOOLEAN /\ authorized' \in LocationStatus /\ offered' \subseteq Choice
      /\ switches' \in 0..MaxSwitches
  <2>1. CASE Choose
    BY <2>1 DEF Choose, LocationTypeOK, LocationStatus
  <2>2. switches < MaxSwitches => switches + 1 \in 0..MaxSwitches
    BY LocationAssumption DEF LocationTypeOK
  <2>3. CASE ChangeChoice
    BY <2>2, <2>3 DEF ChangeChoice, LocationTypeOK, LocationStatus
  <2>4. CASE SwitchServices
    BY <2>2, <2>4 DEF SwitchServices, LocationTypeOK
  <2> QED  BY <2>1, <2>3, <2>4
<1>3. PICK s \in LocationStatus : Now(s) /\ s = AuthorizationStatus'
  BY <1>1
<1>4. /\ since' \in [LocationRequest -> SUBSET LocationStatus] /\ delegateDue' \in BOOLEAN
      /\ LivesUnderStatus' /\ CapturedInLife' /\ AnswersAreGrounded'
  BY <1>3, NowKeeps
<1>5. UNCHANGED <<delegateSet, blocks, getLocation, called, replies>>
  BY <1>3 DEF Now
<1> QED  BY <1>2, <1>4, <1>5 DEF LocationTypeOK

LEMMA LocationInitInv == ASSUME LocationInit PROVE LocationInv
<1>1. /\ 0 \in 0..MaxSwitches
      /\ <<>> \in Seq([request : LocationRequest, status : LocationStatus])
      /\ [r \in LocationRequest |-> <<>>] \in [LocationRequest -> Seq(BOOLEAN)]
  BY LocationAssumption
<1>2. LocationTypeOK
  BY <1>1 DEF LocationInit, LocationTypeOK
<1> QED  BY <1>2 DEF LocationInit, LocationInv, LivesUnderStatus, CapturedInLife, AnswersAreGrounded

LEMMA LocationNextInv == ASSUME LocationInv, [LocationNext]_locationVars PROVE LocationInv'
<1>1. CASE UNCHANGED locationVars
  BY <1>1 DEF locationVars, LocationInv, LocationTypeOK, LivesUnderStatus, CapturedInLife, AnswersAreGrounded,
              AuthorizationStatus
<1>2. CASE LocationNext
  BY <1>2, GetLocationKeepsInv, BlockKeepsInv, DelegateKeepsInv, UserKeepsInv DEF LocationNext
<1> QED  BY <1>1, <1>2

\* Every answer about the location has its ground in a status that was in force since
\* the request was made: a block decides with the status it captured, the delegate
\* calls a completion that was kept earlier (lines 178-223), and neither is ever late
\* enough to answer what was never true.
THEOREM AnswersGrounded == LocationSpec => []AnswersAreGrounded
<1>1. LocationInit => LocationInv
  BY LocationInitInv
<1>2. LocationInv /\ [LocationNext]_locationVars => LocationInv'
  BY LocationNextInv
<1>3. LocationInv => AnswersAreGrounded
  BY DEF LocationInv
<1> QED  BY <1>1, <1>2, <1>3, PTL DEF LocationSpec
=============================================================================
