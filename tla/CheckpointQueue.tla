-------------------------- MODULE CheckpointQueue ---------------------------
(***************************************************************************)
(* The checkpoints that WCDB makes when a data base has rested: the hook   *)
(* that a commit calls puts the path into a TimedQueue, behind the others, *)
(* and a thread takes it out once the delay has passed.                    *)
(*                                                                         *)
(* Time passes in ticks.  A time is kept as what is left until then, down  *)
(* to where it makes no difference any more.                               *)
(***************************************************************************)
EXTENDS Integers, Sequences, SequencesExt

CONSTANTS
  Base,   \* the paths of the data bases
  Delay,  \* m_delay, in ticks
  MaxLag  \* bound: ticks for which the thread waits for the mutex

ASSUME QueueAssumption == Delay \in Nat /\ MaxLag \in Nat

VARIABLES
  m_list,   \* the queue, the newest in front; m_map is its index
  expires,  \* for every path, the ticks until its element expires
  hooked,   \* a commit has called the hook, and is at the static thread
  step,     \* where the checkpoint thread is
  lag,      \* ticks since it took the time
  pause,    \* ticks for which it has still to sleep
  element,  \* the path it checkpoints
  owed      \* history: paths with a long log since their last checkpoint

queueVars == <<m_list, expires, hooked, step, lag, pause, element, owed>>

Nowhere == "nowhere"
\* At the least, expired even by the oldest time that the thread may have.
Expired == -(MaxLag + 1)
Left == Expired..Delay

QueueTypeOK ==
  /\ m_list \in Seq(Base)
  /\ expires \in [Base -> Left]
  /\ hooked \in BOOLEAN
  /\ step \in {"none", "check", "wait", "time", "look", "sleep", "checkpoint"}
  /\ lag \in 0..MaxLag
  /\ pause \in 0..Delay + MaxLag
  /\ element \in Base \cup {Nowhere}
  /\ owed \subseteq Base

QueueInit ==
  /\ m_list = <<>>
  /\ expires = [p \in Base |-> Expired]
  /\ hooked = FALSE
  /\ step = "none"
  /\ lag = 0 /\ pause = 0
  /\ element = Nowhere
  /\ owed = {}

-----------------------------------------------------------------------------
(***************************************************************************)
(* The hook of a commit.                                                   *)
(***************************************************************************)

\* Faulty variant: the newest goes to the end from which the thread takes.
ReQueueAtEnd(p) ==
  /\ m_list' = Append(SelectSeq(m_list, LAMBDA q : q # p), p)
  /\ expires' = [expires EXCEPT ![p] = Delay]
  /\ step' = IF m_list = <<>> /\ step = "wait" THEN "check" ELSE step
  /\ hooked' = TRUE
  /\ owed' = owed \cup {p}
  /\ UNCHANGED <<lag, pause, element>>

\* reQueue, in a commit that leaves more than 1000 pages in the log: the path moves
\* to the front with a new time.  The thread is notified if the queue was empty.
ReQueue(p) ==
  /\ m_list' = <<p>> \o SelectSeq(m_list, LAMBDA q : q # p)
  /\ expires' = [expires EXCEPT ![p] = Delay]
  /\ step' = IF m_list = <<>> /\ step = "wait" THEN "check" ELSE step
  /\ hooked' = TRUE
  /\ owed' = owed \cup {p}
  /\ UNCHANGED <<lag, pause, element>>

\* A commit with a short log.
CommitShort ==
  /\ hooked' = TRUE
  /\ UNCHANGED <<m_list, expires, step, lag, pause, element, owed>>

\* The first hook that gets there makes the static thread.
StartThread ==
  /\ hooked /\ step = "none"
  /\ step' = "check"
  /\ UNCHANGED <<m_list, expires, hooked, lag, pause, element, owed>>

-----------------------------------------------------------------------------
(***************************************************************************)
(* The thread: waitUntilExpired, for ever.                                 *)
(***************************************************************************)

Check ==
  /\ step = "check"
  /\ step' = IF m_list = <<>> THEN "wait" ELSE "time"
  /\ UNCHANGED <<m_list, expires, hooked, lag, pause, element, owed>>

WakeWithoutCause ==
  /\ step = "wait"
  /\ step' = "check"
  /\ UNCHANGED <<m_list, expires, hooked, lag, pause, element, owed>>

\* The time is taken before the mutex.
TakeTime ==
  /\ step = "time"
  /\ step' = "look"
  /\ lag' = 0
  /\ UNCHANGED <<m_list, expires, hooked, pause, element, owed>>

\* The last of the queue has expired by the time that was taken.
PopExpired ==
  /\ expires[Last(m_list)] + lag < 0
  /\ element' = Last(m_list)
  /\ m_list' = Front(m_list)
  /\ step' = "checkpoint"
  /\ UNCHANGED pause

\* It has not: the thread sleeps for what was left of its time.
SleepUntilExpired ==
  /\ expires[Last(m_list)] + lag >= 0
  /\ pause' = expires[Last(m_list)] + lag
  /\ step' = "sleep"
  /\ UNCHANGED <<element, m_list>>

Look ==
  /\ step = "look"
  /\ PopExpired \/ SleepUntilExpired
  /\ lag' = 0
  /\ UNCHANGED <<expires, hooked, owed>>

StopSleeping ==
  /\ step = "sleep" /\ pause = 0
  /\ step' = "time"
  /\ UNCHANGED <<m_list, expires, hooked, lag, pause, element, owed>>

\* onExpired: the checkpoint, whose error is ignored.
Checkpoint ==
  /\ step = "checkpoint"
  /\ owed' = owed \ {element}
  /\ element' = Nowhere
  /\ step' = "check"
  /\ UNCHANGED <<m_list, expires, hooked, lag, pause>>

ThreadMoves == Check \/ TakeTime \/ Look \/ StopSleeping \/ Checkpoint

Tick ==
  /\ step = "look" => lag < MaxLag
  /\ expires' = [p \in Base |-> IF expires[p] > Expired THEN expires[p] - 1 ELSE Expired]
  /\ lag' = IF step = "look" THEN lag + 1 ELSE lag
  /\ pause' = IF pause > 0 THEN pause - 1 ELSE pause
  /\ UNCHANGED <<m_list, hooked, step, element, owed>>

QueueNext ==
  \/ \E p \in Base : ReQueue(p)
  \/ CommitShort \/ StartThread \/ ThreadMoves \/ WakeWithoutCause
  \/ Tick

\* The thread runs, is made by the hook that began to, and time passes.
QueueFairness ==
  WF_queueVars(StartThread) /\ WF_queueVars(ThreadMoves) /\ WF_queueVars(Tick)

QueueSpec == QueueInit /\ [][QueueNext]_queueVars /\ QueueFairness

-----------------------------------------------------------------------------
(***************************************************************************)
(* Properties.                                                             *)
(***************************************************************************)

\* A data base that has rested is checkpointed, however often others are queued
\* meanwhile: only its own commits put it off (timed_queue.hpp 41-95).
RestedIsCheckpointed ==
  \A p \in Base : []<><<ReQueue(p)>>_queueVars \/ []<>(p \notin owed)
=============================================================================
