-------------------------------- MODULE RWLock ------------------------------
(***************************************************************************)
(* The lock of a pool of database handles (WCDB's RWLock): many readers or *)
(* one writer, and no new reader while a writer waits.  It is a monitor:   *)
(* m_mutex is held from the entry of an operation to its return or to its  *)
(* wait on m_cond, so that each such stretch is one step.  A thread that   *)
(* waits sleeps until it is notified, or wakes for no reason, and then     *)
(* tests its condition again.  The lock does not know who holds it.        *)
(***************************************************************************)
EXTENDS Naturals

CONSTANT Thread

VARIABLES
  m_reader,   \* read locks held
  m_writer,   \* write locks held
  m_pending,  \* threads inside lockWrite that wait
  wants,      \* for every thread, what it waits for inside lockRead or lockWrite
  asleep      \* threads in m_cond.wait that nobody has notified yet

lockVars == <<m_reader, m_writer, m_pending, wants, asleep>>

LockTypeOK ==
  /\ m_reader \in Nat /\ m_writer \in Nat /\ m_pending \in Nat
  /\ wants \in [Thread -> {"nothing", "read", "write"}]
  /\ asleep \subseteq Thread

LockInit ==
  /\ m_reader = 0 /\ m_writer = 0 /\ m_pending = 0
  /\ wants = [t \in Thread |-> "nothing"]
  /\ asleep = {}

\* Faulty variant: readers do not step back for a writer that waits.
MayReadAlways == m_writer = 0

MayRead == m_writer = 0 /\ m_pending = 0

\* Faulty variant: a writer does not wait for the readers to leave.
MayWriteOverReaders == m_writer = 0

MayWrite == m_writer = 0 /\ m_reader = 0

Sleep(t) == asleep' = asleep \cup {t}

\* lockRead, up to its return or its first wait.
LockRead(t) ==
  /\ wants[t] = "nothing"
  /\ \/ MayRead /\ m_reader' = m_reader + 1 /\ UNCHANGED <<wants, asleep>>
     \/ ~MayRead /\ wants' = [wants EXCEPT ![t] = "read"] /\ Sleep(t) /\ UNCHANGED m_reader
  /\ UNCHANGED <<m_writer, m_pending>>

\* The loop of lockRead after a wait.
RetryRead(t) ==
  /\ wants[t] = "read" /\ t \notin asleep
  /\ \/ /\ MayRead
        /\ m_reader' = m_reader + 1
        /\ wants' = [wants EXCEPT ![t] = "nothing"]
        /\ UNCHANGED asleep
     \/ ~MayRead /\ Sleep(t) /\ UNCHANGED <<m_reader, wants>>
  /\ UNCHANGED <<m_writer, m_pending>>

\* lockWrite: a writer that need not wait is pending for no one to see.
LockWrite(t) ==
  /\ wants[t] = "nothing"
  /\ \/ MayWrite /\ m_writer' = m_writer + 1 /\ UNCHANGED <<m_pending, wants, asleep>>
     \/ /\ ~MayWrite
        /\ m_pending' = m_pending + 1
        /\ wants' = [wants EXCEPT ![t] = "write"]
        /\ Sleep(t)
        /\ UNCHANGED m_writer
  /\ UNCHANGED m_reader

RetryWrite(t) ==
  /\ wants[t] = "write" /\ t \notin asleep
  /\ \/ /\ MayWrite
        /\ m_pending' = m_pending - 1
        /\ m_writer' = m_writer + 1
        /\ wants' = [wants EXCEPT ![t] = "nothing"]
        /\ UNCHANGED asleep
     \/ ~MayWrite /\ Sleep(t) /\ UNCHANGED <<m_writer, m_pending, wants>>
  /\ UNCHANGED m_reader

\* Faulty variant: the last reader is expected to notify before it has left.
UnlockReadNotifiesEarly ==
  /\ m_reader > 0
  /\ asleep' = IF m_reader = 0 THEN {} ELSE asleep
  /\ m_reader' = m_reader - 1
  /\ UNCHANGED <<m_writer, m_pending, wants>>

UnlockRead ==
  /\ m_reader > 0
  /\ m_reader' = m_reader - 1
  /\ asleep' = IF m_reader' = 0 THEN {} ELSE asleep
  /\ UNCHANGED <<m_writer, m_pending, wants>>

UnlockWrite ==
  /\ m_writer > 0
  /\ m_writer' = m_writer - 1
  /\ asleep' = {}
  /\ UNCHANGED <<m_reader, m_pending, wants>>

\* A thread leaves m_cond.wait for no reason.
WakeSpuriously(t) ==
  /\ t \in asleep
  /\ asleep' = asleep \ {t}
  /\ UNCHANGED <<m_reader, m_writer, m_pending, wants>>

Wake(t) == RetryRead(t) \/ RetryWrite(t) \/ WakeSpuriously(t)

LockNext ==
  \/ \E t \in Thread : LockRead(t) \/ LockWrite(t) \/ Wake(t)
  \/ UnlockRead \/ UnlockWrite

LockSpec == LockInit /\ [][LockNext]_lockVars

-----------------------------------------------------------------------------
(***************************************************************************)
(* Properties.                                                             *)
(***************************************************************************)

\* A writer excludes readers and other writers.
Exclusion == m_writer <= 1 /\ (m_writer = 1 => m_reader = 0)

\* Nobody sleeps on a condition that holds: whoever makes it hold notifies all that
\* wait (unlockRead, unlockWrite), although lockWrite passes the lock on without.
NoLostWakeup ==
  \A t \in asleep :
    \/ wants[t] = "read" /\ ~MayRead
    \/ wants[t] = "write" /\ ~MayWrite
=============================================================================
