------------------------------ MODULE HandlePool ----------------------------
(***************************************************************************)
(* The pool of handles (database connections) that the database objects of *)
(* one path share (WCDB's HandlePool, used by Database).  Whoever has a    *)
(* handle holds a read lock on the pool, from flowOut to flowBack; closing *)
(* and blockading take the write lock.  The read locks keep off a close,   *)
(* and not each other: the list of free handles, the count of living ones  *)
(* and the configurations are changed by several threads at a time.        *)
(*                                                                         *)
(* As the interface demands, a thread keeps its handle, in a statement, in *)
(* a Transaction object or as s_threadedHandle, only for a while, has      *)
(* none when it closes or blockades, and asks for no second one; a thread  *)
(* that ends has committed or rolled back.                                 *)
(***************************************************************************)
EXTENDS RWLock, Integers, FiniteSets

CONSTANTS
  Handle,               \* bound: the handles that may live at the same time
  None,
  HardwareConcurrency,  \* capacity of the list of free handles
  MaxConcurrency,       \* no handle is made beyond; the source has 64
  MaxConfigs,           \* bound: how often the configuration is replaced
  CloseSeparately       \* whether a thread may close what it has blockaded

ASSUME PoolAssumption ==
  /\ None \notin Handle
  /\ IsFiniteSet(Handle) /\ IsFiniteSet(Thread)
  /\ HardwareConcurrency \in Nat \ {0} /\ MaxConcurrency \in Nat \ {0}
  /\ MaxConfigs \in Nat
  /\ CloseSeparately \in BOOLEAN

VARIABLES
  m_handles,           \* the free handles
  m_aliveHandleCount,
  m_configs,           \* the configurations, numbered as they replace each other
  configs,             \* HandleWrap.configs: what each handle was last set up with
  inTransaction,       \* handles with an open transaction
  m_isInTransaction,   \* handles whose Transaction object knows of theirs
  at,                  \* for every thread, where it is in its call or what it keeps
  use,                 \* what the call of flowOut is for
  hand,                \* the handle in the thread's hands
  size,                \* the number of handles that its call has cleared
  leaked               \* history: handles dropped without being subtracted

poolVars == <<m_handles, m_aliveHandleCount, m_configs, configs, inTransaction,
              m_isInTransaction, at, use, hand, size, leaked>>

Use == {"statement", "Transaction", "threaded"}
Calls == {"popBack", "generate", "count", "invoke", "begin",       \* flowOut
          "pushBack", "unlock", "subtract", "destroy",             \* flowBack
          "clear", "subtractCleared", "onClosed", "blockading",    \* drain, blockade
          "purge", "subtractPurged",                               \* purgeFreeHandles
          "fill", "fillPush", "fillCount", "fillUnlock"}           \* fillOne

PoolTypeOK ==
  /\ m_handles \subseteq Handle
  /\ m_aliveHandleCount \in Int
  /\ m_configs \in 0..MaxConfigs
  /\ configs \in [Handle -> 0..MaxConfigs]
  /\ inTransaction \subseteq Handle /\ m_isInTransaction \subseteq Handle
  /\ at \in [Thread -> {"idle"} \cup Use \cup Calls]
  /\ use \in [Thread -> Use]
  /\ hand \in [Thread -> Handle \cup {None}]
  /\ size \in [Thread -> Nat]
  /\ leaked \in Nat

PoolInit ==
  /\ LockInit
  /\ m_handles = {} /\ m_aliveHandleCount = 0
  /\ m_configs = 0 /\ configs = [h \in Handle |-> 0]
  /\ inTransaction = {} /\ m_isInTransaction = {}
  /\ at = [t \in Thread |-> "idle"]
  /\ use = [t \in Thread |-> "statement"]
  /\ hand = [t \in Thread |-> None]
  /\ size = [t \in Thread |-> 0]
  /\ leaked = 0

Alive == m_handles \cup ({hand[t] : t \in Thread} \ {None})

\* Thread t has the locks it asked for, and its call is at s; it goes on at n.
Moves(t, s, n) == at[t] = s /\ wants[t] = "nothing" /\ at' = [at EXCEPT ![t] = n]
Takes(t, h) == hand' = [hand EXCEPT ![t] = h]
Drops(t) == Takes(t, None)

-----------------------------------------------------------------------------
(***************************************************************************)
(* flowOut, and what it is for.                                            *)
(***************************************************************************)

FlowOut(t, u) ==
  /\ Moves(t, "idle", "popBack")
  /\ LockRead(t)
  /\ use' = [use EXCEPT ![t] = u]
  /\ UNCHANGED <<m_handles, m_aliveHandleCount, m_configs, configs, inTransaction,
                 m_isInTransaction, hand, size, leaked>>

PopBack(t) ==
  /\ \/ /\ m_handles # {}
        /\ Moves(t, "popBack", "invoke")
        /\ \E h \in m_handles : m_handles' = m_handles \ {h} /\ Takes(t, h)
     \/ /\ m_handles = {}
        /\ Moves(t, "popBack", IF m_aliveHandleCount < MaxConcurrency THEN "generate" ELSE "unlock")
        /\ UNCHANGED <<m_handles, hand>>
  /\ UNCHANGED <<lockVars, m_aliveHandleCount, m_configs, configs, inTransaction,
                 m_isInTransaction, use, size, leaked>>

\* generate: a new handle is opened and set up with the configurations of the
\* moment, or that fails and nothing is left of it.
Generate(t, step, made, failed) ==
  /\ \/ /\ Moves(t, step, made)
        /\ \E h \in Handle \ Alive : Takes(t, h) /\ configs' = [configs EXCEPT ![h] = m_configs]
     \/ Moves(t, step, failed) /\ UNCHANGED <<hand, configs>>
  /\ UNCHANGED <<lockVars, m_handles, m_aliveHandleCount, m_configs, inTransaction,
                 m_isInTransaction, use, size, leaked>>

Count(t) ==
  /\ Moves(t, "count", "invoke")
  /\ m_aliveHandleCount' = m_aliveHandleCount + 1
  /\ UNCHANGED <<lockVars, m_handles, m_configs, configs, inTransaction,
                 m_isInTransaction, use, hand, size, leaked>>

\* The handle is set up anew if the configurations have been replaced.
Invoke(t) ==
  /\ Moves(t, "invoke", IF use[t] = "threaded" THEN "begin" ELSE use[t])
  /\ configs' = [configs EXCEPT ![hand[t]] = m_configs]
  /\ UNCHANGED <<lockVars, m_handles, m_aliveHandleCount, m_configs, inTransaction,
                 m_isInTransaction, use, hand, size, leaked>>

\* That fails: the handle is closed, and stays in the count.
InvokeFails(t) ==
  /\ Moves(t, "invoke", "unlock")
  /\ configs[hand[t]] # m_configs
  /\ Drops(t)
  /\ leaked' = leaked + 1
  /\ UNCHANGED <<lockVars, m_handles, m_aliveHandleCount, m_configs, configs, inTransaction,
                 m_isInTransaction, use, size>>

SetConfig ==
  /\ m_configs < MaxConfigs
  /\ m_configs' = m_configs + 1
  /\ UNCHANGED <<lockVars, m_handles, m_aliveHandleCount, configs, inTransaction,
                 m_isInTransaction, at, use, hand, size, leaked>>

-----------------------------------------------------------------------------
(***************************************************************************)
(* Transactions.  BEGIN IMMEDIATE succeeds on one handle at a time; COMMIT  *)
(* may fail and leaves the transaction open; after ROLLBACK there is none. *)
(***************************************************************************)

SqlBegins(h) == inTransaction = {} /\ inTransaction' = {h}
SqlEnds(h) == inTransaction' = inTransaction \ {h}

\* Database::begin, after its flowOut.
Begin(t) ==
  /\ \/ Moves(t, "begin", "threaded") /\ SqlBegins(hand[t])
     \/ Moves(t, "begin", "pushBack") /\ UNCHANGED inTransaction
  /\ UNCHANGED <<lockVars, m_handles, m_aliveHandleCount, m_configs, configs,
                 m_isInTransaction, use, hand, size, leaked>>

\* Faulty variant: the handle is given back whether or not COMMIT succeeds.
CommitErasesAlways(t) ==
  /\ Moves(t, "threaded", "pushBack")
  /\ SqlEnds(hand[t]) \/ UNCHANGED inTransaction
  /\ UNCHANGED <<lockVars, m_handles, m_aliveHandleCount, m_configs, configs,
                 m_isInTransaction, use, hand, size, leaked>>

\* Database::commit: s_threadedHandle is erased on success, which gives it back.
Commit(t) ==
  /\ \/ Moves(t, "threaded", "pushBack") /\ SqlEnds(hand[t])
     \/ Moves(t, "threaded", "threaded") /\ UNCHANGED inTransaction
  /\ UNCHANGED <<lockVars, m_handles, m_aliveHandleCount, m_configs, configs,
                 m_isInTransaction, use, hand, size, leaked>>

\* Database::rollback: it is erased in any case.
Rollback(t) ==
  /\ Moves(t, "threaded", "pushBack")
  /\ SqlEnds(hand[t])
  /\ UNCHANGED <<lockVars, m_handles, m_aliveHandleCount, m_configs, configs,
                 m_isInTransaction, use, hand, size, leaked>>

\* begin, commit and rollback of a Transaction object.
TransactionBegin(t) ==
  /\ Moves(t, "Transaction", "Transaction")
  /\ SqlBegins(hand[t])
  /\ m_isInTransaction' = m_isInTransaction \cup {hand[t]}
  /\ UNCHANGED <<lockVars, m_handles, m_aliveHandleCount, m_configs, configs,
                 use, hand, size, leaked>>

TransactionCommit(t) ==
  /\ Moves(t, "Transaction", "Transaction")
  /\ hand[t] \in inTransaction
  /\ \/ SqlEnds(hand[t]) /\ m_isInTransaction' = m_isInTransaction \ {hand[t]}
     \/ UNCHANGED <<inTransaction, m_isInTransaction>>
  /\ UNCHANGED <<lockVars, m_handles, m_aliveHandleCount, m_configs, configs,
                 use, hand, size, leaked>>

TransactionRollback(t) ==
  /\ Moves(t, "Transaction", "Transaction")
  /\ SqlEnds(hand[t])
  /\ m_isInTransaction' = m_isInTransaction \ {hand[t]}
  /\ UNCHANGED <<lockVars, m_handles, m_aliveHandleCount, m_configs, configs,
                 use, hand, size, leaked>>

-----------------------------------------------------------------------------
(***************************************************************************)
(* flowBack.                                                               *)
(***************************************************************************)

\* A statement, or a Transaction object, is released; the latter rolls back the
\* transaction that it knows of.
Release(t) ==
  /\ \/ Moves(t, "statement", "pushBack")
     \/ Moves(t, "Transaction", "pushBack")
  /\ inTransaction' = inTransaction \ (m_isInTransaction \cap {hand[t]})
  /\ m_isInTransaction' = m_isInTransaction \ {hand[t]}
  /\ UNCHANGED <<lockVars, m_handles, m_aliveHandleCount, m_configs, configs,
                 use, hand, size, leaked>>

\* The handle is put into the list if there is room.
PushBack(t) ==
  /\ Moves(t, "pushBack", "unlock")
  /\ IF Cardinality(m_handles) < HardwareConcurrency
       THEN m_handles' = m_handles \cup {hand[t]} /\ Drops(t)
       ELSE UNCHANGED <<m_handles, hand>>
  /\ UNCHANGED <<lockVars, m_aliveHandleCount, m_configs, configs, inTransaction,
                 m_isInTransaction, use, size, leaked>>

\* The read lock is given up before a handle without room is subtracted.
Unlock(t) ==
  /\ Moves(t, "unlock", IF hand[t] = None THEN "idle" ELSE "subtract")
  /\ UnlockRead
  /\ UNCHANGED <<m_handles, m_aliveHandleCount, m_configs, configs, inTransaction,
                 m_isInTransaction, use, hand, size, leaked>>

\* Faulty variant: a handle without room is not subtracted.
SubtractNothing(t) ==
  /\ Moves(t, "subtract", "destroy")
  /\ UNCHANGED <<lockVars, m_handles, m_aliveHandleCount, m_configs, configs, inTransaction,
                 m_isInTransaction, use, hand, size, leaked>>

Subtract(t) ==
  /\ Moves(t, "subtract", "destroy")
  /\ m_aliveHandleCount' = m_aliveHandleCount - 1
  /\ UNCHANGED <<lockVars, m_handles, m_configs, configs, inTransaction,
                 m_isInTransaction, use, hand, size, leaked>>

\* The last reference goes, and with it the connection.
Destroy(t) ==
  /\ Moves(t, "destroy", "idle")
  /\ Drops(t)
  /\ UNCHANGED <<lockVars, m_handles, m_aliveHandleCount, m_configs, configs, inTransaction,
                 m_isInTransaction, use, size, leaked>>

-----------------------------------------------------------------------------
(***************************************************************************)
(* drain, blockade, purgeFreeHandles, fillOne.                             *)
(***************************************************************************)

\* close: may follow a blockade by the same thread, if the caller does so.
Close(t) ==
  /\ \/ Moves(t, "idle", "clear")
     \/ CloseSeparately /\ Moves(t, "blockading", "clear")
  /\ LockWrite(t)
  /\ UNCHANGED <<m_handles, m_aliveHandleCount, m_configs, configs, inTransaction,
                 m_isInTransaction, use, hand, size, leaked>>

Purge(t) ==
  /\ Moves(t, "idle", "purge")
  /\ LockRead(t)
  /\ UNCHANGED <<m_handles, m_aliveHandleCount, m_configs, configs, inTransaction,
                 m_isInTransaction, use, hand, size, leaked>>

\* The free handles are closed.
Clear(t) ==
  /\ Moves(t, "clear", "subtractCleared") \/ Moves(t, "purge", "subtractPurged")
  /\ m_handles' = {}
  /\ size' = [size EXCEPT ![t] = Cardinality(m_handles)]
  /\ UNCHANGED <<lockVars, m_aliveHandleCount, m_configs, configs, inTransaction,
                 m_isInTransaction, use, hand, leaked>>

SubtractCleared(t) ==
  /\ Moves(t, "subtractCleared", "onClosed") \/ Moves(t, "subtractPurged", "unlock")
  /\ m_aliveHandleCount' = m_aliveHandleCount - size[t]
  /\ size' = [size EXCEPT ![t] = 0]
  /\ UNCHANGED <<lockVars, m_handles, m_configs, configs, inTransaction,
                 m_isInTransaction, use, hand, leaked>>

Blockade(t) ==
  /\ Moves(t, "idle", "blockading")
  /\ LockWrite(t)
  /\ UNCHANGED <<m_handles, m_aliveHandleCount, m_configs, configs, inTransaction,
                 m_isInTransaction, use, hand, size, leaked>>

\* onClosed has returned, or unblockade is called.
UnlockPool(t) ==
  /\ Moves(t, "onClosed", "idle") \/ Moves(t, "blockading", "idle")
  /\ UnlockWrite
  /\ UNCHANGED <<m_handles, m_aliveHandleCount, m_configs, configs, inTransaction,
                 m_isInTransaction, use, hand, size, leaked>>

\* canOpen: a drained pool gets a free handle.
CanOpen(t) ==
  /\ m_aliveHandleCount = 0
  /\ Moves(t, "idle", "fill")
  /\ LockRead(t)
  /\ UNCHANGED <<m_handles, m_aliveHandleCount, m_configs, configs, inTransaction,
                 m_isInTransaction, use, hand, size, leaked>>

FillPush(t) ==
  /\ \/ /\ Cardinality(m_handles) < HardwareConcurrency
        /\ Moves(t, "fillPush", "fillCount")
        /\ m_handles' = m_handles \cup {hand[t]} /\ Drops(t)
     \/ /\ Cardinality(m_handles) >= HardwareConcurrency
        /\ Moves(t, "fillPush", "fillUnlock")
        /\ UNCHANGED <<m_handles, hand>>
  /\ UNCHANGED <<lockVars, m_aliveHandleCount, m_configs, configs, inTransaction,
                 m_isInTransaction, use, size, leaked>>

FillCount(t) ==
  /\ Moves(t, "fillCount", "unlock")
  /\ m_aliveHandleCount' = m_aliveHandleCount + 1
  /\ UNCHANGED <<lockVars, m_handles, m_configs, configs, inTransaction,
                 m_isInTransaction, use, hand, size, leaked>>

\* A handle without room lives until fillOne returns, and was never counted.
FillUnlock(t) ==
  /\ Moves(t, "fillUnlock", "destroy")
  /\ UnlockRead
  /\ UNCHANGED <<m_handles, m_aliveHandleCount, m_configs, configs, inTransaction,
                 m_isInTransaction, use, hand, size, leaked>>

-----------------------------------------------------------------------------

WakeUp(t) == Wake(t) /\ UNCHANGED poolVars

\* The steps of a call under way.
Continue(t) ==
  \/ PopBack(t) \/ Generate(t, "generate", "count", "unlock") \/ Count(t)
  \/ Invoke(t) \/ InvokeFails(t) \/ Begin(t)
  \/ PushBack(t) \/ Unlock(t) \/ Subtract(t) \/ Destroy(t)
  \/ Clear(t) \/ SubtractCleared(t)
  \/ Generate(t, "fill", "fillPush", "unlock") \/ FillPush(t) \/ FillCount(t) \/ FillUnlock(t)

\* What a thread does with the handle it keeps.
Work(t) ==
  Commit(t) \/ Rollback(t) \/ TransactionBegin(t) \/ TransactionCommit(t) \/ TransactionRollback(t)

PoolNext ==
  \/ \E t \in Thread :
       \/ \E u \in Use : FlowOut(t, u)
       \/ Close(t) \/ Purge(t) \/ Blockade(t) \/ CanOpen(t)
       \/ WakeUp(t) \/ Continue(t) \/ Work(t) \/ Release(t) \/ UnlockPool(t)
  \/ SetConfig

\* Calls run to their end and threads that are notified run; whoever keeps a handle,
\* a transaction or a blockade gives it up, as the interface demands.  Nothing
\* obliges anyone to call, nor a COMMIT to succeed.
PoolFairness ==
  \A t \in Thread :
    /\ WF_<<lockVars, poolVars>>(RetryRead(t) /\ UNCHANGED poolVars)
    /\ WF_<<lockVars, poolVars>>(RetryWrite(t) /\ UNCHANGED poolVars)
    /\ WF_<<lockVars, poolVars>>(Continue(t))
    /\ WF_<<lockVars, poolVars>>(Rollback(t))
    /\ WF_<<lockVars, poolVars>>(Release(t))
    /\ WF_<<lockVars, poolVars>>(UnlockPool(t))

PoolSafety == PoolInit /\ [][PoolNext]_<<lockVars, poolVars>>
PoolSpec == PoolSafety /\ PoolFairness

-----------------------------------------------------------------------------
(***************************************************************************)
(* Properties.                                                             *)
(***************************************************************************)

Closing(t) == at[t] \in {"subtractCleared", "onClosed", "blockading"} /\ wants[t] = "nothing"
InUse(t) == hand[t] # None /\ at[t] \notin {"subtract", "destroy"}

\* While a close or a blockade has the pool no thread has a handle in use: every one
\* that was out has come back or is being destroyed, and none goes out (drain and
\* blockade against flowOut, flowBack, purgeFreeHandles and fillOne in other threads).
ClosedIsExclusive ==
  \A t, u \in Thread : Closing(t) => ~InUse(u) /\ (Closing(u) => u = t)

\* In onClosed no handle lives: the database's files may be moved or removed.
ClosedIsClosed == \A t \in Thread : at[t] = "onClosed" => Alive = {}

\* Handles in the count that are not alive yet or no longer, and the other way.
Made == {t \in Thread : at[t] \in {"count", "fillPush", "fillCount", "fillUnlock"}}
Leaving == {t \in Thread : at[t] = "destroy"}
\* The handles that threads have cleared from the list and not yet subtracted.
Cleared == UNION {{t} \X (1..size[t]) : t \in Thread}

\* The count is the number of living handles, give or take those that a call is
\* about to count or subtract, and those that failed to be configured, however
\* many threads change list and count at the same time.
CountIsAlive ==
  m_aliveHandleCount =
    Cardinality(Alive) + Cardinality(Cleared) + leaked - Cardinality(Made \cup Leaving)

\* A connection is used by one thread at a time, which is what it is built for
\* (SQLITE_CONFIG_MULTITHREAD), and a free one has no transaction open.
OneUser ==
  /\ \A t, u \in Thread : hand[t] = hand[u] /\ hand[t] # None => t = u
  /\ \A t \in Thread : hand[t] \notin m_handles
  /\ m_handles \cap inTransaction = {}

\* A close or blockade that waits is not kept off by statements for ever: the pool
\* is given to it, or to another.
WriterGetsIn == (m_pending > 0) ~> (m_writer > 0)

\* A close after a blockade of the same thread gets to its onClosed.
SeparateCloseCloses ==
  \A t \in Thread : (at[t] = "clear") ~> (at[t] = "onClosed")
=============================================================================
