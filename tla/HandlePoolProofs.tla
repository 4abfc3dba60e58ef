-------------------------- MODULE HandlePoolProofs --------------------------
(***************************************************************************)
(* For any number of threads and handles and any limits: the lock of a     *)
(* pool excludes and forgets nobody, and what the pool builds on it: one   *)
(* user of a handle, closing excluded from use, the count of handles.  For *)
(* any number of objects, pools and paths: the table of pools is right     *)
(* until an object is given up that shares its pool with a tagged one.     *)
(* For any number of threads that change configurations: the list stays in *)
(* order, and a handle is set up with what was asked for last.             *)
(***************************************************************************)
EXTENDS HandlePool, Configs, PoolTable, FiniteSetTheorems, SequenceTheorems,
        LoopInduction

-----------------------------------------------------------------------------
(***************************************************************************)
(* The lock by itself.                                                     *)
(***************************************************************************)

WaitingWriters == {t \in Thread : wants[t] = "write"}

\* Without it a sleeping reader could lose the writer for which it stepped back.
PendingCounted == m_pending = Cardinality(WaitingWriters)

LockInv == LockTypeOK /\ Exclusion /\ NoLostWakeup /\ PendingCounted

\* One element more, or less, in a set of threads.
LEMMA OneMore ==
  ASSUME NEW S \in SUBSET Thread, NEW t \in Thread, t \notin S
  PROVE  Cardinality(S \cup {t}) = Cardinality(S) + 1 /\ Cardinality(S) \in Nat
<1>1. IsFiniteSet(S)
  BY PoolAssumption, FS_Subset
<1> QED  BY <1>1, FS_AddElement, FS_CardinalityType

LEMMA OneLess ==
  ASSUME NEW S \in SUBSET Thread, NEW t \in S
  PROVE  /\ Cardinality(S \ {t}) = Cardinality(S) - 1
         /\ Cardinality(S) \in Nat \ {0}
         /\ Cardinality(S \ {t}) \in Nat
<1>1. IsFiniteSet(S) /\ IsFiniteSet(S \ {t})
  BY PoolAssumption, FS_Subset
<1>2. Cardinality(S) \in Nat /\ Cardinality(S \ {t}) \in Nat
  BY <1>1, FS_CardinalityType
<1>3. Cardinality(S \ {t}) = Cardinality(S) - 1
  BY <1>1, FS_RemoveElement
<1> QED  BY <1>2, <1>3

LEMMA LockInitInv == LockInit => LockInv
<1> SUFFICES ASSUME LockInit  PROVE LockInv
  OBVIOUS
<1>1. LockTypeOK /\ Exclusion /\ NoLostWakeup
  BY DEF LockInit, LockTypeOK, Exclusion, NoLostWakeup
<1>2. WaitingWriters = {}
  BY DEF LockInit, WaitingWriters
<1>3. PendingCounted
  BY <1>2, FS_EmptySet DEF LockInit, PendingCounted
<1> QED  BY <1>1, <1>3 DEF LockInv

\* lockRead and its loop: the writers that wait stay the same.
LEMMA ReadKeepsLock ==
  ASSUME LockInv, NEW t \in Thread, LockRead(t) \/ RetryRead(t)
  PROVE  LockInv'
<1> USE DEF LockInv
<1>1. LockTypeOK'
  BY DEF LockTypeOK, LockRead, RetryRead, Sleep
<1>2. Exclusion'
  BY DEF LockTypeOK, LockRead, RetryRead, Exclusion, MayRead
<1>3. NoLostWakeup'
  BY DEF LockTypeOK, LockRead, RetryRead, Sleep, NoLostWakeup, MayRead, MayWrite
<1>4. WaitingWriters' = WaitingWriters
  BY DEF LockTypeOK, LockRead, RetryRead, WaitingWriters
<1>5. PendingCounted'
  BY <1>4 DEF LockRead, RetryRead, PendingCounted
<1> QED  BY <1>1, <1>2, <1>3, <1>5

\* lockWrite and its loop: a writer begins or ends to wait.
LEMMA WriteKeepsLock ==
  ASSUME LockInv, NEW t \in Thread, LockWrite(t) \/ RetryWrite(t)
  PROVE  LockInv'
<1> USE DEF LockInv
<1>0. WaitingWriters \in SUBSET Thread
  BY DEF WaitingWriters
<1>1. PendingCounted' /\ m_pending' \in Nat
  <2>1. CASE UNCHANGED <<m_pending, wants>>
    BY <2>1 DEF PendingCounted, WaitingWriters, LockTypeOK
  <2>2. CASE LockWrite(t) /\ ~MayWrite
    <3>1. t \notin WaitingWriters /\ WaitingWriters' = WaitingWriters \cup {t}
      BY <2>2 DEF LockWrite, WaitingWriters, LockTypeOK
    <3> QED  BY <1>0, <2>2, <3>1, OneMore DEF LockWrite, PendingCounted
  <2>3. CASE RetryWrite(t) /\ MayWrite
    <3>1. t \in WaitingWriters /\ WaitingWriters' = WaitingWriters \ {t}
      BY <2>3 DEF RetryWrite, WaitingWriters, LockTypeOK
    <3> QED  BY <1>0, <2>3, <3>1, OneLess DEF RetryWrite, PendingCounted
  <2> QED  BY <2>1, <2>2, <2>3 DEF LockWrite, RetryWrite
<1>2. LockTypeOK'
  BY <1>1 DEF LockTypeOK, LockWrite, RetryWrite, Sleep
<1>3. Exclusion'
  BY DEF LockTypeOK, LockWrite, RetryWrite, Exclusion, MayWrite
<1>4. NoLostWakeup'
  BY DEF LockTypeOK, LockWrite, RetryWrite, Sleep, NoLostWakeup, MayRead, MayWrite
<1> QED  BY <1>1, <1>2, <1>3, <1>4

\* The unlocks, and waking for no reason.
LEMMA UnlockKeepsLock ==
  ASSUME LockInv, UnlockRead \/ UnlockWrite \/ \E t \in Thread : WakeSpuriously(t)
  PROVE  LockInv'
<1> USE DEF LockInv
<1>1. LockTypeOK'
  BY DEF LockTypeOK, UnlockRead, UnlockWrite, WakeSpuriously
<1>2. Exclusion'
  BY DEF LockTypeOK, UnlockRead, UnlockWrite, WakeSpuriously, Exclusion
<1>3. NoLostWakeup'
  BY DEF LockTypeOK, UnlockRead, UnlockWrite, WakeSpuriously, NoLostWakeup, MayRead, MayWrite
<1>4. PendingCounted'
  BY DEF UnlockRead, UnlockWrite, WakeSpuriously, PendingCounted, WaitingWriters
<1> QED  BY <1>1, <1>2, <1>3, <1>4

LEMMA LockStep == LockInv /\ [LockNext]_lockVars => LockInv'
<1> SUFFICES ASSUME LockInv, [LockNext]_lockVars  PROVE LockInv'
  OBVIOUS
<1>1. CASE \E t \in Thread : LockRead(t) \/ RetryRead(t)
  BY <1>1, ReadKeepsLock
<1>2. CASE \E t \in Thread : LockWrite(t) \/ RetryWrite(t)
  BY <1>2, WriteKeepsLock
<1>3. CASE UnlockRead \/ UnlockWrite \/ \E t \in Thread : WakeSpuriously(t)
  BY <1>3, UnlockKeepsLock
<1>4. CASE UNCHANGED lockVars
  BY <1>4 DEF lockVars, LockInv, LockTypeOK, Exclusion, NoLostWakeup, MayRead, MayWrite,
              PendingCounted, WaitingWriters
<1> QED  BY <1>1, <1>2, <1>3, <1>4 DEF LockNext, Wake

\* RWLock, whoever uses it by its contract, lets a writer be alone and leaves
\* nobody asleep who could go on.
THEOREM LockIsSafe == LockSpec => [](Exclusion /\ NoLostWakeup)
<1>1. LockInv => Exclusion /\ NoLostWakeup
  BY DEF LockInv
<1> QED  BY <1>1, LockInitInv, LockStep, PTL DEF LockSpec

-----------------------------------------------------------------------------
(***************************************************************************)
(* The pool keeps the contract of its lock: each of its steps is one of    *)
(* the lock's, or leaves the lock alone.                                   *)
(***************************************************************************)

LEMMA PoolStepIsLockStep == [PoolNext]_<<lockVars, poolVars>> => [LockNext]_lockVars
<1> SUFFICES ASSUME PoolNext  PROVE LockNext \/ UNCHANGED lockVars
  BY DEF lockVars
<1>1. CASE \E t \in Thread : \/ \E u \in Use : FlowOut(t, u)
                             \/ Close(t) \/ Purge(t) \/ Blockade(t) \/ CanOpen(t)
                             \/ WakeUp(t) \/ UnlockPool(t)
  BY <1>1 DEF FlowOut, Close, Purge, Blockade, CanOpen, WakeUp, UnlockPool, LockNext
<1>2. CASE \E t \in Thread : Work(t) \/ Release(t)
  BY <1>2 DEF Work, Commit, Rollback, TransactionBegin, TransactionCommit,
              TransactionRollback, Release
<1>3. CASE \E t \in Thread : Unlock(t) \/ FillUnlock(t)
  BY <1>3 DEF Unlock, FillUnlock, LockNext
<1>4. CASE \E t \in Thread :
             \/ PopBack(t) \/ Generate(t, "generate", "count", "unlock") \/ Count(t)
             \/ Invoke(t) \/ InvokeFails(t) \/ Begin(t)
             \/ PushBack(t) \/ Subtract(t) \/ Destroy(t)
             \/ Clear(t) \/ SubtractCleared(t)
             \/ Generate(t, "fill", "fillPush", "unlock") \/ FillPush(t) \/ FillCount(t)
  BY <1>4 DEF PopBack, Generate, Count, Invoke, InvokeFails, Begin, PushBack, Subtract,
              Destroy, Clear, SubtractCleared, FillPush, FillCount
<1>5. CASE SetConfig
  BY <1>5 DEF SetConfig
<1> QED  BY <1>1, <1>2, <1>3, <1>4, <1>5 DEF PoolNext, Continue

\* No thread of a pool sleeps while it could go on (the condition variable of the
\* pool's RWLock).
THEOREM NobodyIsForgotten == PoolSafety => []NoLostWakeup
<1>1. PoolInit => LockInit
  BY DEF PoolInit
<1>2. PoolSafety => LockSpec
  BY <1>1, PoolStepIsLockStep, PTL DEF PoolSafety, LockSpec
<1> QED  BY <1>2, LockIsSafe, PTL

-----------------------------------------------------------------------------
(***************************************************************************)
(* Where a thread is says what it holds.                                   *)
(***************************************************************************)

ReadPlaces == {"popBack", "generate", "count", "invoke", "begin", "statement", "Transaction",
               "threaded", "pushBack", "unlock", "purge", "subtractPurged",
               "fill", "fillPush", "fillCount", "fillUnlock"}
WritePlaces == {"clear", "subtractCleared", "onClosed", "blockading"}
HandPlaces == {"count", "invoke", "begin", "statement", "Transaction", "threaded", "pushBack",
               "subtract", "destroy", "fillPush", "fillUnlock"}

\* What PoolTypeOK says of the variables that the following is about.
PlacesOK ==
  /\ at \in [Thread -> {"idle"} \cup Use \cup Calls]
  /\ use \in [Thread -> Use]
  /\ hand \in [Thread -> Handle \cup {None}]
  /\ m_handles \subseteq Handle
  /\ inTransaction \subseteq Handle /\ m_isInTransaction \subseteq Handle

HandFollowsPlace ==
  \A t \in Thread :
    /\ at[t] \in HandPlaces => hand[t] \in Handle
    /\ hand[t] # None => at[t] \in HandPlaces \cup {"unlock"}

HandsDiffer ==
  /\ \A t, u \in Thread : hand[t] = hand[u] /\ hand[t] # None => t = u
  /\ \A t \in Thread : hand[t] \notin m_handles

\* A handle with an open transaction is in the hands of a thread that will end it.
OpenIsKept ==
  \A h \in inTransaction : \E t \in Thread :
    /\ hand[t] = h
    /\ at[t] = "threaded" \/ (at[t] = "Transaction" /\ h \in m_isInTransaction)

UserInv == PlacesOK /\ HandFollowsPlace /\ HandsDiffer /\ OpenIsKept

LEMMA UserInit == PoolInit => UserInv
BY PoolAssumption DEF PoolInit, UserInv, PlacesOK, HandFollowsPlace, HandsDiffer, OpenIsKept, HandPlaces,
   Use, Calls

\* Steps that change no hand, list or transaction.
LEMMA MoveKeepsUsers ==
  ASSUME UserInv, NEW t \in Thread, NEW s \in {"idle"} \cup Use \cup Calls,
         NEW n \in {"idle"} \cup Use \cup Calls, Moves(t, s, n),
         use' \in [Thread -> Use],
         UNCHANGED <<hand, m_handles, inTransaction, m_isInTransaction>>,
         n \in HandPlaces => s \in HandPlaces \/ (s = "unlock" /\ hand[t] # None),
         s \in HandPlaces => n \in HandPlaces \cup {"unlock"},
         s = "unlock" => n \in HandPlaces \/ hand[t] = None,
         s \notin {"threaded", "Transaction"} \/ n = s
  PROVE  UserInv'
<1> USE DEF UserInv
<1>1. PlacesOK'
  BY DEF PlacesOK, Moves
<1>2. HandFollowsPlace'
  BY DEF PlacesOK, HandFollowsPlace, Moves
<1>3. HandsDiffer'
  BY DEF HandsDiffer
<1>4. OpenIsKept'
  BY DEF PlacesOK, OpenIsKept, Moves
<1> QED  BY <1>1, <1>2, <1>3, <1>4

LEMMA TakingKeepsUsers ==
  ASSUME UserInv, NEW t \in Thread,
         \/ PopBack(t)
         \/ Generate(t, "generate", "count", "unlock")
         \/ Generate(t, "fill", "fillPush", "unlock")
  PROVE  UserInv'
<1> USE DEF UserInv
<1>0. hand[t] = None
  BY DEF PopBack, Generate, Moves, HandFollowsPlace, HandPlaces
<1>1. PlacesOK'
  BY DEF PopBack, Generate, Moves, Takes, PlacesOK, Use, Calls
<1>2. HandFollowsPlace'
  BY <1>0, PoolAssumption DEF PopBack, Generate, Moves, Takes, PlacesOK, HandFollowsPlace, HandPlaces
<1>3. HandsDiffer'
  BY <1>0, PoolAssumption DEF PopBack, Generate, Takes, Alive, PlacesOK, HandsDiffer
<1>4. OpenIsKept'
  <2> SUFFICES ASSUME NEW h \in inTransaction
               PROVE  \E u \in Thread : /\ hand'[u] = h
                                        /\ at'[u] = "threaded" \/ (at'[u] = "Transaction" /\ h \in m_isInTransaction)
    BY DEF PopBack, Generate, OpenIsKept
  <2>1. PICK u \in Thread : /\ hand[u] = h
                            /\ at[u] = "threaded" \/ (at[u] = "Transaction" /\ h \in m_isInTransaction)
    BY DEF OpenIsKept
  <2>2. u # t
    BY <2>1, <1>0, PoolAssumption DEF PlacesOK
  <2>3. hand'[u] = hand[u] /\ at'[u] = at[u]
    BY <2>2 DEF PopBack, Generate, Moves, Takes, PlacesOK
  <2> QED  BY <2>1, <2>3
<1> QED  BY <1>1, <1>2, <1>3, <1>4

LEMMA DroppingKeepsUsers ==
  ASSUME UserInv, NEW t \in Thread,
         PushBack(t) \/ FillPush(t) \/ Destroy(t) \/ InvokeFails(t) \/ Clear(t)
  PROVE  UserInv'
<1> USE DEF UserInv
<1>0. /\ at[t] \in {"pushBack", "fillPush", "destroy", "invoke", "clear", "purge"}
      /\ at' = [at EXCEPT ![t] = at'[t]]
      /\ at'[t] \in {"unlock", "fillCount", "fillUnlock", "idle", "subtractCleared", "subtractPurged"}
      /\ UNCHANGED <<use, inTransaction, m_isInTransaction>>
  BY DEF PushBack, FillPush, Destroy, InvokeFails, Clear, Moves, PlacesOK
<1>1. hand[t] \notin inTransaction
  <2> SUFFICES ASSUME hand[t] \in inTransaction  PROVE FALSE
    OBVIOUS
  <2>1. PICK u \in Thread : hand[u] = hand[t] /\ at[u] \in {"threaded", "Transaction"}
    BY DEF OpenIsKept
  <2>2. u = t
    BY <2>1, PoolAssumption DEF HandsDiffer, PlacesOK
  <2> QED  BY <1>0, <2>1, <2>2
<1>2. PlacesOK'
  <2>1. m_handles' \subseteq Handle
    BY DEF PushBack, FillPush, Destroy, InvokeFails, Clear, Moves, PlacesOK, HandFollowsPlace, HandPlaces
  <2>2. hand' \in [Thread -> Handle \cup {None}]
    BY DEF PushBack, FillPush, Destroy, InvokeFails, Clear, Drops, Takes, PlacesOK
  <2> QED  BY <1>0, <2>1, <2>2 DEF PlacesOK, Calls
<1>3. HandFollowsPlace'
  BY DEF PushBack, FillPush, Destroy, InvokeFails, Clear, Moves, Drops, Takes, PlacesOK,
         HandFollowsPlace, HandPlaces
<1>4. HandsDiffer'
  BY PoolAssumption DEF PushBack, FillPush, Destroy, InvokeFails, Clear, Moves, Drops, Takes, PlacesOK,
     HandsDiffer, HandFollowsPlace, HandPlaces
<1>5. OpenIsKept'
  <2> SUFFICES ASSUME NEW h \in inTransaction
               PROVE  \E u \in Thread : /\ hand'[u] = h
                                        /\ at'[u] = "threaded" \/ (at'[u] = "Transaction" /\ h \in m_isInTransaction)
    BY <1>0 DEF OpenIsKept
  <2>1. PICK u \in Thread : /\ hand[u] = h
                            /\ at[u] = "threaded" \/ (at[u] = "Transaction" /\ h \in m_isInTransaction)
    BY DEF OpenIsKept
  <2>2. u # t
    BY <1>1, <2>1
  <2>3. hand'[u] = hand[u] /\ at'[u] = at[u]
    BY <1>0, <2>2 DEF PushBack, FillPush, Destroy, InvokeFails, Clear, Drops, Takes, PlacesOK
  <2> QED  BY <2>1, <2>3
<1> QED  BY <1>2, <1>3, <1>4, <1>5

\* The steps of transactions, and the release of what holds a handle.
LEMMA TransactionsKeepUsers ==
  ASSUME UserInv, NEW t \in Thread,
         \/ Begin(t) \/ Commit(t) \/ Rollback(t) \/ Release(t)
         \/ TransactionBegin(t) \/ TransactionCommit(t) \/ TransactionRollback(t)
  PROVE  UserInv'
<1> USE DEF UserInv
<1>0. /\ at[t] \in {"begin", "threaded", "Transaction", "statement"}
      /\ at' = [at EXCEPT ![t] = at'[t]]
      /\ at'[t] \in {"threaded", "pushBack", "Transaction"}
      /\ hand[t] \in Handle
      /\ UNCHANGED <<use, m_handles, hand>>
  BY DEF Begin, Commit, Rollback, Release, TransactionBegin, TransactionCommit, TransactionRollback,
         Moves, PlacesOK, HandFollowsPlace, HandPlaces
<1>1. PlacesOK'
  <2>1. inTransaction' \subseteq Handle /\ m_isInTransaction' \subseteq Handle
    BY <1>0 DEF Begin, Commit, Rollback, Release, TransactionBegin, TransactionCommit,
         TransactionRollback, SqlBegins, SqlEnds, PlacesOK
  <2> QED  BY <1>0, <2>1 DEF PlacesOK, Use, Calls
<1>2. HandFollowsPlace'
  BY <1>0 DEF PlacesOK, HandFollowsPlace, HandPlaces
<1>3. HandsDiffer'
  BY <1>0 DEF HandsDiffer
<1>4. OpenIsKept'
  <2> SUFFICES ASSUME NEW h \in inTransaction'
               PROVE  \E u \in Thread : /\ hand[u] = h
                                        /\ at'[u] = "threaded" \/ (at'[u] = "Transaction" /\ h \in m_isInTransaction')
    BY <1>0 DEF OpenIsKept
  <2>1. CASE h = hand[t]
    <3>1. h \in inTransaction => at[t] = "threaded" \/ (at[t] = "Transaction" /\ h \in m_isInTransaction)
      BY <1>0, <2>1, PoolAssumption DEF OpenIsKept, HandsDiffer
    <3>2. at'[t] = "threaded" \/ (at'[t] = "Transaction" /\ h \in m_isInTransaction')
      BY <1>0, <2>1, <3>1 DEF Begin, Commit, Rollback, Release, TransactionBegin, TransactionCommit,
         TransactionRollback, SqlBegins, SqlEnds, Moves, PlacesOK
    <3> QED  BY <2>1, <3>2
  <2>2. CASE h # hand[t]
    <3>1. h \in inTransaction /\ (h \in m_isInTransaction => h \in m_isInTransaction')
      BY <2>2 DEF Begin, Commit, Rollback, Release, TransactionBegin, TransactionCommit,
         TransactionRollback, SqlBegins, SqlEnds
    <3>2. PICK u \in Thread : /\ hand[u] = h
                              /\ at[u] = "threaded" \/ (at[u] = "Transaction" /\ h \in m_isInTransaction)
      BY <3>1 DEF OpenIsKept
    <3>3. at'[u] = at[u]
      BY <1>0, <2>2, <3>2 DEF PlacesOK
    <3> QED  BY <3>1, <3>2, <3>3
  <2> QED  BY <2>1, <2>2
<1> QED  BY <1>1, <1>2, <1>3, <1>4

LEMMA UserStep == UserInv /\ [PoolNext]_<<lockVars, poolVars>> => UserInv'
<1> SUFFICES ASSUME UserInv, [PoolNext]_<<lockVars, poolVars>>  PROVE UserInv'
  OBVIOUS
<1>1. CASE \E t \in Thread : \/ PopBack(t)
                             \/ Generate(t, "generate", "count", "unlock")
                             \/ Generate(t, "fill", "fillPush", "unlock")
  BY <1>1, TakingKeepsUsers
<1>2. CASE \E t \in Thread : \/ PushBack(t) \/ FillPush(t) \/ Destroy(t) \/ InvokeFails(t)
                             \/ Clear(t)
  BY <1>2, DroppingKeepsUsers
<1>3. CASE \E t \in Thread : Begin(t) \/ Release(t) \/ Work(t)
  BY <1>3, TransactionsKeepUsers DEF Work
<1>4. CASE UNCHANGED poolVars \/ SetConfig \/ \E t \in Thread : WakeUp(t)
  BY <1>4 DEF poolVars, SetConfig, WakeUp, UserInv, PlacesOK, HandFollowsPlace, HandsDiffer, OpenIsKept
<1>5. CASE \E t \in Thread : \/ \E u \in Use : FlowOut(t, u)
                             \/ Close(t) \/ Purge(t) \/ Blockade(t) \/ CanOpen(t) \/ UnlockPool(t)
                             \/ SubtractCleared(t) \/ Count(t) \/ FillCount(t)
                             \/ Subtract(t) \/ FillUnlock(t)
  <2> PICK t \in Thread : \/ \E u \in Use : FlowOut(t, u)
                          \/ Close(t) \/ Purge(t) \/ Blockade(t) \/ CanOpen(t) \/ UnlockPool(t)
                          \/ SubtractCleared(t) \/ Count(t) \/ FillCount(t)
                          \/ Subtract(t) \/ FillUnlock(t)
    BY <1>5
  <2>1. use' \in [Thread -> Use] /\ UNCHANGED <<hand, m_handles, inTransaction, m_isInTransaction>>
    BY DEF FlowOut, Close, Purge, Blockade, CanOpen, UnlockPool, SubtractCleared, Count, FillCount,
           Subtract, FillUnlock, UserInv, PlacesOK
  <2>2. \E m \in {<<"idle", "popBack">>, <<"idle", "clear">>, <<"blockading", "clear">>,
                  <<"idle", "purge">>, <<"idle", "blockading">>, <<"idle", "fill">>,
                  <<"onClosed", "idle">>, <<"blockading", "idle">>,
                  <<"subtractCleared", "onClosed">>, <<"subtractPurged", "unlock">>,
                  <<"count", "invoke">>, <<"fillCount", "unlock">>,
                  <<"subtract", "destroy">>, <<"fillUnlock", "destroy">>} :
          Moves(t, m[1], m[2])
    BY DEF FlowOut, Close, Purge, Blockade, CanOpen, UnlockPool, SubtractCleared, Count, FillCount,
           Subtract, FillUnlock
  <2>3. PICK s, n \in {"idle"} \cup Calls :
          /\ Moves(t, s, n)
          /\ n \in HandPlaces => s \in HandPlaces
          /\ s \in HandPlaces => n \in HandPlaces
          /\ s # "unlock"
    BY <2>2 DEF Calls, HandPlaces
  <2> QED  BY <2>1, <2>3, MoveKeepsUsers DEF Calls, Use
<1>6. CASE \E t \in Thread : Unlock(t)
  <2> PICK t \in Thread : Unlock(t)
    BY <1>6
  <2>1. Moves(t, "unlock", IF hand[t] = None THEN "idle" ELSE "subtract")
    BY DEF Unlock
  <2>2. UNCHANGED <<use, hand, m_handles, inTransaction, m_isInTransaction>>
    BY DEF Unlock
  <2>3. CASE hand[t] = None
    BY <2>1, <2>2, <2>3, MoveKeepsUsers DEF UserInv, PlacesOK, HandPlaces, Calls, Use
  <2>4. CASE hand[t] # None
    BY <2>1, <2>2, <2>4, MoveKeepsUsers DEF UserInv, PlacesOK, HandPlaces, Calls, Use
  <2> QED  BY <2>3, <2>4
<1>7. CASE \E t \in Thread : Invoke(t)
  <2> PICK t \in Thread : Invoke(t)
    BY <1>7
  <2>1. PICK n \in Use \cup {"begin"} : Moves(t, "invoke", n)
    BY DEF Invoke, UserInv, PlacesOK
  <2>2. UNCHANGED <<use, hand, m_handles, inTransaction, m_isInTransaction>>
    BY DEF Invoke
  <2> QED  BY <2>1, <2>2, MoveKeepsUsers DEF UserInv, PlacesOK, HandPlaces, Calls, Use
<1> QED  BY <1>1, <1>2, <1>3, <1>4, <1>5, <1>6, <1>7 DEF PoolNext, Continue

\* No two threads ever use the same handle, none uses a free one, and a handle that
\* is free has no transaction open, whatever fails and for any limits (OneUser).
THEOREM OneUserAlways == PoolSafety => []OneUser
<1>1. UserInv => OneUser
  <2> SUFFICES ASSUME UserInv  PROVE OneUser
    OBVIOUS
  <2>1. m_handles \cap inTransaction = {}
    BY DEF UserInv, HandsDiffer, OpenIsKept
  <2> QED  BY <2>1 DEF UserInv, HandsDiffer, OneUser
<1> QED  BY <1>1, UserInit, UserStep, PTL DEF PoolSafety

-----------------------------------------------------------------------------
(***************************************************************************)
(* The locks are held by those whose place says so, if nobody closes what  *)
(* it has blockaded itself.                                                *)
(***************************************************************************)

Place == {"idle"} \cup Use \cup Calls
Readers == {t \in Thread : at[t] \in ReadPlaces /\ wants[t] = "nothing"}
Writers == {t \in Thread : at[t] \in WritePlaces /\ wants[t] = "nothing"}

WaitsAtEntry ==
  \A t \in Thread :
    /\ wants[t] = "read" => at[t] \in {"popBack", "purge", "fill"}
    /\ wants[t] = "write" => at[t] \in {"clear", "blockading"}

LocksAreHeld == m_reader = Cardinality(Readers) /\ m_writer = Cardinality(Writers)

PlaceInv == LockInv /\ at \in [Thread -> Place] /\ WaitsAtEntry /\ LocksAreHeld

LEMMA PlacesDiffer == ReadPlaces \cap WritePlaces = {}
BY DEF ReadPlaces, WritePlaces

LEMMA PlaceInit == PoolInit => PlaceInv
<1> SUFFICES ASSUME PoolInit  PROVE PlaceInv
  OBVIOUS
<1>1. LockInv
  BY LockInitInv DEF PoolInit
<1>2. at \in [Thread -> Place] /\ WaitsAtEntry
  BY DEF PoolInit, LockInit, Place, WaitsAtEntry
<1>3. Readers = {} /\ Writers = {}
  BY DEF PoolInit, Readers, Writers, ReadPlaces, WritePlaces
<1>4. LocksAreHeld
  BY <1>3, FS_EmptySet DEF PoolInit, LockInit, LocksAreHeld
<1> QED  BY <1>1, <1>2, <1>4 DEF PlaceInv

\* A step within the hold of a lock, or outside of any.
LEMMA MoveKeepsPlaces ==
  ASSUME PlaceInv, NEW t \in Thread, NEW s \in Place, NEW n \in Place, Moves(t, s, n),
         UNCHANGED lockVars,
         s \in ReadPlaces <=> n \in ReadPlaces,
         s \in WritePlaces <=> n \in WritePlaces
  PROVE  PlaceInv'
<1> USE DEF PlaceInv
<1>1. LockInv'
  BY LockStep
<1>2. at' \in [Thread -> Place] /\ WaitsAtEntry'
  BY DEF Moves, WaitsAtEntry, lockVars
<1>3. Readers' = Readers /\ Writers' = Writers
  BY DEF Moves, Readers, Writers, lockVars
<1>4. LocksAreHeld'
  BY <1>3 DEF LocksAreHeld, lockVars
<1> QED  BY <1>1, <1>2, <1>4

\* The beginning of a call.
LEMMA EntryKeepsPlaces ==
  ASSUME PlaceInv, NEW t \in Thread, NEW n \in Place, Moves(t, "idle", n),
         \/ LockRead(t) /\ n \in {"popBack", "purge", "fill"}
         \/ LockWrite(t) /\ n \in {"clear", "blockading"}
  PROVE  PlaceInv'
<1> USE DEF PlaceInv
<1>1. LockInv'
  BY LockStep DEF LockNext
<1>2. at' \in [Thread -> Place] /\ WaitsAtEntry'
  BY DEF Moves, WaitsAtEntry, LockRead, LockWrite, LockInv, LockTypeOK
<1>3. t \notin Readers /\ t \notin Writers /\ Readers \in SUBSET Thread /\ Writers \in SUBSET Thread
  BY DEF Moves, Readers, Writers, ReadPlaces, WritePlaces
<1>4. CASE wants'[t] = "nothing" /\ LockRead(t)
  <2>0. wants' = wants /\ wants[t] = "nothing" /\ n \in ReadPlaces \ WritePlaces
    BY <1>4 DEF LockRead, LockWrite, LockInv, LockTypeOK, ReadPlaces, WritePlaces
  <2>1. Readers' = Readers \cup {t} /\ Writers' = Writers
    BY <1>3, <2>0 DEF Moves, Readers, Writers
  <2>2. m_reader' = m_reader + 1 /\ m_writer' = m_writer
    BY <1>4 DEF LockRead, LockInv, LockTypeOK
  <2>3. LocksAreHeld'
    BY <1>3, <2>1, <2>2, OneMore DEF LocksAreHeld
  <2> QED  BY <1>1, <1>2, <2>3
<1>5. CASE wants'[t] = "nothing" /\ LockWrite(t)
  <2>0. wants' = wants /\ wants[t] = "nothing" /\ n \in WritePlaces \ ReadPlaces
    BY <1>5 DEF LockRead, LockWrite, LockInv, LockTypeOK, ReadPlaces, WritePlaces
  <2>1. Writers' = Writers \cup {t} /\ Readers' = Readers
    BY <1>3, <2>0 DEF Moves, Readers, Writers
  <2>2. m_writer' = m_writer + 1 /\ m_reader' = m_reader
    BY <1>5 DEF LockWrite, LockInv, LockTypeOK
  <2>3. LocksAreHeld'
    BY <1>3, <2>1, <2>2, OneMore DEF LocksAreHeld
  <2> QED  BY <1>1, <1>2, <2>3
<1>6. CASE wants'[t] # "nothing"
  <2>1. Writers' = Writers /\ Readers' = Readers
    BY <1>3, <1>6 DEF Moves, Readers, Writers, LockRead, LockWrite, LockInv, LockTypeOK
  <2>2. UNCHANGED <<m_reader, m_writer>>
    BY <1>6 DEF LockRead, LockWrite, LockInv, LockTypeOK, Moves
  <2> QED  BY <1>1, <1>2, <2>1, <2>2 DEF LocksAreHeld
<1> QED  BY <1>4, <1>5, <1>6

\* A lock that is waited for is had.
LEMMA WakeKeepsPlaces ==
  ASSUME PlaceInv, NEW t \in Thread, Wake(t), UNCHANGED at
  PROVE  PlaceInv'
<1> USE DEF PlaceInv
<1>1. LockInv'
  BY LockStep DEF LockNext
<1>2. at' \in [Thread -> Place] /\ WaitsAtEntry'
  BY DEF WaitsAtEntry, Wake, RetryRead, RetryWrite, WakeSpuriously, LockInv, LockTypeOK
<1>3. Readers \in SUBSET Thread /\ Writers \in SUBSET Thread
  BY DEF Readers, Writers
<1>4. CASE RetryRead(t) /\ MayRead
  <2>1. t \notin Readers /\ Readers' = Readers \cup {t} /\ Writers' = Writers
    BY <1>4 DEF Readers, Writers, RetryRead, LockInv, LockTypeOK, ReadPlaces, WritePlaces, WaitsAtEntry
  <2> QED  BY <1>1, <1>2, <1>3, <1>4, <2>1, OneMore DEF LocksAreHeld, RetryRead
<1>5. CASE RetryWrite(t) /\ MayWrite
  <2>1. t \notin Writers /\ Writers' = Writers \cup {t} /\ Readers' = Readers
    BY <1>5 DEF Readers, Writers, RetryWrite, LockInv, LockTypeOK, ReadPlaces, WritePlaces, WaitsAtEntry
  <2> QED  BY <1>1, <1>2, <1>3, <1>5, <2>1, OneMore DEF LocksAreHeld, RetryWrite
<1>6. CASE UNCHANGED <<wants, m_reader, m_writer>>
  BY <1>1, <1>2, <1>6 DEF LocksAreHeld, Readers, Writers
<1> QED  BY <1>4, <1>5, <1>6 DEF Wake, RetryRead, RetryWrite, WakeSpuriously

\* The end of the hold of a lock.
LEMMA ExitKeepsPlaces ==
  ASSUME PlaceInv, NEW t \in Thread, NEW s \in Place,
         NEW n \in {"idle", "subtract", "destroy"}, Moves(t, s, n),
         \/ UnlockRead /\ s \in ReadPlaces
         \/ UnlockWrite /\ s \in WritePlaces
  PROVE  PlaceInv'
<1> USE DEF PlaceInv
<1>1. LockInv'
  BY LockStep DEF LockNext
<1>2. at' \in [Thread -> Place] /\ WaitsAtEntry'
  BY DEF Moves, WaitsAtEntry, UnlockRead, UnlockWrite, LockInv, LockTypeOK, Place, Calls
<1>3. /\ n \notin ReadPlaces /\ n \notin WritePlaces
      /\ Readers \in SUBSET Thread /\ Writers \in SUBSET Thread
  BY DEF Readers, Writers, ReadPlaces, WritePlaces
<1>4. CASE UnlockRead /\ s \in ReadPlaces
  <2>1. t \in Readers /\ Readers' = Readers \ {t} /\ Writers' = Writers
    BY <1>3, <1>4, PlacesDiffer DEF Moves, Readers, Writers, UnlockRead
  <2> QED  BY <1>1, <1>2, <1>3, <1>4, <2>1, OneLess DEF LocksAreHeld, UnlockRead
<1>5. CASE UnlockWrite /\ s \in WritePlaces
  <2>1. t \in Writers /\ Writers' = Writers \ {t} /\ Readers' = Readers
    BY <1>3, <1>5, PlacesDiffer DEF Moves, Readers, Writers, UnlockWrite
  <2> QED  BY <1>1, <1>2, <1>3, <1>5, <2>1, OneLess DEF LocksAreHeld, UnlockWrite
<1> QED  BY <1>4, <1>5

LEMMA PlaceStep ==
  ASSUME UserInv, PlaceInv, ~CloseSeparately, [PoolNext]_<<lockVars, poolVars>>
  PROVE  PlaceInv'
<1>1. CASE \E t \in Thread : \/ \E u \in Use : FlowOut(t, u)
                             \/ Purge(t) \/ CanOpen(t) \/ Close(t) \/ Blockade(t)
  <2> PICK t \in Thread : \/ \E u \in Use : FlowOut(t, u)
                          \/ Purge(t) \/ CanOpen(t) \/ Close(t) \/ Blockade(t)
    BY <1>1
  <2>1. PICK n \in {"popBack", "purge", "fill", "clear", "blockading"} :
          /\ Moves(t, "idle", n)
          /\ \/ LockRead(t) /\ n \in {"popBack", "purge", "fill"}
             \/ LockWrite(t) /\ n \in {"clear", "blockading"}
    BY DEF FlowOut, Purge, CanOpen, Close, Blockade
  <2> QED  BY <2>1, EntryKeepsPlaces DEF Place, Calls
<1>2. CASE \E t \in Thread : WakeUp(t)
  BY <1>2, WakeKeepsPlaces DEF WakeUp, poolVars
<1>3. CASE \E t \in Thread : UnlockPool(t) \/ Unlock(t) \/ FillUnlock(t)
  <2> PICK t \in Thread : UnlockPool(t) \/ Unlock(t) \/ FillUnlock(t)
    BY <1>3
  <2>1. PICK s \in {"onClosed", "blockading", "unlock", "fillUnlock"},
             n \in {"idle", "subtract", "destroy"} :
          /\ Moves(t, s, n)
          /\ \/ UnlockRead /\ s \in {"unlock", "fillUnlock"}
             \/ UnlockWrite /\ s \in {"onClosed", "blockading"}
    BY DEF UnlockPool, Unlock, FillUnlock
  <2> QED  BY <2>1, ExitKeepsPlaces DEF Place, Calls, ReadPlaces, WritePlaces
<1>4. CASE SetConfig \/ UNCHANGED <<lockVars, poolVars>>
  <2>1. UNCHANGED <<lockVars, at>>
    BY <1>4 DEF SetConfig, poolVars
  <2>2. LockInv'
    BY <2>1, LockStep DEF PlaceInv
  <2> QED  BY <2>1, <2>2 DEF PlaceInv, lockVars, WaitsAtEntry, LocksAreHeld, Readers, Writers
<1>5. CASE \E t \in Thread :
             \/ PopBack(t) \/ Generate(t, "generate", "count", "unlock") \/ Count(t)
             \/ Invoke(t) \/ InvokeFails(t) \/ Begin(t)
             \/ PushBack(t) \/ Subtract(t) \/ Destroy(t)
             \/ Clear(t) \/ SubtractCleared(t) \/ Work(t) \/ Release(t)
             \/ Generate(t, "fill", "fillPush", "unlock") \/ FillPush(t) \/ FillCount(t)
  <2> PICK t \in Thread :
             \/ PopBack(t) \/ Generate(t, "generate", "count", "unlock") \/ Count(t)
             \/ Invoke(t) \/ InvokeFails(t) \/ Begin(t)
             \/ PushBack(t) \/ Subtract(t) \/ Destroy(t)
             \/ Clear(t) \/ SubtractCleared(t) \/ Work(t) \/ Release(t)
             \/ Generate(t, "fill", "fillPush", "unlock") \/ FillPush(t) \/ FillCount(t)
    BY <1>5
  <2>1. UNCHANGED lockVars
    BY DEF PopBack, Generate, Count, Invoke, InvokeFails, Begin, PushBack, Subtract, Destroy, Clear,
           SubtractCleared, Work, Release, FillPush, FillCount, Commit, Rollback, TransactionBegin,
           TransactionCommit, TransactionRollback
  <2>2. \/ \E s, n \in ReadPlaces : Moves(t, s, n)
        \/ \E s, n \in WritePlaces : Moves(t, s, n)
        \/ \E s, n \in {"idle", "subtract", "destroy"} : Moves(t, s, n)
    <3>1. use[t] \in {"statement", "Transaction", "threaded"}
      BY DEF UserInv, PlacesOK, Use
    <3> USE DEF ReadPlaces, WritePlaces
    <3>2. CASE PopBack(t) \/ InvokeFails(t) \/ Count(t) \/ FillCount(t) \/ Begin(t)
      BY <3>2 DEF PopBack, InvokeFails, Count, FillCount, Begin
    <3>3. CASE Generate(t, "generate", "count", "unlock") \/ Generate(t, "fill", "fillPush", "unlock")
      BY <3>3 DEF Generate
    <3>4. CASE Invoke(t)
      BY <3>1, <3>4 DEF Invoke
    <3>5. CASE PushBack(t) \/ FillPush(t) \/ Clear(t) \/ SubtractCleared(t)
      BY <3>5 DEF PushBack, FillPush, Clear, SubtractCleared
    <3>6. CASE Subtract(t) \/ Destroy(t)
      BY <3>6 DEF Subtract, Destroy
    <3>7. CASE Work(t) \/ Release(t)
      BY <3>7 DEF Work, Release, Commit, Rollback, TransactionBegin, TransactionCommit, TransactionRollback
    <3> QED  BY <3>2, <3>3, <3>4, <3>5, <3>6, <3>7
  <2>3. ReadPlaces \cup WritePlaces \cup {"idle", "subtract", "destroy"} \subseteq Place
    BY DEF Place, ReadPlaces, WritePlaces, Calls, Use
  <2>4. {"idle", "subtract", "destroy"} \cap (ReadPlaces \cup WritePlaces) = {}
    BY DEF ReadPlaces, WritePlaces
  <2> QED  BY <2>1, <2>2, <2>3, <2>4, PlacesDiffer, MoveKeepsPlaces
<1> QED  BY <1>1, <1>2, <1>3, <1>4, <1>5 DEF PoolNext, Continue

\* While a close or a blockade has the pool no thread has a handle in use, for any
\* number of threads, if none closes what it has blockaded itself (ClosedIsExclusive).
THEOREM ClosingIsExclusive ==
  ASSUME ~CloseSeparately
  PROVE  PoolSafety => []ClosedIsExclusive
<1>1. UserInv /\ PlaceInv => ClosedIsExclusive
  <2> SUFFICES ASSUME UserInv, PlaceInv, NEW t \in Thread, NEW u \in Thread, Closing(t)
               PROVE  ~InUse(u) /\ (Closing(u) => u = t)
    BY DEF ClosedIsExclusive
  <2>1. t \in Writers /\ Readers \in SUBSET Thread /\ Writers \in SUBSET Thread
    BY DEF Closing, Readers, Writers, WritePlaces
  <2>2. m_writer = 1 /\ m_reader = 0
    <3>1. Cardinality(Writers) # 0
      BY <2>1, OneLess
    <3>2. m_writer # 0 /\ m_writer \in Nat /\ m_writer <= 1
      BY <3>1 DEF PlaceInv, LocksAreHeld, LockInv, LockTypeOK, Exclusion
    <3> QED  BY <3>2 DEF PlaceInv, LockInv, Exclusion
  <2>3. u \notin Readers
    <3>1. u \in Readers => Cardinality(Readers) # 0
      BY <2>1, OneLess
    <3> QED  BY <2>2, <3>1 DEF PlaceInv, LocksAreHeld
  <2>4. ~InUse(u)
    <3> SUFFICES ASSUME InUse(u)  PROVE FALSE
      OBVIOUS
    <3>1. at[u] \in (HandPlaces \cup {"unlock"}) \ {"subtract", "destroy"}
      BY DEF InUse, UserInv, HandFollowsPlace
    <3>2. at[u] \in ReadPlaces /\ at[u] \notin {"popBack", "purge", "fill", "clear", "blockading"}
      BY <3>1 DEF HandPlaces, ReadPlaces
    <3>3. wants[u] = "nothing"
      BY <3>2 DEF PlaceInv, WaitsAtEntry, LockInv, LockTypeOK
    <3> QED  BY <2>3, <3>2, <3>3 DEF Readers
  <2>5. Closing(u) => u = t
    <3> SUFFICES ASSUME Closing(u), u # t  PROVE FALSE
      OBVIOUS
    <3>1. u \in Writers \ {t} /\ Writers \ {t} \in SUBSET Thread
      BY <2>1 DEF Closing, Writers, WritePlaces
    <3>2. Cardinality(Writers \ {t}) = Cardinality(Writers) - 1 /\ Cardinality(Writers \ {t}) \in Nat \ {0}
      BY <2>1, <3>1, OneLess
    <3> QED  BY <2>2, <3>2 DEF PlaceInv, LocksAreHeld
  <2> QED  BY <2>4, <2>5
<1>2. UserInv /\ PlaceInv /\ [PoolNext]_<<lockVars, poolVars>> => UserInv' /\ PlaceInv'
  BY PlaceStep, UserStep
<1> QED  BY <1>1, <1>2, UserInit, PlaceInit, PTL DEF PoolSafety

-----------------------------------------------------------------------------
(***************************************************************************)
(* The count of the living handles.                                        *)
(***************************************************************************)

Uncounted == Made \cup Leaving
Clearing == {"subtractCleared", "subtractPurged"}

CountTypes ==
  /\ m_aliveHandleCount \in Int /\ leaked \in Nat
  /\ size \in [Thread -> Nat]
  /\ \A t \in Thread : at[t] \notin Clearing => size[t] = 0
  /\ IsFiniteSet(Cleared)

CountInv == UserInv /\ CountTypes /\ CountIsAlive

LEMMA FewHandles ==
  ASSUME NEW S \in SUBSET Handle
  PROVE  IsFiniteSet(S) /\ Cardinality(S) \in Nat
BY PoolAssumption, FS_Subset, FS_CardinalityType

LEMMA FewThreads ==
  ASSUME NEW S \in SUBSET Thread
  PROVE  IsFiniteSet(S) /\ Cardinality(S) \in Nat
BY PoolAssumption, FS_Subset, FS_CardinalityType

LEMMA RowIsFinite ==
  ASSUME NEW t, NEW n \in Nat
  PROVE  IsFiniteSet({t} \X (1..n)) /\ Cardinality({t} \X (1..n)) = n
<1>1. IsFiniteSet({t}) /\ Cardinality({t}) = 1
  BY FS_Singleton
<1>2. IsFiniteSet(1..n) /\ Cardinality(1..n) = IF 1 > n THEN 0 ELSE n - 1 + 1
  <2>1. 1 \in Int /\ n \in Int
    OBVIOUS
  <2> QED  BY <2>1, FS_Interval
<1>3. Cardinality(1..n) = n
  BY <1>2
<1>4. IsFiniteSet({t} \X (1..n)) /\ Cardinality({t} \X (1..n)) = 1 * n
  <2> DEFINE S == 1..n
  <2>1. IsFiniteSet(S) /\ Cardinality(S) = n
    BY <1>2, <1>3
  <2> HIDE DEF S
  <2>2. IsFiniteSet({t} \X S) /\ Cardinality({t} \X S) = Cardinality({t}) * Cardinality(S)
    BY <1>1, <2>1, FS_Product
  <2> QED  BY <1>1, <2>1, <2>2 DEF S
<1> QED  BY <1>4

LEMMA AliveAreHandles == PlacesOK => Alive \in SUBSET Handle
BY DEF Alive, PlacesOK

\* The numbers that the count is made of.
LEMMA SizesAreNumbers ==
  CountInv /\ UserInv' =>
    /\ Cardinality(Alive) \in Nat /\ Cardinality(Alive') \in Nat
    /\ Cardinality(Uncounted) \in Nat /\ Cardinality(Uncounted') \in Nat
    /\ Cardinality(Cleared) \in Nat
<1> SUFFICES ASSUME CountInv, UserInv'
             PROVE  /\ Cardinality(Alive) \in Nat /\ Cardinality(Alive') \in Nat
                    /\ Cardinality(Uncounted) \in Nat /\ Cardinality(Uncounted') \in Nat
                    /\ Cardinality(Cleared) \in Nat
  OBVIOUS
<1>1. Alive \in SUBSET Handle /\ Alive' \in SUBSET Handle
  BY DEF CountInv, UserInv, Alive, PlacesOK
<1>2. Uncounted \in SUBSET Thread /\ Uncounted' \in SUBSET Thread
  BY DEF Uncounted, Made, Leaving
<1>3. Cardinality(Cleared) \in Nat
  BY FS_CardinalityType DEF CountInv, CountTypes
<1> QED  BY <1>1, <1>2, <1>3, FewHandles, FewThreads

LEMMA CountInit == PoolInit => CountInv
<1> SUFFICES ASSUME PoolInit  PROVE CountInv
  OBVIOUS
<1>1. UserInv
  BY UserInit
<1>2. Alive = {} /\ Cleared = {} /\ Uncounted = {}
  BY DEF PoolInit, Alive, Cleared, Uncounted, Made, Leaving
<1>3. CountTypes
  BY <1>2, FS_EmptySet DEF PoolInit, CountTypes
<1>4. CountIsAlive
  BY <1>2, FS_EmptySet DEF PoolInit, CountIsAlive, Uncounted
<1> QED  BY <1>1, <1>3, <1>4 DEF CountInv

\* What a step does to the count when none is cleared.
LEMMA CountChanges ==
  ASSUME CountInv, UserInv', NEW t \in Thread,
         at' = [at EXCEPT ![t] = at'[t]], at[t] \notin Clearing, at'[t] \notin Clearing,
         UNCHANGED size, m_aliveHandleCount' \in Int, leaked' \in Nat,
         m_aliveHandleCount' - m_aliveHandleCount =
           (Cardinality(Alive') - Cardinality(Alive)) + (leaked' - leaked)
             - (Cardinality(Uncounted') - Cardinality(Uncounted))
  PROVE  CountInv'
<1>1. Cleared' = Cleared
  BY DEF Cleared
<1>2. CountTypes'
  BY <1>1 DEF CountInv, CountTypes, UserInv, PlacesOK
<1>3. /\ Cardinality(Alive) \in Nat /\ Cardinality(Alive') \in Nat
      /\ Cardinality(Uncounted) \in Nat /\ Cardinality(Uncounted') \in Nat
      /\ Cardinality(Cleared) \in Nat
  BY SizesAreNumbers
<1>4. CountIsAlive'
  <2>1. m_aliveHandleCount = Cardinality(Alive) + Cardinality(Cleared) + leaked - Cardinality(Uncounted)
    BY DEF CountInv, CountIsAlive, Uncounted
  <2>2. m_aliveHandleCount \in Int /\ leaked \in Nat
    BY DEF CountInv, CountTypes
  <2>3. m_aliveHandleCount' = Cardinality(Alive') + Cardinality(Cleared) + leaked' - Cardinality(Uncounted')
    BY <1>3, <2>1, <2>2
  <2> QED  BY <1>1, <2>3 DEF CountIsAlive, Uncounted
<1> QED  BY <1>2, <1>4 DEF CountInv

\* Steps that leave alone which handles live and which are counted.
LEMMA CountStays ==
  ASSUME CountInv, UserInv', NEW t \in Thread,
         at' = [at EXCEPT ![t] = at'[t]], at[t] \notin Clearing, at'[t] \notin Clearing,
         t \in Uncounted <=> t \in Uncounted',
         UNCHANGED <<size, m_aliveHandleCount, leaked>>, Alive' = Alive
  PROVE  CountInv'
<1>1. \A u \in Thread : u # t => at'[u] = at[u]
  BY DEF CountInv, UserInv, PlacesOK
<1>2. Uncounted' = Uncounted
  BY <1>1 DEF Uncounted, Made, Leaving
<1>3. Cardinality(Alive) \in Nat /\ Cardinality(Uncounted) \in Nat
  BY SizesAreNumbers
<1>4. m_aliveHandleCount' \in Int /\ leaked' \in Nat
  BY DEF CountInv, CountTypes
<1>5. m_aliveHandleCount' - m_aliveHandleCount =
        (Cardinality(Alive') - Cardinality(Alive)) + (leaked' - leaked)
          - (Cardinality(Uncounted') - Cardinality(Uncounted))
  BY <1>2, <1>3, <1>4
<1> QED  BY <1>4, <1>5, CountChanges

\* A thread that is counted otherwise than before.
LEMMA ThreadJoins ==
  ASSUME CountInv, NEW t \in Thread, at' = [at EXCEPT ![t] = at'[t]],
         t \notin Uncounted, t \in Uncounted'
  PROVE  Cardinality(Uncounted') = Cardinality(Uncounted) + 1
<1>1. \A u \in Thread : u # t => at'[u] = at[u]
  BY DEF CountInv, UserInv, PlacesOK
<1>2. Uncounted' = Uncounted \cup {t} /\ Uncounted \in SUBSET Thread
  BY <1>1 DEF Uncounted, Made, Leaving
<1> QED  BY <1>2, OneMore

LEMMA ThreadParts ==
  ASSUME CountInv, NEW t \in Thread, at' = [at EXCEPT ![t] = at'[t]],
         t \in Uncounted, t \notin Uncounted'
  PROVE  Cardinality(Uncounted') = Cardinality(Uncounted) - 1
<1>1. \A u \in Thread : u # t => at'[u] = at[u]
  BY DEF CountInv, UserInv, PlacesOK
<1>2. Uncounted' = Uncounted \ {t} /\ Uncounted \in SUBSET Thread
  BY <1>1 DEF Uncounted, Made, Leaving
<1> QED  BY <1>2, OneLess

\* A handle that is made, or dropped.
LEMMA OneHandleMore ==
  ASSUME CountInv, NEW h \in Handle \ Alive, Alive' = Alive \cup {h}
  PROVE  Cardinality(Alive') = Cardinality(Alive) + 1
<1>1. Alive \in SUBSET Handle
  BY AliveAreHandles DEF CountInv, UserInv
<1>2. IsFiniteSet(Alive)
  BY <1>1, FewHandles
<1> QED  BY <1>2, FS_AddElement

LEMMA OneHandleLess ==
  ASSUME CountInv, NEW t \in Thread, hand[t] # None, hand' = [hand EXCEPT ![t] = None],
         m_handles' = m_handles
  PROVE  Cardinality(Alive') = Cardinality(Alive) - 1
<1>1. HandsDiffer /\ PlacesOK
  BY DEF CountInv, UserInv
<1>2. Alive' = Alive \ {hand[t]} /\ hand[t] \in Alive
  BY <1>1 DEF Alive, HandsDiffer, PlacesOK
<1>3. IsFiniteSet(Alive)
  BY <1>1, AliveAreHandles, FewHandles
<1> QED  BY <1>2, <1>3, FS_RemoveElement

\* The list is cleared, or what was cleared is subtracted.
LEMMA ClearKeepsCount ==
  ASSUME CountInv, UserInv', NEW t \in Thread, Clear(t)
  PROVE  CountInv'
<1> DEFINE n == Cardinality(m_handles)
           new == {t} \X (1..n)
<1>0. PlacesOK /\ HandsDiffer /\ CountTypes /\ CountIsAlive
  BY DEF CountInv, UserInv
<1>1. /\ at[t] \notin Clearing /\ at'[t] \in Clearing /\ size[t] = 0 /\ size' = [size EXCEPT ![t] = n]
      /\ \A u \in Thread : u # t => at'[u] = at[u]
      /\ UNCHANGED <<m_aliveHandleCount, leaked, hand>> /\ m_handles' = {}
  BY <1>0 DEF Clear, Moves, Clearing, PlacesOK, CountTypes
<1>2. IsFiniteSet(m_handles) /\ n \in Nat
  BY <1>0, FewHandles DEF PlacesOK
<1>3. Cleared' = Cleared \cup new /\ Cleared \cap new = {}
  <2>1. \A u \in Thread : size'[u] = IF u = t THEN n ELSE size[u]
    BY <1>0, <1>1 DEF CountTypes
  <2>2. 1..size[t] = {}
    BY <1>1
  <2>3. Cleared \cap new = {}
    BY <2>2 DEF Cleared
  <2>4. ASSUME NEW x  PROVE x \in Cleared' <=> x \in Cleared \/ x \in new
    BY <2>1, <2>2 DEF Cleared
  <2> QED  BY <2>3, <2>4
<1>4. IsFiniteSet(new) /\ Cardinality(new) = n
  BY <1>2, RowIsFinite
<1>5. IsFiniteSet(Cleared') /\ Cardinality(Cleared') = Cardinality(Cleared) + n /\ Cardinality(Cleared) \in Nat
  <2>1. IsFiniteSet(Cleared) /\ Cardinality(Cleared) \in Nat
    BY <1>0, FS_CardinalityType DEF CountTypes
  <2>2. IsFiniteSet(Cleared \cup new) /\ Cardinality(Cleared \cup new) = Cardinality(Cleared) + Cardinality(new) - Cardinality(Cleared \cap new)
    BY <1>4, <2>1, FS_Union
  <2> QED  BY <1>2, <1>3, <1>4, <2>1, <2>2, FS_EmptySet
<1>6. Cardinality(Alive') = Cardinality(Alive) - n /\ Cardinality(Alive) \in Nat
  <2>1. Alive' = Alive \ m_handles /\ m_handles = Alive \cap m_handles /\ Alive \in SUBSET Handle
    BY <1>0, <1>1 DEF Alive, HandsDiffer, PlacesOK
  <2>2. IsFiniteSet(Alive) /\ Cardinality(Alive) \in Nat
    BY <2>1, FewHandles
  <2>3. Cardinality(Alive \ m_handles) = Cardinality(Alive) - Cardinality(Alive \cap m_handles)
    BY <2>2, FS_Difference
  <2> QED  BY <2>1, <2>2, <2>3
<1>7. Uncounted' = Uncounted /\ Cardinality(Uncounted) \in Nat
  <2>1. Uncounted \in SUBSET Thread
    BY DEF Uncounted, Made, Leaving
  <2>2. Uncounted' = Uncounted
    BY <1>0, <1>1 DEF Uncounted, Made, Leaving, Clear, Moves, PlacesOK
  <2> QED  BY <2>1, <2>2, FewThreads
<1>8. CountIsAlive'
  <2>1. m_aliveHandleCount = Cardinality(Alive) + Cardinality(Cleared) + leaked - Cardinality(Uncounted)
    BY <1>0 DEF CountIsAlive, Uncounted
  <2>2. m_aliveHandleCount' = Cardinality(Alive') + Cardinality(Cleared') + leaked' - Cardinality(Uncounted')
    BY <1>0, <1>1, <1>2, <1>5, <1>6, <1>7, <2>1 DEF CountTypes
  <2> QED  BY <2>2 DEF CountIsAlive, Uncounted
<1>9. CountTypes'
  BY <1>0, <1>1, <1>2, <1>5 DEF CountTypes
<1> QED  BY <1>8, <1>9 DEF CountInv

LEMMA SubtractClearedKeepsCount ==
  ASSUME CountInv, UserInv', NEW t \in Thread, SubtractCleared(t)
  PROVE  CountInv'
<1> DEFINE n == size[t]
           old == {t} \X (1..n)
<1>0. PlacesOK /\ CountTypes /\ CountIsAlive
  BY DEF CountInv, UserInv
<1>1. /\ at[t] \in Clearing /\ at'[t] \in {"onClosed", "unlock"} /\ size' = [size EXCEPT ![t] = 0]
      /\ \A u \in Thread : u # t => at'[u] = at[u]
      /\ UNCHANGED <<leaked, hand, m_handles>>
      /\ m_aliveHandleCount' = m_aliveHandleCount - n /\ n \in Nat
  BY <1>0 DEF SubtractCleared, Moves, Clearing, PlacesOK, CountTypes
<1>2. Cleared' = Cleared \ old /\ old = Cleared \cap old
  <2>1. \A u \in Thread : size'[u] = IF u = t THEN 0 ELSE size[u]
    BY <1>0, <1>1 DEF CountTypes
  <2>2. 1..0 = {}
    OBVIOUS
  <2>3. old \subseteq Cleared
    BY DEF Cleared
  <2>4. ASSUME NEW x  PROVE x \in Cleared' <=> x \in Cleared /\ x \notin old
    BY <2>1, <2>2 DEF Cleared
  <2> QED  BY <2>3, <2>4
<1>3. IsFiniteSet(old) /\ Cardinality(old) = n
  BY <1>1, RowIsFinite
<1>4. IsFiniteSet(Cleared') /\ Cardinality(Cleared') = Cardinality(Cleared) - n /\ Cardinality(Cleared) \in Nat
  <2>1. IsFiniteSet(Cleared) /\ Cardinality(Cleared) \in Nat
    BY <1>0, FS_CardinalityType DEF CountTypes
  <2>2. IsFiniteSet(Cleared \ old) /\ Cardinality(Cleared \ old) = Cardinality(Cleared) - Cardinality(Cleared \cap old)
    BY <2>1, FS_Difference
  <2> QED  BY <1>2, <1>3, <2>1, <2>2
<1>5. Alive' = Alive /\ Cardinality(Alive) \in Nat
  <2>1. Alive \in SUBSET Handle
    BY <1>0, AliveAreHandles
  <2> QED  BY <1>1, <2>1, FewHandles DEF Alive
<1>6. Uncounted' = Uncounted /\ Cardinality(Uncounted) \in Nat
  <2>1. Uncounted \in SUBSET Thread
    BY DEF Uncounted, Made, Leaving
  <2>2. Uncounted' = Uncounted
    BY <1>1 DEF Uncounted, Made, Leaving, Clearing
  <2> QED  BY <2>1, <2>2, FewThreads
<1>7. CountIsAlive'
  <2>1. m_aliveHandleCount = Cardinality(Alive) + Cardinality(Cleared) + leaked - Cardinality(Uncounted)
    BY <1>0 DEF CountIsAlive, Uncounted
  <2>2. m_aliveHandleCount' = Cardinality(Alive') + Cardinality(Cleared') + leaked' - Cardinality(Uncounted')
    BY <1>0, <1>1, <1>4, <1>5, <1>6, <2>1 DEF CountTypes
  <2> QED  BY <2>2 DEF CountIsAlive, Uncounted
<1>8. CountTypes'
  BY <1>0, <1>1, <1>4 DEF CountTypes
<1> QED  BY <1>7, <1>8 DEF CountInv

\* A handle is made or not, dropped, or put into the list.
LEMMA GenerateKeepsCount ==
  ASSUME CountInv, UserInv', NEW t \in Thread,
         \/ Generate(t, "generate", "count", "unlock")
         \/ Generate(t, "fill", "fillPush", "unlock")
  PROVE  CountInv'
<1>0. PlacesOK /\ HandFollowsPlace /\ CountTypes
  BY DEF CountInv, UserInv
<1>1. /\ at' = [at EXCEPT ![t] = at'[t]] /\ t \notin Uncounted
      /\ at[t] \notin Clearing /\ at'[t] \notin Clearing
      /\ UNCHANGED <<size, m_aliveHandleCount, leaked, m_handles>>
      /\ at[t] \in {"generate", "fill"}
  BY <1>0 DEF Generate, Moves, Clearing, Uncounted, Made, Leaving, PlacesOK
<1>2. hand[t] = None
  BY <1>0, <1>1 DEF HandFollowsPlace, HandPlaces
<1>3. CASE UNCHANGED hand /\ at'[t] = "unlock"
  <2>1. Alive' = Alive /\ t \notin Uncounted'
    BY <1>1, <1>3 DEF Alive, Uncounted, Made, Leaving
  <2> QED  BY <1>1, <2>1, CountStays
<1>4. CASE at'[t] \in {"count", "fillPush"} /\ \E h \in Handle \ Alive : Takes(t, h)
  <2>1. PICK h \in Handle \ Alive : hand' = [hand EXCEPT ![t] = h]
    BY <1>4 DEF Takes
  <2>2. Alive' = Alive \cup {h}
    BY <1>0, <1>1, <1>2, <2>1, PoolAssumption DEF Alive, PlacesOK
  <2>3. Cardinality(Alive') = Cardinality(Alive) + 1
    BY <2>2, OneHandleMore
  <2>4. t \in Uncounted'
    BY <1>4 DEF Uncounted, Made, Leaving
  <2>5. Cardinality(Uncounted') = Cardinality(Uncounted) + 1
    BY <1>1, <2>4, ThreadJoins
  <2> QED  BY <1>0, <1>1, <2>3, <2>5, SizesAreNumbers, CountChanges DEF CountTypes
<1> QED  BY <1>0, <1>3, <1>4 DEF Generate, Moves, PlacesOK

LEMMA DropKeepsCount ==
  ASSUME CountInv, UserInv', NEW t \in Thread, InvokeFails(t) \/ Destroy(t)
  PROVE  CountInv'
<1>0. PlacesOK /\ HandFollowsPlace /\ CountTypes
  BY DEF CountInv, UserInv
<1>1. /\ at' = [at EXCEPT ![t] = at'[t]]
      /\ at[t] \notin Clearing /\ at'[t] \notin Clearing
      /\ UNCHANGED <<size, m_aliveHandleCount, m_handles>>
      /\ at[t] \in {"invoke", "destroy"} /\ at'[t] \in {"unlock", "idle"}
      /\ hand' = [hand EXCEPT ![t] = None]
  BY <1>0 DEF InvokeFails, Destroy, Moves, Clearing, PlacesOK, Drops, Takes
<1>2. hand[t] # None
  BY <1>0, <1>1, PoolAssumption DEF HandFollowsPlace, HandPlaces
<1>3. Cardinality(Alive') = Cardinality(Alive) - 1
  BY <1>1, <1>2, OneHandleLess
<1>4. t \notin Uncounted'
  BY <1>1 DEF Uncounted, Made, Leaving
<1>5. CASE InvokeFails(t)
  <2>1. t \notin Uncounted /\ leaked' = leaked + 1
    BY <1>0, <1>5 DEF Uncounted, Made, Leaving, InvokeFails, Moves
  <2>2. Uncounted' = Uncounted
    BY <1>0, <1>1, <1>4, <2>1 DEF Uncounted, Made, Leaving, PlacesOK
  <2> QED  BY <1>0, <1>1, <1>3, <2>1, <2>2, SizesAreNumbers, CountChanges DEF CountTypes
<1>6. CASE Destroy(t)
  <2>1. t \in Uncounted /\ leaked' = leaked
    BY <1>0, <1>6 DEF Uncounted, Made, Leaving, Destroy, Moves
  <2>2. Cardinality(Uncounted') = Cardinality(Uncounted) - 1
    BY <1>1, <1>4, <2>1, ThreadParts
  <2> QED  BY <1>0, <1>1, <1>3, <2>1, <2>2, SizesAreNumbers, CountChanges DEF CountTypes
<1> QED  BY <1>5, <1>6

LEMMA ListKeepsCount ==
  ASSUME CountInv, UserInv', NEW t \in Thread, PopBack(t) \/ PushBack(t) \/ FillPush(t)
  PROVE  CountInv'
<1>0. PlacesOK /\ HandFollowsPlace
  BY DEF CountInv, UserInv
<1>1. /\ at' = [at EXCEPT ![t] = at'[t]]
      /\ at[t] \notin Clearing /\ at'[t] \notin Clearing
      /\ UNCHANGED <<size, m_aliveHandleCount, leaked>>
      /\ t \in Uncounted <=> t \in Uncounted'
  BY <1>0 DEF PopBack, PushBack, FillPush, Moves, Clearing, Uncounted, Made, Leaving, PlacesOK
<1>2. CASE PopBack(t)
  <2>1. hand[t] = None
    BY <1>0, <1>2 DEF PopBack, Moves, HandFollowsPlace, HandPlaces
  <2>2. Alive' = Alive
    <3>1. CASE UNCHANGED <<m_handles, hand>>
      BY <3>1 DEF Alive
    <3>2. CASE \E h \in m_handles : m_handles' = m_handles \ {h} /\ Takes(t, h)
      BY <1>0, <2>1, <3>2, PoolAssumption DEF Takes, Alive, PlacesOK
    <3> QED  BY <1>2, <3>1, <3>2 DEF PopBack
  <2> QED  BY <1>1, <2>2, CountStays
<1>3. CASE PushBack(t) \/ FillPush(t)
  <2>1. hand[t] \in Handle
    BY <1>0, <1>3 DEF PushBack, FillPush, Moves, HandFollowsPlace, HandPlaces
  <2>2. Alive' = Alive
    <3>1. CASE UNCHANGED <<m_handles, hand>>
      BY <3>1 DEF Alive
    <3>2. CASE m_handles' = m_handles \cup {hand[t]} /\ hand' = [hand EXCEPT ![t] = None]
      BY <1>0, <2>1, <3>2, PoolAssumption DEF Alive, PlacesOK
    <3> QED  BY <1>3, <3>1, <3>2 DEF PushBack, FillPush, Drops, Takes
  <2> QED  BY <1>1, <2>2, CountStays
<1> QED  BY <1>2, <1>3

\* The count itself is changed.
LEMMA CountingKeepsCount ==
  ASSUME CountInv, UserInv', NEW t \in Thread, Count(t) \/ FillCount(t) \/ Subtract(t)
  PROVE  CountInv'
<1>0. PlacesOK /\ CountTypes
  BY DEF CountInv, UserInv
<1>1. /\ at' = [at EXCEPT ![t] = at'[t]]
      /\ at[t] \notin Clearing /\ at'[t] \notin Clearing
      /\ UNCHANGED <<size, leaked>>
  BY <1>0 DEF Count, FillCount, Subtract, Moves, Clearing, PlacesOK
<1>2. Alive' = Alive
  BY DEF Count, FillCount, Subtract, Alive
<1>3. CASE Count(t) \/ FillCount(t)
  <2>1. t \in Uncounted /\ t \notin Uncounted' /\ m_aliveHandleCount' = m_aliveHandleCount + 1
    BY <1>0, <1>3 DEF Count, FillCount, Moves, Uncounted, Made, Leaving, PlacesOK
  <2>2. Cardinality(Uncounted') = Cardinality(Uncounted) - 1
    BY <1>1, <2>1, ThreadParts
  <2> QED  BY <1>0, <1>1, <1>2, <2>1, <2>2, SizesAreNumbers, CountChanges DEF CountTypes
<1>4. CASE Subtract(t)
  <2>1. t \notin Uncounted /\ t \in Uncounted' /\ m_aliveHandleCount' = m_aliveHandleCount - 1
    BY <1>0, <1>4 DEF Subtract, Moves, Uncounted, Made, Leaving, PlacesOK
  <2>2. Cardinality(Uncounted') = Cardinality(Uncounted) + 1
    BY <1>1, <2>1, ThreadJoins
  <2> QED  BY <1>0, <1>1, <1>2, <2>1, <2>2, SizesAreNumbers, CountChanges DEF CountTypes
<1> QED  BY <1>3, <1>4

LEMMA CountStep == CountInv /\ [PoolNext]_<<lockVars, poolVars>> => CountInv'
<1> SUFFICES ASSUME CountInv, [PoolNext]_<<lockVars, poolVars>>  PROVE CountInv'
  OBVIOUS
<1>0. UserInv' /\ PlacesOK
  BY UserStep DEF CountInv, UserInv
<1>1. CASE \E t \in Thread : \/ Generate(t, "generate", "count", "unlock")
                             \/ Generate(t, "fill", "fillPush", "unlock")
  BY <1>0, <1>1, GenerateKeepsCount
<1>2. CASE \E t \in Thread : InvokeFails(t) \/ Destroy(t)
  BY <1>0, <1>2, DropKeepsCount
<1>3. CASE \E t \in Thread : PopBack(t) \/ PushBack(t) \/ FillPush(t)
  BY <1>0, <1>3, ListKeepsCount
<1>4. CASE \E t \in Thread : Count(t) \/ FillCount(t) \/ Subtract(t)
  BY <1>0, <1>4, CountingKeepsCount
<1>5. CASE \E t \in Thread : Clear(t)
  BY <1>0, <1>5, ClearKeepsCount
<1>6. CASE \E t \in Thread : SubtractCleared(t)
  BY <1>0, <1>6, SubtractClearedKeepsCount
<1>7. CASE UNCHANGED poolVars \/ SetConfig \/ \E t \in Thread : WakeUp(t)
  <2>1. UNCHANGED <<m_handles, m_aliveHandleCount, at, hand, size, leaked>>
    BY <1>7 DEF poolVars, SetConfig, WakeUp
  <2>2. Alive' = Alive /\ Cleared' = Cleared /\ Uncounted' = Uncounted
    BY <2>1 DEF Alive, Cleared, Uncounted, Made, Leaving
  <2> QED  BY <1>0, <2>1, <2>2 DEF CountInv, CountTypes, CountIsAlive, Uncounted
<1>8. CASE \E t \in Thread : \/ \E u \in Use : FlowOut(t, u)
                             \/ Close(t) \/ Purge(t) \/ Blockade(t) \/ CanOpen(t) \/ UnlockPool(t)
                             \/ FillUnlock(t) \/ Unlock(t) \/ Invoke(t)
                             \/ Begin(t) \/ Release(t) \/ Work(t)
  <2>1. PICK t \in Thread : \/ \E u \in Use : FlowOut(t, u)
                            \/ Close(t) \/ Purge(t) \/ Blockade(t) \/ CanOpen(t) \/ UnlockPool(t)
                            \/ FillUnlock(t) \/ Unlock(t) \/ Invoke(t)
                            \/ Begin(t) \/ Release(t) \/ Work(t)
    BY <1>8
  <2>2. UNCHANGED <<m_handles, m_aliveHandleCount, hand, size, leaked>>
    BY <2>1 DEF FlowOut, Close, Purge, Blockade, CanOpen, UnlockPool, FillUnlock, Unlock, Invoke,
           Begin, Release, Work, Commit, Rollback, TransactionBegin, TransactionCommit,
           TransactionRollback
  <2>3. /\ at' = [at EXCEPT ![t] = at'[t]] /\ at[t] \notin Clearing /\ at'[t] \notin Clearing
        /\ t \in Uncounted <=> t \in Uncounted'
    <3> USE <1>0 DEF Moves, PlacesOK, Clearing, Uncounted, Made, Leaving, Use
    <3>1. CASE \/ \E u \in Use : FlowOut(t, u)
               \/ Close(t) \/ Purge(t) \/ Blockade(t) \/ CanOpen(t) \/ UnlockPool(t)
      BY <3>1 DEF FlowOut, Close, Purge, Blockade, CanOpen, UnlockPool
    <3>2. CASE FillUnlock(t) \/ Unlock(t) \/ Invoke(t)
      BY <3>2 DEF FillUnlock, Unlock, Invoke
    <3>3. CASE Begin(t) \/ Release(t) \/ Work(t)
      BY <3>3 DEF Begin, Release, Work, Commit, Rollback, TransactionBegin, TransactionCommit,
                  TransactionRollback
    <3> QED  BY <2>1, <3>1, <3>2, <3>3
  <2>4. Alive' = Alive
    BY <2>2 DEF Alive
  <2> QED  BY <1>0, <2>2, <2>3, <2>4, CountStays
<1> QED  BY <1>1, <1>2, <1>3, <1>4, <1>5, <1>6, <1>7, <1>8 DEF PoolNext, Continue

\* The count of a pool is right whatever its calls do at the same time, for any
\* number of threads and handles and any limits (m_aliveHandleCount in flowOut,
\* flowBack, drain, purgeFreeHandles and fillOne).
THEOREM CountIsRight == PoolSafety => []CountIsAlive
<1>1. CountInv => CountIsAlive
  BY DEF CountInv
<1> QED  BY <1>1, CountInit, CountStep, PTL DEF PoolSafety

-----------------------------------------------------------------------------
(***************************************************************************)
(* The table of pools.                                                     *)
(***************************************************************************)

\* The objects that the entry of a path should count.
Counted(p) == {o \in Living \ tagged : PathOf[held[o]] = p}

EntriesOK ==
  /\ tagged \subseteq Living
  /\ \A p \in Path : table[p] # NoPool => PathOf[table[p]] = p /\ count[p] # 0

CountsAreRight ==
  /\ ~undefined
  /\ \A o \in Living : table[PathOf[held[o]]] = held[o]
  /\ \A p \in Path : count[p] = Cardinality(Counted(p))

TableInv == TableTypeOK /\ EntriesOK /\ (~miscounted => CountsAreRight)

\* One object more, or less, in a set of objects.
LEMMA OneObjectMore ==
  ASSUME NEW S \in SUBSET Object, NEW o \in Object, o \notin S
  PROVE  Cardinality(S \cup {o}) = Cardinality(S) + 1 /\ Cardinality(S) \in Nat
<1>1. IsFiniteSet(S)
  BY TableAssumption, FS_Subset
<1> QED  BY <1>1, FS_AddElement, FS_CardinalityType

LEMMA OneObjectLess ==
  ASSUME NEW S \in SUBSET Object, NEW o \in S
  PROVE  Cardinality(S \ {o}) = Cardinality(S) - 1 /\ Cardinality(S) \in Nat
<1>1. IsFiniteSet(S)
  BY TableAssumption, FS_Subset
<1> QED  BY <1>1, FS_RemoveElement, FS_CardinalityType

\* A set of objects that counts to nothing is empty.
LEMMA NoObject ==
  ASSUME NEW S \in SUBSET Object, Cardinality(S) = 0
  PROVE  S = {}
<1>1. IsFiniteSet(S)
  BY TableAssumption, FS_Subset
<1> QED  BY <1>1, FS_EmptySet

\* A new object finds the pool of its path or makes it, and is counted in the entry
\* (HandlePool::GetPool, by path).
LEMMA GetPoolKeeps ==
  ASSUME TableInv, NEW o \in Object, NEW p \in Path, GetPool(o, p)
  PROVE  TableInv'
<1> USE DEF TableInv, TableTypeOK, EntriesOK, Living, GetPool, Hold
<1>1. o \notin Living /\ held[o] = NoPool /\ o \notin tagged
  OBVIOUS
<1>2. PICK q \in Pool : /\ Hold(o, q) /\ PathOf[q] = p
                        /\ table' = [table EXCEPT ![p] = q]
                        /\ count' = [count EXCEPT ![p] = IF table[p] = NoPool THEN 1 ELSE @ + 1]
                        /\ table[p] = NoPool \/ table[p] = q
                        /\ tag' = tag
  <2>1. CASE NewPool(o, p)
    BY <2>1 DEF NewPool, Unused
  <2>2. CASE FindPool(o, p)
    <3>1. table[p] \in Pool /\ table' = [table EXCEPT ![p] = table[p]]
      BY <2>2 DEF FindPool
    <3> QED  BY <2>2, <3>1 DEF FindPool
  <2> QED  BY <2>1, <2>2
<1>3. Living' = Living \cup {o} /\ held' = [held EXCEPT ![o] = q]
  BY <1>2, TableAssumption
<1>4. 1 \in 0..MaxCopies
  BY TableAssumption
<1>5. TableTypeOK'
  BY <1>2, <1>3, <1>4
<1>6. EntriesOK'
  BY <1>2, <1>3
<1>7. ASSUME ~miscounted'  PROVE CountsAreRight'
  <2>1. CountsAreRight
    BY <1>7
  <2>2. ASSUME NEW x \in Living'  PROVE table'[PathOf[held'[x]]] = held'[x]
    <3>1. CASE x = o
      BY <1>2, <1>3, <3>1
    <3>2. CASE x # o
      <4>1. x \in Living /\ held'[x] = held[x] /\ table[PathOf[held[x]]] = held[x]
        BY <1>3, <2>1, <2>2, <3>2 DEF CountsAreRight
      <4>2. held[x] \in Pool /\ PathOf[held[x]] \in Path
        BY <4>1, TableAssumption
      <4> QED  BY <1>2, <4>1, <4>2
    <3> QED  BY <3>1, <3>2
  <2>3. ASSUME NEW r \in Path  PROVE count'[r] = Cardinality(Counted(r)')
    <3>1. CASE r # p
      <4>1. Counted(r)' = Counted(r)
        BY <1>1, <1>2, <1>3, <3>1 DEF Counted
      <4> QED  BY <1>2, <2>1, <3>1, <4>1 DEF CountsAreRight
    <3>2. CASE r = p
      <4>1. Counted(p)' = Counted(p) \cup {o} /\ o \notin Counted(p) /\ Counted(p) \in SUBSET Object
        BY <1>1, <1>2, <1>3 DEF Counted
      <4>2. Cardinality(Counted(p)') = Cardinality(Counted(p)) + 1 /\ Cardinality(Counted(p)) \in Nat
        BY <4>1, OneObjectMore
      <4>3. table[p] = NoPool => Counted(p) = {}
        BY <2>1, TableAssumption DEF Counted, CountsAreRight
      <4>4. table[p] = NoPool => Cardinality(Counted(p)) = 0
        BY <4>3, FS_EmptySet
      <4>5. count[p] = Cardinality(Counted(p))
        BY <2>1 DEF CountsAreRight
      <4> QED  BY <1>2, <3>2, <4>2, <4>4, <4>5
    <3> QED  BY <3>1, <3>2
  <2> QED  BY <2>1, <2>2, <2>3 DEF CountsAreRight
<1> QED  BY <1>5, <1>6, <1>7

\* An object that finds its pool by the tag holds a pool of the table, and is not
\* counted (HandlePool::GetPool, by tag).
LEMMA GetPoolByTagKeeps ==
  ASSUME TableInv, NEW o \in Object, NEW t \in Tag, GetPoolByTag(o, t)
  PROVE  TableInv'
<1> USE DEF TableInv, TableTypeOK, EntriesOK, Living, GetPoolByTag, Hold
<1>1. PICK p \in Path : table[p] # NoPool /\ Hold(o, table[p])
  OBVIOUS
<1>2. table[p] \in Pool /\ PathOf[table[p]] = p /\ o \notin Living
  BY <1>1
<1>3. Living' = Living \cup {o} /\ held' = [held EXCEPT ![o] = table[p]]
  BY <1>1, <1>2, TableAssumption
<1>4. 1 \in 0..MaxCopies
  BY TableAssumption
<1>5. TableTypeOK' /\ EntriesOK'
  BY <1>1, <1>2, <1>3, <1>4
<1>6. ASSUME ~miscounted'  PROVE CountsAreRight'
  <2>1. CountsAreRight
    BY <1>6
  <2>2. \A r \in Path : Counted(r)' = Counted(r)
    BY <1>2, <1>3 DEF Counted
  <2>3. \A x \in Living' : table'[PathOf[held'[x]]] = held'[x]
    BY <1>2, <1>3, <2>1 DEF CountsAreRight
  <2> QED  BY <2>1, <2>2, <2>3 DEF CountsAreRight
<1> QED  BY <1>5, <1>6

\* The last reference goes: the entry counts down and goes with the last object that it
\* counts; nobody else holds that pool unless he found it by its tag (onRecycled).
LEMMA RecycleKeeps ==
  ASSUME TableInv, NEW o \in Object, Recycle(o)
  PROVE  TableInv'
<1> USE DEF TableInv, TableTypeOK, EntriesOK, Living, Released, Recycle
<1>0. PICK p \in Path : p = PathOf[held[o]]
  BY TableAssumption
<1>1. o \in Living /\ held[o] \in Pool /\ p = PathOf[held[o]]
  BY <1>0
<1>2. Living' = Living \ {o} /\ held' = [held EXCEPT ![o] = NoPool] /\ tagged' = tagged \ {o}
  BY <1>1, TableAssumption
<1>3. CASE UseMissingEntry(p)
  <2>1. ~(~miscounted)
    BY <1>1, <1>3 DEF UseMissingEntry, CountsAreRight
  <2> QED  BY <1>1, <1>2, <1>3, <2>1 DEF UseMissingEntry
<1>4. CASE CountDown(p)
  <2>1. count[p] \in Nat \ {0} /\ table[p] # NoPool /\ undefined' = undefined
    BY <1>1, <1>4 DEF CountDown
  <2>2. count' = [count EXCEPT ![p] = count[p] - 1] /\ count'[p] = count[p] - 1
    BY <1>1, <1>4 DEF CountDown
  <2>3. table' = IF count'[p] = 0 THEN [table EXCEPT ![p] = NoPool] ELSE table
    BY <1>4 DEF CountDown
  <2>4. count' \in [Path -> Nat]
    BY <1>1, <2>1, <2>2
  <2>5. TableTypeOK' /\ EntriesOK'
    <3>1. table' \in [Path -> Pool \cup {NoPool}]
      BY <1>1, <2>3
    <3>2. tag' \in [Pool -> Tag \cup {NoTag}]
      OBVIOUS
    <3>3. held' \in [Object -> Pool \cup {NoPool}] /\ tagged' \subseteq Living'
      BY <1>2
    <3>4. ASSUME NEW r \in Path, table'[r] # NoPool  PROVE PathOf[table'[r]] = r /\ count'[r] # 0
      <4>1. table[r] = table'[r]
        BY <1>1, <2>3, <3>4
      <4>2. r = p => count'[r] # 0
        BY <1>1, <2>3, <3>4
      <4>3. r # p => count'[r] = count[r]
        BY <2>2
      <4> QED  BY <3>4, <4>1, <4>2, <4>3
    <3>5. miscounted' \in BOOLEAN /\ undefined' \in BOOLEAN
      BY <2>1
    <3> QED  BY <2>4, <3>1, <3>2, <3>3, <3>4, <3>5
  <2>6. ASSUME ~miscounted'  PROVE CountsAreRight'
    <3>1. ~miscounted /\ CountsAreRight /\ ~\E x \in tagged : held[x] = held[o]
      BY <2>6
    <3>2. o \notin tagged /\ o \in Counted(p) /\ Counted(p) \in SUBSET Object
      BY <1>1, <3>1 DEF Counted
    <3>3. Counted(p)' = Counted(p) \ {o}
      BY <1>2, <3>2 DEF Counted
    <3>4. count'[p] = Cardinality(Counted(p)')
      BY <1>1, <2>2, <3>1, <3>2, <3>3, OneObjectLess DEF CountsAreRight
    <3>5. ASSUME NEW r \in Path  PROVE count'[r] = Cardinality(Counted(r)')
      <4>1. CASE r = p
        BY <3>4, <4>1
      <4>2. CASE r # p
        <5>1. Counted(r)' = Counted(r)
          BY <1>1, <1>2, <4>2 DEF Counted
        <5> QED  BY <2>2, <3>1, <4>2, <5>1 DEF CountsAreRight
      <4> QED  BY <4>1, <4>2
    <3>6. ASSUME NEW x \in Living'  PROVE table'[PathOf[held'[x]]] = held'[x]
      <4>1. x \in Living /\ x # o /\ held'[x] = held[x] /\ table[PathOf[held[x]]] = held[x]
        BY <1>2, <3>1, <3>6 DEF CountsAreRight
      <4>2. CASE PathOf[held[x]] = p /\ count'[p] = 0
        <5>1. held[x] = held[o]
          BY <1>1, <3>1, <4>1, <4>2 DEF CountsAreRight
        <5>2. x \in Counted(p) \ {o}
          BY <3>1, <4>1, <4>2, <5>1 DEF Counted
        <5>3. Counted(p) \ {o} = {}
          BY <3>2, <3>3, <3>4, <4>2, NoObject
        <5> QED  BY <5>2, <5>3
      <4>3. CASE ~(PathOf[held[x]] = p /\ count'[p] = 0)
        BY <2>3, <4>1, <4>3
      <4> QED  BY <4>2, <4>3
    <3> QED  BY <2>1, <3>1, <3>5, <3>6 DEF CountsAreRight
  <2> QED  BY <2>5, <2>6
<1> QED  BY <1>1, <1>3, <1>4

\* Tags and references change neither the table nor who holds a pool.
LEMMA OthersKeep ==
  ASSUME TableInv,
         \/ \E o \in Object : \E t \in Tag : SetTag(o, t)
         \/ \E o \in Object : Copy(o) \/ ReleaseReference(o)
         \/ UNCHANGED tableVars
  PROVE  TableInv'
<1>1. /\ UNCHANGED <<table, count, held, tagged, miscounted, undefined>>
      /\ Living' = Living /\ \A p : Counted(p)' = Counted(p)
  BY DEF SetTag, Copy, ReleaseReference, tableVars, Living, Counted
<1>2. tag' \in [Pool -> Tag \cup {NoTag}]
  BY DEF TableInv, TableTypeOK, SetTag, Copy, ReleaseReference, tableVars
<1>3. copies' \in [Object -> 0..MaxCopies]
  <2>1. CASE \E o \in Object : Copy(o)
    BY <2>1, TableAssumption DEF TableInv, TableTypeOK, Copy
  <2>2. CASE \E o \in Object : ReleaseReference(o)
    BY <2>2, TableAssumption DEF TableInv, TableTypeOK, ReleaseReference, Released
  <2>3. CASE copies' = copies
    BY <2>3 DEF TableInv, TableTypeOK
  <2> QED  BY <2>1, <2>2, <2>3 DEF SetTag, tableVars
<1> QED  BY <1>1, <1>2, <1>3 DEF TableInv, TableTypeOK, EntriesOK, CountsAreRight

\* As long as no object was given up that shared its pool with one found by tag, the table
\* has the pool of every object and no other, and every release finds its entry
\* (handle_pool.cpp 34-57), for any number of objects, pools, paths and tags.
THEOREM TableIsRight == TableSpec => []TableFollowsObjects
<1>1. TableInit => TableInv
  <2> SUFFICES ASSUME TableInit  PROVE TableInv
    OBVIOUS
  <2>1. EntriesOK /\ Living = {} /\ 0 \in 0..MaxCopies
    BY TableAssumption DEF TableInit, EntriesOK, Living
  <2>2. \A p : Counted(p) = {}
    BY <2>1 DEF Counted
  <2>3. TableTypeOK
    BY <2>1 DEF TableInit, TableTypeOK
  <2> QED  BY <2>1, <2>2, <2>3, FS_EmptySet DEF TableInit, TableInv, CountsAreRight
<1>2. TableInv /\ [TableNext]_tableVars => TableInv'
  BY GetPoolKeeps, GetPoolByTagKeeps, RecycleKeeps, OthersKeep DEF TableNext
<1>3. TableInv => TableFollowsObjects
  <2> SUFFICES ASSUME TableInv, ~miscounted,
                      NEW p \in Path, table[p] # NoPool
               PROVE  \E o \in Living : held[o] = table[p]
    BY DEF TableFollowsObjects, TableInv, CountsAreRight
  <2>1. Counted(p) # {}
    BY FS_EmptySet DEF TableInv, EntriesOK, CountsAreRight
  <2>2. PICK o \in Living : PathOf[held[o]] = p
    BY <2>1 DEF Counted
  <2> QED  BY <2>2 DEF TableInv, CountsAreRight
<1> QED  BY <1>1, <1>2, <1>3, PTL DEF TableSpec

-----------------------------------------------------------------------------
(***************************************************************************)
(* The configurations of a pool.                                           *)
(***************************************************************************)

Wraps ==
  [ name   : {"trace", "cipher", "basic", "synchronous", "checkpoint", "tokenize", "own"},
    config : {"trace", "nothing", "basic", "checkpoint", "key", "FULL", "own"},
    order  : {o \in Int : o <= INT_MAX} ]

InFront(l) ==
  \A i, j \in 1..Len(l) : i < j => l[i].order <= l[j].order /\ l[i].name # l[j].name

LEMMA WrapsAre ==
  /\ \A w \in Wraps : w.order \in Int /\ w.order <= INT_MAX
  /\ \A l \in Seq(Wraps) : /\ Len(l) \in Nat /\ DOMAIN l = 1..Len(l)
                           /\ \A i \in 1..Len(l) : l[i] \in Wraps
<1>1. \A w \in Wraps : w.order \in {o \in Int : o <= INT_MAX}
  BY DEF Wraps
<1>2. \A l \in Seq(Wraps) : /\ Len(l) \in Nat /\ DOMAIN l = 1..Len(l)
                           /\ \A i \in 1..Len(l) : l[i] \in Wraps
  BY LenProperties, ElementOfSeq
<1> QED  BY <1>1, <1>2

\* k: what is left after each of the wraps of l has been looked at.
LoopOf(k, l, name) ==
  /\ k[Len(l)] = Without(l, name) /\ k[0] = <<>>
  /\ \A n \in 1..Len(l) :
       k[n] = IF l[n].name = name THEN k[n - 1] ELSE Append(k[n - 1], l[n])

LEMMA WithoutLoop ==
  ASSUME NEW l \in Seq(Wraps), NEW name
  PROVE  \E k \in [0..Len(l) -> Seq(Wraps)] : LoopOf(k, l, name)
<1> DEFINE N == Len(l)
           D == Seq(Wraps)
           step == [n \in 1..N |-> [s \in D |-> IF l[n].name = name THEN s ELSE Append(s, l[n])]]
<1>0. N \in Nat /\ \A n \in 1..N : l[n] \in Wraps
  OBVIOUS
<1>1. step \in [1..N -> [D -> D]] /\ <<>> \in D
  BY <1>0
<1>2. PICK g \in [0..N -> D] :
        /\ g[0] = <<>> /\ \A n \in 1..N : g[n] = step[n][g[n - 1]]
        /\ \A f : f[0] = <<>> /\ (\A n \in 1..N : f[n - 1] \in D => f[n] = step[n][f[n - 1]])
                    => \A n \in 0..N : f[n] = g[n]
  <2> DEFINE first == <<>>
  <2>1. N \in Nat /\ first \in D
    BY <1>0, <1>1
  <2> HIDE DEF step, D, N, first
  <2>2. \E g \in [0..N -> D] : Computes(g, N, D, first, step)
    BY <1>1, <2>1, LoopComputes
  <2> QED  BY <2>2 DEF first, Computes
<1>3. \A n \in 1..N : n - 1 \in 0..N /\ n # 0 /\ n \in 0..N
  BY <1>0
<1>4. \A n \in 1..N : g[n] = IF l[n].name = name THEN g[n - 1] ELSE Append(g[n - 1], l[n])
  BY <1>2, <1>3
<1> DEFINE Fix(k) == k = [n \in 0..N |-> IF n = 0 THEN <<>>
                          ELSE IF l[n].name = name THEN k[n - 1] ELSE Append(k[n - 1], l[n])]
           f == CHOOSE k : Fix(k)
<1>5. Fix(g)
  <2>1. \A n \in 0..N : g[n] = IF n = 0 THEN <<>>
                          ELSE IF l[n].name = name THEN g[n - 1] ELSE Append(g[n - 1], l[n])
    <3>1. \A n \in 0..N : n = 0 \/ n \in 1..N
      BY <1>0
    <3> HIDE DEF step
    <3> QED  BY <1>2, <1>3, <1>4, <3>1
  <2> QED  BY <2>1
<1>6. Fix(f)
  BY <1>5
<1>7. Without(l, name) = f[N]
  BY DEF Without
<1>8. f[0] = <<>> /\ \A n \in 1..N : f[n - 1] \in D => f[n] = step[n][f[n - 1]]
  <2> HIDE DEF f
  <2>1. \A n \in 0..N : f[n] = IF n = 0 THEN <<>>
                          ELSE IF l[n].name = name THEN f[n - 1] ELSE Append(f[n - 1], l[n])
    BY <1>6
  <2>2. f[0] = <<>>
    BY <1>0, <2>1
  <2>3. ASSUME NEW n \in 1..N, f[n - 1] \in D  PROVE f[n] = step[n][f[n - 1]]
    BY <1>3, <2>1, <2>3
  <2> QED  BY <2>2, <2>3
<1>9. f[N] = g[N]
  <2> HIDE DEF f, step, D
  <2> QED  BY <1>0, <1>2, <1>8
<1>10. LoopOf(g, l, name)
  BY <1>2, <1>4, <1>7, <1>9 DEF LoopOf
<1> QED  BY <1>10

\* r is a list in order, of wraps of l that are not called name.
Survivors(r, l, name) ==
  /\ r \in Seq(Wraps)
  /\ InFront(r)
  /\ \A j \in 1..Len(r) : \E i \in 1..Len(l) : r[j] = l[i] /\ l[i].name # name

\* What is left are the others, in the order in which they were.
LEMMA WithoutKeeps ==
  ASSUME NEW l \in Seq(Wraps), NEW name, InFront(l)
  PROVE  Survivors(Without(l, name), l, name)
<1>a. PICK k \in [0..Len(l) -> Seq(Wraps)] : LoopOf(k, l, name)
  BY WithoutLoop
<1>1. /\ k[Len(l)] = Without(l, name) /\ k[0] = <<>>
      /\ \A n \in 1..Len(l) :
           k[n] = IF l[n].name = name THEN k[n - 1] ELSE Append(k[n - 1], l[n])
  BY <1>a DEF LoopOf
<1> DEFINE N == Len(l)
           From(n) == \A j \in 1..Len(k[n]) : \E i \in 1..n : k[n][j] = l[i] /\ l[i].name # name
           P == {n \in 0..N : InFront(k[n]) /\ From(n)}
<1>0. N \in Nat /\ \A n \in 1..N : l[n] \in Wraps
  OBVIOUS
<1>2. 0 \in P
  BY <1>0, <1>1 DEF InFront
<1>3. ASSUME NEW n \in Nat, n < N, n \in P  PROVE n + 1 \in P
  <2>0. n \in 0..N /\ n + 1 \in 0..N /\ n + 1 \in 1..N /\ (n + 1) - 1 = n
    BY <1>0, <1>3
  <2>1. k[n] \in Seq(Wraps) /\ InFront(k[n]) /\ From(n)
    BY <1>3, <2>0
  <2>2. k[n + 1] = IF l[n + 1].name = name THEN k[n] ELSE Append(k[n], l[n + 1])
    BY <1>1, <2>0
  <2>3. CASE l[n + 1].name = name
    <3>1. k[n + 1] = k[n]
      BY <2>2, <2>3
    <3>2. From(n + 1)
      BY <1>3, <2>1, <3>1
    <3> QED  BY <2>0, <2>1, <3>1, <3>2
  <2>4. CASE l[n + 1].name # name
    <3> DEFINE r == k[n]
    <3>1. /\ Len(k[n + 1]) = Len(r) + 1 /\ k[n + 1][Len(r) + 1] = l[n + 1]
          /\ \A j \in 1..Len(r) : k[n + 1][j] = r[j]
      <4>1. k[n + 1] = Append(r, l[n + 1])
        BY <2>2, <2>4
      <4>2. r \in Seq(Wraps) /\ l[n + 1] \in Wraps
        BY <1>0, <2>0, <2>1
      <4> HIDE DEF r
      <4> QED  BY <4>1, <4>2
    <3>2. Len(r) \in Nat
      BY <2>1
    <3>3. \A j \in 1..Len(r) : r[j].order <= l[n + 1].order /\ r[j].name # l[n + 1].name
      <4>1. \A i \in 1..n : l[i].order <= l[n + 1].order /\ l[i].name # l[n + 1].name
        <5>1. \A i \in 1..n : i \in 1..Len(l) /\ n + 1 \in 1..Len(l) /\ i < n + 1
          BY <1>0, <1>3, <2>0
        <5> QED  BY <5>1 DEF InFront
      <4> QED  BY <2>1, <4>1
    <3> DEFINE q == k[n + 1]
    <3> HIDE DEF r, q
    <3>4. InFront(q)
      <4> SUFFICES ASSUME NEW i \in 1..Len(q), NEW j \in 1..Len(q), i < j
                   PROVE  q[i].order <= q[j].order /\ q[i].name # q[j].name
        BY DEF InFront
      <4>1. i \in 1..Len(r) /\ (j \in 1..Len(r) \/ j = Len(r) + 1)
        <5>1. Len(q) = Len(r) + 1
          BY <3>1 DEF q
        <5> QED  BY <3>2, <5>1
      <4>2. InFront(r)
        BY <2>1 DEF r
      <4>3. q[i] = r[i]
        BY <3>1, <4>1 DEF q
      <4>4. CASE j \in 1..Len(r)
        <5>1. q[j] = r[j]
          BY <3>1, <4>4 DEF q
        <5> QED  BY <4>1, <4>2, <4>3, <4>4, <5>1 DEF InFront
      <4>5. CASE j = Len(r) + 1
        <5>1. q[j] = l[n + 1]
          BY <3>1, <4>5 DEF q
        <5> QED  BY <3>3, <4>1, <4>3, <5>1
      <4> QED  BY <4>1, <4>4, <4>5
    <3>5. From(n + 1)
      <4> SUFFICES ASSUME NEW j \in 1..Len(q)
                   PROVE  \E i \in 1..n + 1 : q[j] = l[i] /\ l[i].name # name
        BY DEF q
      <4>1. CASE j = Len(r) + 1
        BY <1>3, <2>4, <3>1, <4>1 DEF q
      <4>2. CASE j \in 1..Len(r)
        <5>1. \E i \in 1..n : r[j] = l[i] /\ l[i].name # name
          BY <2>1, <4>2 DEF r
        <5> QED  BY <1>3, <3>1, <4>2, <5>1 DEF q
      <4> QED  BY <3>1, <3>2, <4>1, <4>2 DEF q
    <3>6. n + 1 \in 0..N
      BY <1>0, <1>3
    <3> QED  BY <3>4, <3>5, <3>6 DEF q
  <2> QED  BY <2>3, <2>4
<1>4. N \in P
  <2>1. N \in Nat
    BY <1>0
  <2> HIDE DEF P, N
  <2>2. \A n \in 0..N : n \in P
    BY <1>2, <1>3, <2>1, UpTo
  <2> QED  BY <2>1, <2>2
<1>5. InFront(k[N]) /\ From(N)
  BY <1>4
<1>6. k[N] = Without(l, name) /\ k[N] \in Seq(Wraps)
  BY <1>0, <1>1
<1> QED  BY <1>5, <1>6 DEF Survivors

\* Both versions of setConfig keep the list in order, each name once.
LEMMA SetWithOrderKeeps ==
  ASSUME NEW l \in Seq(Wraps), InFront(l), NEW w \in Wraps
  PROVE  /\ SetWithOrder(l, w) \in Seq(Wraps) /\ InFront(SetWithOrder(l, w))
         /\ \A j \in 1..Len(SetWithOrder(l, w)) :
              LET e == SetWithOrder(l, w)[j]
              IN  e = w \/ \E i \in 1..Len(l) : e = l[i] /\ l[i].name # w.name
<1> DEFINE new == SetWithOrder(l, w)
           greater == {i \in DOMAIN l : l[i].order > w.order}
<1>0. /\ Len(l) \in Nat /\ DOMAIN l = 1..Len(l) /\ w.order \in Int
      /\ \A i \in 1..Len(l) : l[i] \in Wraps /\ l[i].order \in Int
  BY WrapsAre
<1>1. CASE greater = {}
  <2> DEFINE r == Without(l, w.name)
  <2>1. new = Append(r, w)
    BY <1>1 DEF SetWithOrder
  <2>2. r \in Seq(Wraps) /\ InFront(r)
        /\ \A j \in 1..Len(r) : \E i \in 1..Len(l) : r[j] = l[i] /\ l[i].name # w.name
    <3>1. Survivors(r, l, w.name)
      BY WithoutKeeps
    <3> HIDE DEF r
    <3> QED  BY <3>1 DEF Survivors
  <2> HIDE DEF new, r
  <2>3. /\ new \in Seq(Wraps) /\ Len(new) = Len(r) + 1 /\ Len(r) \in Nat
        /\ new[Len(r) + 1] = w /\ \A j \in 1..Len(r) : new[j] = r[j]
    BY <2>1, <2>2
  <2>4. \A j \in 1..Len(r) : r[j].order <= w.order /\ r[j].name # w.name
    <3>1. \A i \in 1..Len(l) : l[i].order <= w.order
      BY <1>0, <1>1
    <3> QED  BY <2>2, <3>1
  <2>5. InFront(new)
    <3> SUFFICES ASSUME NEW i \in 1..Len(new), NEW j \in 1..Len(new), i < j
                 PROVE  new[i].order <= new[j].order /\ new[i].name # new[j].name
      BY DEF InFront
    <3>1. i \in 1..Len(r) /\ (j \in 1..Len(r) \/ j = Len(r) + 1)
      BY <2>3
    <3>2. CASE j \in 1..Len(r)
      <4>1. r[i].order <= r[j].order /\ r[i].name # r[j].name
        BY <2>2, <3>1, <3>2 DEF InFront
      <4> QED  BY <2>3, <3>1, <3>2, <4>1
    <3>3. CASE j = Len(r) + 1
      BY <2>3, <2>4, <3>1, <3>3
    <3> QED  BY <3>1, <3>2, <3>3
  <2>6. \A j \in 1..Len(new) : new[j] = w \/ \E i \in 1..Len(l) : new[j] = l[i] /\ l[i].name # w.name
    BY <2>2, <2>3
  <2> QED  BY <2>3, <2>5, <2>6 DEF new
<1>2. CASE greater # {}
  <2> DEFINE i == CHOOSE i \in greater : \A j \in greater : i <= j
             a == SubSeq(l, 1, i - 1)
             b == SubSeq(l, i + 1, Len(l))
             ra == Without(a, w.name)
             rb == Without(b, w.name)
  <2>1. i \in greater /\ \A j \in greater : i <= j
    <3>1. greater \in SUBSET Nat
      BY <1>0
    <3>2. \E x \in greater : \A y \in greater : x <= y
      <4> HIDE DEF greater
      <4> QED  BY <1>2, <3>1, Least
    <3> HIDE DEF greater
    <3> QED  BY <3>2
  <2>2. new = ra \o <<w>> \o rb
    BY <1>2 DEF SetWithOrder
  <2> HIDE DEF i
  <2>3. i \in 1..Len(l) /\ w.order < l[i].order /\ \A j \in 1..i - 1 : l[j].order <= w.order
    BY <1>0, <2>1
  <2> HIDE DEF greater, new
  <2>4. /\ a \in Seq(Wraps) /\ Len(a) = i - 1 /\ \A j \in 1..i - 1 : a[j] = l[j]
        /\ b \in Seq(Wraps) /\ Len(b) = Len(l) - i /\ \A j \in 1..Len(l) - i : b[j] = l[i + j]
    <3>1. a \in Seq(Wraps) /\ Len(a) = i - 1 /\ \A j \in 1..i - 1 : a[j] = l[j]
      BY <1>0, <2>3
    <3>2. /\ i \in Nat /\ i + 1 \in 1..Len(l) + 1 /\ Len(l) \in i..Len(l)
          /\ \A j \in 1..Len(l) - i : (i + 1) + j - 1 = i + j
      BY <1>0, <2>3
    <3>3. /\ b \in Seq(Wraps) /\ Len(b) = Len(l) - i
          /\ \A j \in 1..Len(l) - i : b[j] = l[i + j]
      <4>1. \A j \in i + 1..Len(l) : l[j] \in Wraps
        BY <1>0, <3>2
      <4>2. b = [j \in 1..Len(l) - i |-> l[i + j]]
        BY <1>0, <3>2
      <4>3. \A j \in 1..Len(l) - i : l[i + j] \in Wraps
        BY <1>0, <3>2
      <4>4. Len(l) - i \in Nat
        BY <1>0, <2>3
      <4>5. \A j \in 1..Len(l) - i : b[j] = l[i + j]
        BY <4>2
      <4>6. b \in [1..Len(l) - i -> Wraps]
        BY <4>2, <4>3
      <4>7. b \in Seq(Wraps) /\ Len(b) = Len(l) - i
        <5> DEFINE n == Len(l) - i
        <5> HIDE DEF b, n
        <5>1. n \in Nat /\ b \in [1..n -> Wraps]
          BY <4>4, <4>6 DEF n
        <5> QED  BY <5>1, LenProperties, SeqDef DEF n
      <4> QED  BY <4>5, <4>7
    <3> QED  BY <3>1, <3>3
  <2> HIDE DEF a, b
  <2>5. InFront(a) /\ InFront(b)
    <3>1. InFront(a)
      BY <1>0, <2>3, <2>4 DEF InFront
    <3>2. ASSUME NEW j \in 1..Len(b), NEW k \in 1..Len(b), j < k
          PROVE  b[j].order <= b[k].order /\ b[j].name # b[k].name
      <4>1. i + j \in 1..Len(l) /\ i + k \in 1..Len(l) /\ i + j < i + k
        BY <1>0, <2>3, <2>4, <3>2
      <4>2. b[j] = l[i + j] /\ b[k] = l[i + k]
        BY <2>4
      <4> QED  BY <4>1, <4>2 DEF InFront
    <3> QED  BY <3>1, <3>2 DEF InFront
  <2>6. /\ ra \in Seq(Wraps) /\ InFront(ra)
        /\ \A j \in 1..Len(ra) : \E m \in 1..Len(a) : ra[j] = a[m] /\ a[m].name # w.name
        /\ rb \in Seq(Wraps) /\ InFront(rb)
        /\ \A j \in 1..Len(rb) : \E m \in 1..Len(b) : rb[j] = b[m] /\ b[m].name # w.name
    <3>1. /\ ra \in Seq(Wraps) /\ InFront(ra)
          /\ \A j \in 1..Len(ra) : \E m \in 1..Len(a) : ra[j] = a[m] /\ a[m].name # w.name
      <4>1. a \in Seq(Wraps) /\ InFront(a)
        BY <2>4, <2>5
      <4>2. Survivors(ra, a, w.name)
        BY <4>1, WithoutKeeps
      <4> HIDE DEF ra
      <4> QED  BY <4>2 DEF Survivors
    <3>2. /\ rb \in Seq(Wraps) /\ InFront(rb)
          /\ \A j \in 1..Len(rb) : \E m \in 1..Len(b) : rb[j] = b[m] /\ b[m].name # w.name
      <4>1. b \in Seq(Wraps) /\ InFront(b)
        BY <2>4, <2>5
      <4>2. Survivors(rb, b, w.name)
        BY <4>1, WithoutKeeps
      <4> HIDE DEF rb
      <4> QED  BY <4>2 DEF Survivors
    <3> QED  BY <3>1, <3>2
  <2> HIDE DEF ra, rb
  <2>7. /\ \A j \in 1..Len(ra) : \E m \in 1..i - 1 : ra[j] = l[m] /\ l[m].name # w.name
        /\ \A j \in 1..Len(rb) : \E m \in i + 1..Len(l) : rb[j] = l[m] /\ l[m].name # w.name
    <3>1. \A m \in 1..Len(l) - i : i + m \in i + 1..Len(l)
      BY <1>0, <2>3
    <3>2. \A m \in 1..Len(b) : b[m] = l[i + m] /\ i + m \in i + 1..Len(l)
      BY <2>4, <3>1
    <3>3. \A m \in 1..Len(a) : a[m] = l[m] /\ m \in 1..i - 1
      BY <2>4
    <3>4. ASSUME NEW j \in 1..Len(ra)  PROVE \E m \in 1..i - 1 : ra[j] = l[m] /\ l[m].name # w.name
      <4>1. PICK m \in 1..Len(a) : ra[j] = a[m] /\ a[m].name # w.name
        BY <2>6
      <4> QED  BY <3>3, <4>1
    <3>5. ASSUME NEW j \in 1..Len(rb)  PROVE \E m \in i + 1..Len(l) : rb[j] = l[m] /\ l[m].name # w.name
      <4>1. PICK m \in 1..Len(b) : rb[j] = b[m] /\ b[m].name # w.name
        BY <2>6
      <4> QED  BY <3>2, <4>1
    <3> QED  BY <3>4, <3>5
  <2>8. /\ new \in Seq(Wraps) /\ Len(new) = Len(ra) + 1 + Len(rb) /\ Len(ra) \in Nat /\ Len(rb) \in Nat
        /\ \A j \in 1..Len(ra) : new[j] = ra[j]
        /\ new[Len(ra) + 1] = w
        /\ \A j \in 1..Len(rb) : new[Len(ra) + 1 + j] = rb[j]
    BY <2>2, <2>6
  <2>9. \A j \in 1..Len(new) : \/ j \in 1..Len(ra) /\ new[j] = ra[j]
                               \/ j = Len(ra) + 1 /\ new[j] = w
                               \/ j - (Len(ra) + 1) \in 1..Len(rb) /\ new[j] = rb[j - (Len(ra) + 1)]
    <3> SUFFICES ASSUME NEW j \in 1..Len(new), j > Len(ra) + 1
                 PROVE  j - (Len(ra) + 1) \in 1..Len(rb) /\ new[j] = rb[j - (Len(ra) + 1)]
      BY <2>8
    <3>1. j - (Len(ra) + 1) \in 1..Len(rb) /\ Len(ra) + 1 + (j - (Len(ra) + 1)) = j
      BY <2>8
    <3> QED  BY <2>8, <3>1
  <2>10. /\ \A j \in 1..Len(ra) : ra[j].order <= w.order /\ ra[j].name # w.name
         /\ \A j \in 1..Len(rb) : w.order <= rb[j].order /\ rb[j].name # w.name
    <3>1. \A m \in i + 1..Len(l) : m \in 1..Len(l) /\ i < m /\ l[i].order <= l[m].order
      BY <1>0, <2>3 DEF InFront
    <3>2. \A m \in i + 1..Len(l) : w.order <= l[m].order
      BY <1>0, <2>3, <3>1
    <3> QED  BY <2>3, <2>7, <3>2
  <2>11. \A j \in 1..Len(ra), k \in 1..Len(rb) : ra[j].order <= rb[k].order /\ ra[j].name # rb[k].name
    <3>1. \A m \in 1..i - 1, n \in i + 1..Len(l) : l[m].order <= l[n].order /\ l[m].name # l[n].name
      BY <1>0, <2>3 DEF InFront
    <3> QED  BY <2>7, <3>1
  <2>12. InFront(new)
    <3> SUFFICES ASSUME NEW j \in 1..Len(new), NEW k \in 1..Len(new), j < k
                 PROVE  new[j].order <= new[k].order /\ new[j].name # new[k].name
      BY DEF InFront
    <3>1. CASE j \in 1..Len(ra) /\ new[j] = ra[j]
      <4>1. CASE k \in 1..Len(ra) /\ new[k] = ra[k]
        BY <2>6, <3>1, <4>1 DEF InFront
      <4>2. CASE k = Len(ra) + 1 /\ new[k] = w
        BY <2>10, <3>1, <4>2
      <4>3. CASE k - (Len(ra) + 1) \in 1..Len(rb) /\ new[k] = rb[k - (Len(ra) + 1)]
        BY <2>11, <3>1, <4>3
      <4> QED  BY <2>9, <4>1, <4>2, <4>3
    <3>2. CASE j = Len(ra) + 1 /\ new[j] = w
      <4>1. k - (Len(ra) + 1) \in 1..Len(rb) /\ new[k] = rb[k - (Len(ra) + 1)]
        <5>1. k \notin 1..Len(ra) /\ k # Len(ra) + 1
          BY <2>8, <3>2
        <5> QED  BY <2>9, <5>1
      <4> QED  BY <2>10, <3>2, <4>1
    <3>3. CASE j - (Len(ra) + 1) \in 1..Len(rb) /\ new[j] = rb[j - (Len(ra) + 1)]
      <4>1. k - (Len(ra) + 1) \in 1..Len(rb) /\ new[k] = rb[k - (Len(ra) + 1)]
        <5>1. j > Len(ra) + 1 /\ Len(ra) \in Nat
          BY <2>8, <3>3
        <5>2. k \notin 1..Len(ra) /\ k # Len(ra) + 1
          BY <2>8, <5>1
        <5> QED  BY <2>9, <5>2
      <4>2. j - (Len(ra) + 1) < k - (Len(ra) + 1)
        <5>1. Len(ra) \in Nat /\ Len(new) \in Nat /\ j \in Nat /\ k \in Nat
          BY <2>8
        <5> QED  BY <5>1
      <4>3. InFront(rb)
        BY <2>6
      <4> DEFINE m == j - (Len(ra) + 1)
                 n == k - (Len(ra) + 1)
      <4> HIDE DEF m, n
      <4>4. m \in 1..Len(rb) /\ n \in 1..Len(rb) /\ m < n /\ new[j] = rb[m] /\ new[k] = rb[n]
        BY <3>3, <4>1, <4>2 DEF m, n
      <4> QED  BY <4>3, <4>4 DEF InFront
    <3> QED  BY <2>9, <3>1, <3>2, <3>3
  <2>13. \A j \in 1..Len(new) : new[j] = w \/ \E m \in 1..Len(l) : new[j] = l[m] /\ l[m].name # w.name
    <3>1. 1..i - 1 \subseteq 1..Len(l) /\ i + 1..Len(l) \subseteq 1..Len(l)
      BY <1>0, <2>3
    <3>2. \A j \in 1..Len(ra) : \E m \in 1..Len(l) : ra[j] = l[m] /\ l[m].name # w.name
      BY <2>7, <3>1
    <3>3. \A j \in 1..Len(rb) : \E m \in 1..Len(l) : rb[j] = l[m] /\ l[m].name # w.name
      BY <2>7, <3>1
    <3> SUFFICES ASSUME NEW j \in 1..Len(new)
                 PROVE  new[j] = w \/ \E m \in 1..Len(l) : new[j] = l[m] /\ l[m].name # w.name
      OBVIOUS
    <3>4. CASE j \in 1..Len(ra) /\ new[j] = ra[j]
      BY <3>2, <3>4
    <3>5. CASE j - (Len(ra) + 1) \in 1..Len(rb) /\ new[j] = rb[j - (Len(ra) + 1)]
      BY <3>3, <3>5
    <3> QED  BY <2>9, <3>4, <3>5
  <2> QED  BY <2>8, <2>12, <2>13 DEF new
<1> QED  BY <1>1, <1>2

LEMMA SetAtItsPlaceKeeps ==
  ASSUME NEW l \in Seq(Wraps), InFront(l), NEW w \in Wraps
  PROVE  /\ SetAtItsPlace(l, w) \in Seq(Wraps) /\ InFront(SetAtItsPlace(l, w))
         /\ \A j \in 1..Len(SetAtItsPlace(l, w)) :
              LET e == SetAtItsPlace(l, w)[j]
              IN  \/ /\ e.name = w.name /\ e.config = w.config
                     /\ e.order = INT_MAX \/ \E i \in 1..Len(l) : l[i].name = w.name /\ e.order = l[i].order
                  \/ \E i \in 1..Len(l) : e = l[i] /\ l[i].name # w.name
         /\ \E j \in 1..Len(SetAtItsPlace(l, w)) : SetAtItsPlace(l, w)[j].config = w.config
<1> DEFINE new == SetAtItsPlace(l, w)
<1>0. /\ Len(l) \in Nat /\ DOMAIN l = 1..Len(l)
      /\ \A i \in 1..Len(l) : l[i] \in Wraps /\ l[i].order \in Int /\ l[i].order <= INT_MAX
  BY WrapsAre
<1>1. CASE w.name \in Names(l)
  <2>1. new = [i \in DOMAIN l |-> IF l[i].name = w.name THEN [w EXCEPT !.order = l[i].order] ELSE l[i]]
    BY <1>1 DEF SetAtItsPlace
  <2> HIDE DEF new
  <2>2. \A i \in 1..Len(l) : l[i].name = w.name =>
          /\ new[i] \in Wraps /\ new[i].name = w.name /\ new[i].config = w.config
          /\ new[i].order = l[i].order
    BY <1>0, <2>1 DEF Wraps
  <2>3. \A i \in 1..Len(l) : l[i].name # w.name => new[i] = l[i]
    BY <1>0, <2>1
  <2>4. new \in [1..Len(l) -> Wraps]
    BY <1>0, <2>1, <2>2, <2>3
  <2>5. new \in Seq(Wraps) /\ Len(new) = Len(l)
    BY <1>0, <2>4
  <2>6. \A i \in 1..Len(l) : new[i].name = l[i].name /\ new[i].order = l[i].order
    BY <2>2, <2>3
  <2>7. InFront(new)
    BY <2>5, <2>6 DEF InFront
  <2>8. \E i \in 1..Len(l) : l[i].name = w.name
    BY <1>0, <1>1 DEF Names, Range
  <2> QED  BY <2>2, <2>3, <2>5, <2>7, <2>8 DEF new
<1>2. CASE w.name \notin Names(l)
  <2> DEFINE e == [w EXCEPT !.order = INT_MAX]
  <2>0. e \in Wraps /\ e.name = w.name /\ e.config = w.config /\ e.order = INT_MAX
    BY DEF Wraps, INT_MAX
  <2>1. new = Append(l, e)
    BY <1>2 DEF SetAtItsPlace
  <2> HIDE DEF new, e
  <2>2. /\ new \in Seq(Wraps) /\ Len(new) = Len(l) + 1
        /\ new[Len(l) + 1] = e /\ \A i \in 1..Len(l) : new[i] = l[i]
    BY <1>0, <2>0, <2>1
  <2>3. \A i \in 1..Len(l) : l[i].name # w.name
    BY <1>0, <1>2 DEF Names, Range
  <2>4. InFront(new)
    BY <1>0, <2>0, <2>2, <2>3 DEF InFront
  <2> QED  BY <1>0, <2>0, <2>2, <2>3, <2>4 DEF new
<1> QED  BY <1>1, <1>2

\* What is in the lists: the basic configuration comes before that of setSynchronousFull.
Sound(w) ==
  /\ w.config = "basic" => w.order = 2
  /\ w.name = "synchronous" => w.order # AtItsPlace /\ w.order >= 3
  /\ w.config = "FULL" => w.name = "synchronous"

SoundList(l) ==
  l \in Seq(Wraps) /\ InFront(l) /\ \A i \in 1..Len(l) : Sound(l[i])

\* What is set by the calls.
ToSet(w) ==
  /\ w \in Wraps /\ w.config # "basic"
  /\ w.name = "synchronous" => w.order = AtItsPlace
  /\ w.config = "FULL" => w.name = "synchronous"

HasFull(l) == \E i \in 1..Len(l) : l[i].config = "FULL"

ToFull == Wrap("checkpoint", "nothing", AtItsPlace)
ToOff == Wrap("checkpoint", "checkpoint", AtItsPlace)

\* What a thread may have left of its call.
WholeCalls == UNION {CallsOf[f] : f \in DOMAIN CallsOf}
Begun == WholeCalls \cup {<<>>, <<ToFull>>, <<ToOff>>}

ListsInv ==
  /\ todo \in [Setter -> Begun] /\ DOMAIN seen = Setter
  /\ SoundList(list) /\ \A s \in Setter : SoundList(seen[s])

Settings == [synchronous : {"FULL", "NORMAL"}, hook : BOOLEAN]

\* What the handle has run, it has run in the order of the list.
HandleInv ==
  /\ settings \in Settings
  /\ SoundList(cached)
  /\ HasFull(cached) => settings.synchronous = "FULL"

\* A call by itself has seen the list as it is; what was asked for last is in it,
\* unless the call under way is about to change that.
AskedInv ==
  /\ overlapped \in BOOLEAN
  /\ \A s \in Setter : seen[s] # <<>> => Busy(s)
  /\ overlapped => \E s \in Setter : Busy(s)
  /\ ~overlapped =>
       /\ \A r, s \in Setter : Busy(r) /\ Busy(s) => r = s
       /\ \A s \in Setter : seen[s] # <<>> => seen[s] = list
       /\ \A s \in Setter : todo[s] = <<ToFull>> => HasFull(list)
       /\ asked = "FULL" /\ (\A s \in Setter : todo[s] # <<ToOff>>) => HasFull(list)

ConfigsInv == ListsInv /\ HandleInv /\ AskedInv

\* The calls, and what is left of them.
Single(c, w) == c = <<w>> /\ c # <<>> /\ Head(c) = w /\ Tail(c) = <<>>
Double(c, v, w) == c = <<v, w>> /\ c # <<>> /\ Head(c) = v /\ Tail(c) = <<w>>

LEMMA CallsAre ==
  ASSUME NEW c \in Begun, c # <<>>
  PROVE  /\ ToSet(Head(c))
         /\ \/ Single(c, ToFull) \/ Single(c, ToOff)
            \/ \E w : Single(c, w) /\ w.name \notin {"synchronous", "checkpoint"}
            \/ Double(c, Wrap("synchronous", "FULL", AtItsPlace), ToFull)
            \/ \E w : Double(c, w, ToOff)
<1>1. AtItsPlace \in Int /\ AtItsPlace <= INT_MAX
  BY DEF AtItsPlace, INT_MAX
<1>2. /\ \A w : Single(<<w>>, w)
      /\ \A v, w : Double(<<v, w>>, v, w)
  BY DEF Single, Double
<1>3. \A v, w : Head(<<w>>) = w /\ Head(<<v, w>>) = v
  OBVIOUS
<1>4. \A o : /\ Wrap("own", "own", o) = [name |-> "own", config |-> "own", order |-> o]
           /\ Wrap("cipher", "key", o) = [name |-> "cipher", config |-> "key", order |-> o]
           /\ Wrap("synchronous", "FULL", o) = [name |-> "synchronous", config |-> "FULL", order |-> o]
           /\ Wrap("synchronous", "nothing", o) = [name |-> "synchronous", config |-> "nothing", order |-> o]
           /\ Wrap("checkpoint", "nothing", o) = [name |-> "checkpoint", config |-> "nothing", order |-> o]
           /\ Wrap("checkpoint", "checkpoint", o) = [name |-> "checkpoint", config |-> "checkpoint", order |-> o]
  BY DEF Wrap
<1>5. /\ ToSet(ToFull) /\ ToSet(ToOff) /\ ToSet(Wrap("synchronous", "FULL", AtItsPlace))
      /\ ToSet(Wrap("synchronous", "nothing", AtItsPlace)) /\ ToSet(Wrap("cipher", "key", AtItsPlace))
      /\ \A o \in OwnOrders \cup {AtItsPlace} : ToSet(Wrap("own", "own", o))
  <2>1. ToSet(ToFull)
    BY <1>1, <1>4 DEF ToSet, ToFull, Wraps
  <2>2. ToSet(ToOff)
    BY <1>1, <1>4 DEF ToSet, ToOff, Wraps
  <2>3. ToSet(Wrap("synchronous", "FULL", AtItsPlace))
    BY <1>1, <1>4 DEF ToSet, Wraps
  <2>4. ToSet(Wrap("synchronous", "nothing", AtItsPlace))
    BY <1>1, <1>4 DEF ToSet, Wraps
  <2>5. ToSet(Wrap("cipher", "key", AtItsPlace))
    BY <1>1, <1>4 DEF ToSet, Wraps
  <2>6. ASSUME NEW o \in OwnOrders \cup {AtItsPlace}  PROVE ToSet(Wrap("own", "own", o))
    <3>1. o \in Int /\ o <= INT_MAX
      BY <1>1, ConfigsAssumption
    <3> QED  BY <1>4, <3>1 DEF ToSet, Wraps
  <2> QED  BY <2>1, <2>2, <2>3, <2>4, <2>5, <2>6
<1>6. \/ c = <<ToFull>> \/ c = <<ToOff>>
      \/ c = <<Wrap("cipher", "key", AtItsPlace)>>
      \/ c = <<Wrap("synchronous", "FULL", AtItsPlace), ToFull>>
      \/ c = <<Wrap("synchronous", "nothing", AtItsPlace), ToOff>>
      \/ \E o \in OwnOrders \cup {AtItsPlace} : c = <<Wrap("own", "own", o)>>
  <2>1. CASE c \in {<<>>, <<ToFull>>, <<ToOff>>}
    BY <2>1
  <2>2. CASE c \in WholeCalls
    <3>1. PICK f \in DOMAIN CallsOf : c \in CallsOf[f]
      BY <2>2 DEF WholeCalls
    <3>2. f \in {"setCipher", "setSynchronousFull", "setSynchronousOff", "setConfig"}
      BY <3>1 DEF CallsOf
    <3>3. /\ CallsOf["setCipher"] = {<<Wrap("cipher", "key", AtItsPlace)>>}
          /\ CallsOf["setSynchronousFull"] = {<<Wrap("synchronous", "FULL", AtItsPlace), ToFull>>}
          /\ CallsOf["setSynchronousOff"] = {<<Wrap("synchronous", "nothing", AtItsPlace), ToOff>>}
          /\ CallsOf["setConfig"] = {<<Wrap("own", "own", o)>> : o \in OwnOrders \cup {AtItsPlace}}
      BY DEF CallsOf, ToFull, ToOff
    <3> QED  BY <3>1, <3>2, <3>3
  <2> QED  BY <2>1, <2>2 DEF Begun
<1>7. \A o : Wrap("own", "own", o).name = "own" /\ Wrap("cipher", "key", o).name = "cipher"
  BY DEF Wrap
<1>8. CASE c = <<ToFull>> \/ c = <<ToOff>>
  BY <1>2, <1>3, <1>5, <1>8
<1>9. CASE c = <<Wrap("cipher", "key", AtItsPlace)>>
  BY <1>2, <1>3, <1>5, <1>7, <1>9
<1>10. CASE c = <<Wrap("synchronous", "FULL", AtItsPlace), ToFull>>
  BY <1>2, <1>3, <1>5, <1>10
<1>11. CASE c = <<Wrap("synchronous", "nothing", AtItsPlace), ToOff>>
  BY <1>2, <1>3, <1>5, <1>11
<1>12. CASE \E o \in OwnOrders \cup {AtItsPlace} : c = <<Wrap("own", "own", o)>>
  BY <1>2, <1>3, <1>5, <1>7, <1>12
<1> QED  BY <1>6, <1>8, <1>9, <1>10, <1>11, <1>12

\* A new list is sound, and has of the other names what the old one has.
LEMMA SetKeeps ==
  ASSUME NEW l, SoundList(l), NEW w, ToSet(w)
  PROVE  /\ SoundList(Set(l, w))
         /\ HasFull(l) /\ w.name # "synchronous" /\ (\E i \in 1..Len(Set(l, w)) : Set(l, w)[i].name = "synchronous")
              => HasFull(Set(l, w))
         /\ w.order = AtItsPlace /\ w.config = "FULL" => HasFull(Set(l, w))
<1> DEFINE new == Set(l, w)
<1>0. /\ l \in Seq(Wraps) /\ InFront(l) /\ w \in Wraps /\ w.order \in Int /\ Len(l) \in Nat
      /\ \A i \in 1..Len(l) : Sound(l[i])
  BY DEF SoundList, ToSet, Wraps
<1>1. /\ new \in Seq(Wraps) /\ InFront(new)
      /\ \A j \in 1..Len(new) :
           \/ /\ new[j].name = w.name /\ new[j].config = w.config
              /\ \/ w.order # AtItsPlace /\ new[j].order = w.order
                 \/ new[j].order = INT_MAX
                 \/ \E i \in 1..Len(l) : l[i].name = w.name /\ new[j].order = l[i].order
           \/ \E i \in 1..Len(l) : new[j] = l[i] /\ l[i].name # w.name
      /\ w.order = AtItsPlace => \E j \in 1..Len(new) : new[j].config = w.config
  <2>1. CASE w.order = AtItsPlace
    <3>1. new = SetAtItsPlace(l, w)
      BY <2>1 DEF Set
    <3> HIDE DEF new
    <3> QED  BY <1>0, <3>1, SetAtItsPlaceKeeps
  <2>2. CASE w.order # AtItsPlace
    <3>1. new = SetWithOrder(l, w)
      BY <2>2 DEF Set
    <3> HIDE DEF new
    <3> QED  BY <1>0, <2>2, <3>1, SetWithOrderKeeps
  <2> QED  BY <2>1, <2>2
<1> HIDE DEF new
<1>2. ASSUME NEW j \in 1..Len(new)  PROVE Sound(new[j])
  <2>1. CASE \E i \in 1..Len(l) : new[j] = l[i] /\ l[i].name # w.name
    BY <1>0, <2>1
  <2>2. CASE /\ new[j].name = w.name /\ new[j].config = w.config
             /\ \/ w.order # AtItsPlace /\ new[j].order = w.order
                \/ new[j].order = INT_MAX
                \/ \E i \in 1..Len(l) : l[i].name = w.name /\ new[j].order = l[i].order
    BY <1>0, <2>2 DEF Sound, ToSet, AtItsPlace, INT_MAX
  <2> QED  BY <1>1, <2>1, <2>2
<1>3. ASSUME HasFull(l), w.name # "synchronous", NEW j \in 1..Len(new), new[j].name = "synchronous"
      PROVE  HasFull(new)
  <2>1. PICK i \in 1..Len(l) : new[j] = l[i]
    BY <1>1, <1>3
  <2>2. PICK m \in 1..Len(l) : l[m].config = "FULL" /\ l[m].name = "synchronous"
    BY <1>0, <1>3 DEF HasFull, Sound
  <2>3. i = m
    BY <1>0, <1>3, <2>1, <2>2 DEF InFront
  <2> QED  BY <2>1, <2>2, <2>3 DEF HasFull
<1> QED  BY <1>1, <1>2, <1>3 DEF new, SoundList, HasFull

LEMMA RunIs ==
  ASSUME NEW set \in Settings, NEW c
  PROVE  /\ Run(set, c) \in Settings
         /\ c = "FULL" => Run(set, c).synchronous = "FULL"
         /\ c # "basic" /\ set.synchronous = "FULL" => Run(set, c).synchronous = "FULL"
<1>1. CASE c = "basic"
  BY <1>1 DEF Run, Settings
<1>2. CASE c = "FULL"
  BY <1>2 DEF Run, Settings
<1>3. CASE c = "checkpoint"
  BY <1>3 DEF Run, Settings
<1>4. CASE c \notin {"basic", "FULL", "checkpoint"}
  BY <1>4 DEF Run, Settings
<1> QED  BY <1>1, <1>2, <1>3, <1>4

LEMMA RunAllLoop ==
  ASSUME NEW l \in Seq(Wraps), NEW set \in Settings
  PROVE  \E k \in [0..Len(l) -> Settings] :
           /\ k[Len(l)] = RunAll(l, set)
           /\ \A n \in 1..Len(l) : k[n] = Run(k[n - 1], l[n].config)
<1> DEFINE N == Len(l)
           step == [n \in 1..N |-> [s \in Settings |-> Run(s, l[n].config)]]
<1>0. N \in Nat
  OBVIOUS
<1>1. step \in [1..N -> [Settings -> Settings]]
  BY RunIs
<1>2. PICK g \in [0..N -> Settings] : Computes(g, N, Settings, set, step)
  <2> HIDE DEF step, N
  <2> QED  BY <1>0, <1>1, LoopComputes
<1>3. \A n \in 1..N : n - 1 \in 0..N /\ n # 0 /\ n \in 0..N
  BY <1>0
<1>4. \A n \in 1..N : g[n] = Run(g[n - 1], l[n].config)
  BY <1>2, <1>3 DEF Computes
<1>5. g[0] = set
  BY <1>2 DEF Computes
<1> DEFINE Fix(k) == k = [n \in 0..N |-> IF n = 0 THEN set ELSE Run(k[n - 1], l[n].config)]
           f == CHOOSE k : Fix(k)
<1>6. Fix(g)
  <2>1. \A n \in 0..N : g[n] = IF n = 0 THEN set ELSE Run(g[n - 1], l[n].config)
    <3>1. \A n \in 0..N : n = 0 \/ n \in 1..N
      BY <1>0
    <3> HIDE DEF step
    <3> QED  BY <1>3, <1>4, <1>5, <3>1
  <2> QED  BY <2>1
<1>7. Fix(f)
  BY <1>6
<1>8. RunAll(l, set) = f[N]
  BY DEF RunAll
<1>9. f[0] = set /\ \A n \in 1..N : f[n - 1] \in Settings => f[n] = step[n][f[n - 1]]
  <2> HIDE DEF f
  <2>1. \A n \in 0..N : f[n] = IF n = 0 THEN set ELSE Run(f[n - 1], l[n].config)
    BY <1>7
  <2>2. f[0] = set
    BY <1>0, <2>1
  <2>3. ASSUME NEW n \in 1..N, f[n - 1] \in Settings  PROVE f[n] = step[n][f[n - 1]]
    BY <1>3, <2>1, <2>3
  <2> QED  BY <2>2, <2>3
<1>10. f[N] = g[N]
  <2> HIDE DEF f, step
  <2> QED  BY <1>0, <1>2, <1>9 DEF Computes
<1> QED  BY <1>2, <1>4, <1>8, <1>10

\* A list that has it leaves the handle with full synchronisation.
LEMMA RunAllKeeps ==
  ASSUME NEW l, SoundList(l), NEW set \in Settings
  PROVE  /\ RunAll(l, set) \in Settings
         /\ HasFull(l) => RunAll(l, set).synchronous = "FULL"
<1>0. /\ l \in Seq(Wraps) /\ InFront(l) /\ Len(l) \in Nat
      /\ \A i \in 1..Len(l) : Sound(l[i]) /\ l[i].order \in Int
  BY WrapsAre DEF SoundList
<1>1. PICK k \in [0..Len(l) -> Settings] :
        /\ k[Len(l)] = RunAll(l, set)
        /\ \A n \in 1..Len(l) : k[n] = Run(k[n - 1], l[n].config)
  BY <1>0, RunAllLoop
<1> DEFINE Had(n) == \E i \in 1..n : l[i].config = "FULL"
           P == {n \in 0..Len(l) : Had(n) => k[n].synchronous = "FULL"}
<1>2. 0 \in P
  BY <1>0
<1>3. ASSUME NEW n \in Nat, n < Len(l), n \in P  PROVE n + 1 \in P
  <2>1. /\ n + 1 \in 1..Len(l) /\ n \in 0..Len(l) /\ n + 1 \in 0..Len(l)
        /\ k[n] \in Settings /\ k[n + 1] = Run(k[n], l[n + 1].config)
    BY <1>0, <1>1, <1>3
  <2>2. SUFFICES ASSUME Had(n + 1)  PROVE k[n + 1].synchronous = "FULL"
    BY <2>1
  <2>3. CASE l[n + 1].config = "FULL"
    BY <2>1, <2>3, RunIs
  <2>4. CASE l[n + 1].config # "FULL"
    <3>1. PICK i \in 1..n : l[i].config = "FULL"
      BY <1>3, <2>2, <2>4
    <3>2. i \in 1..Len(l) /\ i < n + 1 /\ l[i].order >= 3 /\ l[i].order <= l[n + 1].order
      BY <1>0, <2>1, <3>1 DEF Sound, InFront
    <3>3. l[n + 1].config # "basic"
      BY <1>0, <2>1, <3>2 DEF Sound
    <3>4. k[n].synchronous = "FULL"
      BY <1>3, <3>1
    <3> QED  BY <2>1, <3>3, <3>4, RunIs
  <2> QED  BY <2>3, <2>4
<1>4. Len(l) \in P
  <2> HIDE DEF P
  <2>1. \A n \in 0..Len(l) : n \in P
    BY <1>0, <1>2, <1>3, UpTo
  <2> QED  BY <1>0, <2>1
<1>5. Len(l) \in 0..Len(l)
  BY <1>0
<1> QED  BY <1>1, <1>4, <1>5 DEF HasFull

LEMMA WholeCallsAre ==
  ASSUME NEW c \in WholeCalls
  PROVE  c \in Begun /\ c # <<>> /\ c # <<ToFull>>
<1>1. c \in Begun
  BY DEF Begun
<1>2. PICK f \in DOMAIN CallsOf : c \in CallsOf[f]
  BY DEF WholeCalls
<1>3. f \in {"setCipher", "setSynchronousFull", "setSynchronousOff", "setConfig"}
  BY <1>2 DEF CallsOf
<1>4. /\ CallsOf["setCipher"] = {<<Wrap("cipher", "key", AtItsPlace)>>}
      /\ CallsOf["setSynchronousFull"] = {<<Wrap("synchronous", "FULL", AtItsPlace), ToFull>>}
      /\ CallsOf["setSynchronousOff"] = {<<Wrap("synchronous", "nothing", AtItsPlace), ToOff>>}
      /\ CallsOf["setConfig"] = {<<Wrap("own", "own", o)>> : o \in OwnOrders \cup {AtItsPlace}}
  BY DEF CallsOf, ToFull, ToOff
<1>5. /\ \A v, w : <<v, w>> # <<>> /\ <<v, w>> # <<ToFull>>
      /\ \A w : <<w>> # <<>> /\ (<<w>> = <<ToFull>> => w.name = "checkpoint")
  <2>1. ToFull.name = "checkpoint"
    BY DEF ToFull, Wrap
  <2> QED  BY <2>1
<1>6. \A o : Wrap("own", "own", o).name = "own" /\ Wrap("cipher", "key", o).name = "cipher"
  BY DEF Wrap
<1>7. CASE c = <<Wrap("cipher", "key", AtItsPlace)>>
  BY <1>1, <1>5, <1>6, <1>7
<1>8. CASE \E o \in OwnOrders \cup {AtItsPlace} : c = <<Wrap("own", "own", o)>>
  BY <1>1, <1>5, <1>6, <1>8
<1> QED  BY <1>1, <1>2, <1>3, <1>4, <1>5, <1>7, <1>8

LEMMA DefaultIsSound == SoundList(defaultConfigs) /\ SoundList(<<>>)
<1> DEFINE d == defaultConfigs
<1>1. /\ d = << [name |-> "trace", config |-> "trace", order |-> 0],
                [name |-> "cipher", config |-> "nothing", order |-> 1],
                [name |-> "basic", config |-> "basic", order |-> 2],
                [name |-> "synchronous", config |-> "nothing", order |-> 3],
                [name |-> "checkpoint", config |-> "checkpoint", order |-> 4],
                [name |-> "tokenize", config |-> "nothing", order |-> 5] >>
  BY DEF defaultConfigs, Wrap
<1> HIDE DEF d
<1>2. /\ Len(d) = 6 /\ d[1] = [name |-> "trace", config |-> "trace", order |-> 0]
      /\ d[2] = [name |-> "cipher", config |-> "nothing", order |-> 1]
      /\ d[3] = [name |-> "basic", config |-> "basic", order |-> 2]
      /\ d[4] = [name |-> "synchronous", config |-> "nothing", order |-> 3]
      /\ d[5] = [name |-> "checkpoint", config |-> "checkpoint", order |-> 4]
      /\ d[6] = [name |-> "tokenize", config |-> "nothing", order |-> 5]
  BY <1>1
<1>3. \A i \in 1..6 : i = 1 \/ i = 2 \/ i = 3 \/ i = 4 \/ i = 5 \/ i = 6
  OBVIOUS
<1>4. ASSUME NEW i \in 1..6
      PROVE  /\ d[i] \in Wraps /\ Sound(d[i]) /\ d[i].order = i - 1
             /\ d[i].name = CASE i = 1 -> "trace" [] i = 2 -> "cipher" [] i = 3 -> "basic"
                              [] i = 4 -> "synchronous" [] i = 5 -> "checkpoint" [] OTHER -> "tokenize"
  BY <1>2, <1>3 DEF Wraps, Sound, AtItsPlace, INT_MAX
<1>5. d \in Seq(Wraps)
  <2>1. d = [i \in 1..6 |-> d[i]]
    BY <1>1
  <2> QED  BY <1>4, <2>1
<1>6. ASSUME NEW i \in 1..6, NEW j \in 1..6, i < j
      PROVE  d[i].order <= d[j].order /\ d[i].name # d[j].name
  BY <1>4, <1>6
<1>7. SoundList(d)
  BY <1>2, <1>4, <1>5, <1>6 DEF SoundList, InFront
<1>8. SoundList(<<>>)
  BY DEF SoundList, InFront
<1> QED  BY <1>7, <1>8 DEF d

LEMMA ConfigsStart == ConfigsInit => ConfigsInv
<1> SUFFICES ASSUME ConfigsInit  PROVE ConfigsInv
  OBVIOUS
<1>1. ListsInv
  BY DefaultIsSound DEF ConfigsInit, ListsInv, Begun
<1>2. HandleInv
  BY DefaultIsSound DEF ConfigsInit, HandleInv, HasFull, Settings
<1>3. AskedInv
  <2>1. <<>> # <<ToFull>>
    OBVIOUS
  <2> QED  BY <2>1 DEF ConfigsInit, AskedInv, Busy
<1> QED  BY <1>1, <1>2, <1>3 DEF ConfigsInv

LEMMA CallKeeps ==
  ASSUME ConfigsInv, NEW s \in Setter, NEW f \in DOMAIN CallsOf, Call(s, f)
  PROVE  ConfigsInv'
<1>1. PICK c \in CallsOf[f] : todo' = [todo EXCEPT ![s] = c]
  BY DEF Call
<1>2. c \in Begun /\ c # <<>> /\ c # <<ToFull>>
  BY <1>1, WholeCallsAre DEF WholeCalls
<1>3. /\ todo[s] = <<>> /\ UNCHANGED <<list, seen, cached, settings, asked>>
      /\ overlapped' = (overlapped \/ \E r \in Setter : todo[r] # <<>>)
  BY DEF Call, Busy
<1>4. todo \in [Setter -> Begun]
  BY DEF ConfigsInv, ListsInv
<1>5. todo'[s] = c /\ \A r \in Setter : r # s => todo'[r] = todo[r]
  BY <1>1, <1>4
<1>6. ListsInv'
  <2>1. todo' \in [Setter -> Begun]
    BY <1>1, <1>2, <1>4
  <2> QED  BY <1>3, <2>1 DEF ConfigsInv, ListsInv
<1>7. HandleInv'
  BY <1>3 DEF ConfigsInv, HandleInv
<1>8. AskedInv'
  <2> USE DEF Busy
  <2>1. overlapped' \in BOOLEAN
    BY <1>3 DEF ConfigsInv, AskedInv
  <2>2. \A r \in Setter : seen'[r] # <<>> => Busy(r)'
    BY <1>3, <1>5 DEF ConfigsInv, AskedInv
  <2>3. \E r \in Setter : Busy(r)'
    BY <1>2, <1>5
  <2>4. ASSUME ~overlapped'
        PROVE  /\ \A q, r \in Setter : Busy(q)' /\ Busy(r)' => q = r
               /\ \A r \in Setter : seen'[r] # <<>> => seen'[r] = list'
               /\ \A r \in Setter : todo'[r] = <<ToFull>> => HasFull(list')
               /\ asked' = "FULL" /\ (\A r \in Setter : todo'[r] # <<ToOff>>) => HasFull(list')
    <3>1. ~overlapped /\ \A r \in Setter : todo[r] = <<>>
      BY <1>3, <2>4
    <3>2. \A r \in Setter : todo[r] # <<ToOff>>
      <4>1. <<>> # <<ToOff>>
        OBVIOUS
      <4> QED  BY <3>1, <4>1
    <3>3. asked = "FULL" => HasFull(list)
      BY <3>1, <3>2 DEF ConfigsInv, AskedInv
    <3>4. \A q, r \in Setter : Busy(q)' /\ Busy(r)' => q = r
      BY <1>5, <3>1
    <3>5. \A r \in Setter : seen'[r] # <<>> => seen'[r] = list'
      BY <1>3, <3>1 DEF ConfigsInv, AskedInv
    <3>6. \A r \in Setter : todo'[r] # <<ToFull>>
      <4>1. <<>> # <<ToFull>>
        OBVIOUS
      <4> QED  BY <1>2, <1>5, <3>1, <4>1
    <3> QED  BY <1>3, <3>3, <3>4, <3>5, <3>6
  <2> QED  BY <2>1, <2>2, <2>3, <2>4 DEF AskedInv
<1> QED  BY <1>6, <1>7, <1>8 DEF ConfigsInv

LEMMA ReadListKeeps ==
  ASSUME ConfigsInv, NEW s \in Setter, ReadList(s)
  PROVE  ConfigsInv'
<1>1. /\ seen' = [seen EXCEPT ![s] = list] /\ todo[s] # <<>>
      /\ UNCHANGED <<list, todo, cached, settings, asked, overlapped>>
  BY DEF ReadList, Busy
<1>2. DOMAIN seen = Setter
  BY DEF ConfigsInv, ListsInv
<1>3. seen'[s] = list /\ DOMAIN seen' = Setter /\ \A r \in Setter : r # s => seen'[r] = seen[r]
  BY <1>1, <1>2
<1>4. ListsInv'
  BY <1>1, <1>3 DEF ConfigsInv, ListsInv
<1>5. HandleInv'
  BY <1>1 DEF ConfigsInv, HandleInv
<1>6. AskedInv'
  <2>1. \A r \in Setter : Busy(r)' <=> Busy(r)
    BY <1>1 DEF Busy
  <2>2. \A r \in Setter : seen'[r] # <<>> => Busy(r)'
    BY <1>1, <1>3, <2>1 DEF ConfigsInv, AskedInv, Busy
  <2>3. ~overlapped => \A r \in Setter : seen'[r] # <<>> => seen'[r] = list'
    BY <1>1, <1>3 DEF ConfigsInv, AskedInv
  <2> QED  BY <1>1, <2>1, <2>2, <2>3 DEF ConfigsInv, AskedInv
<1> QED  BY <1>4, <1>5, <1>6 DEF ConfigsInv

LEMMA AssignListKeeps ==
  ASSUME ConfigsInv, NEW s \in Setter, AssignList(s)
  PROVE  ConfigsInv'
<1> DEFINE c == todo[s]
           w == Head(c)
<1>1. /\ seen[s] # <<>> /\ list' = Set(seen[s], w)
      /\ todo' = [todo EXCEPT ![s] = Tail(c)] /\ seen' = [seen EXCEPT ![s] = <<>>]
      /\ asked' = IF todo'[s] = <<>> THEN AskedBy(w) ELSE asked
      /\ overlapped' = (overlapped /\ \E r \in Setter : todo'[r] # <<>>)
      /\ UNCHANGED <<cached, settings>>
  BY DEF AssignList
<1>2. todo \in [Setter -> Begun] /\ DOMAIN seen = Setter /\ c # <<>> /\ c \in Begun
  BY <1>1 DEF ConfigsInv, ListsInv, AskedInv, Busy
<1>3. /\ ToSet(w)
      /\ \/ Single(c, ToFull) \/ Single(c, ToOff)
         \/ \E v : Single(c, v) /\ v.name \notin {"synchronous", "checkpoint"}
         \/ Double(c, Wrap("synchronous", "FULL", AtItsPlace), ToFull)
         \/ \E v : Double(c, v, ToOff)
  BY <1>2, CallsAre
<1> HIDE DEF c, w
<1>4. /\ todo'[s] = Tail(c) /\ seen'[s] = <<>> /\ DOMAIN seen' = Setter
      /\ \A r \in Setter : r # s => todo'[r] = todo[r] /\ seen'[r] = seen[r]
  BY <1>1, <1>2
<1>5. Tail(c) \in {<<>>, <<ToFull>>, <<ToOff>>}
  BY <1>3 DEF Single, Double
<1>6. /\ SoundList(list')
      /\ HasFull(seen[s]) /\ w.name # "synchronous"
           /\ (\E i \in 1..Len(list') : list'[i].name = "synchronous") => HasFull(list')
      /\ w.order = AtItsPlace /\ w.config = "FULL" => HasFull(list')
  <2>1. SoundList(seen[s])
    BY DEF ConfigsInv, ListsInv
  <2> QED  BY <1>1, <1>3, <2>1, SetKeeps
<1>7. ListsInv'
  <2>1. todo' \in [Setter -> Begun]
    BY <1>1, <1>2, <1>5 DEF Begun
  <2>2. \A r \in Setter : SoundList(seen'[r])
    BY <1>4, DefaultIsSound DEF ConfigsInv, ListsInv
  <2> QED  BY <1>4, <1>6, <2>1, <2>2 DEF ListsInv
<1>8. HandleInv'
  BY <1>1 DEF ConfigsInv, HandleInv
<1>9. AskedInv'
  <2>1. overlapped' \in BOOLEAN /\ (overlapped' => \E r \in Setter : Busy(r)')
    BY <1>1 DEF ConfigsInv, AskedInv, Busy
  <2>2. \A r \in Setter : seen'[r] # <<>> => Busy(r)'
    BY <1>4 DEF ConfigsInv, AskedInv, Busy
  <2>3. ASSUME overlapped, \A r \in Setter : todo'[r] = <<>>
        PROVE  /\ \A r \in Setter : ~Busy(r)' /\ seen'[r] = <<>> /\ todo'[r] # <<ToFull>>
               /\ asked' # "FULL"
    <3>1. asked' = "unclear"
      BY <1>1, <2>3 DEF AskedBy
    <3>2. <<>> # <<ToFull>>
      OBVIOUS
    <3> QED  BY <2>2, <2>3, <3>1, <3>2 DEF Busy
  <2>4. ASSUME ~overlapped
        PROVE  /\ \A q, r \in Setter : Busy(q)' /\ Busy(r)' => q = r
               /\ \A r \in Setter : seen'[r] = <<>>
               /\ \A r \in Setter : todo'[r] = <<ToFull>> => HasFull(list')
               /\ asked' = "FULL" /\ (\A r \in Setter : todo'[r] # <<ToOff>>) => HasFull(list')
    <3>1. \A r \in Setter : r # s => todo[r] = <<>> /\ todo'[r] = <<>> /\ seen'[r] = <<>>
      BY <1>2, <1>4, <2>4 DEF ConfigsInv, AskedInv, Busy, c
    <3>2. seen[s] = list /\ (c = <<ToFull>> => HasFull(list))
          /\ (asked = "FULL" /\ c # <<ToOff>> => HasFull(list))
      <4>1. <<>> # <<ToOff>>
        OBVIOUS
      <4>2. c # <<ToOff>> => \A r \in Setter : todo[r] # <<ToOff>>
        BY <3>1, <4>1 DEF c
      <4> QED  BY <1>1, <2>4, <4>2 DEF ConfigsInv, AskedInv, c
    <3>3. /\ ToFull.name = "checkpoint" /\ ToFull.config = "nothing"
          /\ ToOff.name = "checkpoint" /\ ToOff.config = "checkpoint"
          /\ Wrap("synchronous", "FULL", AtItsPlace).config = "FULL"
          /\ Wrap("synchronous", "FULL", AtItsPlace).order = AtItsPlace
          /\ <<ToFull>> # <<ToOff>> /\ <<>> # <<ToFull>>
      <4>1. /\ ToFull.name = "checkpoint" /\ ToFull.config = "nothing"
            /\ ToOff.name = "checkpoint" /\ ToOff.config = "checkpoint"
            /\ Wrap("synchronous", "FULL", AtItsPlace).config = "FULL"
            /\ Wrap("synchronous", "FULL", AtItsPlace).order = AtItsPlace
        BY DEF ToFull, ToOff, Wrap
      <4>2. ToFull # ToOff
        BY <4>1
      <4>3. <<ToFull>>[1] = ToFull /\ <<ToOff>>[1] = ToOff
        OBVIOUS
      <4> QED  BY <4>1, <4>2, <4>3
    <3>4. /\ \A l : SoundList(l) /\ HasFull(l) => \E i \in 1..Len(l) : l[i].name = "synchronous"
          /\ \A l : SoundList(l) => (("synchronous" \in Names(l))
                                       <=> \E i \in 1..Len(l) : l[i].name = "synchronous")
      <4>1. \A l : SoundList(l) /\ HasFull(l) => \E i \in 1..Len(l) : l[i].name = "synchronous"
        BY DEF SoundList, HasFull, Sound
      <4>2. \A l : SoundList(l) => DOMAIN l = 1..Len(l)
        BY WrapsAre DEF SoundList
      <4> QED  BY <4>1, <4>2 DEF Names, Range
    <3>5. \A q, r \in Setter : Busy(q)' /\ Busy(r)' => q = r
      BY <3>1 DEF Busy
    <3>6. \A r \in Setter : seen'[r] = <<>>
      BY <1>4, <3>1
    <3>7. todo'[s] = <<ToFull>> => HasFull(list')
      <4>1. SUFFICES ASSUME Tail(c) = <<ToFull>>  PROVE HasFull(list')
        BY <1>4
      <4>2. Double(c, Wrap("synchronous", "FULL", AtItsPlace), ToFull)
        BY <1>3, <3>3, <4>1 DEF Single, Double
      <4> QED  BY <1>6, <3>3, <4>2 DEF Double, w
    <3>8. ASSUME asked' = "FULL", todo'[s] # <<ToOff>>  PROVE HasFull(list')
      <4>1. CASE Tail(c) = <<>>
        <5>1. AskedBy(w) = "FULL" /\ SoundList(list)
          BY <1>1, <1>4, <3>8, <4>1 DEF ConfigsInv, ListsInv
        <5>2. ~("synchronous" \in Names(list) \ Names(list'))
          BY <5>1 DEF AskedBy
        <5>3. w.name = "checkpoint" => w.config = "nothing"
          BY <2>4, <5>1, <5>2 DEF AskedBy
        <5>4. w.name # "checkpoint" => asked = "FULL"
          BY <2>4, <5>1, <5>2 DEF AskedBy
        <5>5. HasFull(list) /\ w.name # "synchronous"
          <6>1. <<ToFull>> # <<>> /\ <<ToOff>> # <<>>
            OBVIOUS
          <6>2. CASE Single(c, ToFull)
            BY <3>2, <3>3, <6>2 DEF Single, w
          <6>3. CASE Single(c, ToOff)
            BY <3>3, <5>3, <6>3 DEF Single, w
          <6>4. CASE \E v : Single(c, v) /\ v.name \notin {"synchronous", "checkpoint"}
            <7>1. c = <<w>> /\ w.name \notin {"synchronous", "checkpoint"}
              BY <6>4 DEF Single, w
            <7>2. c # <<ToOff>>
              BY <3>3, <7>1
            <7> QED  BY <3>2, <5>4, <7>1, <7>2
          <6> QED  BY <1>3, <4>1, <6>1, <6>2, <6>3, <6>4 DEF Double
        <5>6. \E i \in 1..Len(list') : list'[i].name = "synchronous"
          BY <1>6, <3>4, <5>1, <5>2, <5>5
        <5> QED  BY <1>6, <3>2, <5>5, <5>6
      <4>2. CASE Tail(c) # <<>>
        <5>1. Double(c, Wrap("synchronous", "FULL", AtItsPlace), ToFull)
          BY <1>3, <1>4, <3>8, <4>2 DEF Single, Double
        <5> QED  BY <1>6, <3>3, <5>1 DEF Double, w
      <4> QED  BY <4>1, <4>2
    <3> QED  BY <3>1, <3>3, <3>5, <3>6, <3>7, <3>8
  <2>5. ~overlapped' => ~overlapped \/ \A r \in Setter : todo'[r] = <<>>
    BY <1>1 DEF ConfigsInv, AskedInv
  <2> QED  BY <2>1, <2>2, <2>3, <2>4, <2>5 DEF AskedInv
<1> QED  BY <1>7, <1>8, <1>9 DEF ConfigsInv

LEMMA InvokeListKeeps ==
  ASSUME ConfigsInv, InvokeList \/ CloseHandle
  PROVE  ConfigsInv'
<1>1. UNCHANGED <<list, todo, seen, asked, overlapped>>
  BY DEF InvokeList, CloseHandle
<1>2. ListsInv' /\ AskedInv'
  BY <1>1 DEF ConfigsInv, ListsInv, AskedInv, Busy
<1>3. CASE InvokeList
  <2>1. cached' = list /\ settings' = RunAll(list, settings)
    BY <1>3 DEF InvokeList
  <2>2. SoundList(list) /\ settings \in Settings
    BY DEF ConfigsInv, ListsInv, HandleInv
  <2>3. HandleInv'
    BY <2>1, <2>2, RunAllKeeps DEF HandleInv
  <2> QED  BY <1>2, <2>3 DEF ConfigsInv
<1>4. CASE CloseHandle
  <2>1. cached' = <<>> /\ settings' = [synchronous |-> "FULL", hook |-> FALSE]
    BY <1>4 DEF CloseHandle
  <2>2. HandleInv'
    BY <2>1, DefaultIsSound DEF HandleInv, Settings
  <2> QED  BY <1>2, <2>2 DEF ConfigsInv
<1> QED  BY <1>3, <1>4

LEMMA ConfigsAlways == ConfigsSpec => []ConfigsInv
<1>1. ConfigsInv /\ [ConfigsNext]_configsVars => ConfigsInv'
  <2> SUFFICES ASSUME ConfigsInv, [ConfigsNext]_configsVars  PROVE ConfigsInv'
    OBVIOUS
  <2>1. CASE ConfigsNext
    BY <2>1, CallKeeps, ReadListKeeps, AssignListKeeps, InvokeListKeeps DEF ConfigsNext
  <2>2. CASE UNCHANGED configsVars
    BY <2>2 DEF configsVars, ConfigsInv, ListsInv, HandleInv, AskedInv, Busy
  <2> QED  BY <2>1, <2>2
<1> QED  BY <1>1, ConfigsStart, PTL DEF ConfigsSpec

\* Whatever calls have overlapped, setConfig keeps the list in the order of its numbers
\* ("Small numbers in front" of Configs::Order), and each name in it once.
THEOREM NumbersInFront == ConfigsSpec => []SmallNumbersInFront
<1>1. ConfigsInv => SmallNumbersInFront
  <2>1. ConfigsInv => SoundList(list) /\ DOMAIN list = 1..Len(list)
    BY WrapsAre DEF ConfigsInv, ListsInv, SoundList
  <2> QED  BY <2>1 DEF SmallNumbersInFront, SoundList, InFront
<1> QED  BY <1>1, ConfigsAlways, PTL

\* A handle that has run the list that setSynchronousFull has left writes with full
\* synchronisation: Configs::invoke runs the basic configuration before it.
THEOREM FullLasts == ConfigsSpec => []FullIsFull
<1>1. ConfigsInv => FullIsFull
  <2> SUFFICES ASSUME ConfigsInv, asked = "FULL", AtRest, cached = list
               PROVE  settings.synchronous = "FULL"
    BY DEF FullIsFull, Current
  <2>1. ~overlapped
    BY DEF ConfigsInv, AskedInv, AtRest
  <2>2. \A s \in Setter : todo[s] # <<ToOff>>
    <3>1. <<>> # <<ToOff>>
      OBVIOUS
    <3> QED  BY <3>1 DEF AtRest, Busy
  <2> QED  BY <2>1, <2>2 DEF ConfigsInv, AskedInv, HandleInv
<1> QED  BY <1>1, ConfigsAlways, PTL

=============================================================================
