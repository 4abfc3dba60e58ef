---------------------------- MODULE SnapshotStore ---------------------------
(***************************************************************************)
(* What a data base with a write-ahead log promises its connections: every *)
(* reader sees one committed state as long as it reads, one writer at a    *)
(* time replaces the latest state by the next, all of it or nothing, and   *)
(* after a crash the latest state is one that was committed: if only the   *)
(* process died, the last; if the power failed, none older than what was   *)
(* made durable.                                                           *)
(***************************************************************************)
EXTENDS Sequences, Naturals

CONSTANTS Connection, State, First, None

VARIABLES
  store,   \* the states committed, and not lost
  sure,    \* how many of them are durable
  view,    \* what every reader sees
  writer,  \* the connection that writes
  draft,   \* what it has written
  sealed   \* whether that is complete

storeVars == <<store, sure, view, writer, draft, sealed>>

Latest == store[Len(store)]

StoreInit ==
  /\ store = <<First>> /\ sure = 1
  /\ view = [c \in Connection |-> None]
  /\ writer = None /\ draft = None /\ sealed = FALSE

Begin(c) ==
  /\ view[c] = None /\ writer # c
  /\ view' = [view EXCEPT ![c] = Latest]
  /\ UNCHANGED <<store, sure, writer, draft, sealed>>

End(c) ==
  /\ view[c] # None
  /\ view' = [view EXCEPT ![c] = None]
  /\ UNCHANGED <<store, sure, writer, draft, sealed>>

\* Only a reader of the latest state may write.
BeginWrite(c) ==
  /\ writer = None /\ view[c] = Latest
  /\ writer' = c /\ draft' = Latest
  /\ view' = [view EXCEPT ![c] = None]
  /\ UNCHANGED <<store, sure, sealed>>

Write(s) ==
  /\ writer # None /\ draft # None /\ ~sealed
  /\ draft' = s /\ sealed' \in BOOLEAN
  /\ UNCHANGED <<store, sure, view, writer>>

Commit ==
  /\ sealed
  /\ store' = Append(store, draft)
  /\ draft' = None /\ sealed' = FALSE
  /\ UNCHANGED <<sure, view, writer>>

Rollback ==
  /\ writer # None /\ draft # None
  /\ draft' = None /\ sealed' = FALSE
  /\ UNCHANGED <<store, sure, view, writer>>

\* The writer, done, reads the latest state.
EndWrite ==
  /\ writer # None /\ draft = None
  /\ writer' = None
  /\ view' = [view EXCEPT ![writer] = Latest]
  /\ UNCHANGED <<store, sure, draft, sealed>>

Persist ==
  /\ sure' = Len(store)
  /\ UNCHANGED <<store, view, writer, draft, sealed>>

\* A transaction whose last write was under way may have been committed by it.
Written == IF sealed THEN Append(store, draft) ELSE store

Ended ==
  /\ view' = [c \in Connection |-> None]
  /\ writer' = None /\ draft' = None /\ sealed' = FALSE
  /\ UNCHANGED sure

Kill == store' = Written /\ Ended

PowerLoss == \E n \in sure..Len(Written) : store' = SubSeq(Written, 1, n) /\ Ended

StoreNext ==
  \/ \E c \in Connection : Begin(c) \/ End(c) \/ BeginWrite(c)
  \/ \E s \in State : Write(s)
  \/ Commit \/ Rollback \/ EndWrite \/ Persist
  \/ Kill \/ PowerLoss

StoreSpec == StoreInit /\ [][StoreNext]_storeVars
=============================================================================
