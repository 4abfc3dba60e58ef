------------------------------ MODULE MCPools -------------------------------
(* A pool of handles, what its handles are set up with, the table of pools,  *)
(* and the checkpoints.  HandlePool only numbers the configurations and      *)
(* knows one pool, so that these share no state: part is the one that moves  *)
(* in this behaviour, while the others rest.                                 *)
(*                                                                          *)
(* Pool: room for one free handle, and for two that live: with two threads  *)
(* a handle comes back to a full list, and both may make a handle when the  *)
(* count allows for one.                                                    *)
(* Configurations: two threads and three calls, so that one may overlap two *)
(* others, or follow two that overlap; orders before the basic              *)
(* configuration and after it.                                              *)
(* Table: three objects and two paths, one of which may have a second pool; *)
(* one tag, which two pools may be given.                                   *)
(* Checkpoints: two data bases, a delay of two ticks, and a thread that may *)
(* wait a tick for the mutex.                                               *)
EXTENDS HandlePool, Configs, PoolTable, CheckpointQueue

VARIABLE part

CONSTANTS p1, p2
\* Each pool is named by its path and a number.
TwoPaths == {p1, p2}
ThreePools == {<<p1, 1>>, <<p1, 2>>, <<p2, 1>>}
PathOfPool == [q \in ThreePools |-> q[1]]

PoolsInit ==
  /\ part \in {"pool", "configs", "table", "checkpoints"}
  /\ PoolInit /\ ConfigsInit /\ TableInit /\ QueueInit

PoolMoves == PoolNext /\ UNCHANGED <<configsVars, tableVars, queueVars>>
ConfigsMove == ConfigsNext /\ UNCHANGED <<lockVars, poolVars, tableVars, queueVars>>
TableMoves == TableNext /\ UNCHANGED <<lockVars, poolVars, configsVars, queueVars>>
QueueMoves == QueueNext /\ UNCHANGED <<lockVars, poolVars, configsVars, tableVars>>

\* All calls were made, or what follows is undefined.
Rest ==
  /\ (part = "configs" /\ calls = MaxCalls) \/ (part = "table" /\ undefined)
  /\ UNCHANGED <<lockVars, poolVars, configsVars, tableVars, queueVars>>

PoolsNext ==
  /\ UNCHANGED part
  /\ \/ part = "pool" /\ PoolMoves
     \/ part = "configs" /\ ConfigsMove
     \/ part = "table" /\ TableMoves
     \/ part = "checkpoints" /\ QueueMoves
     \/ Rest

PoolsSpec ==
  /\ PoolsInit
  /\ [][PoolsNext]_<<part, lockVars, poolVars, configsVars, tableVars, queueVars>>
  /\ PoolFairness /\ QueueFairness
=============================================================================
