----------------------------- MODULE PoolTable ------------------------------
(***************************************************************************)
(* The table of pools of WCDB (HandlePool::GetPool), and the objects that  *)
(* hold one: Database objects, and whatever copies their reference.  The   *)
(* table counts the objects of each path and forgets a pool with its last. *)
(* A reference is given up in two steps, of which only the second holds    *)
(* the mutex of the table.                                                 *)
(***************************************************************************)
EXTENDS Naturals, FiniteSets

CONSTANTS
  Object,    \* bound: objects that may live at the same time
  Path,
  Pool,      \* bound: the pools that may live at the same time
  PathOf,    \* HandlePool::path, which is constant
  Tag,       \* the valid tags
  NoPool, NoTag,
  MaxCopies  \* bound: references that one object's is copied to

ASSUME TableAssumption ==
  /\ IsFiniteSet(Object)
  /\ PathOf \in [Pool -> Path]
  /\ NoPool \notin Pool /\ NoTag \notin Tag
  /\ MaxCopies \in Nat \ {0}

VARIABLES
  table,      \* s_pools: the pool of each path
  count,      \* s_pools: the reference of each path
  tag,        \* HandlePool::tag
  held,       \* the pool that each object holds
  copies,     \* m_reference: how often its reference has been copied
  tagged,     \* history: objects that found their pool by its tag
  miscounted, \* history: an object was given up while its pool had a tagged one
  undefined   \* an entry was used that the table does not have

tableVars == <<table, count, tag, held, copies, tagged, miscounted, undefined>>

Living == {o \in Object : held[o] # NoPool}
\* Those whose last reference has gone, before they reach the table.
Released == {o \in Living : copies[o] = 0}

TableTypeOK ==
  /\ table \in [Path -> Pool \cup {NoPool}]
  /\ count \in [Path -> Nat]
  /\ tag \in [Pool -> Tag \cup {NoTag}]
  /\ held \in [Object -> Pool \cup {NoPool}]
  /\ copies \in [Object -> 0..MaxCopies]
  /\ tagged \subseteq Object
  /\ miscounted \in BOOLEAN
  /\ undefined \in BOOLEAN

TableInit ==
  /\ table = [p \in Path |-> NoPool]
  /\ count = [p \in Path |-> 0]
  /\ tag = [q \in Pool |-> NoTag]
  /\ held = [o \in Object |-> NoPool]
  /\ copies = [o \in Object |-> 0]
  /\ tagged = {}
  /\ miscounted = FALSE /\ undefined = FALSE

-----------------------------------------------------------------------------
(***************************************************************************)
(* A new object.                                                           *)
(***************************************************************************)

Unused == Pool \ ({held[o] : o \in Object} \cup {table[p] : p \in Path})

\* The object o holds pool q.
Hold(o, q) ==
  /\ held' = [held EXCEPT ![o] = q]
  /\ copies' = [copies EXCEPT ![o] = 1]

\* The path is not in the table: a new pool, without a tag.
NewPool(o, p) ==
  /\ table[p] = NoPool
  /\ \E q \in Unused :
       /\ PathOf[q] = p
       /\ table' = [table EXCEPT ![p] = q]
       /\ Hold(o, q)
  /\ count' = [count EXCEPT ![p] = 1]
  /\ UNCHANGED tag

\* Faulty variant: whoever finds a pool is not counted.
FindPoolUncounted(o, p) ==
  /\ table[p] # NoPool
  /\ Hold(o, table[p])
  /\ UNCHANGED <<table, count, tag>>

FindPool(o, p) ==
  /\ table[p] # NoPool
  /\ count' = [count EXCEPT ![p] = @ + 1]
  /\ Hold(o, table[p])
  /\ UNCHANGED <<table, tag>>

\* Database(path).
GetPool(o, p) ==
  /\ ~undefined /\ o \notin Living
  /\ NewPool(o, p) \/ FindPool(o, p)
  /\ UNCHANGED <<tagged, miscounted, undefined>>

\* Database(tag): the loop has a copy of the entry, and counts in that.  Without such
\* a tag there is no object.
GetPoolByTag(o, t) ==
  /\ ~undefined /\ o \notin Living
  /\ \E p \in Path : table[p] # NoPool /\ tag[table[p]] = t /\ Hold(o, table[p])
  /\ tagged' = tagged \cup {o}
  /\ UNCHANGED <<table, count, tag, miscounted, undefined>>

-----------------------------------------------------------------------------
(***************************************************************************)
(* Its life and end.                                                       *)
(***************************************************************************)

SetTag(o, t) ==
  /\ ~undefined /\ o \in Living \ Released
  /\ tag' = [tag EXCEPT ![held[o]] = t]
  /\ UNCHANGED <<table, count, held, copies, tagged, miscounted, undefined>>

\* A Transaction, or another CoreBase, copies the reference of the object.
Copy(o) ==
  /\ ~undefined /\ o \in Living \ Released /\ copies[o] < MaxCopies
  /\ copies' = [copies EXCEPT ![o] = @ + 1]
  /\ UNCHANGED <<table, count, tag, held, tagged, miscounted, undefined>>

\* Recyclable::release, before the mutex of the table.
ReleaseReference(o) ==
  /\ ~undefined /\ o \in Living \ Released
  /\ copies' = [copies EXCEPT ![o] = @ - 1]
  /\ UNCHANGED <<table, count, tag, held, tagged, miscounted, undefined>>

\* The pool of a path that is not in the table any more.
UseMissingEntry(p) ==
  /\ table[p] = NoPool
  /\ undefined' = TRUE
  /\ UNCHANGED <<table, count>>

\* The entry of the path is used, whatever pool that has by now.
CountDown(p) ==
  /\ table[p] # NoPool
  /\ count' = [count EXCEPT ![p] = @ - 1]
  /\ table' = IF count'[p] = 0 THEN [table EXCEPT ![p] = NoPool] ELSE table
  /\ UNCHANGED undefined

\* onRecycled of the last reference, with the mutex.  What follows the use of an
\* entry that is missing is undefined: the model ends there.
Recycle(o) ==
  /\ ~undefined /\ o \in Released
  /\ UseMissingEntry(PathOf[held[o]]) \/ CountDown(PathOf[held[o]])
  /\ miscounted' = (miscounted \/ \E x \in tagged : held[x] = held[o])
  /\ held' = [held EXCEPT ![o] = NoPool]
  /\ tagged' = tagged \ {o}
  /\ tag' = IF \E x \in Living \ {o} : held[x] = held[o]
              THEN tag ELSE [tag EXCEPT ![held[o]] = NoTag]
  /\ UNCHANGED copies

TableNext ==
  \/ \E o \in Object :
       \/ \E p \in Path : GetPool(o, p)
       \/ \E t \in Tag : GetPoolByTag(o, t) \/ SetTag(o, t)
       \/ Copy(o) \/ ReleaseReference(o) \/ Recycle(o)

TableSpec == TableInit /\ [][TableNext]_tableVars

-----------------------------------------------------------------------------
(***************************************************************************)
(* Properties.                                                             *)
(***************************************************************************)

\* The table has the pool of every object, and no pool without an object, as long as
\* no object was given up that shared its pool with one found by tag: between the last
\* release and the mutex another thread may find or make the pool (handle_pool.cpp 35-57).
TableFollowsObjects ==
  ~miscounted =>
    /\ ~undefined
    /\ \A o \in Living : table[PathOf[held[o]]] = held[o]
    /\ \A p \in Path : table[p] # NoPool => \E o \in Living : held[o] = table[p]

\* WCTDatabase+Database.h 34 and 43: all database objects with the same path share the
\* same core.  GetPool(tag) does not count its object in the table (handle_pool.cpp 64).
SharedCore ==
  \A o, x \in Living \ Released : PathOf[held[o]] = PathOf[held[x]] => held[o] = held[x]
=============================================================================
