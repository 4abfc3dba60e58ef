------------------------------- MODULE Configs -------------------------------
(***************************************************************************)
(* The configurations of a pool of handles (WCDB's Configs), the calls     *)
(* that change them and a handle that is set up with them.                 *)
(*                                                                         *)
(* The list is copied on write: a call reads it, builds a new one and      *)
(* assigns that, without a lock, so that calls of several threads overlap. *)
(* A handle runs the whole list, in its order, when it is opened and when  *)
(* it goes out after the list has been replaced.  What a configuration has *)
(* set in a handle stays set.                                              *)
(***************************************************************************)
EXTENDS Integers, Sequences, Functions

CONSTANTS
  Setter,     \* the threads that change configurations
  OwnOrders,  \* bound: the orders the application gives its own configuration
  MaxCalls    \* bound: the number of calls


VARIABLES
  list,       \* Configs::m_configs
  todo,       \* what is left of each thread's call: the configurations to set
  seen,       \* the list that its setConfig has read; none is empty
  cached,     \* HandleWrap.configs of the handle; <<>> before it is opened
  settings,   \* what the configurations have set in it
  asked,      \* history: what setSynchronousFull was last asked for, if that is clear
  overlapped, \* history: whether calls under way have overlapped others
  calls       \* history: the number of calls

configsVars == <<list, todo, seen, cached, settings, asked, overlapped, calls>>

INT_MAX == 2147483647

ASSUME ConfigsAssumption ==
  /\ OwnOrders \subseteq Int /\ \A o \in OwnOrders : o <= INT_MAX   \* an int
  /\ MaxCalls \in Nat

AtItsPlace == -1   \* setConfig without an order

Wrap(name, config, order) == [name |-> name, config |-> config, order |-> order]
defaultConfigs ==
  << Wrap("trace", "trace", 0), Wrap("cipher", "nothing", 1), Wrap("basic", "basic", 2),
     Wrap("synchronous", "nothing", 3), Wrap("checkpoint", "checkpoint", 4),
     Wrap("tokenize", "nothing", 5) >>

Names(l) == {w.name : w \in Range(l)}

\* The list without a name.
Without(l, name) ==
  LET kept[n \in 0..Len(l)] ==
        IF n = 0 THEN <<>>
        ELSE IF l[n].name = name THEN kept[n - 1] ELSE Append(kept[n - 1], l[n])
  IN  kept[Len(l)]

\* What each function of Database sets, one after the other.
CallsOf ==
  [ setCipher         |-> {<<Wrap("cipher", "key", AtItsPlace)>>},
    setSynchronousFull|-> {<<Wrap("synchronous", "FULL", AtItsPlace),
                             Wrap("checkpoint", "nothing", AtItsPlace)>>},
    setSynchronousOff |-> {<<Wrap("synchronous", "nothing", AtItsPlace),
                             Wrap("checkpoint", "checkpoint", AtItsPlace)>>},
    setConfig         |-> {<<Wrap("own", "own", o)>> : o \in OwnOrders \cup {AtItsPlace}} ]

ConfigsInit ==
  /\ list = defaultConfigs
  /\ todo = [s \in Setter |-> <<>>] /\ seen = [s \in Setter |-> <<>>]
  /\ cached = <<>> /\ settings = [synchronous |-> "FULL", hook |-> FALSE]
  /\ asked = "unclear" /\ overlapped = FALSE /\ calls = 0

-----------------------------------------------------------------------------
(* The list.                                                                *)

\* Faulty variant: the new one goes to every place of a greater order.
SetWithOrderEverywhere(l, w) ==
  LET moved == [i \in DOMAIN l |-> IF l[i].order > w.order THEN w ELSE l[i]]
  IN  IF \E i \in DOMAIN l : l[i].order > w.order THEN moved
                                                  ELSE Append(Without(l, w.name), w)

\* The new one goes to the place of the first with a greater order, which is not
\* taken over; others of its name are left out.
SetWithOrder(l, w) ==
  LET greater == {i \in DOMAIN l : l[i].order > w.order}
      i == CHOOSE i \in greater : \A j \in greater : i <= j
  IN  IF greater = {} THEN Append(Without(l, w.name), w)
      ELSE Without(SubSeq(l, 1, i - 1), w.name) \o <<w>>
             \o Without(SubSeq(l, i + 1, Len(l)), w.name)

\* Faulty variant: what is set last comes first.
SetAtFront(l, w) == <<[w EXCEPT !.order = 0]>> \o Without(l, w.name)

\* The new one takes place and order of the old one, or comes last.
SetAtItsPlace(l, w) ==
  IF w.name \in Names(l)
    THEN [i \in DOMAIN l |-> IF l[i].name = w.name THEN [w EXCEPT !.order = l[i].order] ELSE l[i]]
    ELSE Append(l, [w EXCEPT !.order = INT_MAX])

Set(l, w) == IF w.order = AtItsPlace THEN SetAtItsPlace(l, w) ELSE SetWithOrder(l, w)

-----------------------------------------------------------------------------
(* The calls.                                                               *)

Busy(s) == todo[s] # <<>>

Call(s, f) ==
  /\ ~Busy(s)
  /\ calls < MaxCalls /\ calls' = calls + 1
  /\ \E c \in CallsOf[f] : todo' = [todo EXCEPT ![s] = c]
  /\ overlapped' = (overlapped \/ \E r \in Setter : Busy(r))
  /\ UNCHANGED <<list, seen, cached, settings, asked>>

ReadList(s) ==
  /\ Busy(s) /\ seen[s] = <<>>
  /\ seen' = [seen EXCEPT ![s] = list]
  /\ UNCHANGED <<list, todo, cached, settings, asked, overlapped, calls>>

\* What the call that ends with w leaves clear about setSynchronousFull.
AskedBy(w) ==
  IF overlapped \/ "synchronous" \in Names(list) \ Names(list') THEN "unclear"
  ELSE IF w.name = "checkpoint" THEN (IF w.config = "nothing" THEN "FULL" ELSE "off")
  ELSE asked

AssignList(s) ==
  /\ seen[s] # <<>>
  /\ list' = Set(seen[s], Head(todo[s]))
  /\ todo' = [todo EXCEPT ![s] = Tail(todo[s])]
  /\ seen' = [seen EXCEPT ![s] = <<>>]
  /\ asked' = IF todo'[s] = <<>> THEN AskedBy(Head(todo[s])) ELSE asked
  /\ overlapped' = (overlapped /\ \E r \in Setter : todo'[r] # <<>>)
  /\ UNCHANGED <<cached, settings, calls>>

\* What one configuration does to a handle.
Run(set, config) ==
  CASE config = "basic" -> [set EXCEPT !.synchronous = "NORMAL"]
    [] config = "FULL" -> [set EXCEPT !.synchronous = "FULL"]
    [] config = "checkpoint" -> [set EXCEPT !.hook = TRUE]
    [] OTHER -> set

\* What is set after all of the list has run.
RunAll(l, set) ==
  LET ran[n \in 0..Len(l)] == IF n = 0 THEN set ELSE Run(ran[n - 1], l[n].config)
  IN  ran[Len(l)]

\* The handle is opened, or goes out, and runs the list if it is not the one it ran.
InvokeList ==
  /\ cached # list
  /\ cached' = list
  /\ settings' = RunAll(list, settings)
  /\ UNCHANGED <<list, todo, seen, asked, overlapped, calls>>

\* It is closed by a purge, and another one may be opened.
CloseHandle ==
  /\ cached # <<>>
  /\ cached' = <<>> /\ settings' = [synchronous |-> "FULL", hook |-> FALSE]
  /\ UNCHANGED <<list, todo, seen, asked, overlapped, calls>>

ConfigsNext ==
  \/ \E s \in Setter : \/ \E f \in DOMAIN CallsOf : Call(s, f)
                       \/ ReadList(s) \/ AssignList(s)
  \/ InvokeList \/ CloseHandle

ConfigsSpec == ConfigsInit /\ [][ConfigsNext]_configsVars

-----------------------------------------------------------------------------
(* Properties.                                                              *)

AtRest == \A s \in Setter : ~Busy(s)
Current == AtRest /\ cached = list

\* The list is in the order of its numbers and has a name once, whatever calls have
\* overlapped ("Small numbers in front" of Configs::Order).
SmallNumbersInFront ==
  \A i, j \in DOMAIN list : i < j => list[i].order <= list[j].order /\ list[i].name # list[j].name

\* A handle that goes out after setSynchronousFull(true) writes with full
\* synchronisation, although the basic configuration of every list sets it to normal:
\* calls for other names change nothing about it unless they overlap or leave it out.
FullIsFull == asked = "FULL" /\ Current => settings.synchronous = "FULL"

\* A handle that goes out after setSynchronousFull(true) has no checkpoint hook.
FullHasNoHook == asked = "FULL" /\ Current => ~settings.hook

\* A new list combines the old one and the new configuration: no name is left out.
NothingIsDropped == [][Names(list) \subseteq Names(list')]_configsVars
=============================================================================
