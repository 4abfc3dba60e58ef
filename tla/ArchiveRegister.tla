-------------------------- MODULE ArchiveRegister --------------------------
(***************************************************************************)
(* What the archive of one key promises to its caller: a register that     *)
(* survives the process.  A save takes effect as a whole or, if the        *)
(* process dies meanwhile, may instead empty the register or leave it torn;*)
(* it never brings an older value back.  A read answers what the register  *)
(* holds; a read of a torn register kills the process.  Between two runs   *)
(* of the application the system may clear it.                             *)
(***************************************************************************)
CONSTANT Values   \* what callers save; none of the three below

Absent == "absent"
Torn == "torn"
None == "none"

VARIABLES
  content,   \* what the register holds
  running,   \* does the process run?
  saving,    \* the value being saved, or None
  answer     \* the answer to the last read of this process, or None

register == <<content, running, saving, answer>>

TypeOK ==
  /\ content \in Values \cup {Absent, Torn}
  /\ running \in BOOLEAN
  /\ saving \in Values \cup {None}
  /\ answer \in Values \cup {Absent, None}

Init == content = Absent /\ running = FALSE /\ saving = None /\ answer = None

Start == ~running /\ running' = TRUE /\ UNCHANGED <<content, saving, answer>>

Begin(v) ==
  /\ running /\ saving = None
  /\ saving' = v
  /\ UNCHANGED <<content, running, answer>>

Commit ==
  /\ running /\ saving # None
  /\ content' = saving
  /\ saving' = None
  /\ UNCHANGED <<running, answer>>

Read ==
  /\ running /\ saving = None
  /\ content # Torn
  /\ answer' = content
  /\ UNCHANGED <<content, running, saving>>

\* The end of the process, by a kill or by the read of a torn register.
Stop ==
  /\ running
  /\ running' = FALSE
  /\ content' \in IF saving = None THEN {content} ELSE {content, Absent, Torn}
  /\ saving' = None
  /\ answer' = None

\* The system takes the contents away from an application that does not run.
Clear ==
  /\ ~running
  /\ content' = Absent
  /\ UNCHANGED <<running, saving, answer>>

Next == Start \/ (\E v \in Values : Begin(v)) \/ Commit \/ Read \/ Stop \/ Clear

Spec == Init /\ [][Next]_register
=============================================================================
