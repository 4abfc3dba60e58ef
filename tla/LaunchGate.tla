----------------------------- MODULE LaunchGate ----------------------------
(***************************************************************************)
(* What the launch promises, seen from outside: a gate.  The process is    *)
(* off, or it decides about the user, or the user is in, or a notice bars  *)
(* the way, or the process is leaving.  A decision is never taken back to  *)
(* the loading page without a notice, nobody leaves who was not barred at  *)
(* some time, and a process that is leaving gets off.                      *)
(***************************************************************************)
VARIABLES
  phase,   \* "off", "deciding", "in", "barred" or "leaving"
  told     \* has this process told the user that his account is disabled?

gate == <<phase, told>>

TypeOK == phase \in {"off", "deciding", "in", "barred", "leaving"}
          /\ told \in BOOLEAN

Init == phase = "off" /\ told = FALSE

Start == phase = "off" /\ phase' = "deciding" /\ told' = FALSE

\* The way is barred, and stays so until it is opened or accepted.
Bar == phase = "deciding" /\ phase' = "barred" /\ told' = TRUE

\* The user gets in; a notice does not prevent it.
Admit == phase \in {"deciding", "barred"} /\ phase' = "in" /\ UNCHANGED told

\* A user who is in may learn that his account is disabled.
Tell == phase \in {"in", "leaving"} /\ told' = TRUE /\ UNCHANGED phase

Leave == phase \in {"in", "barred"} /\ told /\ phase' = "leaving" /\ UNCHANGED told

Stop == phase # "off" /\ phase' = "off" /\ told' = FALSE

Next == Start \/ Bar \/ Admit \/ Tell \/ Leave \/ Stop

\* A process that is leaving gets off.
Spec == Init /\ [][Next]_gate /\ WF_gate(phase = "leaving" /\ Stop)
=============================================================================
