------------------------------- MODULE Phases -------------------------------
(***************************************************************************)
(* What the window may count on: the order of the phases, and that a phase *)
(* changes only while the one worker that changes it is at work.           *)
(***************************************************************************)

VARIABLES
  phase,
  worker   \* what the operation under way does: "none", "connect", "disconnect"

phaseVars == <<phase, worker>>

Connecting == {"preparing", "launching", "probing"}

Settled == {"idle", "up", "degraded", "fail_closed"}

Init == phase = "idle" /\ worker = "none"

Start ==
  /\ worker = "none"
  /\ worker' \in {"connect", "disconnect"}
  /\ UNCHANGED phase

\* The phases of a connect come in order and begin from a settled one.
Advance ==
  /\ worker = "connect" /\ UNCHANGED worker
  /\ \/ phase \in Settled /\ phase' = "preparing"
     \/ phase = "preparing" /\ phase' = "launching"
     \/ phase = "launching" /\ phase' = "probing"

\* Only a probe ends in a connection; a connect that never began to prepare
\* leaves the phase it found.
Settle ==
  /\ worker = "connect" /\ worker' = "none"
  /\ \/ phase = "probing" /\ phase' \in Settled
     \/ phase \in Connecting /\ phase' = "idle"
     \/ phase \in Settled /\ UNCHANGED phase

Stop == worker = "disconnect" /\ phase \in Settled /\ phase' = "stopping" /\ UNCHANGED worker

Stopped == worker = "disconnect" /\ phase = "stopping" /\ phase' = "idle" /\ worker' = "none"

Next == Start \/ Advance \/ Settle \/ Stop \/ Stopped

Spec == Init /\ [][Next]_phaseVars
==============================================================================
