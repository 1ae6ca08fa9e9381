----------------------------- MODULE MCOperations -----------------------------
(* The slot that lets one operation in at a time, the operations, and the      *)
(* policies they borrow.  Each is checked by itself: a behaviour is one of the *)
(* slot, with operations that may hang; one of the pipeline and its watchdogs, *)
(* where operations hold the slot one after the other; or one of the policies. *)
(* Slot: four workers, that is a thread of the window, that of the same button *)
(* pressed again, a tick of the watchdog and one more.  Policies: one of the   *)
(* user and one of the machine, and two values to tell them by.                *)
EXTENDS MCLifecycle, Session, LeakShield

CONSTANTS w1, w2, w3, w4, hkcu, hklm, absent, set

VARIABLE part

MCWorkers == {w1, w2, w3, w4}

MCActions == {"connect", "disconnect"}

MCKeys == {hkcu, hklm}
MCUserKeys == {hkcu}
MCTheirs == {absent, set}

allVars == <<part, vars, sessionVars, shieldVars>>

\* One state of the policies for the parts that do not work on them
AtRest == admin /\ policy = [k \in Keys |-> absent]

MCInit ==
  /\ part \in {"slot", "pipeline", "policies"}
  /\ SessionInit /\ Init /\ ShieldInit
  /\ part # "policies" => AtRest

MCNext ==
  /\ UNCHANGED part
  /\ \/ part = "slot" /\ SessionNext /\ UNCHANGED <<vars, shieldVars>>
     \/ part = "pipeline" /\ Next /\ UNCHANGED <<sessionVars, shieldVars>>
     \/ part = "policies" /\ ShieldNext /\ UNCHANGED <<vars, sessionVars>>

\* What is asked of one part is nothing to the others, where nobody has begun.
MCSpec == MCInit /\ [][MCNext]_allVars /\ Fairness /\ SessionFairness
==============================================================================
