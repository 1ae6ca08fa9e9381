----------------------------- MODULE WriterPool -----------------------------
(***************************************************************************)
(* What the operation slot promises, with no slot: writers are admitted    *)
(* while there are permits, and declaring an operation hung issues exactly *)
(* one more permit.                                                        *)
(***************************************************************************)
EXTENDS Naturals, FiniteSets

CONSTANT Workers

VARIABLES
  writers,   \* the threads that may change the snapshot now
  permits    \* how many of them there may be

poolVars == <<writers, permits>>

Init == writers = {} /\ permits = 1

Admit(w) ==
  /\ w \notin writers
  /\ Cardinality(writers) < permits
  /\ writers' = writers \cup {w}
  /\ UNCHANGED permits

Replace(w) ==
  /\ w \notin writers
  /\ writers # {}
  /\ writers' = writers \cup {w}
  /\ permits' = permits + 1

Leave(w) ==
  /\ w \in writers
  /\ writers' = writers \ {w}
  /\ UNCHANGED permits

Next == \E w \in Workers : Admit(w) \/ Replace(w) \/ Leave(w)

Spec == Init /\ [][Next]_poolVars
==============================================================================
