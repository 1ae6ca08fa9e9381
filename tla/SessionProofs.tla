---------------------------- MODULE SessionProofs ----------------------------
(***************************************************************************)
(* The operation slot for any number of workers, actions and takeovers.    *)
(* The inductive invariant counts admissions: the workers inside, plus one *)
(* while the slot is free, never exceed one plus the takeovers.  The free  *)
(* slot has to be counted because it is what lets the next worker in.      *)
(***************************************************************************)
EXTENDS Session, FiniteSetTheorems, TLAPS

IInv == SessionTypeOK /\ AdmissionsBounded /\ NoOrphanSlot

\* Adding or removing one worker moves the count of writers by one.
LEMMA OneWorker ==
  ASSUME NEW S, IsFiniteSet(S), NEW w
  PROVE  /\ IsFiniteSet(S \cup {w}) /\ IsFiniteSet(S \ {w})
         /\ Cardinality(S) \in Nat
         /\ w \notin S => Cardinality(S \cup {w}) = Cardinality(S) + 1
         /\ w \in S => Cardinality(S \ {w}) = Cardinality(S) - 1
  BY FS_AddElement, FS_RemoveElement, FS_CardinalityType

\* The workers inside are finitely many, so they can be counted.
LEMMA InsideFinite == SessionTypeOK => IsFiniteSet(inside) /\ Cardinality(inside) \in Nat
  BY SessionAssumption, FS_Subset, FS_CardinalityType DEF SessionTypeOK, SessionAssumption

\* The client starts with an empty section and one admission to give.
LEMMA InitIInv == SessionInit => IInv
<1> SUFFICES ASSUME SessionInit PROVE IInv
  OBVIOUS
<1>1. SessionTypeOK
  <2>1. takeovers \in 0..MaxTakeovers
    BY SessionAssumption DEF SessionAssumption, SessionInit
  <2>2. act \in [Workers -> Actions \cup {NoAction}]
    BY DEF SessionInit
  <2> QED
    BY <2>1, <2>2 DEF SessionInit, SessionTypeOK
<1>2. Cardinality({}) = 0
  BY FS_EmptySet
<1>3. AdmissionsBounded
  BY <1>2 DEF SessionInit, AdmissionsBounded
<1>4. NoOrphanSlot
  BY DEF SessionInit, NoOrphanSlot
<1> QED
  BY <1>1, <1>3, <1>4 DEF IInv

\* Whoever enters, hangs, takes over or returns late, the count holds and the
\* slot keeps an owner inside.
LEMMA StepIInv == IInv /\ [SessionNext]_sessionVars => IInv'
<1> SUFFICES ASSUME IInv, [SessionNext]_sessionVars
             PROVE  IInv'
  OBVIOUS
<1> USE SessionAssumption DEF SessionAssumption
<1>0. /\ SessionTypeOK /\ AdmissionsBounded /\ NoOrphanSlot
      /\ IsFiniteSet(inside) /\ Cardinality(inside) \in Nat
      /\ takeovers \in Nat
  BY InsideFinite DEF IInv, SessionTypeOK
<1>1. ASSUME NEW w \in Workers, NEW a \in Actions, Enter(w, a)
      PROVE  IInv'
  <2>1. SessionTypeOK'
    BY <1>0, <1>1 DEF Enter, Occupy, SessionTypeOK
  <2>2. AdmissionsBounded'
    BY <1>0, <1>1, OneWorker DEF Enter, Occupy, AdmissionsBounded
  <2>3. NoOrphanSlot'
    BY <1>0, <1>1 DEF Enter, Occupy, NoOrphanSlot, SessionTypeOK
  <2> QED
    BY <2>1, <2>2, <2>3 DEF IInv
<1>2. ASSUME NEW w \in Workers, NEW a \in Actions, TakeOver(w, a)
      PROVE  IInv'
  <2>1. /\ op' = a /\ expired' = FALSE /\ inside' = inside \cup {w}
        /\ act' = [act EXCEPT ![w] = a] /\ w \notin inside
        /\ takeovers < MaxTakeovers
        /\ takeovers' = takeovers + 1
    BY <1>2 DEF TakeOver, Occupy
  <2>2. takeovers' \in 0..MaxTakeovers
    BY <1>0, <2>1
  <2>3. inside' \in SUBSET Workers
    BY <1>0, <2>1 DEF SessionTypeOK
  <2>4. SessionTypeOK'
    BY <1>0, <2>1, <2>2, <2>3 DEF SessionTypeOK
  <2>5. Cardinality(inside') = Cardinality(inside) + 1
    BY <1>0, <2>1, OneWorker
  <2>6. AdmissionsBounded'
    BY <1>0, <2>1, <2>5 DEF AdmissionsBounded
  <2>7. NoOrphanSlot'
    BY <1>0, <2>1 DEF NoOrphanSlot, SessionTypeOK
  <2> QED
    BY <2>4, <2>6, <2>7 DEF IInv
<1>3. ASSUME NEW w \in Workers, Exit(w)
      PROVE  IInv'
  <2>1. SessionTypeOK'
    BY <1>0, <1>3 DEF Exit, Release, SessionTypeOK
  <2>2. Cardinality(inside') = Cardinality(inside) - 1
    BY <1>0, <1>3, OneWorker DEF Exit
  <2>3. AdmissionsBounded'
    BY <1>0, <1>3, <2>2 DEF Exit, Release, AdmissionsBounded
  <2>4. NoOrphanSlot'
    BY <1>0, <1>3 DEF Exit, Release, NoOrphanSlot, SessionTypeOK
  <2> QED
    BY <2>1, <2>3, <2>4 DEF IInv
<1>4. CASE Expire
  BY <1>0, <1>4 DEF Expire, IInv, SessionTypeOK, AdmissionsBounded, NoOrphanSlot
<1>5. CASE UNCHANGED sessionVars
  BY <1>0, <1>5 DEF sessionVars, IInv, SessionTypeOK, AdmissionsBounded, NoOrphanSlot
<1> QED
  BY <1>1, <1>2, <1>3, <1>4, <1>5 DEF SessionNext

\* The inductive invariant of the slot.
THEOREM SlotInvariant == SessionSpec => []IInv
  BY InitIInv, StepIInv, PTL DEF SessionSpec

\* The slot, the clock and the workers keep their types.
THEOREM SlotTyped == SessionSpec => []SessionTypeOK
<1>1. IInv => SessionTypeOK
  BY DEF IInv
<1> QED
  BY <1>1, SlotInvariant, PTL

\* One writer, plus one for every operation that was ever declared hung.
THEOREM WritersAreBounded == SessionSpec => []WritersBounded
<1>1. IInv => WritersBounded
  <2> SUFFICES ASSUME IInv PROVE WritersBounded
    OBVIOUS
  <2>1. Cardinality(inside) \in Nat /\ takeovers \in Nat
    BY InsideFinite, SessionAssumption DEF SessionAssumption, IInv, SessionTypeOK
  <2> QED
    BY <2>1 DEF IInv, AdmissionsBounded, WritersBounded
<1> QED
  BY <1>1, SlotInvariant, PTL

\* in_operation tells the truth as long as nothing has hung.
THEOREM SlotIsTruthful == SessionSpec => []SlotIsExact
<1>1. IInv => SlotIsExact
  <2> SUFFICES ASSUME IInv, takeovers = 0
               PROVE  op # NoAction <=> inside # {}
    BY DEF SlotIsExact
  <2>1. IsFiniteSet(inside) /\ Cardinality(inside) \in Nat
    BY InsideFinite DEF IInv
  <2>2. op = NoAction => Cardinality(inside) = 0
    BY <2>1 DEF IInv, AdmissionsBounded
  <2>3. op = NoAction => inside = {}
    BY <2>1, <2>2, FS_EmptySet
  <2>4. op # NoAction => inside # {}
    BY DEF IInv, NoOrphanSlot
  <2> QED
    BY <2>3, <2>4
<1> QED
  BY <1>1, SlotInvariant, PTL

\* SessionBusy always names an operation that is still running.
THEOREM SlotHasOwner == SessionSpec => []NoOrphanSlot
<1>1. IInv => NoOrphanSlot
  BY DEF IInv
<1> QED
  BY <1>1, SlotInvariant, PTL

\* The slot implements the pool of permits, for every set of workers.
THEOREM ImplementsPool == SessionSpec => PoolSpec
<1>1. SessionInit => Pool!Init
  BY DEF SessionInit, Pool!Init
<1>2. IInv /\ [SessionNext]_sessionVars => [Pool!Next]_(Pool!poolVars)
  <2> SUFFICES ASSUME IInv, [SessionNext]_sessionVars
               PROVE  [Pool!Next]_(Pool!poolVars)
    OBVIOUS
  <2>0. Cardinality(inside) \in Nat /\ takeovers \in Nat
    BY InsideFinite, SessionAssumption DEF SessionAssumption, IInv, SessionTypeOK
  <2>1. ASSUME NEW w \in Workers, NEW a \in Actions, Enter(w, a)
        PROVE  Pool!Admit(w)
    <3>1. Cardinality(inside) < takeovers + 1
      BY <2>0, <2>1 DEF Enter, IInv, AdmissionsBounded
    <3>2. /\ w \notin inside /\ inside' = inside \cup {w}
          /\ takeovers' + 1 = takeovers + 1
      BY <2>1 DEF Enter, Occupy
    <3> QED
      BY <3>1, <3>2 DEF Pool!Admit, Pool!Cardinality, Cardinality
  <2>2. ASSUME NEW w \in Workers, NEW a \in Actions, TakeOver(w, a)
        PROVE  Pool!Replace(w)
    BY <2>0, <2>2 DEF TakeOver, Occupy, Pool!Replace, IInv, NoOrphanSlot
  <2>3. ASSUME NEW w \in Workers, Exit(w)
        PROVE  Pool!Leave(w)
    BY <2>3 DEF Exit, Pool!Leave
  <2>4. CASE Expire
    BY <2>4 DEF Expire, Pool!poolVars
  <2>5. CASE UNCHANGED sessionVars
    BY <2>5 DEF sessionVars, Pool!poolVars
  <2> QED
    BY <2>1, <2>2, <2>3, <2>4, <2>5 DEF SessionNext, Pool!Next
<1> QED
  BY <1>1, <1>2, SlotInvariant, PTL DEF SessionSpec, PoolSpec, Pool!Spec
==============================================================================
