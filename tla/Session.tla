------------------------------- MODULE Session -------------------------------
(***************************************************************************)
(* The operation slot of ConnectionSession (desktop/lifecycle/session.py). *)
(* Every connect, disconnect, reconnect and TUN switch runs in the body of *)
(* `with session.operation(action)`.  The slot remembers the action and    *)
(* when it began.  An operation older than op_timeout is presumed hung: a  *)
(* newcomer takes the slot over, while the hung worker keeps running and   *)
(* releases the slot, or not, when it finally returns.                     *)
(***************************************************************************)
EXTENDS Naturals, FiniteSets

CONSTANTS
  Workers,       \* threads that run operations: GUI pool threads, watchdog ticks
  Actions,       \* members of the enum Action
  NoAction,      \* the slot when it is free (None)
  MaxTakeovers   \* bound on the takeovers of one behaviour

ASSUME SessionAssumption ==
  /\ IsFiniteSet(Workers)
  /\ NoAction \notin Actions
  /\ MaxTakeovers \in Nat

VARIABLES
  op,         \* _op: the action that holds the slot
  expired,    \* monotonic() - _op_started >= _op_timeout
  inside,     \* the workers in the body of operation()
  act,        \* the action each worker inside was entered with
  takeovers   \* history: operations declared hung so far

sessionVars == <<op, expired, inside, act, takeovers>>

SessionTypeOK ==
  /\ op \in Actions \cup {NoAction}
  /\ expired \in BOOLEAN
  /\ inside \in SUBSET Workers
  /\ act \in [Workers -> Actions \cup {NoAction}]
  /\ takeovers \in 0..MaxTakeovers

SessionInit ==
  /\ op = NoAction
  /\ expired = FALSE
  /\ inside = {}
  /\ act = [w \in Workers |-> NoAction]
  /\ takeovers = 0

-----------------------------------------------------------------------------

\* The slot is claimed, the clock restarts and the body begins.
Occupy(w, a) ==
  /\ w \notin inside
  /\ op' = a
  /\ expired' = FALSE
  /\ inside' = inside \cup {w}
  /\ act' = [act EXCEPT ![w] = a]

\* Variant of Enter for sensitivity: the test of the slot is forgotten.
EnterUnchecked(w, a) == Occupy(w, a) /\ UNCHANGED takeovers

\* operation() finds the slot free.
Enter(w, a) ==
  /\ op = NoAction
  /\ Occupy(w, a)
  /\ UNCHANGED takeovers

\* operation() finds an operation older than op_timeout and evicts it.
TakeOver(w, a) ==
  /\ op # NoAction
  /\ expired
  /\ takeovers < MaxTakeovers
  /\ Occupy(w, a)
  /\ takeovers' = takeovers + 1

\* Variant of Release for sensitivity: there is no finally block.
ReleaseForgotten(w) == UNCHANGED <<op, expired>>

\* The finally block frees the slot when it holds this worker's action.  The
\* comparison is between members of an enum, so it cannot tell the worker's
\* own operation from a later one of the same kind.
Release(w) ==
  IF op = act[w]
    THEN op' = NoAction /\ expired' = FALSE
    ELSE UNCHANGED <<op, expired>>

Exit(w) ==
  /\ w \in inside
  /\ Release(w)
  /\ inside' = inside \ {w}
  /\ act' = [act EXCEPT ![w] = NoAction]
  /\ UNCHANGED takeovers

\* op_timeout elapses on the operation that holds the slot.
Expire ==
  /\ op # NoAction
  /\ ~expired
  /\ expired' = TRUE
  /\ UNCHANGED <<op, inside, act, takeovers>>

SessionNext ==
  \/ \E w \in Workers, a \in Actions : Enter(w, a) \/ TakeOver(w, a)
  \/ \E w \in Workers : Exit(w)
  \/ Expire

\* Operations return: every wait in their steps has a timeout.  That one of
\* those that run does is enough.
SessionFairness == WF_sessionVars(\E w \in Workers : Exit(w))

SessionSpec == SessionInit /\ [][SessionNext]_sessionVars

-----------------------------------------------------------------------------

\* A takeover lets one more worker into the section, for good: a hung worker
\* that returns may free the slot of a live one, but the writers of the
\* snapshot never outnumber one plus the takeovers.
WritersBounded == Cardinality(inside) <= takeovers + 1

\* The slot itself stands for one admission that has not been used yet.
AdmissionsBounded ==
  Cardinality(inside) + (IF op = NoAction THEN 1 ELSE 0) <= takeovers + 1

\* Until some operation hangs in_operation is exact, taken when and only when
\* a worker runs, so what the watchdog skips on it never lies.
SlotIsExact == takeovers = 0 => (op # NoAction <=> inside # {})

\* The slot is never held by nobody: some worker inside was entered with the
\* action it shows, so SessionBusy is never raised for an operation that is
\* over, whatever hung and returned before.
NoOrphanSlot == op # NoAction => \E w \in inside : act[w] = op

\* A slot that is taken is freed again: no sequence of hangs and late returns
\* leaves the client answering SessionBusy for ever.
SlotFreed == op # NoAction ~> op = NoAction

Pool == INSTANCE WriterPool
          WITH Workers <- Workers, writers <- inside, permits <- takeovers + 1

\* The slot implements a pool of writer permits: whatever hangs, nobody is
\* admitted beyond the permits and one permit is issued per eviction.
PoolSpec == Pool!Spec
==============================================================================
