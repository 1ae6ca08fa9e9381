-------------------------- MODULE SingboxManagerProofs --------------------------
(***************************************************************************)
(* Starting and stopping sing-box, for any processes and any number of     *)
(* consents under way: a stop whatever goes wrong, a start whatever but    *)
(* "slow".  That a start takes nothing of another process for its own      *)
(* rests on what stop, the rotation of the log and the launch leave        *)
(* behind, each for the next; all of it for a call that no process escaped *)
(* (spared).                                                               *)
(*                                                                         *)
(* And the rules sing-box is started with (Traffic), for any two lists of  *)
(* texts, any hosts and any programs: which rule is the first to match     *)
(* follows from the parts the list of rules is put together from.          *)
(***************************************************************************)
EXTENDS SingboxManager, Traffic, FiniteSetTheorems, SequenceTheorems, TLAPS

\* No process, and none on its way.
Nobody == alive = {} /\ coming = 0

AtMostOne == \A p, q \in alive : p = q

\* After the launch: the marks in the log are of its process, and nobody is
\* there besides it; while it is behind the prompt there is nobody at all.
Launched ==
  /\ old = {}
  /\ AtMostOne /\ coming <= 1
  /\ coming = 1 => alive = {} /\ log = {}
  /\ "started" \in log /\ alive # {} => nic \in alive

\* While start waits: whom it waits for, and that the time does not run while
\* the prompt is up.
Awaited ==
  /\ coming = 1 => run.mine = None /\ run.left = 2
  /\ run.mine # None => alive \subseteq {run.mine}

\* What each step of a call finds.
CallFits ==
  /\ pc \in {"start", "kill", "force"} => coming = 0
  /\ pc \in {"sweep", "stale", "clean", "rotate", "launch"} => Nobody
  /\ pc = "launch" => log = {}
  /\ pc \in {"found", "wait"} => Launched
  /\ pc = "wait" => Awaited
  /\ pc = "retry" => AtMostOne /\ coming = 0
  /\ pc = "idle" /\ said = "stopped" => Nobody

\* What the run asks of a start is no more than what CallFits says at the
\* steps "wait" and "idle"; each step needs what the one before has left.
CallInv == TypeOK /\ (~spared /\ ~kept => CallFits)

-----------------------------------------------------------------------------

\* The initial states have the types.
LEMMA InitTypeOK == Init => TypeOK
<1> SUFFICES ASSUME Init PROVE TypeOK
  OBVIOUS
<1>1. run \in Runs
  BY DEF Init, Fresh, Runs
<1>2. admin \in BOOLEAN /\ alive \subseteq Pids /\ log \subseteq Marks
  BY DEF Init
<1>3. coming \in 0..MaxComing /\ pc \in Steps
  BY ManagerAssumption DEF Init, ManagerAssumption, Steps
<1> QED
  BY <1>1, <1>2, <1>3 DEF Init, TypeOK

\* What ends keeps the types, and nobody comes by it.
LEMMA EndKeeps ==
  ASSUME TypeOK, NEW gone \in SUBSET alive, End(gone)
  PROVE  /\ alive' = alive \ gone /\ alive' \subseteq Pids /\ high' \subseteq alive'
         /\ coming' = coming /\ coming' \in 0..MaxComing
         /\ port' \in alive' \cup {None} /\ nic' \in alive' \cup {None, Ghost}
  BY ManagerAssumption DEF TypeOK, End, ManagerAssumption

\* The removal of an adapter keeps the processes.
LEMMA RemovalKeeps ==
  ASSUME TypeOK, RemovesAdapter
  PROVE  UNCHANGED <<alive, high, coming, port>> /\ nic' \in alive \cup {None, Ghost}
  BY DEF TypeOK, RemovesAdapter

\* A call that returns leaves the record of a run.
LEMMA FreshIsRun ==
  ASSUME NEW tun \in BOOLEAN
  PROVE  Fresh(tun) \in Runs
  BY DEF Fresh, Runs

\* What sing-box and the log do by themselves keeps the types, the call and
\* who is there, but for those who die.
LEMMA WorldKeeps ==
  ASSUME TypeOK,
         (\E p \in Pids : Behaves(p)) \/ (\E m \in Marks : Scrolls(m))
  PROVE  TypeOK' /\ UNCHANGED <<pc, run, spared, said, admin, coming, kept>>
         /\ alive' \subseteq alive
<1>1. ASSUME NEW p \in Pids, Dies(p)
      PROVE  TypeOK' /\ UNCHANGED <<pc, run, spared, said, admin, coming, kept>> /\ alive' \subseteq alive
  <2>1. End({p}) /\ UNCHANGED <<log, old, kept, pc, run, spared, said, admin>> /\ {p} \in SUBSET alive
    BY <1>1 DEF Dies, journal, External
  <2> QED
    BY <2>1, EndKeeps DEF TypeOK
<1>2. ASSUME NEW p \in Pids, Listens(p) \/ TakesAdapter(p) \/ \E m \in Marks : Logs(p, m)
      PROVE  TypeOK' /\ UNCHANGED <<pc, run, spared, said, admin, coming, kept>> /\ alive' = alive
  BY <1>2 DEF TypeOK, Listens, TakesAdapter, Logs, journal, world, External
<1>3. ASSUME NEW m \in Marks, Scrolls(m)
      PROVE  TypeOK' /\ UNCHANGED <<pc, run, spared, said, admin, coming, kept>> /\ alive' = alive
  BY <1>3 DEF TypeOK, Scrolls, world, External
<1> QED
  BY <1>1, <1>2, <1>3 DEF Behaves

\* So does what appears behind the prompt, but for the one that does.
LEMMA AppearsKeeps ==
  ASSUME TypeOK, Appears
  PROVE  TypeOK' /\ UNCHANGED <<pc, run, spared, said, admin, log, old, kept, port>>
         /\ coming > 0 /\ coming' = coming - 1
         /\ (alive' = alive \/ \E p \in Pids : alive' = alive \cup {p})
<1>1. PICK new \in {{}} \cup {{p} : p \in Pids \ alive} :
        alive' = alive \cup new /\ high' = high \cup new
  BY DEF Appears
<1>2. new \subseteq Pids /\ (new = {} \/ \E p \in Pids : new = {p})
  BY <1>1
<1>3. UNCHANGED <<pc, run, spared, said, admin, log, old, kept, port>>
  BY DEF Appears, journal, External
<1>4. coming > 0 /\ coming' = coming - 1 /\ coming' \in 0..MaxComing
  BY ManagerAssumption DEF Appears, TypeOK, ManagerAssumption
<1>5. nic' \in alive' \cup {None, Ghost}
  BY <1>1 DEF Appears, TypeOK
<1> QED
  BY <1>1, <1>2, <1>3, <1>4, <1>5 DEF TypeOK

\* Every step of a call keeps the types.
LEMMA ManagerTypeOK == TypeOK /\ (Manager \/ Calls) => TypeOK'
<1> SUFFICES ASSUME TypeOK, Manager \/ Calls PROVE TypeOK'
  OBVIOUS
<1>f. Fresh(run.tun) \in Runs /\ \A tun \in BOOLEAN : Fresh(tun) \in Runs
  <2>1. run.tun \in BOOLEAN
    BY DEF TypeOK, Runs
  <2> QED
    BY <2>1, FreshIsRun
<1>e. \A c \in Steps : Internal(c) => pc' \in Steps /\ admin' = admin
  BY DEF Internal
<1>r. \A how \in {"ok", "raised", "stopped"} :
        Returns(how) => /\ pc' \in Steps /\ admin' = admin /\ run' \in Runs
                        /\ said' \in {"none", "ok", "raised", "stopped"}
  BY <1>f DEF Returns, Internal, Steps
<1>1. CASE Calls
  <2>1. UNCHANGED <<alive, high, coming, port, nic, log, old, said>> /\ kept' \in BOOLEAN
    BY <1>1 DEF Calls, StopCalled, StartCalled, world, journal, TypeOK
  <2>3. spared' \in BOOLEAN
    <3>1. spared' = (coming > 0)
      BY <1>1 DEF Calls, StopCalled, StartCalled
    <3>2. (coming > 0) \in BOOLEAN
      OBVIOUS
    <3> QED
      BY <3>1, <3>2
  <2>2. pc' \in Steps /\ admin' = admin /\ run' \in Runs
    BY <1>1, <1>f DEF Calls, StopCalled, StartCalled, Internal, Steps, TypeOK
  <2> QED
    BY <2>1, <2>2, <2>3 DEF TypeOK
<1>2. CASE Kill
  <2>1. PICK left \in SUBSET alive :
          End(alive \ left) /\ Internal(IF left = {} THEN "sweep" ELSE "force")
    BY <1>2 DEF Kill
  <2>2. UNCHANGED <<run, spared, said, log, old, kept>> /\ alive \ left \in SUBSET alive
    BY <1>2 DEF Kill, journal
  <2> QED
    BY <2>1, <2>2, EndKeeps DEF TypeOK, Internal, Steps
<1>3. CASE ForceKill
  <2>1. PICK left \in SUBSET alive :
          /\ End(alive \ left)
          /\ IF left = {} THEN Internal("sweep") /\ UNCHANGED <<run, spared, said>>
             ELSE Raises /\ spared' = TRUE
    BY <1>3 DEF ForceKill
  <2>2. UNCHANGED <<log, old, kept>> /\ alive \ left \in SUBSET alive
    BY <1>3 DEF ForceKill, journal
  <2> QED
    BY <2>1, <2>2, <1>r, EndKeeps DEF TypeOK, Internal, Steps, Raises
<1>4. CASE Sweep
  <2>1. run.rest \in Steps
    BY DEF TypeOK, Runs, Steps
  <2> QED
    BY <1>4, <2>1, <1>r, RemovalKeeps DEF Sweep, TypeOK, Internal, journal
<1>5. CASE Misconfigured
  BY <1>5, <1>r DEF Misconfigured, Raises, TypeOK, world, journal
<1>6. CASE StopsFirst
  <2>1. PICK next \in {"stale", "clean"} :
          /\ Internal(IF alive # {} THEN "kill" ELSE next)
          /\ run' = [run EXCEPT !.rest = next]
    BY <1>6 DEF StopsFirst
  <2>2. run' \in Runs
    BY <2>1 DEF TypeOK, Runs
  <2> QED
    BY <1>6, <2>1, <2>2 DEF StopsFirst, TypeOK, Internal, Steps, world, journal
<1>7. CASE Clean
  BY <1>7, RemovalKeeps DEF Clean, TypeOK, Internal, Steps, world, journal
<1>8. CASE Rotate
  BY <1>8 DEF Rotate, TypeOK, Internal, Steps, world, journal
<1>w. \A p \in Pids \cup {None} : Waiting(p) \in Runs
  <2> SUFFICES ASSUME NEW p \in Pids \cup {None} PROVE Waiting(p) \in Runs
    OBVIOUS
  <2> DEFINE a == [run EXCEPT !.mine = p]
             b == [a EXCEPT !.left = 2]
  <2>1. run \in Runs
    BY DEF TypeOK
  <2>2. a \in Runs
    BY <2>1 DEF Runs
  <2>3. b \in Runs
    <3> HIDE DEF a
    <3> QED
      BY <2>2 DEF Runs
  <2>4. [b EXCEPT !.prolonged = FALSE] \in Runs
    <3> HIDE DEF b
    <3> QED
      BY <2>3 DEF Runs
  <2>5. Waiting(p) = [b EXCEPT !.prolonged = FALSE]
    BY DEF Waiting
  <2> QED
    BY <2>4, <2>5
<1>9. CASE Launch
  <2>1. PICK p \in Pids \cup {None} : alive' = alive \cup ({p} \ {None}) /\ run' = Waiting(p)
    BY <1>9 DEF Launch
  <2>2. alive' \subseteq Pids /\ alive \subseteq alive' /\ run' \in Runs
    BY <2>1, <1>w DEF TypeOK
  <2> QED
    BY <1>9, <2>2 DEF Launch, TypeOK, Internal, Steps
<1>10. CASE Prompt
  <2>1. coming' \in 0..MaxComing
    BY <1>10, ManagerAssumption DEF Prompt, TypeOK, ManagerAssumption
  <2> QED
    BY <1>10, <2>1, <1>r DEF Prompt, TypeOK, Internal, Steps, Raises
<1>11. CASE Find
  <2>1. PICK p \in Pids \cup {None} : run' = Waiting(p)
    BY <1>11 DEF Find, TypeOK
  <2> QED
    BY <1>11, <2>1, <1>w DEF Find, TypeOK, Internal, Steps, world, journal
<1>12. CASE Ready
  BY <1>12, <1>r DEF Ready, TypeOK, world, journal
<1>13. CASE Prolong
  <2>1. run' = [Waiting(run.mine) EXCEPT !.prolonged = TRUE] /\ run.mine \in Pids \cup {None}
    BY <1>13 DEF Prolong, Waiting, TypeOK, Runs
  <2>2. Waiting(run.mine) \in Runs
    BY <1>w, <2>1
  <2>3. run' \in Runs
    BY <2>1, <2>2 DEF Runs
  <2> QED
    BY <1>13, <2>3 DEF Prolong, TypeOK, world, journal
<1>14. CASE Tick
  <2>1. run \in Runs /\ run.left \in 1..2
    BY <1>14 DEF Tick, Pass, TypeOK, Runs
  <2>2. run' \in Runs
    BY <1>14, <2>1 DEF Tick, Runs
  <2> QED
    BY <1>14, <2>2 DEF Tick, TypeOK, world, journal
<1>15. CASE Fail
  BY <1>15, <1>r DEF Fail, Raises, Internal, Steps, TypeOK, world, journal
<1>16. CASE Retry
  <2>1. run' \in Runs /\ pc' \in Steps /\ UNCHANGED <<said, admin, log, old, kept>>
    BY <1>16 DEF Retry, Internal, Steps, TypeOK, Runs, journal
  <2>2. CASE UNCHANGED world /\ spared' \in BOOLEAN
    BY <2>1, <2>2 DEF TypeOK, world
  <2>3. CASE spared' = spared /\ \E p \in alive : End({p})
    BY <2>1, <2>3, EndKeeps DEF TypeOK
  <2> QED
    BY <1>16, <2>2, <2>3 DEF Retry, TypeOK
<1> QED
  BY <1>1, <1>2, <1>3, <1>4, <1>5, <1>6, <1>7, <1>8, <1>9, <1>10, <1>11, <1>12, <1>13, <1>14,
     <1>15, <1>16 DEF Manager

\* Every step keeps the types.
LEMMA StepTypeOK == TypeOK /\ [Next]_vars => TypeOK'
<1>1. TypeOK /\ UNCHANGED vars => TypeOK'
  BY DEF vars, TypeOK
<1> QED
  BY <1>1, ManagerTypeOK, WorldKeeps, AppearsKeeps DEF Next

\* The types: who listens or has the adapter is alive, whoever may kill it, and
\* a wait never goes on beyond its time.
THEOREM ManagerTypes == Spec => []TypeOK
  BY InitTypeOK, StepTypeOK, PTL DEF Spec

-----------------------------------------------------------------------------

\* A call begins with nobody who was consented to before, or says so.
LEMMA InitCallInv == Init => CallInv
  BY InitTypeOK DEF Init, CallInv, CallFits

\* What sing-box and its log do beside a call.
LEMMA WorldCallFits ==
  ASSUME TypeOK, CallFits,
         Appears \/ (\E p \in Pids : Behaves(p)) \/ (\E m \in Marks : Scrolls(m))
  PROVE  CallFits'
<1>1. CASE Appears
  <2>1. /\ UNCHANGED <<pc, run, said, log, old>>
        /\ coming > 0 /\ coming' = coming - 1 /\ coming \in Nat
        /\ (alive' = alive \/ \E p \in Pids : alive' = alive \cup {p})
    BY <1>1, AppearsKeeps, ManagerAssumption DEF TypeOK, ManagerAssumption
  <2>2. pc \in {"found", "wait", "idle"} /\ ~(pc = "idle" /\ said = "stopped")
    BY <2>1 DEF CallFits, Nobody, TypeOK, Steps
  <2>3. CASE pc = "idle"
    BY <2>1, <2>2, <2>3 DEF CallFits
  <2>4. CASE pc \in {"found", "wait"}
    <3>1. Launched /\ coming = 1 /\ coming' = 0 /\ alive = {} /\ log = {}
      BY <2>1, <2>4 DEF CallFits, Launched
    <3>2. Launched'
      BY <2>1, <3>1 DEF Launched, AtMostOne
    <3>3. pc = "wait" => Awaited'
      BY <2>1, <3>1 DEF CallFits, Awaited
    <3> QED
      BY <2>1, <2>4, <3>2, <3>3 DEF CallFits
  <2> QED
    BY <2>2, <2>3, <2>4
<1>2. CASE (\E p \in Pids : Behaves(p)) \/ (\E m \in Marks : Scrolls(m))
  <2>1. UNCHANGED <<pc, run, said, coming>> /\ alive' \subseteq alive
    BY <1>2, WorldKeeps
  <2>2. AtMostOne => AtMostOne'
    BY <2>1 DEF AtMostOne
  <2>3. alive = {} => log' \subseteq log
    BY <1>2
    DEF Behaves, Dies, Listens, TakesAdapter, Logs, Scrolls, journal, world, TypeOK, External
  <2>4. Launched => Launched'
    <3> SUFFICES ASSUME Launched PROVE Launched'
      OBVIOUS
    <3>1. old' = {}
      BY <1>2
      DEF Launched, Behaves, Dies, Listens, TakesAdapter, Logs, Scrolls, journal
    <3>2. "started" \in log' /\ alive' # {} => nic' \in alive'
      <4>1. ASSUME NEW p \in Pids, Dies(p), alive' # {} PROVE FALSE
        BY <4>1 DEF Dies, End, Launched, AtMostOne
      <4>2. ASSUME NEW p \in Pids, NEW m \in Marks, Logs(p, m)
            PROVE  "started" \in log' /\ alive' # {} => nic' \in alive'
        BY <4>2 DEF Logs, world, Launched
      <4>3. ASSUME NEW p \in Pids, Listens(p) \/ TakesAdapter(p)
            PROVE  "started" \in log' /\ alive' # {} => nic' \in alive'
        BY <4>3 DEF Listens, TakesAdapter, journal, Launched
      <4>4. ASSUME NEW m \in Marks, Scrolls(m)
            PROVE  "started" \in log' /\ alive' # {} => nic' \in alive'
        BY <4>4 DEF Scrolls, world, Launched
      <4> QED
        BY <1>2, <4>1, <4>2, <4>3, <4>4 DEF Behaves
    <3> QED
      BY <2>1, <2>2, <2>3, <3>1, <3>2 DEF Launched
  <2>5. Awaited => Awaited'
    BY <2>1 DEF Awaited
  <2>6. Nobody => Nobody'
    BY <2>1 DEF Nobody
  <2> QED
    BY <2>1, <2>2, <2>3, <2>4, <2>5, <2>6 DEF CallFits, Nobody
<1> QED
  BY <1>1, <1>2

\* Each step of a call leaves the next what it needs, unless a process escapes.
LEMMA ManagerCallFits ==
  ASSUME "slow" \notin Faults, TypeOK, ~spared /\ ~kept => CallFits, Manager \/ Calls,
         ~spared', ~kept'
  PROVE  CallFits'
<1>c. coming \in Nat
  BY ManagerAssumption DEF TypeOK, ManagerAssumption
<1>1. CASE Calls
  <2>1. pc' \in {"kill", "start"} /\ coming' = coming /\ spared' = (coming > 0)
    BY <1>1 DEF Calls, StopCalled, StartCalled, Internal, world
  <2>2. ~(coming > 0)
    BY <2>1
  <2>3. coming = 0
    BY <2>2, <1>c
  <2> QED
    BY <2>1, <2>3 DEF CallFits
<1>s. CASE ~Calls
  <2>s. Manager /\ ~spared /\ ~kept
    <3>1. spared => spared'
      BY <1>s
      DEF Manager, Kill, ForceKill, Sweep, Misconfigured, StopsFirst, Clean, Rotate, Launch,
          Prompt, Find, Ready, Prolong, Tick, Fail, Retry
    <3>2. kept => kept'
      BY <1>s
      DEF Manager, Kill, ForceKill, Sweep, Misconfigured, StopsFirst, Clean, Rotate, Launch,
          Prompt, Find, Ready, Prolong, Tick, Fail, Retry, journal
    <3> QED
      BY <1>s, <3>1, <3>2
  <2>i. CallFits
    BY <2>s
  <2>r. \A how : Returns(how) => pc' = "idle" /\ said' = how
    BY DEF Returns, Internal
  <2>2. CASE Kill
    <3>1. PICK left \in SUBSET alive :
            End(alive \ left) /\ Internal(IF left = {} THEN "sweep" ELSE "force")
      BY <2>2 DEF Kill
    <3>2. alive \ left \in SUBSET alive
      OBVIOUS
    <3>3. alive' = alive \ (alive \ left) /\ coming' = coming /\ coming = 0
      BY <2>2, <3>1, <3>2, <2>i, EndKeeps DEF CallFits, Kill
    <3> QED
      BY <3>1, <3>3 DEF Internal, CallFits, Nobody
  <2>3. CASE ForceKill
    <3>1. End(alive \ {}) /\ Internal("sweep")
      BY <2>3 DEF ForceKill
    <3>2. alive' = {} /\ coming' = coming /\ coming = 0
      BY <2>3, <3>1, <2>i, EndKeeps DEF CallFits, ForceKill
    <3> QED
      BY <3>1, <3>2 DEF Internal, CallFits, Nobody
  <2>4. CASE Sweep
    <3>1. Nobody /\ Nobody'
      BY <2>4, <2>i, RemovalKeeps DEF CallFits, Sweep, Nobody
    <3>2. pc' \in {"idle", "stale", "clean"}
      BY <2>4, <2>r DEF Sweep, Internal, TypeOK, Runs
    <3> QED
      BY <3>1, <3>2 DEF CallFits
  <2>5. CASE Misconfigured \/ Ready
    <3>1. pc' = "idle" /\ said' # "stopped"
      BY <2>5, <2>r DEF Misconfigured, Ready, Raises
    <3> QED
      BY <3>1 DEF CallFits
  <2>6. CASE StopsFirst
    <3>1. coming = 0 /\ UNCHANGED <<alive, coming>>
      BY <2>6, <2>i DEF StopsFirst, CallFits, Nobody, world
    <3>2. pc' = "kill" \/ (alive = {} /\ pc' \in {"stale", "clean"})
      BY <2>6 DEF StopsFirst, Internal
    <3> QED
      BY <3>1, <3>2 DEF CallFits, Nobody
  <2>7. CASE Clean
    <3>1. pc' = "rotate" /\ Nobody /\ UNCHANGED <<alive, coming>>
      BY <2>7, <2>i, RemovalKeeps DEF Clean, CallFits, Internal, world
    <3> QED
      BY <3>1 DEF CallFits, Nobody
  <2>8. CASE Rotate
    <3>1. pc' = "launch" /\ Nobody /\ UNCHANGED <<alive, coming>> /\ log' = {}
      BY <2>8, <2>i DEF Rotate, CallFits, Internal, world, Nobody
    <3> QED
      BY <3>1 DEF CallFits, Nobody
  <2>9. CASE Launch
    <3>1. PICK p \in Pids \cup {None} : alive' = alive \cup ({p} \ {None}) /\ run' = Waiting(p)
      BY <2>9 DEF Launch
    <3>2. Nobody /\ coming' = coming /\ log = {} /\ log' = log /\ old' = log /\ pc' = "wait"
      BY <2>9, <2>i DEF Launch, CallFits, Internal
    <3>3. Launched'
      BY <3>1, <3>2 DEF Launched, Nobody, AtMostOne
    <3>4. run'.mine = p
      BY <3>1 DEF Waiting, TypeOK, Runs
    <3>5. Awaited'
      BY <3>1, <3>2, <3>4 DEF Awaited, Nobody
    <3> QED
      BY <3>2, <3>3, <3>5 DEF CallFits
  <2>10. CASE Prompt
    <3>1. Nobody /\ log = {} /\ log' = log /\ old' = log /\ alive' = alive
      BY <2>10, <2>i DEF Prompt, CallFits
    <3>2. \/ pc' = "idle" /\ said' = "raised"
          \/ pc' = "found" /\ coming' = 1
      BY <2>10, <3>1, <2>r DEF Prompt, Internal, Raises, Nobody
    <3> QED
      BY <3>1, <3>2 DEF CallFits, Launched, Nobody, AtMostOne
  <2>11. CASE Find
    <3>1. PICK p \in alive \cup {None} : run' = Waiting(p)
      BY <2>11 DEF Find
    <3>2. pc' = "wait" /\ Launched /\ Launched' /\ UNCHANGED <<alive, coming>>
      BY <2>11, <2>i DEF Find, CallFits, Internal, Launched, AtMostOne, world, journal
    <3>3. run'.mine = p /\ run'.left = 2
      BY <3>1 DEF Waiting, TypeOK, Runs
    <3>4. Awaited'
      BY <3>1, <3>2, <3>3 DEF Awaited, Launched, AtMostOne
    <3> QED
      BY <3>2, <3>4 DEF CallFits
  <2>12. CASE Prolong \/ Tick
    <3>1. pc = "wait" /\ Launched /\ Awaited
      BY <2>12, <2>i DEF Prolong, Tick, Pass, CallFits
    <3>2. /\ UNCHANGED <<pc, said, alive, coming, port, nic, log, old>>
          /\ run'.mine = run.mine
      BY <2>12 DEF Prolong, Tick, world, journal, TypeOK, Runs
    <3>3. coming # 1
      BY <2>12, <3>1 DEF Prolong, Tick, Launched, TypeOK
    <3>4. Launched'
      BY <3>1, <3>2 DEF Launched, AtMostOne
    <3>5. Awaited'
      BY <3>1, <3>2, <3>3 DEF Awaited
    <3> QED
      BY <3>1, <3>2, <3>4, <3>5 DEF CallFits
  <2>13. CASE Fail
    <3>1. pc = "wait" /\ Launched /\ Awaited /\ UNCHANGED <<alive, coming>>
      BY <2>13, <2>i DEF Fail, CallFits, world
    <3>2. coming # 1
      BY <2>13, <3>1 DEF Fail, GivesUp, Conflict, Launched, Awaited, TypeOK
    <3>3. \/ pc' = "idle" /\ said' # "stopped"
          \/ pc' = "retry"
      BY <2>13, <2>r DEF Fail, Internal, Raises
    <3> QED
      BY <3>1, <3>2, <3>3, <1>c DEF CallFits, Launched, AtMostOne
  <2>14. CASE Retry
    <3>1. AtMostOne /\ coming = 0 /\ pc' = "clean"
      BY <2>14, <2>i DEF Retry, CallFits, Internal
    <3>2. CASE alive = {}
      BY <2>14, <3>1, <3>2 DEF Retry, CallFits, Nobody, world
    <3>3. CASE alive # {}
      <4>1. PICK p \in alive : End({p})
        BY <2>14, <3>3 DEF Retry
      <4>2. alive' = alive \ {p} /\ coming' = coming
        BY <4>1, EndKeeps
      <4> QED
        BY <3>1, <4>2 DEF CallFits, Nobody, AtMostOne
    <3> QED
      BY <3>2, <3>3
  <2> QED
    BY <2>s, <2>2, <2>3, <2>4, <2>5, <2>6, <2>7, <2>8, <2>9, <2>10, <2>11, <2>12, <2>13, <2>14
    DEF Manager
<1> QED
  BY <1>1, <1>s

\* Every step keeps CallInv.
LEMMA StepCallInv ==
  ASSUME "slow" \notin Faults
  PROVE  CallInv /\ [Next]_vars => CallInv'
<1> SUFFICES ASSUME CallInv, [Next]_vars, ~spared', ~kept' PROVE CallFits'
  BY StepTypeOK DEF CallInv
<1>1. CASE UNCHANGED vars
  BY <1>1 DEF vars, CallInv, CallFits, Nobody, Launched, Awaited, AtMostOne
<1>2. CASE Manager \/ Calls
  BY <1>2, ManagerCallFits DEF CallInv
<1>3. CASE Appears \/ (\E p \in Pids : Behaves(p)) \/ (\E m \in Marks : Scrolls(m))
  BY <1>3, WorldCallFits, WorldKeeps, AppearsKeeps DEF CallInv
<1> QED
  BY <1>1, <1>2, <1>3 DEF Next

-----------------------------------------------------------------------------

\* AloneWhileStarting, as long as what runs behind the prompt shows up in time:
\* while start waits, its process is the only one, here or on its way, unless a
\* kill left one alive, one was consented to before, or the log is another program's.
THEOREM AloneWhenStarting ==
  ASSUME "slow" \notin Faults
  PROVE  Spec => []AloneWhileStarting
<1>1. CallInv => AloneWhileStarting
  <2> SUFFICES ASSUME CallInv, pc = "wait", ~spared, ~kept PROVE Cardinality(alive) + coming <= 1
    BY DEF AloneWhileStarting
  <2>1. AtMostOne /\ coming \in Nat /\ coming <= 1 /\ (coming = 1 => alive = {})
    BY ManagerAssumption DEF CallInv, CallFits, Launched, TypeOK, ManagerAssumption
  <2>2. CASE alive = {}
    BY <2>1, <2>2, FS_EmptySet
  <2>3. CASE alive # {}
    <3>1. PICK p : alive = {p}
      BY <2>1, <2>3 DEF AtMostOne
    <3>2. Cardinality(alive) = 1
      BY <3>1, FS_Singleton
    <3> QED
      BY <2>1, <2>3, <3>2
  <2> QED
    BY <2>2, <2>3
<1> QED
  BY <1>1, InitCallInv, StepCallInv, PTL DEF Spec

\* LogIsOfThisLaunch under the same condition: no mark that was in the log
\* before the launch is there while start waits, so the first attempt never
\* ends the second, unless another program has the log open.
THEOREM LogAlwaysOfThisLaunch ==
  ASSUME "slow" \notin Faults
  PROVE  Spec => []LogIsOfThisLaunch
<1>1. CallInv => LogIsOfThisLaunch
  BY DEF CallInv, CallFits, Launched, LogIsOfThisLaunch
<1> QED
  BY <1>1, InitCallInv, StepCallInv, PTL DEF Spec

\* What the steps of a stop of its own find: stops of a start go on elsewhere.
StopFits ==
  /\ pc \in {"kill", "force"} /\ run.rest = "idle" => coming = 0
  /\ pc = "sweep" /\ run.rest = "idle" => Nobody
  /\ pc = "idle" /\ said = "stopped" => Nobody

StopInv == TypeOK /\ (~spared => StopFits)

LEMMA StepStopInv == StopInv /\ [Next]_vars => StopInv'
<1> SUFFICES ASSUME StopInv, [Next]_vars, ~spared' PROVE StopFits'
  BY StepTypeOK DEF StopInv
<1>0. TypeOK
  BY DEF StopInv
<1>1. CASE Calls
  <2>1. pc' \in {"kill", "start"} /\ coming' = coming /\ spared' = (coming > 0)
    BY <1>1 DEF Calls, StopCalled, StartCalled, Internal, world
  <2>2. ~(coming > 0)
    BY <2>1
  <2>3. coming \in Nat
    BY <1>0, ManagerAssumption DEF TypeOK, ManagerAssumption
  <2>4. coming = 0
    BY <2>2, <2>3
  <2> QED
    BY <2>1, <2>4 DEF StopFits
<1>2. CASE UNCHANGED vars
  BY <1>2 DEF vars, StopInv, StopFits, Nobody
<1>3. CASE Appears \/ (\E p \in Pids : Behaves(p)) \/ (\E m \in Marks : Scrolls(m))
  <2>1. UNCHANGED <<pc, run, said, spared>> /\ (Appears => coming > 0)
        /\ (~Appears => coming' = coming /\ alive' \subseteq alive)
    BY <1>0, <1>3, WorldKeeps, AppearsKeeps
  <2>2. StopFits
    BY <2>1 DEF StopInv
  <2> QED
    BY <2>1, <2>2 DEF StopFits, Nobody
<1>4. CASE Manager /\ ~Calls
  <2>s. StopFits
    BY <1>4
    DEF StopInv, Manager, Kill, ForceKill, Sweep, Misconfigured, StopsFirst, Clean, Rotate, Launch,
        Prompt, Find, Ready, Prolong, Tick, Fail, Retry
  <2>r. \A how : Returns(how) => pc' = "idle" /\ said' = how
    BY DEF Returns, Internal
  <2>1. CASE Kill
    <3>1. PICK left \in SUBSET alive :
            End(alive \ left) /\ Internal(IF left = {} THEN "sweep" ELSE "force")
      BY <2>1 DEF Kill
    <3>2. alive \ left \in SUBSET alive
      OBVIOUS
    <3>3. /\ alive' = alive \ (alive \ left) /\ coming' = coming /\ run' = run
          /\ run.rest = "idle" => coming = 0
      BY <1>0, <2>1, <2>s, <3>1, <3>2, EndKeeps DEF StopFits, Kill
    <3> QED
      BY <3>1, <3>3 DEF Internal, StopFits, Nobody
  <2>2. CASE ForceKill
    <3>1. End(alive \ {}) /\ Internal("sweep") /\ run' = run
      BY <2>2 DEF ForceKill
    <3>2. alive' = {} /\ coming' = coming /\ (run.rest = "idle" => coming = 0)
      BY <1>0, <2>2, <2>s, <3>1, EndKeeps DEF StopFits, ForceKill
    <3> QED
      BY <3>1, <3>2 DEF Internal, StopFits, Nobody
  <2>3. CASE Sweep
    <3>1. /\ UNCHANGED <<alive, coming>>
          /\ pc' \in {"idle", "stale", "clean"}
          /\ pc' = "idle" => run.rest = "idle"
      BY <1>0, <2>3, <2>r, RemovalKeeps DEF Sweep, Internal, TypeOK, Runs
    <3> QED
      BY <2>3, <2>s, <3>1 DEF StopFits, Sweep, Nobody
  <2>4. CASE StopsFirst
    <3>1. run'.rest # "idle" /\ pc' # "idle"
      BY <1>0, <2>4 DEF StopsFirst, Internal, TypeOK, Runs
    <3> QED
      BY <3>1 DEF StopFits
  <2>5. CASE Misconfigured \/ Ready \/ Fail
    <3>1. (pc' = "idle" /\ said' # "stopped") \/ pc' = "retry"
      BY <2>5, <2>r DEF Misconfigured, Ready, Fail, Raises, Internal
    <3> QED
      BY <3>1 DEF StopFits
  <2>6. CASE Clean \/ Rotate \/ Launch \/ Find \/ Prolong \/ Tick \/ Retry
    <3>1. pc' \in {"rotate", "launch", "wait", "clean"}
      BY <2>6 DEF Clean, Rotate, Launch, Find, Prolong, Tick, Retry, Internal, Pass
    <3> QED
      BY <3>1 DEF StopFits
  <2>7. CASE Prompt
    <3>1. (pc' = "idle" /\ said' = "raised") \/ pc' = "found"
      BY <2>7, <2>r DEF Prompt, Raises, Internal
    <3> QED
      BY <3>1 DEF StopFits
  <2> QED
    BY <1>4, <2>1, <2>2, <2>3, <2>4, <2>5, <2>6, <2>7 DEF Manager
<1> QED
  BY <1>1, <1>2, <1>3, <1>4 DEF Next

\* StopIsFinal, whatever goes wrong: after a stop that returned no process is left
\* and none is on its way, unless one escaped it (stop looks for them once more, and
\* raises when one is left).
THEOREM StopAlwaysFinal == Spec => []StopIsFinal
<1>1. Init => StopInv
  BY InitTypeOK DEF Init, StopInv, StopFits
<1>2. StopInv => StopIsFinal
  BY DEF StopInv, StopFits, Nobody, StopIsFinal
<1> QED
  BY <1>1, <1>2, StepStopInv, PTL DEF Spec

\* ReadyIsOurs, as long as what runs behind the prompt shows up in time: when
\* start returns, the process it launched listens and, with TUN, has the adapter,
\* unless another program has the log open.
THEOREM ReadyAlwaysOurs ==
  ASSUME "slow" \notin Faults
  PROVE  Spec => ReadyIsOurs
<1>1. CallInv /\ [Next]_vars =>
        [pc = "wait" /\ pc' = "idle" /\ said' = "ok" /\ ~spared /\ ~kept =>
           \E p \in alive' : /\ port' = p /\ run.mine \in {p, None}
                             /\ run.tun => nic' = p]_vars
  <2> SUFFICES ASSUME CallInv, [Next]_vars, pc = "wait", pc' = "idle", said' = "ok", ~spared,
                      ~kept
               PROVE  \E p \in alive' : /\ port' = p /\ run.mine \in {p, None}
                                        /\ run.tun => nic' = p
    OBVIOUS
  <2>i. TypeOK /\ Launched /\ Awaited
    BY DEF CallInv, CallFits
  <2>1. Ready
    <3>1. ~UNCHANGED vars /\ ~Calls
      BY DEF vars, Calls, StopCalled, StartCalled
    <3>2. ~Appears /\ ~(\E p \in Pids : Behaves(p)) /\ ~(\E m \in Marks : Scrolls(m))
      BY <2>i, AppearsKeeps, WorldKeeps
    <3>3. ~(Kill \/ ForceKill \/ Sweep \/ Misconfigured \/ StopsFirst \/ Clean \/ Rotate
              \/ Launch \/ Prompt \/ Find \/ Prolong \/ Tick \/ Retry)
      BY DEF Kill, ForceKill, Sweep, Misconfigured, StopsFirst, Clean, Rotate, Launch, Prompt,
             Find, Prolong, Tick, Retry, Pass, Internal
    <3>4. ~Fail
      BY DEF Fail, Internal, Raises, Returns
    <3> QED
      BY <3>1, <3>2, <3>3, <3>4 DEF Next, Manager
  <2>2. port \in alive /\ (run.tun => "started" \in log \/ nic \in Pids)
        /\ UNCHANGED <<alive, port, nic>>
    BY <2>1, <2>i DEF Ready, Usable, IfaceUp, TypeOK, world
  <2>3. run.mine \in {port, None}
    BY <2>2, <2>i DEF Awaited
  <2>4. run.tun => nic = port
    <3>1. run.tun => nic \in alive
      BY <2>2, <2>i, ManagerAssumption DEF Launched, TypeOK, ManagerAssumption
    <3> QED
      BY <2>2, <2>i, <3>1 DEF Launched, AtMostOne
  <2> QED
    BY <2>2, <2>3, <2>4
<1> QED
  BY <1>1, InitCallInv, StepCallInv, PTL DEF Spec, ReadyIsOurs


-----------------------------------------------------------------------------
\* Traffic: the rules, and the first that matches.

\* Where a rule may send a packet, and the rules
Outs == {"direct", "proxy", "reject", "dns"}

RuleSet ==
  [to : SUBSET Hosts, port : SUBSET Ports, net : SUBSET {"tcp", "udp"},
   via : SUBSET {"tun", "proxy"}, proc : SUBSET Programs,
   ask : {"any", "address", "name", "sent name"}, out : Outs, loopback : BOOLEAN]

\* No rule matches; r is the first that does.
Misses(rules, p) == \A i \in 1..Len(rules) : ~Matches(rules[i], p)
Decides(rules, p, r) ==
  \E i \in 1..Len(rules) :
    rules[i] = r /\ Matches(r, p) /\ \A j \in 1..(i - 1) : ~Matches(rules[j], p)

\* No rules are a list of rules,
LEMMA EmptyTyped == <<>> \in Seq(RuleSet)
OBVIOUS

\* of which none matches.
LEMMA EmptyMisses == ASSUME NEW p PROVE Misses(<<>>, p)
BY DEF Misses

\* A list of one rule is decided by that rule, or misses.
LEMMA OneRule ==
  ASSUME NEW r \in RuleSet, NEW p
  PROVE  /\ <<r>> \in Seq(RuleSet)
         /\ Matches(r, p) => Decides(<<r>>, p, r)
         /\ ~Matches(r, p) => Misses(<<r>>, p)
<1>1. Len(<<r>>) = 1 /\ <<r>>[1] = r
  OBVIOUS
<1>2. Matches(r, p) => Decides(<<r>>, p, r)
  <2> SUFFICES ASSUME Matches(r, p) PROVE Decides(<<r>>, p, r)
    OBVIOUS
  <2>1. 1 \in 1..Len(<<r>>) /\ <<r>>[1] = r /\ \A j \in 1..(1 - 1) : ~Matches(<<r>>[j], p)
    BY <1>1
  <2> QED
    BY <2>1 DEF Decides
<1>3. ~Matches(r, p) => Misses(<<r>>, p)
  BY <1>1 DEF Misses
<1> QED
  BY <1>2, <1>3

\* Of two lists in a row the first that has a matching rule decides: sing-box
\* reads the parts that build_config puts together in their order.
LEMMA TwoParts ==
  ASSUME NEW s \in Seq(RuleSet), NEW t \in Seq(RuleSet), NEW p
  PROVE  /\ s \o t \in Seq(RuleSet)
         /\ Misses(s, p) /\ Misses(t, p) => Misses(s \o t, p)
         /\ \A r : Decides(s, p, r) => Decides(s \o t, p, r)
         /\ \A r : Misses(s, p) /\ Decides(t, p, r) => Decides(s \o t, p, r)
<1> DEFINE u == s \o t
<1>1. /\ u \in Seq(RuleSet) /\ Len(u) = Len(s) + Len(t)
      /\ \A i \in 1..(Len(s) + Len(t)) : u[i] = IF i <= Len(s) THEN s[i] ELSE t[i - Len(s)]
      /\ Len(s) \in Nat /\ Len(t) \in Nat
  BY ConcatProperties
<1> HIDE DEF u
<1>2. \A i \in 1..Len(s) : i \in 1..Len(u) /\ u[i] = s[i]
  BY <1>1
<1>3. ASSUME NEW i \in 1..Len(t)
      PROVE  Len(s) + i \in 1..Len(u) /\ u[Len(s) + i] = t[i]
  <2>1. /\ Len(s) + i \in 1..(Len(s) + Len(t)) /\ ~(Len(s) + i <= Len(s))
        /\ (Len(s) + i) - Len(s) = i
    BY <1>1
  <2> QED
    BY <1>1, <2>1
<1>4. \A i \in 1..Len(u) : i \in 1..Len(s) \/ (i - Len(s) \in 1..Len(t) /\ u[i] = t[i - Len(s)])
  BY <1>1
<1>5. Misses(s, p) /\ Misses(t, p) => Misses(u, p)
  BY <1>2, <1>4 DEF Misses
<1>6. ASSUME NEW r, Decides(s, p, r) PROVE Decides(u, p, r)
  <2>1. PICK i \in 1..Len(s) :
          s[i] = r /\ Matches(r, p) /\ \A j \in 1..(i - 1) : ~Matches(s[j], p)
    BY <1>6 DEF Decides
  <2>2. \A j \in 1..(i - 1) : j \in 1..Len(s)
    BY <1>1
  <2>3. i \in 1..Len(u) /\ u[i] = r /\ \A j \in 1..(i - 1) : ~Matches(u[j], p)
    BY <1>2, <2>1, <2>2
  <2> QED
    BY <2>1, <2>3 DEF Decides
<1>7. ASSUME NEW r, Misses(s, p), Decides(t, p, r) PROVE Decides(u, p, r)
  <2>1. PICK i \in 1..Len(t) :
          t[i] = r /\ Matches(r, p) /\ \A j \in 1..(i - 1) : ~Matches(t[j], p)
    BY <1>7 DEF Decides
  <2>2. Len(s) + i \in 1..Len(u) /\ u[Len(s) + i] = r
    BY <1>3, <2>1
  <2>3. ASSUME NEW j \in 1..(Len(s) + i - 1) PROVE ~Matches(u[j], p)
    <3>1. CASE j \in 1..Len(s)
      BY <1>2, <1>7, <3>1 DEF Misses
    <3>2. CASE j \notin 1..Len(s)
      <4>1. j - Len(s) \in 1..(i - 1) /\ j \in 1..Len(u)
        BY <1>1, <3>2
      <4>2. u[j] = t[j - Len(s)]
        BY <1>4, <3>2, <4>1
      <4> QED
        BY <2>1, <4>1, <4>2
    <3> QED
      BY <3>1, <3>2
  <2> QED
    BY <2>1, <2>2, <2>3 DEF Decides
<1> QED
  BY <1>1, <1>5, <1>6, <1>7 DEF u

\* sing-box takes the rule that decides.
LEMMA RouteIsFirst ==
  ASSUME NEW c, NEW p, p.via # "none", RouteRules(c) \in Seq(RuleSet)
  PROVE  /\ Misses(RouteRules(c), p) => Route(c, p) = Rule("proxy")
         /\ \A r : Decides(RouteRules(c), p, r) => Route(c, p) = r
<1> DEFINE rules == RouteRules(c)
           hits == {i \in 1..Len(rules) : Matches(rules[i], p)}
           first == IF hits # {} THEN CHOOSE i \in hits : \A j \in hits : i <= j ELSE 0
<1>1. Route(c, p) = IF first = 0 THEN Rule("proxy") ELSE rules[first]
  BY DEF Route, SelectInSeq, Min
<1> HIDE DEF rules
<1>0. Len(rules) \in Nat
  BY DEF rules
<1>2. Misses(rules, p) => first = 0
  BY DEF Misses
<1>3. ASSUME NEW r, Decides(rules, p, r) PROVE first # 0 /\ rules[first] = r
  <2>1. PICK i \in 1..Len(rules) :
          rules[i] = r /\ Matches(r, p) /\ \A j \in 1..(i - 1) : ~Matches(rules[j], p)
    BY <1>3 DEF Decides
  <2>2. i \in hits /\ (\A j \in hits : i <= j) /\ i # 0
    BY <2>1, <1>0
  <2>3. \A k \in hits : (\A j \in hits : k <= j) => k = i
    BY <2>2
  <2>4. first = i
    <3> HIDE DEF hits
    <3> QED
      BY <2>2, <2>3
  <2> QED
    BY <2>1, <2>2, <2>4
<1> QED
  BY <1>1, <1>2, <1>3 DEF rules

-----------------------------------------------------------------------------
\* The rule that decides sends the packet there.
Gives(rules, p, out) == \E r : Decides(rules, p, r) /\ r.out = out

\* A rule that is only there under a condition
LEMMA Guarded ==
  ASSUME NEW r \in RuleSet, NEW cond, NEW p
  PROVE  /\ When(cond, <<r>>) \in Seq(RuleSet)
         /\ cond /\ Matches(r, p) => Decides(When(cond, <<r>>), p, r)
         /\ ~(cond /\ Matches(r, p)) => Misses(When(cond, <<r>>), p)
<1>1. CASE cond
  BY <1>1, OneRule DEF When
<1>2. CASE ~cond
  <2>1. When(cond, <<r>>) = <<>> /\ <<>> \in Seq(RuleSet)
    BY <1>2 DEF When
  <2> QED
    BY <1>2, <2>1, EmptyMisses
<1> QED
  BY <1>1, <1>2

\* The rule that every other is made from
LEMMA RuleTyped == ASSUME NEW out \in Outs PROVE Rule(out) \in RuleSet
BY DEF Rule, RuleSet

\* What parse_routes makes of a text is a rule for a host or for a program; what
\* DNS takes for a name, the routes take for one as well (bypass_to_singbox).
LEMMA TextTyped ==
  ASSUME NEW t \in Texts
  PROVE  /\ t.of \in Hosts \cup Programs
         /\ ParseRoutes(t) \in {"name", "address"} => t.of \in Hosts
         /\ ParseRoutes(t) = "process" => t.of \in Programs
         /\ NamesHost(t) => ParseRoutes(t) = "name"
         /\ t.ip /\ ~t.slash => ParseRoutes(t) = "address"
<1>1. /\ t.pre \in {"", "exe:", "svc:"} /\ t.url \in BOOLEAN /\ t.slash \in BOOLEAN
      /\ t.exe \in BOOLEAN /\ t.ip \in BOOLEAN /\ t.star \in {"none", "leading", "inside"}
      /\ t.shared \in BOOLEAN /\ t.of \in Hosts \cup Programs
  BY DEF Texts
<1>2. /\ t.of \in Hosts => t.pre = "" /\ ~t.exe /\ ~t.shared
      /\ t.of \in Programs => (t.pre # "" \/ t.exe \/ t.slash) /\ ~t.url /\ ~t.ip /\ t.star = "none"
      /\ t.url => t.slash
      /\ t.ip => t.star = "none"
  BY DEF Texts
<1>3. t.of \in Programs => ParseToken(t) \in {"service", "process"}
  BY <1>1, <1>2 DEF ParseToken, Normalized
<1>4. ParseToken(t) \in {"service", "process", "ip", "domain"}
  <2> DEFINE u == Normalized(t)
             isProcess == u.pre = "exe:" \/ (u.pre = "" /\ (u.slash \/ u.exe))
  <2>1. u.pre = t.pre
    BY DEF Normalized, Texts
  <2>2. CASE u.pre = "svc:"
    BY <2>2 DEF ParseToken
  <2>3. CASE u.pre # "svc:" /\ isProcess
    BY <2>3 DEF ParseToken
  <2>4. CASE u.pre # "svc:" /\ ~isProcess
    <3>1. u.pre = ""
      BY <1>1, <2>1, <2>4
    <3> QED
      BY <2>4, <3>1 DEF ParseToken
  <2> QED
    BY <2>2, <2>3, <2>4
<1>5. ParseRoutes(t) \in {"name", "address"} => ParseToken(t) \in {"ip", "domain"}
  BY <1>4 DEF ParseRoutes
<1>6. ParseRoutes(t) = "process" => t.of \in Programs
  BY <1>4 DEF ParseRoutes, MatchesProcess
<1>7. NamesHost(t) => ParseRoutes(t) = "name"
  <2> SUFFICES ASSUME NamesHost(t) PROVE ParseRoutes(t) = "name"
    OBVIOUS
  <2>1. t.pre = "" /\ ~t.slash /\ ~t.exe /\ ~t.ip /\ t.star # "inside" /\ ~t.url
    BY <1>2 DEF NamesHost
  <2>2. ParseToken(t) = "domain"
    BY <2>1 DEF ParseToken, Normalized
  <2> QED
    BY <2>1, <2>2 DEF ParseRoutes
<1>8. t.ip /\ ~t.slash => ParseRoutes(t) = "address"
  <2> SUFFICES ASSUME t.ip, ~t.slash PROVE ParseRoutes(t) = "address"
    OBVIOUS
  <2>1. t.pre = "" /\ ~t.exe /\ ~t.url
    BY <1>1, <1>2
  <2>2. ParseToken(t) = "ip"
    BY <2>1 DEF ParseToken, Normalized
  <2> QED
    BY <2>2 DEF ParseRoutes
<1> QED
  BY <1>1, <1>3, <1>5, <1>6, <1>7, <1>8

\* A text of the list makes a rule that matches the packet.
Caught(texts, p) ==
  \E t \in texts :
    \/ ParseRoutes(t) = "name" /\ t.of = p.to /\ (p.by = "name" \/ Sniffed(p))
    \/ ParseRoutes(t) = "address" /\ t.of = p.to /\ p.by = "address"
    \/ ParseRoutes(t) = "process" /\ t.of = p.proc

\* What the packets are, and what of them depends on the rest
LEMMA PacketTyped ==
  ASSUME NEW p \in Packets
  PROVE  /\ p.to \in Hosts /\ p.port \in Ports /\ p.net \in {"tcp", "udp"}
         /\ p.via \in {"tun", "proxy", "none"} /\ p.proc \in Programs
         /\ p.by \in {"address", "name"}
         /\ p.via = "tun" => p.by = "address"
         /\ p.via = "proxy" => p.net = "tcp" /\ p.proc # "sing-box"
         /\ p.via = "none" => p.proc = "browser"
         /\ p.proc = "browser" => p.to \in Sites /\ p.port = "https" /\ p.net = "tcp"
         /\ p.port = "vpn" => p.to \in {"vps", Squid}
BY DEF Packets

\* The rules of a list match what is caught by its texts, and nothing else.
LEMMA TokensRule ==
  ASSUME NEW texts \in SUBSET Texts, NEW out \in Outs, NEW p \in Packets, p.via # "none"
  PROVE  /\ TokenRules(texts, out) \in Seq(RuleSet)
         /\ Caught(texts, p) => Gives(TokenRules(texts, out), p, out)
         /\ ~Caught(texts, p) => Misses(TokenRules(texts, out), p)
<1> DEFINE names == Listed(texts, "name")
           addresses == Listed(texts, "address")
           processes == Listed(texts, "process")
           rn == [Rule(out) EXCEPT !.to = names, !.ask = "name"]
           ra == [Rule(out) EXCEPT !.to = addresses, !.ask = "address"]
           rp == [Rule(out) EXCEPT !.proc = processes]
           n == When(names # {}, <<rn>>)
           a == When(addresses # {}, <<ra>>)
           pr == When(processes # {}, <<rp>>)
<1>1. TokenRules(texts, out) = (n \o a) \o pr
  BY DEF TokenRules
<1>2. names \subseteq Hosts /\ addresses \subseteq Hosts /\ processes \subseteq Programs
  BY TextTyped DEF Listed
<1>3. rn \in RuleSet /\ ra \in RuleSet /\ rp \in RuleSet
  BY <1>2, RuleTyped DEF RuleSet
<1>4. /\ rn.out = out /\ ra.out = out /\ rp.out = out
      /\ Matches(rn, p) <=> p.to \in names /\ (p.by = "name" \/ Sniffed(p))
      /\ Matches(ra, p) <=> p.to \in addresses /\ p.by = "address"
      /\ Matches(rp, p) <=> p.proc \in processes
  BY PacketTyped DEF Rule, Matches
<1>5. /\ p.to \in names <=> \E t \in texts : ParseRoutes(t) = "name" /\ t.of = p.to
      /\ p.to \in addresses <=> \E t \in texts : ParseRoutes(t) = "address" /\ t.of = p.to
      /\ p.proc \in processes <=> \E t \in texts : ParseRoutes(t) = "process" /\ t.of = p.proc
  BY DEF Listed
<1>6. Caught(texts, p) <=>
        \/ p.to \in names /\ (p.by = "name" \/ Sniffed(p))
        \/ p.to \in addresses /\ p.by = "address"
        \/ p.proc \in processes
  BY <1>5 DEF Caught
<1> HIDE DEF names, addresses, processes, rn, ra, rp
<1>7. /\ n \in Seq(RuleSet) /\ a \in Seq(RuleSet) /\ pr \in Seq(RuleSet)
      /\ Matches(rn, p) => Decides(n, p, rn)
      /\ ~Matches(rn, p) => Misses(n, p)
      /\ Matches(ra, p) => Decides(a, p, ra)
      /\ ~Matches(ra, p) => Misses(a, p)
      /\ Matches(rp, p) => Decides(pr, p, rp)
      /\ ~Matches(rp, p) => Misses(pr, p)
  <2>1. /\ Matches(rn, p) => names # {}
        /\ Matches(ra, p) => addresses # {}
        /\ Matches(rp, p) => processes # {}
    BY <1>4
  <2> QED
    BY <1>3, <2>1, Guarded
<1> HIDE DEF n, a, pr
<1>8. n \o a \in Seq(RuleSet) /\ (n \o a) \o pr \in Seq(RuleSet)
  BY <1>7, TwoParts
<1>9. /\ Matches(rn, p) => Decides((n \o a) \o pr, p, rn)
      /\ ~Matches(rn, p) /\ Matches(ra, p) => Decides((n \o a) \o pr, p, ra)
      /\ ~Matches(rn, p) /\ ~Matches(ra, p) /\ Matches(rp, p) => Decides((n \o a) \o pr, p, rp)
      /\ ~Matches(rn, p) /\ ~Matches(ra, p) /\ ~Matches(rp, p) => Misses((n \o a) \o pr, p)
  <2>1. /\ Matches(rn, p) => Decides(n \o a, p, rn)
        /\ ~Matches(rn, p) /\ Matches(ra, p) => Decides(n \o a, p, ra)
        /\ ~Matches(rn, p) /\ ~Matches(ra, p) => Misses(n \o a, p)
    BY <1>7, TwoParts
  <2> QED
    BY <1>7, <1>8, <2>1, TwoParts
<1> QED
  BY <1>1, <1>4, <1>6, <1>8, <1>9 DEF Gives

-----------------------------------------------------------------------------
\* No rule matches, or one of these is the first that does.
Within(rules, p, ok) == Misses(rules, p) \/ \E r \in ok : Decides(rules, p, r)

\* The same for the rules of a part taken together: a rule under a condition,
LEMMA GuardedWithin ==
  ASSUME NEW r \in RuleSet, NEW cond, NEW p, NEW ok, cond /\ Matches(r, p) => r \in ok
  PROVE  When(cond, <<r>>) \in Seq(RuleSet) /\ Within(When(cond, <<r>>), p, ok)
BY Guarded DEF Within

\* two parts in a row,
LEMMA PartsWithin ==
  ASSUME NEW s \in Seq(RuleSet), NEW t \in Seq(RuleSet), NEW p, NEW ok,
         Within(s, p, ok), Within(t, p, ok)
  PROVE  s \o t \in Seq(RuleSet) /\ Within(s \o t, p, ok)
BY TwoParts DEF Within

\* and a part under a condition.
LEMMA WhenWithin ==
  ASSUME NEW s \in Seq(RuleSet), NEW cond, NEW p, NEW ok, cond => Within(s, p, ok)
  PROVE  When(cond, s) \in Seq(RuleSet) /\ Within(When(cond, s), p, ok)
<1>1. CASE cond
  BY <1>1 DEF When
<1>2. CASE ~cond
  <2>1. When(cond, s) = <<>> /\ <<>> \in Seq(RuleSet)
    BY <1>2 DEF When
  <2> QED
    BY <2>1, EmptyMisses DEF Within
<1> QED
  BY <1>1, <1>2

\* rustdesk_hairpin_rules send to the tunnel, and only what is for the ports of
\* RustDesk on the server.
LEMMA RustdeskWithin ==
  ASSUME NEW c, NEW p \in Packets, p.via # "none", NEW ok,
         \A r \in RuleSet :
           /\ r.out = "proxy" /\ p.to = "vps" /\ c.rustdesk
           /\ \/ p.port = "relay"
              \/ p.port = "hbbs" /\ r.loopback
           => r \in ok,
         p.to # "tun lan"
  PROVE  RustdeskRules(c) \in Seq(RuleSet) /\ Within(RustdeskRules(c), p, ok)
<1> DEFINE a(ports, loop) ==
             [ToAddress("vps", "proxy") EXCEPT !.port = ports, !.loopback = loop]
           n(ports, loop) ==
             [[ToName("vps", "proxy") EXCEPT !.port = ports, !.loopback = loop]
                EXCEPT !.ask = "sent name"]
           both(ports, loop) == When(c.resolved, <<a(ports, loop)>>)
                                  \o When(c.hostname, <<n(ports, loop)>>)
           own == [ToAddress("tun lan", "reject") EXCEPT !.proc = {"rustdesk"}]
           all == (both({"relay"}, FALSE) \o both({"hbbs"}, TRUE)) \o <<own>>
<1>1. RustdeskRules(c) = When(c.rustdesk, all)
  BY DEF RustdeskRules
<1>2. a({"relay"}, FALSE) \in RuleSet /\ a({"hbbs"}, TRUE) \in RuleSet
  BY DEF ToAddress, Rule, RuleSet, Hosts, Ports, Outs
<1>3. n({"relay"}, FALSE) \in RuleSet /\ n({"hbbs"}, TRUE) \in RuleSet
  BY DEF ToName, Rule, RuleSet, Hosts, Ports, Outs
<1>4. own \in RuleSet
  BY DEF ToAddress, Rule, RuleSet, Hosts, Programs, Outs
<1>5. /\ Matches(a({"relay"}, FALSE), p) => p.to = "vps" /\ p.port = "relay"
      /\ Matches(a({"hbbs"}, TRUE), p) => p.to = "vps" /\ p.port = "hbbs"
      /\ a({"relay"}, FALSE).out = "proxy" /\ a({"hbbs"}, TRUE).out = "proxy"
      /\ a({"hbbs"}, TRUE).loopback
  BY DEF Matches, ToAddress, Rule
<1>6. /\ Matches(n({"relay"}, FALSE), p) => p.to = "vps" /\ p.port = "relay"
      /\ Matches(n({"hbbs"}, TRUE), p) => p.to = "vps" /\ p.port = "hbbs"
      /\ n({"relay"}, FALSE).out = "proxy" /\ n({"hbbs"}, TRUE).out = "proxy"
      /\ n({"hbbs"}, TRUE).loopback
  BY DEF Matches, ToName, Rule
<1>7. ~Matches(own, p)
  BY DEF Matches, ToAddress, Rule
<1>8. ASSUME NEW r \in RuleSet, Matches(r, p) => r \in ok
      PROVE  <<r>> \in Seq(RuleSet) /\ Within(<<r>>, p, ok)
  BY <1>8, OneRule DEF Within
<1> HIDE DEF a, n, own
<1>9. CASE c.rustdesk
  <2>1. both({"relay"}, FALSE) \in Seq(RuleSet) /\ Within(both({"relay"}, FALSE), p, ok)
    <3>1. /\ Matches(a({"relay"}, FALSE), p) => a({"relay"}, FALSE) \in ok
          /\ Matches(n({"relay"}, FALSE), p) => n({"relay"}, FALSE) \in ok
      BY <1>2, <1>3, <1>5, <1>6, <1>9
    <3> QED
      BY <1>2, <1>3, <3>1, GuardedWithin, PartsWithin
  <2>2. both({"hbbs"}, TRUE) \in Seq(RuleSet) /\ Within(both({"hbbs"}, TRUE), p, ok)
    <3>1. /\ Matches(a({"hbbs"}, TRUE), p) => a({"hbbs"}, TRUE) \in ok
          /\ Matches(n({"hbbs"}, TRUE), p) => n({"hbbs"}, TRUE) \in ok
      BY <1>2, <1>3, <1>5, <1>6, <1>9
    <3> QED
      BY <1>2, <1>3, <3>1, GuardedWithin, PartsWithin
  <2>3. <<own>> \in Seq(RuleSet) /\ Within(<<own>>, p, ok)
    BY <1>4, <1>7, <1>8
  <2> HIDE DEF both
  <2>4. all \in Seq(RuleSet) /\ Within(all, p, ok)
    BY <2>1, <2>2, <2>3, PartsWithin
  <2> HIDE DEF all
  <2> QED
    BY <1>1, <2>4, WhenWithin
<1>10. CASE ~c.rustdesk
  <2> HIDE DEF all
  <2>1. RustdeskRules(c) = <<>>
    BY <1>1, <1>10 DEF When
  <2> QED
    BY <2>1, EmptyTyped, EmptyMisses DEF Within
<1> QED
  BY <1>9, <1>10

\* The rules of _vps_loopback_rule are rules,
LEMMA HairpinTyped ==
  ASSUME NEW c
  PROVE  HairpinRules(c) \in Seq(RuleSet)
<1> DEFINE h == [ToAddress("vps", "direct") EXCEPT !.port = {"vpn"}]
           o == [ToAddress("vps", "proxy") EXCEPT !.loopback = TRUE]
           x == [ToAddress("vps", "proxy") EXCEPT
                   !.loopback = TRUE, !.port = {"ssh"}, !.via = {"proxy"}]
<1>1. h \in RuleSet /\ o \in RuleSet /\ x \in RuleSet
  BY DEF ToAddress, Rule, RuleSet, Hosts, Ports, Outs
<1>2. HairpinRules(c) = When(c.resolved, <<h>> \o <<IF Squidded(c) THEN o ELSE x>>)
  BY DEF HairpinRules
<1> HIDE DEF h, o, x
<1>3. <<h>> \in Seq(RuleSet) /\ <<IF Squidded(c) THEN o ELSE x>> \in Seq(RuleSet)
  BY <1>1
<1>4. <<h>> \o <<IF Squidded(c) THEN o ELSE x>> \in Seq(RuleSet)
  BY <1>3, TwoParts
<1> QED
  BY <1>2, <1>4 DEF When

\* The traffic of the tunnel is direct; in the office everything else for the server
\* goes to its loopback address (_vps_loopback_rule).
LEMMA HairpinsRule ==
  ASSUME NEW c, NEW p \in Packets, p.via # "none"
  PROVE  /\ p.to # "vps" => Misses(HairpinRules(c), p)
         /\ c.resolved /\ p.to = "vps" /\ p.by = "address" /\ p.port = "vpn"
              => Gives(HairpinRules(c), p, "direct")
         /\ c.resolved /\ Squidded(c) /\ p.to = "vps" /\ p.by = "address" /\ p.port # "vpn"
              => \E r : Decides(HairpinRules(c), p, r) /\ r.out = "proxy" /\ r.loopback
<1> DEFINE h == [ToAddress("vps", "direct") EXCEPT !.port = {"vpn"}]
           o == [ToAddress("vps", "proxy") EXCEPT !.loopback = TRUE]
           x == [ToAddress("vps", "proxy") EXCEPT
                   !.loopback = TRUE, !.port = {"ssh"}, !.via = {"proxy"}]
           e == IF Squidded(c) THEN o ELSE x
<1>1. h \in RuleSet /\ o \in RuleSet /\ x \in RuleSet
  BY DEF ToAddress, Rule, RuleSet, Hosts, Ports, Outs
<1>2. HairpinRules(c) = When(c.resolved, <<h>> \o <<e>>)
  BY DEF HairpinRules
<1>3. /\ Matches(h, p) <=> p.to = "vps" /\ p.port = "vpn" /\ p.by = "address"
      /\ Matches(o, p) <=> p.to = "vps" /\ p.by = "address"
      /\ Matches(x, p) => p.to = "vps"
      /\ h.out = "direct" /\ o.out = "proxy" /\ o.loopback
  BY PacketTyped DEF Matches, ToAddress, Rule
<1> HIDE DEF h, o, x
<1>4. e \in RuleSet /\ (Matches(e, p) => p.to = "vps") /\ (Squidded(c) => e = o)
  BY <1>1, <1>3
<1> HIDE DEF e
<1>5. /\ <<h>> \in Seq(RuleSet) /\ <<e>> \in Seq(RuleSet)
      /\ Matches(h, p) => Decides(<<h>>, p, h)
      /\ ~Matches(h, p) => Misses(<<h>>, p)
      /\ Matches(e, p) => Decides(<<e>>, p, e)
      /\ ~Matches(e, p) => Misses(<<e>>, p)
  BY <1>1, <1>4, OneRule
<1>6. /\ Matches(h, p) => Decides(<<h>> \o <<e>>, p, h)
      /\ ~Matches(h, p) /\ Matches(e, p) => Decides(<<h>> \o <<e>>, p, e)
      /\ ~Matches(h, p) /\ ~Matches(e, p) => Misses(<<h>> \o <<e>>, p)
  BY <1>5, TwoParts
<1>7. CASE c.resolved
  <2>1. HairpinRules(c) = <<h>> \o <<e>>
    BY <1>2, <1>7 DEF When
  <2> QED
    BY <1>3, <1>4, <1>6, <2>1 DEF Gives
<1>8. CASE ~c.resolved
  <2>1. HairpinRules(c) = <<>>
    BY <1>2, <1>8 DEF When
  <2> QED
    BY <1>8, <2>1, EmptyMisses
<1> QED
  BY <1>7, <1>8

\* The hosts of underlay_keep_hosts
LEMMA KeptRule ==
  ASSUME NEW c, NEW p \in Packets, p.via # "none"
  PROVE  /\ KeptRules(c) \in Seq(RuleSet)
         /\ p.to \notin {"vps", Squid} => Misses(KeptRules(c), p)
         /\ p.to = Squid /\ c.office /\ p.by = "address" => Gives(KeptRules(c), p, "direct")
<1> DEFINE k == [Rule("direct") EXCEPT !.to = Kept(c), !.ask = "address"]
<1>1. KeptRules(c) = When(Kept(c) # {}, <<k>>)
  BY DEF KeptRules
<1>2. Kept(c) \subseteq {"vps", Squid} /\ (c.office => Squid \in Kept(c))
  BY DEF Kept
<1>3. k \in RuleSet
  BY <1>2 DEF Rule, RuleSet, Hosts, Outs
<1>4. (Matches(k, p) <=> p.to \in Kept(c) /\ p.by = "address") /\ k.out = "direct"
  BY PacketTyped DEF Matches, Rule
<1> HIDE DEF k
<1>5. /\ When(Kept(c) # {}, <<k>>) \in Seq(RuleSet)
      /\ Kept(c) # {} /\ Matches(k, p) => Decides(When(Kept(c) # {}, <<k>>), p, k)
      /\ ~(Kept(c) # {} /\ Matches(k, p)) => Misses(When(Kept(c) # {}, <<k>>), p)
  BY <1>3, Guarded
<1> QED
  BY <1>1, <1>2, <1>4, <1>5 DEF Gives

\* The rules that are there with any settings
LEMMA FixedTyped == ASSUME NEW c PROVE FixedRules(c) \in Seq(RuleSet)
<1> DEFINE a == [Rule("dns") EXCEPT !.port = {"dns"}]
           b == [Rule("direct") EXCEPT
                   !.to = {Squid, "lan", "tun lan"} \cup {h \in Sites : Nets[h] # "public"},
                   !.ask = "address"]
           d == [Rule("reject") EXCEPT !.net = {"udp"}, !.port = {"https"}]
           e == [Rule("proxy") EXCEPT !.via = {"proxy"}]
           f == [Rule("direct") EXCEPT !.proc = {"docker", "sing-box", "python"}]
<1>1. a \in RuleSet /\ b \in RuleSet /\ d \in RuleSet
  BY DEF Rule, RuleSet, Hosts, Ports, Outs
<1>2. e \in RuleSet /\ f \in RuleSet
  BY DEF Rule, RuleSet, Programs, Outs
<1>3. FixedRules(c) = (<<a, b>> \o When(Squidded(c), <<d>>)) \o <<e, f>>
  BY DEF FixedRules
<1> HIDE DEF a, b, d, e, f
<1>4. <<a, b>> \in Seq(RuleSet) /\ <<e, f>> \in Seq(RuleSet)
  BY <1>1, <1>2
<1>5. When(Squidded(c), <<d>>) \in Seq(RuleSet)
  BY <1>1 DEF When
<1>6. <<a, b>> \o When(Squidded(c), <<d>>) \in Seq(RuleSet)
  BY <1>4, <1>5, TwoParts
<1> QED
  BY <1>3, <1>4, <1>6, TwoParts

-----------------------------------------------------------------------------
\* What of the settings the rules are made from
LEMMA SettingsTyped ==
  ASSUME NEW c \in Settings
  PROVE  /\ c.lists.vpn \in SUBSET Texts /\ c.lists.bypass \in SUBSET Texts
         /\ c.office \in BOOLEAN /\ c.tun \in BOOLEAN /\ c.rustdesk \in BOOLEAN
         /\ c.resolved \in BOOLEAN /\ c.github \in BOOLEAN
         /\ c.github => ~c.office /\ ~c.tun
<1>1. c.lists \in [vpn : SUBSET Texts, bypass : SUBSET Texts]
  BY TrafficAssumption DEF Settings
<1> QED
  BY <1>1 DEF Settings

\* The same for the six parts of build_config: the last of them never matters
\* where an earlier one decides.
LEMMA SixParts ==
  ASSUME NEW s1 \in Seq(RuleSet), NEW s2 \in Seq(RuleSet), NEW s3 \in Seq(RuleSet),
         NEW s4 \in Seq(RuleSet), NEW s5 \in Seq(RuleSet), NEW s6 \in Seq(RuleSet), NEW p, NEW r
  PROVE  /\ ((((s1 \o s2) \o s3) \o s4) \o s5) \o s6 \in Seq(RuleSet)
         /\ \/ Decides(s1, p, r)
            \/ Misses(s1, p) /\ Decides(s2, p, r)
            \/ Misses(s1, p) /\ Misses(s2, p) /\ Decides(s3, p, r)
            \/ Misses(s1, p) /\ Misses(s2, p) /\ Misses(s3, p) /\ Decides(s4, p, r)
            \/ /\ Misses(s1, p) /\ Misses(s2, p) /\ Misses(s3, p) /\ Misses(s4, p)
               /\ Decides(s5, p, r)
            => Decides(((((s1 \o s2) \o s3) \o s4) \o s5) \o s6, p, r)
<1> DEFINE t2 == s1 \o s2
           t3 == t2 \o s3
           t4 == t3 \o s4
           t5 == t4 \o s5
<1>2. /\ t2 \in Seq(RuleSet)
      /\ Decides(s1, p, r) \/ (Misses(s1, p) /\ Decides(s2, p, r)) => Decides(t2, p, r)
      /\ Misses(s1, p) /\ Misses(s2, p) => Misses(t2, p)
  BY TwoParts
<1> HIDE DEF t2
<1>3. /\ t3 \in Seq(RuleSet)
      /\ Decides(t2, p, r) \/ (Misses(t2, p) /\ Decides(s3, p, r)) => Decides(t3, p, r)
      /\ Misses(t2, p) /\ Misses(s3, p) => Misses(t3, p)
  BY <1>2, TwoParts
<1> HIDE DEF t3
<1>4. /\ t4 \in Seq(RuleSet)
      /\ Decides(t3, p, r) \/ (Misses(t3, p) /\ Decides(s4, p, r)) => Decides(t4, p, r)
      /\ Misses(t3, p) /\ Misses(s4, p) => Misses(t4, p)
  BY <1>3, TwoParts
<1> HIDE DEF t4
<1>5. /\ t5 \in Seq(RuleSet)
      /\ Decides(t4, p, r) \/ (Misses(t4, p) /\ Decides(s5, p, r)) => Decides(t5, p, r)
  BY <1>4, TwoParts
<1> HIDE DEF t5
<1>6. t5 \o s6 \in Seq(RuleSet) /\ (Decides(t5, p, r) => Decides(t5 \o s6, p, r))
  BY <1>5, TwoParts
<1> QED
  BY <1>2, <1>3, <1>4, <1>5, <1>6 DEF t2, t3, t4, t5


\* The parts of the rules in their order: the first part that has a rule for the
\* packet decides.
LEMMA FirstPartDecides ==
  ASSUME NEW c \in Settings, NEW p \in Packets, p.via # "none", p.to # "tun lan", ~Minimal(c),
         NEW r, NEW own, NEW hair, NEW keeps, NEW vpn, NEW bypass,
         own = RustdeskRules(c), hair = HairpinRules(c), keeps = KeptRules(c),
         vpn = TokenRules(c.lists.vpn, "proxy"), bypass = TokenRules(c.lists.bypass, "direct"),
         \/ Decides(own, p, r)
         \/ Misses(own, p) /\ Decides(hair, p, r)
         \/ Misses(own, p) /\ Misses(hair, p) /\ Decides(keeps, p, r)
         \/ Misses(own, p) /\ Misses(hair, p) /\ Misses(keeps, p) /\ Decides(vpn, p, r)
         \/ /\ Misses(own, p) /\ Misses(hair, p) /\ Misses(keeps, p) /\ Misses(vpn, p)
            /\ Decides(bypass, p, r)
  PROVE  Route(c, p) = r
<1> DEFINE fixed == FixedRules(c)
<1>1. own \in Seq(RuleSet)
  BY RustdeskWithin
<1>2. hair \in Seq(RuleSet)
  BY HairpinTyped
<1>3. keeps \in Seq(RuleSet)
  BY KeptRule
<1>4. vpn \in Seq(RuleSet)
  BY SettingsTyped, TokensRule DEF Outs
<1>5. bypass \in Seq(RuleSet)
  BY SettingsTyped, TokensRule DEF Outs
<1>6. fixed \in Seq(RuleSet)
  BY FixedTyped
<1>7. RouteRules(c) = ((((own \o hair) \o keeps) \o vpn) \o bypass) \o fixed
  BY DEF RouteRules, When
<1> HIDE DEF fixed
<1>8. RouteRules(c) \in Seq(RuleSet) /\ Decides(RouteRules(c), p, r)
  <2> DEFINE decided ==
               \/ Decides(own, p, r)
               \/ Misses(own, p) /\ Decides(hair, p, r)
               \/ Misses(own, p) /\ Misses(hair, p) /\ Decides(keeps, p, r)
               \/ Misses(own, p) /\ Misses(hair, p) /\ Misses(keeps, p) /\ Decides(vpn, p, r)
               \/ /\ Misses(own, p) /\ Misses(hair, p) /\ Misses(keeps, p) /\ Misses(vpn, p)
                  /\ Decides(bypass, p, r)
             all == ((((own \o hair) \o keeps) \o vpn) \o bypass) \o fixed
  <2>1. decided
    OBVIOUS
  <2>2. all \in Seq(RuleSet)
    BY <1>1, <1>2, <1>3, <1>4, <1>5, <1>6, SixParts
  <2>3. decided => Decides(all, p, r)
    BY ONLY <1>1, <1>2, <1>3, <1>4, <1>5, <1>6, SixParts
  <2> QED
    BY <1>7, <2>1, <2>2, <2>3
<1> QED
  BY <1>8, RouteIsFirst

\* A packet for a listed host, or of a listed program
LEMMA ListsRule ==
  ASSUME NEW c \in Settings, NEW p \in Packets, p.via # "none", p.to \in Sites, ~Minimal(c)
  PROVE  /\ Caught(c.lists.vpn, p) => Route(c, p).out = "proxy"
         /\ ~Caught(c.lists.vpn, p) /\ Caught(c.lists.bypass, p) => Route(c, p).out = "direct"
<1>1. p.to \notin {"vps", Squid, "tun lan"}
  BY TrafficAssumption
<1>2. Misses(RustdeskRules(c), p)
  <2>1. Within(RustdeskRules(c), p, {})
    BY <1>1, RustdeskWithin
  <2> QED
    BY <2>1 DEF Within
<1>3. Misses(HairpinRules(c), p)
  BY <1>1, HairpinsRule
<1>4. Misses(KeptRules(c), p)
  BY <1>1, KeptRule
<1>5. /\ Caught(c.lists.vpn, p) => Gives(TokenRules(c.lists.vpn, "proxy"), p, "proxy")
      /\ ~Caught(c.lists.vpn, p) => Misses(TokenRules(c.lists.vpn, "proxy"), p)
      /\ Caught(c.lists.bypass, p) => Gives(TokenRules(c.lists.bypass, "direct"), p, "direct")
  BY SettingsTyped, TokensRule DEF Outs
<1>6. ASSUME NEW r, Decides(TokenRules(c.lists.vpn, "proxy"), p, r)
      PROVE  Route(c, p) = r
  BY <1>1, <1>2, <1>3, <1>4, <1>6, FirstPartDecides
<1>7. ASSUME NEW r, Misses(TokenRules(c.lists.vpn, "proxy"), p),
             Decides(TokenRules(c.lists.bypass, "direct"), p, r)
      PROVE  Route(c, p) = r
  BY <1>1, <1>2, <1>3, <1>4, <1>7, FirstPartDecides
<1> QED
  BY <1>5, <1>6, <1>7 DEF Gives

\* Without rules, everything goes through the tunnel.
LEMMA NoRules ==
  ASSUME NEW c, NEW p, p.via # "none", Minimal(c)
  PROVE  Route(c, p) = Rule("proxy")
<1>1. RouteRules(c) = <<>>
  BY DEF RouteRules, When
<1> QED
  BY <1>1, EmptyTyped, EmptyMisses, RouteIsFirst

\* The tunnel's own traffic, when the TUN catches it
LEMMA TunnelIsDirect ==
  ASSUME NEW c \in Settings, NEW p \in Packets, p.via = "tun", c.tun, c.resolved,
         p.port = "vpn", p.to = Squid => c.office
  PROVE  Route(c, p).out = "direct"
<1>1. /\ p.to \in {"vps", Squid} /\ p.to # "tun lan" /\ p.by = "address" /\ p.via # "none"
      /\ ~Minimal(c)
  BY PacketTyped DEF Minimal, Squid
<1>2. Misses(RustdeskRules(c), p)
  <2>1. Within(RustdeskRules(c), p, {})
    BY <1>1, RustdeskWithin
  <2> QED
    BY <2>1 DEF Within
<1>3. \/ Gives(HairpinRules(c), p, "direct")
      \/ Misses(HairpinRules(c), p) /\ Gives(KeptRules(c), p, "direct")
  BY <1>1, HairpinsRule, KeptRule DEF Squid
<1>4. PICK r : /\ r.out = "direct"
               /\ \/ Decides(HairpinRules(c), p, r)
                  \/ Misses(HairpinRules(c), p) /\ Decides(KeptRules(c), p, r)
  BY <1>3 DEF Gives
<1>5. Route(c, p) = r
  BY <1>1, <1>2, <1>4, FirstPartDecides
<1> QED
  BY <1>4, <1>5

\* In the office, what the VPN server serves beside the tunnel
LEMMA ServicesAreTunnelled ==
  ASSUME NEW c \in Settings, NEW p \in Packets, p.via # "none", c.resolved, Squidded(c),
         p.to = "vps", p.by = "address", p.port # "vpn"
  PROVE  /\ Route(c, p).out = "proxy"
         /\ Route(c, p).loopback \/ (c.rustdesk /\ p.port = "relay")
<1> DEFINE ok == {r \in RuleSet : /\ r.out = "proxy"
                                  /\ r.loopback \/ (c.rustdesk /\ p.port = "relay")}
<1>1. p.to # "tun lan" /\ ~Minimal(c)
  BY DEF Squidded, Minimal
<1>2. Within(RustdeskRules(c), p, ok)
  BY <1>1, RustdeskWithin
<1>3. PICK h : Decides(HairpinRules(c), p, h) /\ h.out = "proxy" /\ h.loopback
  BY HairpinsRule
<1>4. PICK r : /\ r.out = "proxy" /\ (r.loopback \/ (c.rustdesk /\ p.port = "relay"))
               /\ \/ Decides(RustdeskRules(c), p, r)
                  \/ Misses(RustdeskRules(c), p) /\ Decides(HairpinRules(c), p, r)
  BY <1>2, <1>3 DEF Within
<1>5. Route(c, p) = r
  BY <1>1, <1>4, FirstPartDecides
<1> QED
  BY <1>4, <1>5

-----------------------------------------------------------------------------
\* What is sent is a packet of the settings, and went by their rules.
TrafficInv ==
  /\ settings \in Settings
  /\ packet # Vacant =>
       /\ packet \in Packets
       /\ IF packet.proc = "browser" THEN BrowserSends(settings, packet)
          ELSE packet.via = "tun" => settings.tun
       /\ route = Route(settings, packet)
       /\ lookup = IF packet.to \in Sites THEN Lookup(settings, packet.to, packet.proc)
                   ELSE Vacant

\* TrafficInv holds from the start on: the manager keeps its settings while sing-box
\* runs, and a packet is sent by them.
LEMMA TrafficInvAlways == TrafficSpec => []TrafficInv
<1>1. TrafficInit => TrafficInv
  BY DEF TrafficInit, TrafficInv
<1>2. TrafficInv /\ [TrafficNext]_trafficVars => TrafficInv'
  <2> SUFFICES ASSUME TrafficInv, [TrafficNext]_trafficVars PROVE TrafficInv'
    OBVIOUS
  <2>1. CASE Send
    BY <2>1 DEF Send, TrafficInv
  <2>2. CASE Over
    BY <2>2 DEF Over, TrafficInv
  <2>3. CASE UNCHANGED trafficVars
    BY <2>3 DEF trafficVars, TrafficInv
  <2> QED
    BY <2>1, <2>2, <2>3 DEF TrafficNext
<1> QED
  BY <1>1, <1>2, PTL DEF TrafficSpec

\* ServerIsReached, for any lists of texts of any kind: neither the rules of RustDesk,
\* which come before those of the server, nor the lists, which come after them, take
\* the traffic of the tunnel into the tunnel or a service of the server out of it
\* (build_config, _vps_loopback_rule, underlay_keep_hosts).
THEOREM ServerIsAlwaysReached == TrafficSpec => []ServerIsReached
<1>1. TrafficInv => ServerIsReached
  <2> DEFINE c == settings
             p == packet
  <2> SUFFICES ASSUME TrafficInv, packet # Vacant, settings.resolved
               PROVE  /\ p.proc = "sing-box" /\ p.port = "vpn" /\ (p.to = Squid => c.office)
                           => route.out = "direct"
                      /\ Squidded(c) /\ p.to = "vps" /\ p.by = "address" /\ p.port # "vpn"
                           => /\ route.out = "proxy"
                              /\ route.loopback \/ (c.rustdesk /\ p.port = "relay")
    BY DEF ServerIsReached
  <2>1. c \in Settings /\ p \in Packets /\ route = Route(c, p) /\ c.resolved
    BY DEF TrafficInv
  <2>2. p.proc # "browser" /\ p.via = "tun" => c.tun
    BY DEF TrafficInv
  <2> HIDE DEF c, p
  <2>3. ASSUME p.proc = "sing-box", p.port = "vpn", p.to = Squid => c.office
        PROVE  route.out = "direct"
    <3>1. p.via = "tun" /\ c.tun
      BY <2>1, <2>2, <2>3, PacketTyped
    <3> QED
      BY <2>1, <2>3, <3>1, TunnelIsDirect
  <2>4. ASSUME Squidded(c), p.to = "vps", p.by = "address", p.port # "vpn"
        PROVE  route.out = "proxy" /\ (route.loopback \/ (c.rustdesk /\ p.port = "relay"))
    <3>1. p.via # "none"
      BY <2>1, <2>4, PacketTyped, TrafficAssumption
    <3> QED
      BY <2>1, <2>4, <3>1, ServicesAreTunnelled
  <2> QED
    BY <2>3, <2>4
<1> QED
  BY <1>1, TrafficInvAlways, PTL

-----------------------------------------------------------------------------
\* Who is in no text of a list is caught by none of its rules.
LEMMA ConcernedIfCaught ==
  ASSUME NEW texts, NEW p, Caught(texts, p)
  PROVE  Concerns(texts, p)
BY DEF Caught, Concerns

\* What a list names for DNS makes a rule for its connections (bypass_to_singbox
\* and parse_routes).
LEMMA NamedIsCaught ==
  ASSUME NEW texts \in SUBSET Texts, NEW p, Sniffed(p), NamedIn(texts, p.to)
  PROVE  Caught(texts, p)
BY TextTyped DEF NamedIn, Caught

\* _dns_lookup_rules against the route rules, for one packet: the names that stay
\* local do so from the list of the VPN as well.
LEMMA LookupFollowsRoute ==
  ASSUME NEW c \in Settings, NEW p \in Packets, c.tun, p.to \in Sites,
         p.proc \in Apps \cup {"python"}, p.port = "https", p.net = "tcp"
  PROVE  /\ NamedIn(c.lists.bypass, p.to) /\ ~Concerns(c.lists.vpn, p)
              => Route(c, p).out = "direct" /\ Lookup(c, p.to, p.proc) = "local"
         /\ NamedIn(c.lists.vpn, p.to) /\ ~NamedIn(c.lists.bypass, p.to)
              => /\ Route(c, p).out = "proxy"
                 /\ Lookup(c, p.to, p.proc) = "proxy" \/ StaysLocal(p.to)
         /\ StaysLocal(p.to) => Lookup(c, p.to, p.proc) = "local"
<1>1. p.proc # "browser" /\ p.proc # "docker"
  BY TrafficAssumption
<1>2. p.via # "none" /\ ~Minimal(c) /\ Sniffed(p)
  BY <1>1, PacketTyped DEF Minimal, Sniffed
<1>3. /\ NamedIn(c.lists.bypass, p.to) => Caught(c.lists.bypass, p)
      /\ NamedIn(c.lists.vpn, p.to) => Caught(c.lists.vpn, p)
      /\ Caught(c.lists.vpn, p) => Concerns(c.lists.vpn, p)
  BY <1>2, SettingsTyped, NamedIsCaught, ConcernedIfCaught
<1>4. /\ NamedIn(c.lists.bypass, p.to) => Lookup(c, p.to, p.proc) = "local"
      /\ NamedIn(c.lists.vpn, p.to) /\ ~NamedIn(c.lists.bypass, p.to) /\ ~StaysLocal(p.to)
           => Lookup(c, p.to, p.proc) = "proxy"
      /\ StaysLocal(p.to) => Lookup(c, p.to, p.proc) = "local"
  BY <1>1, <1>2 DEF Lookup
<1> QED
  BY <1>2, <1>3, <1>4, ListsRule

\* What obliges a browser makes a route rule for its packet, and an exception or
\* a condition of the PAC if the packet does not come by TUN.
LEMMA ObligedIsCaught ==
  ASSUME NEW texts \in SUBSET Texts, NEW t \in texts, NEW p \in Packets, p.proc = "browser",
         Obliges(t, p)
  PROVE  Caught(texts, p)
<1>1. Sniffed(p)
  BY PacketTyped DEF Sniffed
<1>2. t \in Texts /\ t.of = p.to
  BY DEF Obliges
<1>3. CASE t.ip
  <2>1. ParseRoutes(t) = "address" /\ p.by = "address"
    BY <1>2, <1>3, TextTyped DEF Obliges
  <2> QED
    BY <1>2, <2>1 DEF Caught
<1>4. CASE ~t.ip
  <2>1. ParseRoutes(t) = "name"
    BY <1>2, <1>4, TextTyped DEF Obliges
  <2> QED
    BY <1>1, <1>2, <2>1 DEF Caught
<1> QED
  BY <1>3, <1>4

\* The text is an exception of the browser, and a condition of the PAC.
LEMMA ObligedIsListed ==
  ASSUME NEW texts \in SUBSET Texts, NEW t \in texts, NEW p \in Packets, p.via # "tun",
         Obliges(t, p)
  PROVE  PacLists(texts, p.to, p.by)
<1>1. t \in Texts /\ t.of = p.to /\ p.to \in Hosts /\ p.by \in {"address", "name"}
  BY PacketTyped DEF Obliges
<1>2. t.pre = "" /\ ~t.exe /\ ~t.slash
  BY <1>1 DEF Obliges, NamesHost, Texts
<1>3. ~t.url
  BY <1>1, <1>2 DEF Texts
<1>4. PacCond(t)
  BY <1>2, <1>3 DEF PacCond, IsHostPattern, Normalized
<1>5. Fits(t, p.to, p.by)
  BY <1>1 DEF Fits, Obliges
<1> QED
  BY <1>4, <1>5 DEF PacLists

\* proxy_override_list, build_pac and the route rules against each other, for one
\* packet of a browser
LEMMA BrowserFollowsLists ==
  ASSUME NEW c \in Settings, NEW p \in Packets, p.proc = "browser", BrowserSends(c, p)
  PROVE  /\ (\E t \in c.lists.bypass : Obliges(t, p)) /\ ~Concerns(c.lists.vpn, p)
              => Route(c, p).out = "direct"
         /\ (\E t \in c.lists.vpn : Obliges(t, p)) /\ ~Concerns(c.lists.bypass, p)
              => Route(c, p).out = "proxy" \/ Unlisted(c, p)
<1>1. PICK typed \in {"name", "address"} :
        p.via = BrowserVia(c, p.to, typed) /\ (p.via # "tun" => p.by = typed)
  BY DEF BrowserSends
<1>2. /\ c.lists.vpn \in SUBSET Texts /\ c.lists.bypass \in SUBSET Texts
      /\ p.to \in Sites /\ p.via \in {"tun", "proxy", "none"}
  BY SettingsTyped, PacketTyped
<1>3. p.via = "tun" => ~Minimal(c)
  BY <1>1 DEF BrowserVia, Minimal
<1>4. p.via = "none" => Route(c, p).out = "direct"
  BY DEF Route, Rule
<1>5. p.via # "none" /\ Minimal(c) => Route(c, p).out = "proxy"
  BY NoRules DEF Rule
<1>6. ASSUME NEW texts \in SUBSET Texts, ~Concerns(texts, p)
      PROVE  ~PacLists(texts, p.to, p.by) /\ ~Caught(texts, p)
  BY <1>6, ConcernedIfCaught DEF PacLists, Fits, Concerns
<1>7. ~Concerns(c.lists.bypass, p) /\ Override(c, p.to, p.by) => LocalParts(p.to, p.by)
  BY DEF Override, Fits, Concerns
<1>8. PacLists(c.lists.bypass, p.to, p.by) => Override(c, p.to, p.by)
  BY DEF PacLists, PacCond, Override
<1>9. ASSUME NEW t \in c.lists.bypass, Obliges(t, p), ~Concerns(c.lists.vpn, p)
      PROVE  Route(c, p).out = "direct"
  <2>1. Caught(c.lists.bypass, p) /\ ~Caught(c.lists.vpn, p)
    BY <1>2, <1>6, <1>9, ObligedIsCaught
  <2>2. p.via # "tun" => PacLists(c.lists.bypass, p.to, p.by)
    BY <1>2, <1>9, ObligedIsListed
  <2>3. p.via = "proxy" => ~Minimal(c)
    BY <1>1, <1>8, <2>2 DEF BrowserVia, PacDirect
  <2>4. p.via # "none" => Route(c, p).out = "direct"
    BY <1>2, <1>3, <2>1, <2>3, ListsRule
  <2> QED
    BY <1>4, <2>4
<1>10. ASSUME NEW t \in c.lists.vpn, Obliges(t, p), ~Concerns(c.lists.bypass, p)
       PROVE  Route(c, p).out = "proxy" \/ Unlisted(c, p)
  <2>1. Caught(c.lists.vpn, p) /\ ~PacLists(c.lists.bypass, p.to, p.by)
    BY <1>2, <1>6, <1>10, ObligedIsCaught
  <2>2. p.via # "tun" => PacLists(c.lists.vpn, p.to, p.by)
    BY <1>2, <1>10, ObligedIsListed
  <2>3. p.via = "none" => Unlisted(c, p)
    <3> SUFFICES ASSUME p.via = "none" PROVE Unlisted(c, p)
      OBVIOUS
    <3>1. p.by = typed /\ (c.tun => Nets[p.to] # "public")
      BY <1>1 DEF BrowserVia
    <3>2. PacDirect(c, p.to, p.by) => PrivateParts(p.to, p.by)
      BY <2>1, <2>2 DEF PacDirect, PacProxied
    <3>3. ~c.tun => IF c.office THEN Override(c, p.to, p.by) ELSE PacDirect(c, p.to, p.by)
      BY <1>1, <3>1 DEF BrowserVia
    <3> QED
      BY <1>7, <1>10, <3>1, <3>2, <3>3 DEF Unlisted
  <2>4. p.via # "none" => Route(c, p).out = "proxy"
    BY <1>2, <1>5, <2>1, ListsRule
  <2> QED
    BY <2>3, <2>4
<1> QED
  BY <1>9, <1>10

\* ListsHold, for any two lists of texts of any kind, any hosts and any programs: the
\* route rules, the DNS rules, the exceptions of the browser and the PAC, made from
\* the lists by four parsers, come to the same (_token_host_rules, _dns_lookup_rules,
\* proxy_override_list, build_pac); where they do not, a name or an address of the local
\* network is in the list of the VPN.
THEOREM ListsAlwaysHold == TrafficSpec => []ListsHold
<1>1. TrafficInv => LookedUpWhereSent
  <2> DEFINE c == settings
             p == packet
  <2> SUFFICES ASSUME TrafficInv, packet # Vacant, c.tun, p.to \in Sites,
                      p.proc \in Apps \cup {"python"}, p.port = "https", p.net = "tcp"
               PROVE  /\ NamedIn(c.lists.bypass, p.to) /\ ~Concerns(c.lists.vpn, p)
                           => route.out = "direct" /\ lookup = "local"
                      /\ NamedIn(c.lists.vpn, p.to) /\ ~NamedIn(c.lists.bypass, p.to)
                           => route.out = "proxy" /\ (lookup = "proxy" \/ StaysLocal(p.to))
                      /\ StaysLocal(p.to) => lookup = "local"
    BY DEF LookedUpWhereSent, StaysLocal
  <2>1. /\ c \in Settings /\ p \in Packets /\ route = Route(c, p)
        /\ lookup = Lookup(c, p.to, p.proc)
    BY DEF TrafficInv
  <2> HIDE DEF c, p
  <2> QED
    BY <2>1, LookupFollowsRoute
<1>2. TrafficInv => BrowserObeys
  <2> DEFINE c == settings
             p == packet
  <2> SUFFICES ASSUME TrafficInv, packet # Vacant, p.proc = "browser"
               PROVE  /\ (\E t \in c.lists.bypass : Obliges(t, p)) /\ ~Concerns(c.lists.vpn, p)
                           => route.out = "direct"
                      /\ (\E t \in c.lists.vpn : Obliges(t, p)) /\ ~Concerns(c.lists.bypass, p)
                           => route.out = "proxy" \/ Unlisted(c, p)
    BY DEF BrowserObeys
  <2>1. c \in Settings /\ p \in Packets /\ route = Route(c, p) /\ BrowserSends(c, p)
    BY DEF TrafficInv
  <2> HIDE DEF c, p
  <2> QED
    BY <2>1, BrowserFollowsLists
<1>3. TrafficInv => ListsHold
  BY <1>1, <1>2 DEF ListsHold
<1> QED
  BY <1>3, TrafficInvAlways, PTL
=============================================================================
