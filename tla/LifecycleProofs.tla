---------------------------- MODULE LifecycleProofs ----------------------------
(***************************************************************************)
(* Proofs about module Lifecycle for every set of watchdogs, every set of  *)
(* configurations and of the user's actions, any faults and any number of  *)
(* them: the types, and from them that a phase never outlives its worker   *)
(* and that the phases come in the order of module Phases; then what the   *)
(* routes are like at the end of an operation. Each theorem names the      *)
(* faults it does not cover.                                               *)
(***************************************************************************)
EXTENDS Lifecycle, TLAPS

\* What the operations of module Routes leave behind is a state of the routes.
LEMMA RoutesType ==
  ASSUME NEW n \in Net, NEW adapter
  PROVE  /\ Lift(n) \in Net /\ AdapterGone(n) \in Net
         /\ RestoreShield(n) \in Net /\ RemoveRoutes(n) \in Net
         /\ Pinned(n) \subseteq Net
         /\ Seal(n) \in Net /\ NotSealed(n) \in Net /\ Unsealed(n) \subseteq Net
         /\ Cleared(n) \in Net
         /\ EnsureSplit(n) \in Net
         /\ ReclaimTunDefault(n, adapter) \in Net
         /\ Installed(n) \in Net
  BY DEF Net, Lift, AdapterGone, RestoreShield, RemoveRoutes, Cleared, Pinned, Seal, NotSealed,
         Unsealed, EnsureSplit, ReclaimTunDefault, Installed

\* So do the calls of the kill switch however they end, and they cost at most
\* one fault.
LEMMA CallsType ==
  ASSUME NEW n \in Net, net \in Net, faults \in 0..MaxFaults,
         SealOutcome(n) \/ PinOutcome(n) \/ ArmKillSwitch(n) \/ InstallWinTunRoutes
  PROVE  net' \in Net /\ faults' \in 0..MaxFaults /\ faults' >= faults
<1>n. NotSealed(Cleared(n)) \in Net /\ NotSealed(n) \in Net /\ Installed(net) \in Net
  BY RoutesType
<1>1. ASSUME NEW m \in Net, SealOutcome(m)
      PROVE  net' \in Net /\ faults' \in 0..MaxFaults /\ faults' >= faults
  BY <1>1, RoutesType, LifecycleAssumption DEF SealOutcome, Fault, NoFault, LifecycleAssumption
<1>2. PinOutcome(n) => net' \in Net /\ faults' \in 0..MaxFaults /\ faults' >= faults
  BY RoutesType, LifecycleAssumption DEF PinOutcome, Fault, NoFault, LifecycleAssumption
<1>3. ArmKillSwitch(n) => net' \in Net /\ faults' \in 0..MaxFaults /\ faults' >= faults
  BY <1>n, <1>2, LifecycleAssumption DEF ArmKillSwitch, Fault, NoFault, LifecycleAssumption
<1>4. InstallWinTunRoutes => net' \in Net /\ faults' \in 0..MaxFaults /\ faults' >= faults
  BY <1>n, <1>1 DEF InstallWinTunRoutes, NoFault
<1> QED
  BY <1>1, <1>2, <1>3, <1>4

\* Every step keeps the types.
LEMMA StepTypeOK == TypeOK /\ [Next]_vars => TypeOK'
<1> SUFFICES ASSUME TypeOK, [Next]_vars PROVE TypeOK'
  OBVIOUS
<1>1. CASE UserConnect
  <2>1. slot' \in Threads \cup {None}
    BY <1>1 DEF TypeOK, UserConnect, UserBegins, Begin, Threads
  <2>2. pc' \in [Threads -> PcValues]
    BY <1>1 DEF TypeOK, UserConnect, UserBegins, Begin, PcValues, OpSteps, TickSteps, Threads
  <2>3. off' \in {"no", "stop_err", "done"}
    BY <1>1 DEF TypeOK, UserConnect, UserBegins, Begin
  <2> QED
    BY <1>1, <2>1, <2>2, <2>3 DEF TypeOK, UserConnect, UserBegins, Begin
<1>2. CASE UserReconnect
  <2>1. slot' \in Threads \cup {None}
    BY <1>2 DEF TypeOK, UserReconnect, UserBegins, Begin, Threads
  <2>2. pc' \in [Threads -> PcValues]
    BY <1>2 DEF TypeOK, UserReconnect, UserBegins, Begin, PcValues, OpSteps, TickSteps, Threads
  <2>3. off' \in {"no", "stop_err", "done"}
    BY <1>2 DEF TypeOK, UserReconnect, UserBegins, Begin
  <2> QED
    BY <1>2, <2>1, <2>2, <2>3 DEF TypeOK, UserReconnect, UserBegins, Begin
<1>3. CASE UserDisconnect
  <2>1. slot' \in Threads \cup {None}
    BY <1>3 DEF TypeOK, UserDisconnect, UserBegins, Begin, Threads
  <2>2. pc' \in [Threads -> PcValues]
    BY <1>3 DEF TypeOK, UserDisconnect, UserBegins, Begin, PcValues, OpSteps, TickSteps, Threads
  <2>3. off' \in {"no", "stop_err", "done"}
    BY <1>3 DEF TypeOK, UserDisconnect, UserBegins, Begin
  <2> QED
    BY <1>3, <2>1, <2>2, <2>3 DEF TypeOK, UserDisconnect, UserBegins, Begin
<1>4. CASE UserTunOn
  <2>1. slot' \in Threads \cup {None}
    BY <1>4 DEF TypeOK, UserTunOn, UserBegins, Begin, Threads
  <2>2. pc' \in [Threads -> PcValues]
    BY <1>4 DEF TypeOK, UserTunOn, UserBegins, Begin, PcValues, OpSteps, TickSteps, Threads
  <2>3. cfg' \in AnyConfig
    BY <1>4 DEF TypeOK, UserTunOn, UserBegins, Begin, AnyConfig
  <2>4. off' \in {"no", "stop_err", "done"}
    BY <1>4 DEF TypeOK, UserTunOn, UserBegins, Begin
  <2> QED
    BY <1>4, <2>1, <2>2, <2>3, <2>4 DEF TypeOK, UserTunOn, UserBegins, Begin
<1>5. CASE UserTunOff
  <2>1. slot' \in Threads \cup {None}
    BY <1>5 DEF TypeOK, UserTunOff, UserBegins, Begin, Threads
  <2>2. pc' \in [Threads -> PcValues]
    BY <1>5 DEF TypeOK, UserTunOff, UserBegins, Begin, PcValues, OpSteps, TickSteps, Threads
  <2>3. cfg' \in AnyConfig
    BY <1>5 DEF TypeOK, UserTunOff, UserBegins, Begin, AnyConfig
  <2>4. net' \in Net
    BY <1>5, RoutesType DEF TypeOK, UserTunOff, UserBegins, Begin
  <2>5. off' \in {"no", "stop_err", "done"}
    BY <1>5 DEF TypeOK, UserTunOff, UserBegins, Begin
  <2> QED
    BY <1>5, <2>1, <2>2, <2>3, <2>4, <2>5 DEF TypeOK, UserTunOff, UserBegins, Begin
<1>6. CASE DiscStop
  <2>1. snap' \in Snapshots
    BY <1>6 DEF TypeOK, DiscStop, Go, Snapshots, Phases, Connecting
  <2>2. pc' \in [Threads -> PcValues]
    BY <1>6 DEF TypeOK, DiscStop, Go, PcValues, OpSteps, TickSteps, Threads
  <2>3. dog' \in [Dogs -> Watchdog]
    BY <1>6 DEF TypeOK, DiscStop, Go, Watchdog, Misses, NewDog
  <2>4. cur' \in Dogs \cup {None}
    BY <1>6 DEF TypeOK, DiscStop, Go
  <2> QED
    BY <1>6, <2>1, <2>2, <2>3, <2>4 DEF TypeOK, DiscStop
<1>7. CASE DiscCore
  <2>1. pc' \in [Threads -> PcValues]
    BY <1>7
    DEF TypeOK, DiscCore, Go, StopSingbox, Fault, NoFault, PcValues, OpSteps, TickSteps, Threads
  <2>2. sb' \in {"down", "stuck", "socks", "tun"}
    BY <1>7 DEF TypeOK, DiscCore, Go, StopSingbox, Fault, NoFault
  <2>3. net' \in Net
    BY <1>7, RoutesType DEF TypeOK, DiscCore, Go, StopSingbox, Fault, NoFault
  <2>4. off' \in {"no", "stop_err", "done"}
    BY <1>7 DEF TypeOK, DiscCore, Go, StopSingbox, Fault, NoFault
  <2>5. clr' \in {"none", "shield", "routes"}
    BY <1>7 DEF TypeOK, DiscCore, Go, StopSingbox, Fault, NoFault
  <2>6. faults' \in 0..MaxFaults
    BY <1>7, LifecycleAssumption
    DEF TypeOK, DiscCore, Go, StopSingbox, Fault, NoFault, LifecycleAssumption
  <2> QED
    BY <1>7, <2>1, <2>2, <2>3, <2>4, <2>5, <2>6 DEF TypeOK, DiscCore
<1>8. CASE DiscTeardown
  <2>1. pc' \in [Threads -> PcValues]
    BY <1>8 DEF TypeOK, DiscTeardown, Go, LeaveOp, Fault, PcValues, OpSteps, TickSteps, Threads
  <2>2. slot' \in Threads \cup {None}
    BY <1>8 DEF TypeOK, DiscTeardown, Go, LeaveOp, Fault, Threads
  <2>3. disk' \in Disk
    BY <1>8 DEF TypeOK, DiscTeardown, Go, LeaveOp, Fault, Disk
  <2>4. faults' \in 0..MaxFaults
    BY <1>8, LifecycleAssumption
    DEF TypeOK, DiscTeardown, Go, LeaveOp, Fault, LifecycleAssumption
  <2> QED
    BY <1>8, <2>1, <2>2, <2>3, <2>4 DEF TypeOK, DiscTeardown
<1>9. CASE DiscJoin
  <2>1. pc' \in [Threads -> PcValues]
    BY <1>9 DEF TypeOK, DiscJoin, Go, Fault, NoFault, PcValues, OpSteps, TickSteps, Threads
  <2>2. net' \in Net
    BY <1>9, RoutesType DEF TypeOK, DiscJoin, Go, Fault, NoFault
  <2>3. faults' \in 0..MaxFaults
    BY <1>9, LifecycleAssumption DEF TypeOK, DiscJoin, Go, Fault, NoFault, LifecycleAssumption
  <2> QED
    BY <1>9, <2>1, <2>2, <2>3 DEF TypeOK, DiscJoin
<1>10. CASE DiscFinish
  <2>1. snap' \in Snapshots
    BY <1>10 DEF TypeOK, DiscFinish, LeaveOp, Snapshots, Phases, Connecting
  <2>2. pc' \in [Threads -> PcValues]
    BY <1>10 DEF TypeOK, DiscFinish, LeaveOp, PcValues, OpSteps, TickSteps, Threads
  <2>3. slot' \in Threads \cup {None}
    BY <1>10 DEF TypeOK, DiscFinish, LeaveOp, Threads
  <2>4. off' \in {"no", "stop_err", "done"}
    BY <1>10 DEF TypeOK, DiscFinish, LeaveOp
  <2> QED
    BY <1>10, <2>1, <2>2, <2>3, <2>4 DEF TypeOK, DiscFinish
<1>11. ASSUME NEW t \in Threads, Relift(t) PROVE TypeOK'
  <2>1. pc' \in [Threads -> PcValues]
    BY <1>11 DEF TypeOK, Relift, Go, PcValues, OpSteps, TickSteps, Threads
  <2>2. net' \in Net
    BY <1>11, RoutesType DEF TypeOK, Relift, Go
  <2> QED
    BY <1>11, <2>1, <2>2 DEF TypeOK, Relift
<1>12. ASSUME NEW t \in Threads, Restop(t) PROVE TypeOK'
  <2>1. pc' \in [Threads -> PcValues]
    BY <1>12
    DEF TypeOK, Restop, Go, StopSingbox, Fault, NoFault, PcValues, OpSteps, TickSteps, Threads
  <2>2. sb' \in {"down", "stuck", "socks", "tun"}
    BY <1>12 DEF TypeOK, Restop, Go, StopSingbox, Fault, NoFault
  <2>3. net' \in Net
    BY <1>12, RoutesType DEF TypeOK, Restop, Go, StopSingbox, Fault, NoFault
  <2>4. disk' \in Disk
    BY <1>12 DEF TypeOK, Restop, Go, StopSingbox, Fault, NoFault, Disk
  <2>5. faults' \in 0..MaxFaults
    BY <1>12, LifecycleAssumption
    DEF TypeOK, Restop, Go, StopSingbox, Fault, NoFault, LifecycleAssumption
  <2> QED
    BY <1>12, <2>1, <2>2, <2>3, <2>4, <2>5 DEF TypeOK, Restop
<1>13. ASSUME NEW t \in Threads, Plan(t) PROVE TypeOK'
  <2>1. snap' \in Snapshots
    BY <1>13 DEF TypeOK, Plan, Go, LeaveOp, Fault, KsDeferred, Snapshots, Phases, Connecting
  <2>2. pc' \in [Threads -> PcValues]
    BY <1>13 DEF TypeOK, Plan, Go, LeaveOp, Fault, PcValues, OpSteps, TickSteps, Threads
  <2>3. slot' \in Threads \cup {None}
    BY <1>13 DEF TypeOK, Plan, Go, LeaveOp, Fault, Threads
  <2>4. faults' \in 0..MaxFaults
    BY <1>13, LifecycleAssumption DEF TypeOK, Plan, Go, LeaveOp, Fault, LifecycleAssumption
  <2> QED
    BY <1>13, <2>1, <2>2, <2>3, <2>4 DEF TypeOK, Plan
<1>14. ASSUME NEW t \in Threads, Arm(t) PROVE TypeOK'
  <2>1. snap' \in Snapshots
    BY <1>14 DEF TypeOK, Arm, Go, FailConnect, LeaveOp, Fault, Up, Snapshots, Phases, Connecting
  <2>2. pc' \in [Threads -> PcValues]
    BY <1>14
    DEF TypeOK, Arm, Go, FailConnect, LeaveOp, Fault, Up, PcValues, OpSteps, TickSteps, Threads
  <2>3. slot' \in Threads \cup {None}
    BY <1>14 DEF TypeOK, Arm, Go, FailConnect, LeaveOp, Fault, Up, Threads
  <2>4. sb' \in {"down", "stuck", "socks", "tun"}
    BY <1>14 DEF TypeOK, Arm, Go, FailConnect, LeaveOp, Fault, Up
  <2>5. net' \in Net
    BY <1>14, RoutesType, CallsType DEF TypeOK, Arm, Killed
  <2>6. faults' \in 0..MaxFaults
    <3>1. \/ \E n \in Killed(net) \cup {net} : ArmKillSwitch(n)
          \/ Fault("binary")
      BY <1>14 DEF Arm
    <3>2. Killed(net) \cup {net} \subseteq Net
      BY RoutesType DEF TypeOK, Killed
    <3> QED
      BY <3>1, <3>2, CallsType, LifecycleAssumption DEF TypeOK, Fault, LifecycleAssumption
  <2> QED
    BY <1>14, <2>1, <2>2, <2>3, <2>4, <2>5, <2>6 DEF TypeOK, Arm
<1>15. ASSUME NEW t \in Threads, Launch(t) PROVE TypeOK'
  <2>1. snap' \in Snapshots
    BY <1>15 DEF TypeOK, Launch, Go, FailConnect, LeaveOp, Fault, Snapshots, Phases, Connecting
  <2>2. pc' \in [Threads -> PcValues]
    BY <1>15
    DEF TypeOK, Launch, Go, FailConnect, LeaveOp, Fault, PcValues, OpSteps, TickSteps, Threads
  <2>3. slot' \in Threads \cup {None}
    BY <1>15 DEF TypeOK, Launch, Go, FailConnect, LeaveOp, Fault, Threads
  <2>4. sb' \in {"down", "stuck", "socks", "tun"}
    BY <1>15 DEF TypeOK, Launch, Go, FailConnect, LeaveOp, Fault
  <2>5. net' \in Net
    BY <1>15, RoutesType DEF TypeOK, Launch, Go, FailConnect, LeaveOp, Fault
  <2>6. faults' \in 0..MaxFaults
    BY <1>15, LifecycleAssumption
    DEF TypeOK, Launch, Go, FailConnect, LeaveOp, Fault, LifecycleAssumption
  <2> QED
    BY <1>15, <2>1, <2>2, <2>3, <2>4, <2>5, <2>6 DEF TypeOK, Launch
<1>16. ASSUME NEW t \in Threads, Integrate(t) PROVE TypeOK'
  <2>1. snap' \in Snapshots
    BY <1>16
    DEF TypeOK, Integrate, Go, FailConnect, LeaveOp, Fault, EnableTun, KsDeferred, Snapshots,
        Phases, Connecting
  <2>2. pc' \in [Threads -> PcValues]
    BY <1>16
    DEF TypeOK, Integrate, Go, FailConnect, LeaveOp, Fault, PcValues, OpSteps, TickSteps,
        Threads
  <2>3. slot' \in Threads \cup {None}
    BY <1>16 DEF TypeOK, Integrate, Go, FailConnect, LeaveOp, Fault, Threads
  <2>4. disk' \in Disk
    BY <1>16 DEF TypeOK, Integrate, Go, FailConnect, LeaveOp, Fault, Disk
  <2>5. faults' \in 0..MaxFaults
    BY <1>16, LifecycleAssumption
    DEF TypeOK, Integrate, Go, FailConnect, LeaveOp, Fault, LifecycleAssumption
  <2> QED
    BY <1>16, <2>1, <2>2, <2>3, <2>4, <2>5 DEF TypeOK, Integrate
<1>17. ASSUME NEW t \in Threads, Claim(t) PROVE TypeOK'
  <2>1. snap' \in Snapshots
    BY <1>17 DEF TypeOK, Claim, Go, TunOwnsDefault, Snapshots, Phases, Connecting
  <2>2. pc' \in [Threads -> PcValues]
    BY <1>17 DEF TypeOK, Claim, Go, PcValues, OpSteps, TickSteps, Threads
  <2>3. net' \in Net /\ faults' \in 0..MaxFaults
    <3>1. InstallWinTunRoutes \/ UNCHANGED <<net, faults>>
      BY <1>17 DEF Claim
    <3> QED
      BY <3>1, CallsType DEF TypeOK
  <2> QED
    BY <1>17, <2>1, <2>2, <2>3 DEF TypeOK, Claim
<1>18. ASSUME NEW t \in Threads, Probe(t) PROVE TypeOK'
  <2>1. snap' \in Snapshots
    BY <1>18 DEF TypeOK, Probe, Go, Fault, NoFault, Snapshots, Phases, Connecting
  <2>2. pc' \in [Threads -> PcValues]
    BY <1>18 DEF TypeOK, Probe, Go, Fault, NoFault, PcValues, OpSteps, TickSteps, Threads
  <2>3. faults' \in 0..MaxFaults
    BY <1>18, LifecycleAssumption DEF TypeOK, Probe, Go, Fault, NoFault, LifecycleAssumption
  <2> QED
    BY <1>18, <2>1, <2>2, <2>3 DEF TypeOK, Probe
<1>19. ASSUME NEW t \in Threads, OkRoute(t) PROVE TypeOK'
  <2>1. snap' \in Snapshots
    BY <1>19 DEF TypeOK, OkRoute, Go, LeaveOp, Snapshots, Phases, Connecting
  <2>2. pc' \in [Threads -> PcValues]
    BY <1>19 DEF TypeOK, OkRoute, Go, LeaveOp, PcValues, OpSteps, TickSteps, Threads
  <2>3. slot' \in Threads \cup {None}
    BY <1>19 DEF TypeOK, OkRoute, Go, LeaveOp, Threads
  <2>4. net' \in Net /\ faults' \in 0..MaxFaults
    <3>1. PICK n \in {net, Installed(net)} :
            SealOutcome(n) \/ PinOutcome(n) \/ (net' = n /\ NoFault)
      BY <1>19 DEF OkRoute
    <3>2. n \in Net
      BY RoutesType DEF TypeOK
    <3> QED
      BY <3>1, <3>2, CallsType DEF TypeOK, NoFault
  <2> QED
    BY <1>19, <2>1, <2>2, <2>3, <2>4 DEF TypeOK, OkRoute
<1>20. ASSUME NEW t \in Threads, OkCheck(t) PROVE TypeOK'
  <2>1. pc' \in [Threads -> PcValues]
    BY <1>20 DEF TypeOK, OkCheck, Go, PcValues, OpSteps, TickSteps, Threads
  <2>2. net' \in Net
    BY <1>20, RoutesType DEF TypeOK, OkCheck, Go
  <2>3. disk' \in Disk
    BY <1>20 DEF TypeOK, OkCheck, Go, Disk
  <2> QED
    BY <1>20, <2>1, <2>2, <2>3 DEF TypeOK, OkCheck
<1>21. ASSUME NEW t \in Threads, After(t) PROVE TypeOK'
  <2>1. snap' \in Snapshots
    BY <1>21
    DEF TypeOK, After, Go, SealOnDeadExit, NoConfig, SealOutcome, Fault, NoFault, Snapshots,
        Phases, Connecting
  <2>2. pc' \in [Threads -> PcValues]
    BY <1>21
    DEF TypeOK, After, Go, PcValues, OpSteps, TickSteps, Threads
  <2>3. SealOutcome(net) \/ (net' = net /\ (NoFault \/ Fault("config")))
    BY <1>21 DEF After, SealOnDeadExit, NoConfig
  <2>4. net' \in Net /\ faults' \in 0..MaxFaults
    BY <2>3, CallsType, LifecycleAssumption DEF TypeOK, Fault, NoFault, LifecycleAssumption
  <2> QED
    BY <1>21, <2>1, <2>2, <2>3, <2>4 DEF TypeOK, After
<1>22. ASSUME NEW t \in Threads, Finish(t) PROVE TypeOK'
  <2>1. snap' \in Snapshots
    BY <1>22 DEF TypeOK, Finish, NewDog, Snapshots, Phases, Connecting
  <2>2. pc' \in [Threads -> PcValues]
    BY <1>22 DEF TypeOK, Finish, NewDog, PcValues, OpSteps, TickSteps, Threads
  <2>3. slot' \in Threads \cup {None}
    BY <1>22 DEF TypeOK, Finish, NewDog, Threads
  <2>4. dog' \in [Dogs -> Watchdog]
    <3>1. dog' = dog \/ (cur \in Dogs /\ dog' = [dog EXCEPT ![cur] = NewDog])
      BY <1>22 DEF TypeOK, Finish
    <3>2. NewDog \in Watchdog
      BY DEF NewDog, Watchdog, Misses
    <3> QED
      BY <3>1, <3>2 DEF TypeOK
  <2>5. cur' \in Dogs \cup {None}
    BY <1>22 DEF TypeOK, Finish, NewDog
  <2> QED
    BY <1>22, <2>1, <2>2, <2>3, <2>4, <2>5 DEF TypeOK, Finish
<1>23. ASSUME NEW d \in Dogs, Tick(d) PROVE TypeOK'
  <2>1. pc' \in [Threads -> PcValues]
    BY <1>23 DEF TypeOK, Tick, Go, PcValues, OpSteps, TickSteps, Threads
  <2>2. dog' \in [Dogs -> Watchdog]
    BY <1>23 DEF TypeOK, Tick, Go, Watchdog, Misses, NewDog
  <2> QED
    BY <1>23, <2>1, <2>2 DEF TypeOK, Tick
<1>24. ASSUME NEW d \in Dogs, TickProbe(d) PROVE TypeOK'
  <2>1. pc' \in [Threads -> PcValues]
    BY <1>24 DEF TypeOK, TickProbe, Go, PcValues, OpSteps, TickSteps, Threads
  <2>2. dog' \in [Dogs -> Watchdog]
    BY <1>24 DEF TypeOK, TickProbe, Go, Count, Watchdog, Misses, NewDog
  <2> QED
    BY <1>24, <2>1, <2>2 DEF TypeOK, TickProbe
<1>25. ASSUME NEW d \in Dogs, TickOwner(d) PROVE TypeOK'
  <2>1. pc' \in [Threads -> PcValues]
    BY <1>25
    DEF TypeOK, TickOwner, Go, SealOutcome, Fault, NoFault, PcValues, OpSteps, TickSteps,
        Threads
  <2>2. dog' \in [Dogs -> Watchdog]
    BY <1>25
    DEF TypeOK, TickOwner, Go, SealOutcome, Fault, NoFault, Count, Watchdog, Misses, NewDog
  <2>3. \/ net' \in {net, ReclaimTunDefault(net, Adapter)} /\ (NoFault \/ Fault("config"))
        \/ SealOutcome(ReclaimTunDefault(net, Adapter))
    BY <1>25 DEF TickOwner, NoFault
  <2>4. net' \in Net /\ faults' \in 0..MaxFaults
    BY <2>3, CallsType, RoutesType, LifecycleAssumption
    DEF TypeOK, Fault, NoFault, LifecycleAssumption
  <2> QED
    BY <1>25, <2>1, <2>2, <2>4 DEF TypeOK, TickOwner
<1>26. ASSUME NEW d \in Dogs, TickLift(d) PROVE TypeOK'
  <2>1. pc' \in [Threads -> PcValues]
    BY <1>26 DEF TypeOK, TickLift, Go, PcValues, OpSteps, TickSteps, Threads
  <2>2. net' \in Net
    BY <1>26, RoutesType DEF TypeOK, TickLift, Go
  <2> QED
    BY <1>26, <2>1, <2>2 DEF TypeOK, TickLift
<1>27. ASSUME NEW d \in Dogs, TickReconnect(d) PROVE TypeOK'
  <2>1. pc' \in [Threads -> PcValues]
    BY <1>27 DEF TypeOK, TickReconnect, Begin, PcValues, OpSteps, TickSteps, Threads
  <2>2. slot' \in Threads \cup {None}
    BY <1>27 DEF TypeOK, TickReconnect, Begin, Threads
  <2> QED
    BY <1>27, <2>1, <2>2 DEF TypeOK, TickReconnect
<1>28. ASSUME NEW d \in Dogs, Settle(d) PROVE TypeOK'
  <2>1. pc' \in [Threads -> PcValues]
    BY <1>28 DEF TypeOK, Settle, Go, PcValues, OpSteps, TickSteps, Threads
  <2>2. dog' \in [Dogs -> Watchdog]
    <3>1. [NewDog EXCEPT !.stop = dog[d].stop] \in Watchdog
      BY <1>28 DEF TypeOK, Watchdog, Misses, NewDog
    <3> QED
      BY <1>28, <3>1 DEF TypeOK, Settle
  <2> QED
    BY <1>28, <2>1, <2>2 DEF TypeOK, Settle
<1>29. ASSUME NEW d \in Dogs, DogEnds(d) PROVE TypeOK'
  <2>1. pc' \in [Threads -> PcValues]
    BY <1>29 DEF TypeOK, DogEnds, Go, NewDog, PcValues, OpSteps, TickSteps, Threads
  <2>2. dog' \in [Dogs -> Watchdog]
    BY <1>29 DEF TypeOK, DogEnds, Go, NewDog, Watchdog, Misses
  <2> QED
    BY <1>29, <2>1, <2>2 DEF TypeOK, DogEnds
<1>30. CASE ClearShield
  <2>1. clr' \in {"none", "shield", "routes"}
    BY <1>30 DEF TypeOK, ClearShield
  <2>2. net' \in Net
    BY <1>30, RoutesType DEF TypeOK, ClearShield
  <2> QED
    BY <1>30, <2>1, <2>2 DEF TypeOK, ClearShield
<1>31. CASE ClearRoutes
  <2>1. clr' \in {"none", "shield", "routes"}
    BY <1>31 DEF TypeOK, ClearRoutes
  <2>2. net' \in Net
    BY <1>31, RoutesType DEF TypeOK, ClearRoutes
  <2> QED
    BY <1>31, <2>1, <2>2 DEF TypeOK, ClearRoutes
<1>33. CASE Crash
  <2>1. sb' \in {"down", "stuck", "socks", "tun"}
    BY <1>33 DEF TypeOK, Crash, Fault
  <2>2. net' \in Net
    BY <1>33, RoutesType DEF TypeOK, Crash, Fault, Killed
  <2>3. faults' \in 0..MaxFaults
    BY <1>33, LifecycleAssumption DEF TypeOK, Crash, Fault, LifecycleAssumption
  <2> QED
    BY <1>33, <2>1, <2>2, <2>3 DEF TypeOK, Crash
<1>34. CASE LinkDown
  <2>1. link' \in BOOLEAN
    BY <1>34 DEF TypeOK, LinkDown, Fault
  <2>2. faults' \in 0..MaxFaults
    BY <1>34, LifecycleAssumption DEF TypeOK, LinkDown, Fault, LifecycleAssumption
  <2> QED
    BY <1>34, <2>1, <2>2 DEF TypeOK, LinkDown
<1>35. CASE LinkUp
  <2>1. link' \in BOOLEAN
    BY <1>35 DEF TypeOK, LinkUp
  <2> QED
    BY <1>35, <2>1 DEF TypeOK, LinkUp
<1>36. CASE ForeignUp
  <2>1. net' \in Net
    BY <1>36, RoutesType DEF TypeOK, ForeignUp, Fault, Net
  <2>2. faults' \in 0..MaxFaults
    BY <1>36, LifecycleAssumption DEF TypeOK, ForeignUp, Fault, LifecycleAssumption
  <2> QED
    BY <1>36, <2>1, <2>2 DEF TypeOK, ForeignUp
<1>37. CASE ForeignDown
  <2>1. net' \in Net
    BY <1>37, RoutesType DEF TypeOK, ForeignDown, Net
  <2> QED
    BY <1>37, <2>1 DEF TypeOK, ForeignDown
<1>38. CASE UNCHANGED vars
  BY <1>38 DEF TypeOK, vars
<1> QED
  BY <1>1, <1>2, <1>3, <1>4, <1>5, <1>6, <1>7, <1>8, <1>9, <1>10, <1>11, <1>12, <1>13, <1>14,
     <1>15, <1>16, <1>17, <1>18, <1>19, <1>20, <1>21, <1>22, <1>23, <1>24, <1>25, <1>26, <1>27,
     <1>28, <1>29, <1>30, <1>31, <1>33, <1>34, <1>35, <1>36, <1>37, <1>38
  DEF Next, User, DisconnectStep, ConnectStep, DogStep, Clearer, World

\* The program starts in a typed state.
LEMMA InitTypeOK == Init => TypeOK
<1> SUFFICES ASSUME Init PROVE TypeOK
  OBVIOUS
<1>1. snap \in Snapshots
  BY DEF Init, Snapshots, Phases, Connecting
<1>2. cfg \in AnyConfig /\ faults \in 0..MaxFaults
  <2>1. cfg \in AnyConfig
    BY LifecycleAssumption DEF Init, AnyConfig, LifecycleAssumption
  <2>2. MaxFaults \in Nat /\ faults = 0
    BY LifecycleAssumption DEF Init, LifecycleAssumption
  <2> QED
    BY <2>1, <2>2
<1>3. pc \in [Threads -> PcValues]
  BY DEF Init, PcValues
<1>4. dog \in [Dogs -> Watchdog]
  <2>1. NewDog \in Watchdog
    BY DEF NewDog, Watchdog, Misses
  <2> QED
    BY <2>1 DEF Init
<1>5. net \in Net /\ disk \in Disk
  BY DEF Init, NoRoutes, Net, Disk
<1> QED
  BY <1>1, <1>2, <1>3, <1>4, <1>5 DEF Init, TypeOK

\* TypeOK, for any number of watchdogs, any faults and any configuration.
THEOREM TypeCorrect == Spec => []TypeOK
<1> QED
  BY InitTypeOK, StepTypeOK, PTL DEF Spec

-----------------------------------------------------------------------------
\* Phases and the operation under way.

Settled == {"idle", "up", "degraded", "fail_closed"}

\* What the window shows, in stages, and what stage step p of an operation
\* belongs to.
StageOf(phase) == IF phase \in Settled THEN "settled" ELSE phase

Stage(p) ==
  CASE p \in {"relift", "restop", "plan", "tun_plan", "d_stop"} -> "settled"
    [] p = "arm" -> "preparing"
    [] p \in {"launch", "integrate"} -> "launching"
    [] p \in {"claim", "probe", "okroute", "okcheck", "after", "finish"} -> "probing"
    [] OTHER -> "stopping"

\* The thread in the slot, and no other, stands at a step of an operation.
SlotHolds == \A t \in Threads : pc[t] \in OpSteps <=> slot = t

DisconnectIsGui == pc[slot] \in DiscSteps => slot = Gui

PhaseFits == StageOf(snap.phase) = IF slot = None THEN "settled" ELSE Stage(pc[slot])

HoldFits == snap.hold_watchdog => snap.phase \in Connecting

PhaseInv == TypeOK /\ SlotHolds /\ (slot # None => DisconnectIsGui) /\ PhaseFits /\ HoldFits

\* What a step may be to the slot and the phase: nothing, a step of a thread
\* beside the operation, the beginning, a step or the end of an operation.
SamePhase == snap'.phase = snap.phase /\ snap'.hold_watchdog = snap.hold_watchdog

Beside ==
  /\ slot' = slot /\ SamePhase
  /\ \A t \in Threads :
       pc'[t] = pc[t] \/ (pc[t] \notin OpSteps /\ pc'[t] \notin OpSteps)

Begins(t, first) ==
  /\ slot = None /\ slot' = t /\ SamePhase
  /\ first \in {"relift", "plan", "tun_plan", "d_stop"} /\ (first = "d_stop" => t = Gui)
  /\ pc' = [pc EXCEPT ![t] = first]

Moves(t, from, to) ==
  /\ Go(t, from, to) /\ slot' = slot
  /\ from \in OpSteps /\ to \in OpSteps
  /\ from \in DiscSteps <=> to \in DiscSteps
  /\ StageOf(snap'.phase) = Stage(to)
  /\ \/ Stage(from) = Stage(to) /\ snap'.phase = snap.phase
     \/ <<Stage(from), Stage(to)>> \in
          {<<"settled", "preparing">>, <<"preparing", "launching">>,
           <<"launching", "probing">>, <<"settled", "stopping">>}
  /\ snap'.hold_watchdog => snap'.phase \in Connecting

Ends(t) ==
  /\ slot' = None
  /\ pc[t] \in OpSteps \ {"d_stop"} /\ pc'[t] \notin OpSteps
  /\ \A u \in Threads \ {t} :
       pc'[u] = pc[u] \/ (pc[u] \notin OpSteps /\ pc'[u] \notin OpSteps)
  /\ snap'.phase \in Settled /\ ~snap'.hold_watchdog
  /\ snap.phase \in Settled => snap'.phase = snap.phase
  /\ snap.phase \notin {"probing"} \cup Settled => snap'.phase = "idle"

Kinds ==
  \/ Beside
  \/ \E t \in Threads : \E first \in OpSteps : Begins(t, first)
  \/ \E t \in Threads : \E from, to \in OpSteps : Moves(t, from, to)
  \/ \E t \in Threads : Ends(t)

\* A stage but the first is one phase.
LEMMA Stages ==
  ASSUME NEW phase \in Phases
  PROVE  /\ StageOf(phase) = "settled" => phase \in Settled
         /\ \A s \in Connecting \cup {"stopping"} : StageOf(phase) = s => phase = s
  BY DEF StageOf, Settled, Phases, Connecting

\* The slot and the phase while a thread stands at a step of an operation.
LEMMA AtWork ==
  ASSUME PhaseInv, NEW t \in Threads, pc[t] \in OpSteps
  PROVE  slot = t /\ StageOf(snap.phase) = Stage(pc[t])
  BY LifecycleAssumption DEF PhaseInv, SlotHolds, PhaseFits, LifecycleAssumption, Threads

\* Every step is of one of these kinds, if the files of a disconnect can be
\* deleted.
LEMMA StepKinds ==
  ASSUME PhaseInv, Next, "unlink" \notin Faults
  PROVE  Kinds
<1>t. pc \in [Threads -> PcValues] /\ slot \in Threads \cup {None} /\ snap \in Snapshots
  BY DEF PhaseInv, TypeOK
<1>u. "unlink" \notin Faults /\ HoldFits /\ Gui \in Threads
  BY DEF PhaseInv, Threads
<1>1. CASE UserConnect
  <2>1. Begins(Gui, "plan")
    BY <1>1, <1>t DEF UserConnect, UserBegins, Begin, Begins, SamePhase
  <2> QED
    BY <2>1, <1>u DEF Kinds, OpSteps, Threads
<1>2. CASE UserReconnect
  <2>1. Begins(Gui, "relift")
    BY <1>2, <1>t DEF UserReconnect, UserBegins, Begin, Begins, SamePhase
  <2> QED
    BY <2>1, <1>u DEF Kinds, OpSteps, Threads
<1>3. CASE UserDisconnect
  <2>1. Begins(Gui, "d_stop")
    BY <1>3, <1>t DEF UserDisconnect, UserBegins, Begin, Begins, SamePhase
  <2> QED
    BY <2>1, <1>u DEF Kinds, OpSteps, Threads
<1>4. CASE UserTunOn
  <2>1. Begins(Gui, "plan")
    BY <1>4, <1>t DEF UserTunOn, UserBegins, Begin, Begins, SamePhase
  <2> QED
    BY <2>1, <1>u DEF Kinds, OpSteps, Threads
<1>5. CASE UserTunOff
  <2>1. Begins(Gui, "plan") \/ Beside
    BY <1>5, <1>t DEF UserTunOff, UserBegins, Begin, Begins, Beside, SamePhase
  <2> QED
    BY <2>1, <1>u DEF Kinds, OpSteps, Threads
<1>6. CASE DiscStop
  <2>1. slot = Gui /\ StageOf(snap.phase) = "settled" /\ pc[Gui] \in OpSteps
    BY <1>6, <1>u, AtWork DEF DiscStop, Go, OpSteps, Stage
  <2>2. Moves(Gui, "d_stop", "d_core")
    <3>1. /\ StageOf(snap'.phase) = "stopping"
          /\ (snap'.hold_watchdog => snap'.phase \in Connecting)
      BY <1>6, <2>1, <1>t, <1>u DEF DiscStop, StageOf, Settled, HoldFits, Connecting, Snapshots
    <3> QED
      BY <1>6, <3>1 DEF DiscStop, Moves, Stage, OpSteps, DiscSteps
  <2> QED
    BY <2>2, <1>u DEF Kinds, OpSteps
<1>7. CASE DiscCore
  <2>1. slot = Gui /\ StageOf(snap.phase) = "stopping" /\ pc[Gui] \in OpSteps
    BY <1>7, <1>u, AtWork DEF DiscCore, Go, OpSteps, Stage
  <2>2. Moves(Gui, "d_core", "d_teardown")
    <3>1. /\ StageOf(snap'.phase) = "stopping"
          /\ (snap'.hold_watchdog => snap'.phase \in Connecting)
          /\ snap'.phase = snap.phase
      BY <1>7, <2>1, <1>t, <1>u DEF DiscCore, StageOf, Settled, HoldFits, Connecting, Snapshots
    <3> QED
      BY <1>7, <3>1 DEF DiscCore, Moves, Stage, OpSteps, DiscSteps
  <2> QED
    BY <2>2, <1>u DEF Kinds, OpSteps
<1>8. CASE DiscTeardown
  <2>1. slot = Gui /\ StageOf(snap.phase) = "stopping" /\ pc[Gui] \in OpSteps
    BY <1>8, <1>u, AtWork DEF DiscTeardown, Go, OpSteps, Stage
  <2>2. Moves(Gui, "d_teardown", "d_join")
    <3>1. /\ StageOf(snap'.phase) = "stopping"
          /\ (snap'.hold_watchdog => snap'.phase \in Connecting)
          /\ snap'.phase = snap.phase
      BY <1>8, <2>1, <1>t, <1>u
      DEF DiscTeardown, Fault, StageOf, Settled, HoldFits, Connecting, Snapshots
    <3> QED
      BY <1>8, <1>u, <3>1 DEF DiscTeardown, Fault, Moves, Stage, OpSteps, DiscSteps
  <2> QED
    BY <2>2, <1>u DEF Kinds, OpSteps
<1>9. CASE DiscJoin
  <2>1. slot = Gui /\ StageOf(snap.phase) = "stopping" /\ pc[Gui] \in OpSteps
    BY <1>9, <1>u, AtWork DEF DiscJoin, Go, OpSteps, Stage
  <2>2. Moves(Gui, "d_join", "d_finish")
    <3>1. /\ StageOf(snap'.phase) = "stopping"
          /\ (snap'.hold_watchdog => snap'.phase \in Connecting)
          /\ snap'.phase = snap.phase
      BY <1>9, <2>1, <1>t, <1>u DEF DiscJoin, StageOf, Settled, HoldFits, Connecting, Snapshots
    <3> QED
      BY <1>9, <3>1 DEF DiscJoin, Moves, Stage, OpSteps, DiscSteps
  <2> QED
    BY <2>2, <1>u DEF Kinds, OpSteps
<1>10. CASE DiscFinish
  <2>1. slot = Gui /\ StageOf(snap.phase) = "stopping" /\ pc[Gui] \in OpSteps
    BY <1>10, <1>u, AtWork DEF DiscFinish, Go, OpSteps, Stage
  <2>2. Ends(Gui)
    BY <1>10, <2>1, <1>t, <1>u
    DEF DiscFinish, Ends, Go, LeaveOp, StageOf, Stage, Settled, HoldFits, Connecting, OpSteps,
        DiscSteps, Snapshots, Threads
  <2> QED
    BY <2>2, <1>u DEF Kinds, OpSteps
<1>11. ASSUME NEW t \in Threads, Relift(t) PROVE Kinds
  <2>1. slot = t /\ StageOf(snap.phase) = "settled" /\ pc[t] \in OpSteps
    BY <1>11, <1>u, AtWork DEF Relift, Go, OpSteps, Stage
  <2>2. Moves(t, "relift", "restop")
    <3>1. /\ StageOf(snap'.phase) = "settled"
          /\ (snap'.hold_watchdog => snap'.phase \in Connecting)
          /\ snap'.phase = snap.phase
      BY <1>11, <2>1, <1>t, <1>u DEF Relift, StageOf, Settled, HoldFits, Connecting, Snapshots
    <3> QED
      BY <1>11, <3>1 DEF Relift, Moves, Stage, OpSteps, DiscSteps
  <2> QED
    BY <2>2, <1>u DEF Kinds, OpSteps
<1>12. ASSUME NEW t \in Threads, Restop(t) PROVE Kinds
  <2>1. slot = t /\ StageOf(snap.phase) = "settled" /\ pc[t] \in OpSteps
    BY <1>12, <1>u, AtWork DEF Restop, Go, OpSteps, Stage
  <2>2. Moves(t, "restop", "plan")
    <3>1. /\ StageOf(snap'.phase) = "settled"
          /\ (snap'.hold_watchdog => snap'.phase \in Connecting)
          /\ snap'.phase = snap.phase
      BY <1>12, <2>1, <1>t, <1>u DEF Restop, StageOf, Settled, HoldFits, Connecting, Snapshots
    <3> QED
      BY <1>12, <3>1 DEF Restop, Moves, Stage, OpSteps, DiscSteps
  <2> QED
    BY <2>2, <1>u DEF Kinds, OpSteps
<1>13. ASSUME NEW t \in Threads, Plan(t) PROVE Kinds
  <2>1. slot = t /\ StageOf(snap.phase) = "settled" /\ pc[t] \in OpSteps
    BY <1>13, <1>u, AtWork DEF Plan, Go, OpSteps, Stage
  <2>2. Moves(t, "plan", "arm") \/ Moves(t, "tun_plan", "arm") \/ Ends(t)
    <3>1. CASE pc[t] \in {"plan", "tun_plan"} /\ LeaveOp(t, "rest") /\ snap' = snap
    BY <1>13, <2>1, <3>1, <1>t, <1>u
    DEF Ends, LeaveOp, StageOf, Settled, HoldFits, Connecting, OpSteps, Snapshots, Phases
    <3>2. CASE /\ Go(t, "plan", "arm") \/ Go(t, "tun_plan", "arm")
            /\ slot' = slot /\ snap'.phase = "preparing"
    BY <3>2, <1>t DEF Moves, StageOf, Stage, Settled, Connecting, OpSteps, DiscSteps
    <3> QED
    BY <1>13, <3>1, <3>2, <1>t DEF Plan, Snapshots
  <2> QED
    BY <2>2, <1>u DEF Kinds, OpSteps
<1>14. ASSUME NEW t \in Threads, Arm(t) PROVE Kinds
  <2>1. slot = t /\ StageOf(snap.phase) = "preparing" /\ pc[t] \in OpSteps
    BY <1>14, <1>u, AtWork DEF Arm, Go, OpSteps, Stage
  <2>2. Moves(t, "arm", "launch") \/ Ends(t)
    BY <1>14, <2>1, <1>t, <1>u
    DEF Arm, FailConnect, Moves, Ends, Go, LeaveOp, StageOf, Stage, Settled, HoldFits,
        Connecting, OpSteps, DiscSteps, Snapshots, Threads
  <2> QED
    BY <2>2, <1>u DEF Kinds, OpSteps
<1>15. ASSUME NEW t \in Threads, Launch(t) PROVE Kinds
  <2>1. slot = t /\ StageOf(snap.phase) = "launching" /\ pc[t] \in OpSteps
    BY <1>15, <1>u, AtWork DEF Launch, Go, OpSteps, Stage
  <2>2. Moves(t, "launch", "integrate") \/ Ends(t)
    BY <1>15, <2>1, <1>t, <1>u
    DEF Launch, FailConnect, Moves, Ends, Go, LeaveOp, StageOf, Stage, Settled, HoldFits,
        Connecting, OpSteps, DiscSteps, Snapshots, Threads
  <2> QED
    BY <2>2, <1>u DEF Kinds, OpSteps
<1>16. ASSUME NEW t \in Threads, Integrate(t) PROVE Kinds
  <2>1. slot = t /\ StageOf(snap.phase) = "launching" /\ pc[t] \in OpSteps
    BY <1>16, <1>u, AtWork DEF Integrate, Go, OpSteps, Stage
  <2>2. Moves(t, "integrate", "claim") \/ Ends(t)
    BY <1>16, <2>1, <1>t, <1>u
    DEF Integrate, FailConnect, Moves, Ends, Go, LeaveOp, StageOf, Stage, Settled, HoldFits,
        Connecting, OpSteps, DiscSteps, Snapshots, Threads
  <2> QED
    BY <2>2, <1>u DEF Kinds, OpSteps
<1>17. ASSUME NEW t \in Threads, Claim(t) PROVE Kinds
  <2>1. slot = t /\ StageOf(snap.phase) = "probing" /\ pc[t] \in OpSteps
    BY <1>17, <1>u, AtWork DEF Claim, Go, OpSteps, Stage
  <2>2. Moves(t, "claim", "after") \/ Moves(t, "claim", "probe")
    BY <1>17, <2>1, <1>t, <1>u
    DEF Claim, Moves, Go, StageOf, Stage, Settled, HoldFits, Connecting, OpSteps, DiscSteps,
        Snapshots
  <2> QED
    BY <2>2, <1>u DEF Kinds, OpSteps
<1>18. ASSUME NEW t \in Threads, Probe(t) PROVE Kinds
  <2>1. slot = t /\ StageOf(snap.phase) = "probing" /\ pc[t] \in OpSteps
    BY <1>18, <1>u, AtWork DEF Probe, Go, OpSteps, Stage
  <2>2. Moves(t, "probe", "okroute") \/ Moves(t, "probe", "after")
    BY <1>18, <2>1, <1>t, <1>u
    DEF Probe, Moves, Go, StageOf, Stage, Settled, HoldFits, Connecting, OpSteps, DiscSteps,
        Snapshots
  <2> QED
    BY <2>2, <1>u DEF Kinds, OpSteps
<1>19. ASSUME NEW t \in Threads, OkRoute(t) PROVE Kinds
  <2>1. slot = t /\ StageOf(snap.phase) = "probing" /\ pc[t] \in OpSteps
    BY <1>19, <1>u, AtWork DEF OkRoute, Go, OpSteps, Stage
  <2>2. Moves(t, "okroute", "okcheck") \/ Ends(t)
    BY <1>19, <2>1, <1>t, <1>u
    DEF OkRoute, Moves, Ends, Go, LeaveOp, StageOf, Stage, Settled, HoldFits, Connecting,
        OpSteps, DiscSteps, Snapshots, Threads
  <2> QED
    BY <2>2, <1>u DEF Kinds, OpSteps
<1>20. ASSUME NEW t \in Threads, OkCheck(t) PROVE Kinds
  <2>1. slot = t /\ StageOf(snap.phase) = "probing" /\ pc[t] \in OpSteps
    BY <1>20, <1>u, AtWork DEF OkCheck, Go, OpSteps, Stage
  <2>2. Moves(t, "okcheck", "after")
    <3>1. /\ StageOf(snap'.phase) = "probing"
          /\ (snap'.hold_watchdog => snap'.phase \in Connecting)
          /\ snap'.phase = snap.phase
      BY <1>20, <2>1, <1>t, <1>u DEF OkCheck, StageOf, Settled, HoldFits, Connecting, Snapshots
    <3> QED
      BY <1>20, <3>1 DEF OkCheck, Moves, Stage, OpSteps, DiscSteps
  <2> QED
    BY <2>2, <1>u DEF Kinds, OpSteps
<1>21. ASSUME NEW t \in Threads, After(t) PROVE Kinds
  <2>1. slot = t /\ StageOf(snap.phase) = "probing" /\ pc[t] \in OpSteps
    BY <1>21, <1>u, AtWork DEF After, Go, OpSteps, Stage
  <2>2. Moves(t, "after", "finish")
    <3>1. /\ StageOf(snap'.phase) = "probing"
          /\ (snap'.hold_watchdog => snap'.phase \in Connecting)
          /\ snap'.phase = snap.phase
      BY <1>21, <2>1, <1>t, <1>u
      DEF After, SealOnDeadExit, NoConfig, StageOf, Settled, HoldFits, Connecting, Snapshots
    <3> QED
      BY <1>21, <3>1 DEF After, Moves, Stage, OpSteps, DiscSteps
  <2> QED
    BY <2>2, <1>u DEF Kinds, OpSteps
<1>22. ASSUME NEW t \in Threads, Finish(t) PROVE Kinds
  <2>1. slot = t /\ StageOf(snap.phase) = "probing" /\ pc[t] \in OpSteps
    BY <1>22, <1>u, AtWork DEF Finish, Go, OpSteps, Stage
  <2>2. Ends(t)
    BY <1>22, <2>1, <1>t, <1>u
    DEF Finish, Ends, Go, LeaveOp, StageOf, Stage, Settled, HoldFits, Connecting, OpSteps,
        DiscSteps, Snapshots, Threads
  <2> QED
    BY <2>2, <1>u DEF Kinds, OpSteps
<1>23. ASSUME NEW d \in Dogs, Tick(d) PROVE Kinds
  <2>1. Beside
    BY <1>23, <1>t DEF Tick, Go, Beside, SamePhase, Threads, OpSteps
  <2> QED
    BY <2>1 DEF Kinds
<1>24. ASSUME NEW d \in Dogs, TickProbe(d) PROVE Kinds
  <2>1. Beside
    BY <1>24, <1>t DEF TickProbe, Go, Beside, SamePhase, Threads, OpSteps
  <2> QED
    BY <2>1 DEF Kinds
<1>25. ASSUME NEW d \in Dogs, TickOwner(d) PROVE Kinds
  <2>1. Beside
    BY <1>25, <1>t DEF TickOwner, Go, Beside, SamePhase, Threads, OpSteps
  <2> QED
    BY <2>1 DEF Kinds
<1>26. ASSUME NEW d \in Dogs, TickLift(d) PROVE Kinds
  <2>1. Beside
    BY <1>26, <1>t DEF TickLift, Go, Beside, SamePhase, Threads, OpSteps
  <2> QED
    BY <2>1 DEF Kinds
<1>27. ASSUME NEW d \in Dogs, TickReconnect(d) PROVE Kinds
  <2>1. Begins(d, "relift") \/ Begins(d, "tun_plan") \/ Beside
    BY <1>27, <1>t DEF TickReconnect, Begin, Begins, Beside, SamePhase, Threads, OpSteps
  <2> QED
    BY <2>1, <1>u DEF Kinds, OpSteps, Threads
<1>28. ASSUME NEW d \in Dogs, Settle(d) PROVE Kinds
  <2>1. Beside
    BY <1>28, <1>t DEF Settle, Go, Beside, SamePhase, Threads, OpSteps
  <2> QED
    BY <2>1 DEF Kinds
<1>29. ASSUME NEW d \in Dogs, DogEnds(d) PROVE Kinds
  <2>1. Beside
    BY <1>29, <1>t DEF DogEnds, Go, Beside, SamePhase, Threads, OpSteps
  <2> QED
    BY <2>1 DEF Kinds
<1>30. CASE Clearer \/ World
  BY <1>30
  DEF Clearer, World, ClearShield, ClearRoutes, Crash, LinkDown, LinkUp, ForeignUp,
      ForeignDown, Beside, SamePhase, Kinds
<1> QED
  BY <1>1, <1>2, <1>3, <1>4, <1>5, <1>6, <1>7, <1>8, <1>9, <1>10, <1>11, <1>12, <1>13, <1>14,
     <1>15, <1>16, <1>17, <1>18, <1>19, <1>20, <1>21, <1>22, <1>23, <1>24, <1>25, <1>26, <1>27,
     <1>28, <1>29, <1>30
  DEF Next, User, DisconnectStep, ConnectStep, DogStep

\* Each kind keeps the invariant.
LEMMA KindsKeep ==
  ASSUME PhaseInv, Kinds, TypeOK'
  PROVE  PhaseInv'
<1>t. /\ pc \in [Threads -> PcValues] /\ pc' \in [Threads -> PcValues]
      /\ slot \in Threads \cup {None} /\ None \notin Threads
  BY LifecycleAssumption DEF PhaseInv, TypeOK, LifecycleAssumption, Threads
<1>i. SlotHolds /\ (slot # None => DisconnectIsGui) /\ PhaseFits /\ HoldFits
  BY DEF PhaseInv
<1>1. ASSUME Beside PROVE PhaseInv'
  <2>1. SlotHolds'
    BY <1>1, <1>t, <1>i DEF Beside, SlotHolds
  <2>2. slot # None => pc'[slot] = pc[slot]
    BY <1>1, <1>t, <1>i DEF Beside, SlotHolds
  <2> QED
    BY <1>1, <1>i, <2>1, <2>2
    DEF PhaseInv, Beside, SamePhase, DisconnectIsGui, PhaseFits, HoldFits
<1>2. ASSUME NEW t \in Threads, NEW first \in OpSteps, Begins(t, first) PROVE PhaseInv'
  <2>1. pc'[t] = first /\ slot' = t /\ slot' # None
    BY <1>2, <1>t DEF Begins
  <2>2. SlotHolds'
    BY <1>2, <1>t, <1>i DEF Begins, SlotHolds
  <2>3. DisconnectIsGui'
    BY <1>2, <2>1 DEF Begins, DisconnectIsGui, DiscSteps
  <2>4. PhaseFits' /\ HoldFits'
    BY <1>2, <1>i, <2>1 DEF Begins, SamePhase, PhaseFits, HoldFits, Stage
  <2> QED
    BY <2>2, <2>3, <2>4 DEF PhaseInv
<1>3. ASSUME NEW t \in Threads, NEW from \in OpSteps, NEW to \in OpSteps, Moves(t, from, to)
      PROVE  PhaseInv'
  <2>1. slot = t /\ slot' = t /\ pc[t] = from /\ pc'[t] = to /\ t # None
    BY <1>3, <1>t, <1>i DEF Moves, Go, SlotHolds
  <2>2. SlotHolds'
    BY <1>3, <1>t, <1>i, <2>1 DEF Moves, Go, SlotHolds
  <2>3. DisconnectIsGui'
    BY <1>3, <1>i, <2>1 DEF Moves, DisconnectIsGui
  <2>4. PhaseFits' /\ HoldFits'
    BY <1>3, <2>1 DEF Moves, PhaseFits, HoldFits
  <2> QED
    BY <2>2, <2>3, <2>4 DEF PhaseInv
<1>4. ASSUME NEW t \in Threads, Ends(t) PROVE PhaseInv'
  <2>1. SlotHolds'
    BY <1>4, <1>t, <1>i DEF Ends, SlotHolds
  <2>2. PhaseFits' /\ HoldFits'
    BY <1>4 DEF Ends, PhaseFits, HoldFits, StageOf
  <2> QED
    BY <1>4, <2>1, <2>2 DEF PhaseInv, Ends
<1> QED
  BY <1>1, <1>2, <1>3, <1>4 DEF Kinds

\* The program starts with no operation and the phase IDLE.
LEMMA InitPhaseInv == Init => PhaseInv
<1> SUFFICES ASSUME Init PROVE PhaseInv
  OBVIOUS
<1>1. SlotHolds
  BY LifecycleAssumption DEF Init, SlotHolds, OpSteps, Threads, LifecycleAssumption
<1>2. slot = None /\ PhaseFits /\ HoldFits
  BY DEF Init, PhaseFits, HoldFits, StageOf, Settled
<1> QED
  BY <1>1, <1>2, InitTypeOK DEF PhaseInv

\* Hence every step keeps it.
LEMMA StepPhaseInv ==
  ASSUME "unlink" \notin Faults
  PROVE  PhaseInv /\ [Next]_vars => PhaseInv'
<1> SUFFICES ASSUME PhaseInv, [Next]_vars PROVE PhaseInv'
  OBVIOUS
<1>1. CASE Next
  BY <1>1, StepKinds, KindsKeep, StepTypeOK DEF PhaseInv
<1>2. CASE UNCHANGED vars
  BY <1>2, StepTypeOK
  DEF vars, PhaseInv, SlotHolds, DisconnectIsGui, PhaseFits, HoldFits
<1> QED
  BY <1>1, <1>2

\* PhaseHasWorker: no phase and no hold outlives its operation, whatever the
\* configuration, the number of watchdogs and the faults, except that a file
\* of a disconnect cannot be deleted.
THEOREM PhaseAlwaysHasWorker ==
  ASSUME "unlink" \notin Faults
  PROVE  Spec => []PhaseHasWorker
<1>1. PhaseInv => PhaseHasWorker
  <2> SUFFICES ASSUME PhaseInv PROVE PhaseHasWorker
    OBVIOUS
  <2>i. /\ SlotHolds /\ (slot # None => DisconnectIsGui) /\ PhaseFits /\ HoldFits
        /\ slot \in Threads \cup {None}
    BY DEF PhaseInv, TypeOK
  <2>1. slot # None => pc[slot] \in OpSteps
    BY <2>i DEF SlotHolds
  <2>2. snap.phase = "stopping" => slot # None /\ pc[slot] \in DiscSteps
    BY <2>i, <2>1 DEF PhaseFits, StageOf, Settled, Stage, OpSteps, DiscSteps
  <2>3. snap.phase \in Connecting => slot # None /\ pc[slot] \in OpSteps \ DiscSteps
    BY <2>i, <2>1 DEF PhaseFits, StageOf, Settled, Stage, OpSteps, DiscSteps, Connecting
  <2> QED
    BY <2>i, <2>2, <2>3 DEF PhaseHasWorker, DisconnectIsGui, HoldFits
<1> QED
  BY <1>1, InitPhaseInv, StepPhaseInv, PTL DEF Spec

\* PhasesSpec: the pipeline implements the order of the phases of module
\* Phases, under the same condition.
THEOREM ImplementsPhases ==
  ASSUME "unlink" \notin Faults
  PROVE  Spec => PhasesSpec
<1>1. Init => PhasesSeen!Init
  <2> SUFFICES ASSUME Init PROVE PhasesSeen!Init
    OBVIOUS
  <2>1. snap.phase = "idle" /\ slot = None
    BY DEF Init
  <2> QED
    BY <2>1 DEF PhasesSeen!Init
<1>2. PhaseInv /\ PhaseInv' /\ [Next]_vars => [PhasesSeen!Next]_PhasesSeen!phaseVars
  <2> SUFFICES ASSUME PhaseInv, PhaseInv', [Next]_vars
               PROVE  [PhasesSeen!Next]_PhasesSeen!phaseVars
    OBVIOUS
  <2> DEFINE worker == IF slot = None THEN "none"
                       ELSE IF pc[slot] \in DiscSteps THEN "disconnect" ELSE "connect"
  <2>t. /\ slot \in Threads \cup {None} /\ None \notin Threads
        /\ pc \in [Threads -> PcValues] /\ pc' \in [Threads -> PcValues]
        /\ snap.phase \in Phases /\ snap'.phase \in Phases
    BY LifecycleAssumption DEF PhaseInv, TypeOK, LifecycleAssumption, Threads, Snapshots
  <2>i. SlotHolds /\ PhaseFits /\ PhaseFits'
    BY DEF PhaseInv
  <2>0. CASE UNCHANGED vars
    BY <2>0 DEF vars, PhasesSeen!phaseVars
  <2>1. CASE Beside
    <3>1. slot # None => pc'[slot] = pc[slot]
      BY <2>1, <2>t, <2>i DEF Beside, SlotHolds
    <3> QED
      BY <2>1, <3>1 DEF Beside, SamePhase, PhasesSeen!phaseVars
  <2>2. ASSUME NEW t \in Threads, NEW first \in OpSteps, Begins(t, first)
        PROVE  PhasesSeen!Start
    <3>1. slot' # None /\ pc'[slot'] = first /\ slot = None
      BY <2>2, <2>t DEF Begins
    <3> QED
      BY <2>2, <3>1 DEF Begins, SamePhase, PhasesSeen!Start
  <2>3. ASSUME NEW t \in Threads, NEW from \in OpSteps, NEW to \in OpSteps, Moves(t, from, to)
        PROVE  [PhasesSeen!Next]_PhasesSeen!phaseVars
    <3>1. slot = t /\ slot' = t /\ pc[t] = from /\ pc'[t] = to /\ t # None
      BY <2>3, <2>t, <2>i DEF Moves, Go, SlotHolds
    <3>2. worker' = worker
      BY <2>3, <3>1 DEF Moves
    <3>3. StageOf(snap.phase) = Stage(from) /\ StageOf(snap'.phase) = Stage(to)
      BY <2>i, <3>1 DEF PhaseFits
    <3>4. CASE Stage(from) = Stage(to)
      BY <2>3, <3>1, <3>2, <3>4 DEF Moves, PhasesSeen!phaseVars, Stage
    <3>5. Stage(from) # Stage(to) =>
            <<Stage(from), Stage(to)>> \in
              {<<"settled", "preparing">>, <<"preparing", "launching">>,
               <<"launching", "probing">>, <<"settled", "stopping">>}
      BY <2>3 DEF Moves
    <3>6. CASE Stage(from) # Stage(to) /\ from \in DiscSteps
      <4>1. worker = "disconnect"
        BY <3>1, <3>6
      <4>2. Stage(from) = "settled" /\ Stage(to) = "stopping"
        <5>1. Stage(from) \in {"settled", "stopping"} /\ Stage(to) \in {"settled", "stopping"}
          BY <2>3, <3>6 DEF Moves, Stage, DiscSteps
        <5> QED
          BY <3>6, <3>5, <5>1
      <4>3. snap.phase \in Settled /\ snap'.phase = "stopping"
        BY <2>t, <3>3, <4>2, Stages
      <4> QED
        BY <3>2, <4>1, <4>3 DEF PhasesSeen!Next, PhasesSeen!Stop, PhasesSeen!Settled, Settled
    <3>7. CASE Stage(from) # Stage(to) /\ from \notin DiscSteps
      <4>1. worker = "connect"
        BY <3>1, <3>7
      <4>2. Stage(to) # "stopping"
        BY <2>3, <3>7 DEF Moves, Stage, OpSteps, DiscSteps
      <4>3. \/ snap.phase \in Settled /\ snap'.phase = "preparing"
            \/ snap.phase = "preparing" /\ snap'.phase = "launching"
            \/ snap.phase = "launching" /\ snap'.phase = "probing"
        BY <2>t, <3>3, <3>7, <3>5, <4>2, Stages DEF Connecting
      <4> QED
        BY <3>2, <4>1, <4>3 DEF PhasesSeen!Next, PhasesSeen!Advance, PhasesSeen!Settled, Settled
    <3> QED
      BY <3>4, <3>6, <3>7
  <2>4. ASSUME NEW t \in Threads, Ends(t) PROVE PhasesSeen!Settle \/ PhasesSeen!Stopped
    <3>1. slot = t /\ t # None /\ slot' = None
      BY <2>4, <2>t, <2>i DEF Ends, SlotHolds
    <3>2. StageOf(snap.phase) = Stage(pc[t]) /\ StageOf(snap'.phase) = "settled"
      BY <2>i, <3>1 DEF PhaseFits
    <3>3. CASE pc[t] \in DiscSteps
      BY <2>4, <3>1, <3>2, <3>3, <2>t
      DEF Ends, Stage, StageOf, Settled, DiscSteps, PhasesSeen!Stopped
    <3>4. CASE pc[t] \notin DiscSteps
      <4>1. snap.phase \in Connecting \cup Settled
        <5>1. Stage(pc[t]) \in Connecting \cup {"settled"}
          BY <2>4, <3>4 DEF Ends, Stage, OpSteps, DiscSteps, Connecting
        <5> QED
          BY <2>t, <3>2, <5>1, Stages
      <4> QED
        BY <2>4, <3>1, <3>4, <4>1
        DEF Ends, Settled, Connecting, PhasesSeen!Settle, PhasesSeen!Connecting,
            PhasesSeen!Settled
    <3> QED
      BY <3>3, <3>4
  <2> QED
    BY <2>0, <2>1, <2>2, <2>3, <2>4, StepKinds DEF Kinds, PhasesSeen!Next
<1> QED
  BY <1>1, <1>2, InitPhaseInv, StepPhaseInv, PTL DEF Spec, PhasesSpec, PhasesSeen!Spec

-----------------------------------------------------------------------------

(***************************************************************************)
(* The slot: one operation at a time, and where it stands. Every other proof *)
(* below goes by the course of the operation that holds it.                *)
(***************************************************************************)

\* A disconnect is the window's.
WindowDisconnects == \A t \in Threads : pc[t] \in DiscSteps => t = Gui

\* The slot and who may hold it.
SlotInv == TypeOK /\ SlotHolds /\ WindowDisconnects

\* The step the operation under way takes next.
At == IF slot = None THEN "none" ELSE pc[slot]

\* A thread of an operation takes a step of it.
LEMMA OpMoves ==
  ASSUME TypeOK, SlotHolds, WindowDisconnects, NEW t \in Threads,
         NEW from \in OpSteps, NEW to \in OpSteps,
         Go(t, from, to), slot' = slot, to \in DiscSteps => from \in DiscSteps
  PROVE  slot = t /\ At = from /\ At' = to /\ SlotHolds' /\ WindowDisconnects'
<1>t. pc \in [Threads -> PcValues] /\ None \notin Threads
  BY LifecycleAssumption DEF TypeOK, LifecycleAssumption, Threads
<1>1. slot = t /\ slot # None /\ pc[t] = from /\ pc'[t] = to
  BY <1>t DEF SlotHolds, Go
<1>2. SlotHolds' /\ WindowDisconnects'
  BY <1>t, <1>1 DEF SlotHolds, WindowDisconnects, Go
<1> QED
  BY <1>1, <1>2 DEF At

\* It leaves the operation.
LEMMA OpLeaves ==
  ASSUME TypeOK, SlotHolds, WindowDisconnects, NEW t \in Threads, pc[t] \in OpSteps,
         NEW to \in PcValues \ OpSteps, LeaveOp(t, to)
  PROVE  slot = t /\ At = pc[t] /\ At' = "none" /\ SlotHolds' /\ WindowDisconnects'
<1>t. pc \in [Threads -> PcValues] /\ None \notin Threads
  BY LifecycleAssumption DEF TypeOK, LifecycleAssumption, Threads
<1>1. slot = t /\ slot # None /\ pc'[t] = to /\ slot' = None
  BY <1>t DEF SlotHolds, LeaveOp
<1>2. SlotHolds' /\ WindowDisconnects'
  BY <1>t, <1>1 DEF SlotHolds, WindowDisconnects, LeaveOp, OpSteps, DiscSteps
<1> QED
  BY <1>1, <1>2 DEF At

\* A thread begins an operation.
LEMMA OpBegins ==
  ASSUME TypeOK, SlotHolds, WindowDisconnects, NEW t \in Threads, NEW first \in OpSteps,
         first \in DiscSteps => t = Gui, Begin(t, first)
  PROVE  At = "none" /\ At' = first /\ slot' = t /\ SlotHolds' /\ WindowDisconnects'
<1>t. pc \in [Threads -> PcValues] /\ None \notin Threads
  BY LifecycleAssumption DEF TypeOK, LifecycleAssumption, Threads
<1>1. slot' = t /\ slot' # None /\ pc'[t] = first /\ slot = None
  BY <1>t DEF SlotHolds, Begin
<1>2. SlotHolds' /\ WindowDisconnects'
  BY <1>t, <1>1 DEF SlotHolds, WindowDisconnects, Begin
<1> QED
  BY <1>1, <1>2 DEF At

\* What a thread does beside the operation leaves it where it is.
LEMMA OpStays ==
  ASSUME TypeOK, SlotHolds, WindowDisconnects, slot' = slot,
         \A t \in Threads : pc'[t] = pc[t] \/ (pc[t] \notin OpSteps /\ pc'[t] \notin OpSteps)
  PROVE  At' = At /\ SlotHolds' /\ WindowDisconnects'
<1>t. pc \in [Threads -> PcValues] /\ None \notin Threads /\ slot \in Threads \cup {None}
  BY LifecycleAssumption DEF TypeOK, LifecycleAssumption, Threads
<1>1. SlotHolds' /\ WindowDisconnects'
  BY <1>t DEF SlotHolds, WindowDisconnects, OpSteps, DiscSteps
<1>2. slot # None => pc'[slot] = pc[slot]
  BY <1>t DEF SlotHolds
<1> QED
  BY <1>1, <1>2 DEF At

\* Where the operation stands before and after each step of a connect.
ConnectCourse(t) ==
  /\ Relift(t) => At = "relift" /\ At' = "restop"
  /\ Restop(t) => At = "restop" /\ At' = "plan"
  /\ Plan(t) => At \in {"plan", "tun_plan"} /\ At' \in {"arm", "none"}
  /\ Arm(t) => At = "arm" /\ At' \in {"launch", "none"}
  /\ Launch(t) => At = "launch" /\ At' \in {"integrate", "none"}
  /\ Integrate(t) => At = "integrate" /\ At' \in {"claim", "none"}
  /\ Claim(t) => At = "claim" /\ At' = IF sb = "down" THEN "after" ELSE "probe"
  /\ Probe(t) => At = "probe" /\ At' \in {"okroute", "after"}
  /\ OkRoute(t) => At = "okroute" /\ At' \in {"okcheck", "none"}
  /\ OkCheck(t) => At = "okcheck" /\ At' = "after"
  /\ After(t) => At = "after" /\ At' = "finish"
  /\ Finish(t) => At = "finish" /\ At' = "none"

LEMMA ConnectMoves ==
  ASSUME SlotInv, NEW t \in Threads
  PROVE  /\ ConnectCourse(t)
         /\ ConnectStep(t) => slot = t /\ SlotHolds' /\ WindowDisconnects'
<1>i. TypeOK /\ SlotHolds /\ WindowDisconnects
  BY DEF SlotInv
<1> DEFINE Well == slot = t /\ SlotHolds' /\ WindowDisconnects'
<1>1. Relift(t) => Well /\ At = "relift" /\ At' = "restop"
  BY <1>i, OpMoves DEF Relift, OpSteps, DiscSteps
<1>2. Restop(t) => Well /\ At = "restop" /\ At' = "plan"
  BY <1>i, OpMoves DEF Restop, OpSteps, DiscSteps
<1>3. Plan(t) => Well /\ At \in {"plan", "tun_plan"} /\ At' \in {"arm", "none"}
  <2> SUFFICES ASSUME Plan(t) PROVE Well /\ At \in {"plan", "tun_plan"} /\ At' \in {"arm", "none"}
    OBVIOUS
  <2>1. \/ slot' = slot /\ (Go(t, "plan", "arm") \/ Go(t, "tun_plan", "arm"))
        \/ pc[t] \in {"plan", "tun_plan"} /\ LeaveOp(t, "rest")
    BY DEF Plan
  <2> QED
    BY <1>i, <2>1, OpMoves, OpLeaves DEF OpSteps, DiscSteps, PcValues
<1>4. Arm(t) => Well /\ At = "arm" /\ At' \in {"launch", "none"}
  <2> SUFFICES ASSUME Arm(t) PROVE Well /\ At = "arm" /\ At' \in {"launch", "none"}
    OBVIOUS
  <2>1. \/ slot' = slot /\ Go(t, "arm", "launch")
        \/ pc[t] = "arm" /\ LeaveOp(t, "rest")
    BY DEF Arm, FailConnect
  <2> QED
    BY <1>i, <2>1, OpMoves, OpLeaves DEF OpSteps, DiscSteps, PcValues
<1>5. Launch(t) => Well /\ At = "launch" /\ At' \in {"integrate", "none"}
  <2> SUFFICES ASSUME Launch(t) PROVE Well /\ At = "launch" /\ At' \in {"integrate", "none"}
    OBVIOUS
  <2>1. \/ slot' = slot /\ Go(t, "launch", "integrate")
        \/ pc[t] = "launch" /\ LeaveOp(t, "rest")
    BY DEF Launch, FailConnect
  <2> QED
    BY <1>i, <2>1, OpMoves, OpLeaves DEF OpSteps, DiscSteps, PcValues
<1>6. Integrate(t) => Well /\ At = "integrate" /\ At' \in {"claim", "none"}
  <2> SUFFICES ASSUME Integrate(t)
               PROVE  Well /\ At = "integrate" /\ At' \in {"claim", "none"}
    OBVIOUS
  <2>1. \/ slot' = slot /\ Go(t, "integrate", "claim")
        \/ pc[t] = "integrate" /\ LeaveOp(t, "rest")
    BY DEF Integrate, FailConnect
  <2> QED
    BY <1>i, <2>1, OpMoves, OpLeaves DEF OpSteps, DiscSteps, PcValues
<1>7. Claim(t) => Well /\ At = "claim" /\ At' = IF sb = "down" THEN "after" ELSE "probe"
  BY <1>i, OpMoves DEF Claim, OpSteps, DiscSteps
<1>8. Probe(t) => Well /\ At = "probe" /\ At' \in {"okroute", "after"}
  <2> SUFFICES ASSUME Probe(t) PROVE Well /\ At = "probe" /\ At' \in {"okroute", "after"}
    OBVIOUS
  <2>1. slot' = slot /\ (Go(t, "probe", "okroute") \/ Go(t, "probe", "after"))
    BY DEF Probe
  <2> QED
    BY <1>i, <2>1, OpMoves DEF OpSteps, DiscSteps
<1>9. OkRoute(t) => Well /\ At = "okroute" /\ At' \in {"okcheck", "none"}
  <2> SUFFICES ASSUME OkRoute(t) PROVE Well /\ At = "okroute" /\ At' \in {"okcheck", "none"}
    OBVIOUS
  <2>1. \/ slot' = slot /\ Go(t, "okroute", "okcheck")
        \/ pc[t] = "okroute" /\ LeaveOp(t, "rest")
    BY DEF OkRoute
  <2> QED
    BY <1>i, <2>1, OpMoves, OpLeaves DEF OpSteps, DiscSteps, PcValues
<1>10. OkCheck(t) => Well /\ At = "okcheck" /\ At' = "after"
  BY <1>i, OpMoves DEF OkCheck, OpSteps, DiscSteps
<1>11. After(t) => Well /\ At = "after" /\ At' = "finish"
  BY <1>i, OpMoves DEF After, OpSteps, DiscSteps
<1>12. Finish(t) => Well /\ At = "finish" /\ At' = "none"
  <2> SUFFICES ASSUME Finish(t) PROVE Well /\ At = "finish" /\ At' = "none"
    OBVIOUS
  <2>t. pc \in [Threads -> PcValues] /\ None \notin Threads /\ Dogs \subseteq Threads
    BY <1>i, LifecycleAssumption DEF TypeOK, LifecycleAssumption, Threads
  <2>1. pc[t] = "finish" /\ slot' = None /\ slot = t /\ slot # None
    BY <1>i, <2>t DEF Finish, SlotHolds, OpSteps
  <2>2. \A u \in Threads : pc'[u] = pc[u] \/ pc'[u] \in {"rest", "settle"}
    BY <2>t DEF Finish
  <2>3. pc'[t] \in {"rest", "settle"}
    BY <2>t DEF Finish
  <2>4. SlotHolds' /\ WindowDisconnects'
    BY <1>i, <2>t, <2>1, <2>2, <2>3 DEF SlotHolds, WindowDisconnects, OpSteps, DiscSteps
  <2> QED
    BY <2>1, <2>4 DEF At
<1> HIDE DEF Well
<1>13. ConnectCourse(t)
  BY <1>1, <1>2, <1>3, <1>4, <1>5, <1>6, <1>7, <1>8, <1>9, <1>10, <1>11, <1>12
  DEF ConnectCourse
<1>14. ConnectStep(t) => Well
  BY <1>1, <1>2, <1>3, <1>4, <1>5, <1>6, <1>7, <1>8, <1>9, <1>10, <1>11, <1>12
  DEF ConnectStep
<1> QED
  BY <1>13, <1>14 DEF Well

\* The same for a disconnect.
DisconnectCourse ==
  /\ DiscStop => At = "d_stop" /\ At' = "d_core"
  /\ DiscCore => At = "d_core" /\ At' = "d_teardown"
  /\ DiscTeardown => At = "d_teardown" /\ At' \in {"d_join", "none"}
  /\ DiscJoin => At = "d_join" /\ At' = "d_finish"
  /\ DiscFinish => At = "d_finish" /\ At' = "none"

LEMMA DisconnectMoves ==
  ASSUME SlotInv
  PROVE  /\ DisconnectCourse
         /\ DisconnectStep => slot = Gui /\ SlotHolds' /\ WindowDisconnects'
<1>i. TypeOK /\ SlotHolds /\ WindowDisconnects /\ Gui \in Threads
  BY DEF SlotInv, Threads
<1> DEFINE Well == slot = Gui /\ SlotHolds' /\ WindowDisconnects'
<1>1. DiscStop => Well /\ At = "d_stop" /\ At' = "d_core"
  BY <1>i, OpMoves DEF DiscStop, OpSteps, DiscSteps
<1>2. DiscCore => Well /\ At = "d_core" /\ At' = "d_teardown"
  BY <1>i, OpMoves DEF DiscCore, OpSteps, DiscSteps
<1>3. DiscTeardown => Well /\ At = "d_teardown" /\ At' \in {"d_join", "none"}
  <2> SUFFICES ASSUME DiscTeardown PROVE Well /\ At = "d_teardown" /\ At' \in {"d_join", "none"}
    OBVIOUS
  <2>1. \/ slot' = slot /\ Go(Gui, "d_teardown", "d_join")
        \/ pc[Gui] = "d_teardown" /\ LeaveOp(Gui, "rest")
    BY DEF DiscTeardown
  <2> QED
    BY <1>i, <2>1, OpMoves, OpLeaves DEF OpSteps, DiscSteps, PcValues
<1>4. DiscJoin => Well /\ At = "d_join" /\ At' = "d_finish"
  BY <1>i, OpMoves DEF DiscJoin, OpSteps, DiscSteps
<1>5. DiscFinish => Well /\ At = "d_finish" /\ At' = "none"
  BY <1>i, OpLeaves DEF DiscFinish, OpSteps, PcValues
<1> HIDE DEF Well
<1>6. DisconnectCourse
  BY <1>1, <1>2, <1>3, <1>4, <1>5 DEF DisconnectCourse
<1>7. DisconnectStep => Well
  BY <1>1, <1>2, <1>3, <1>4, <1>5 DEF DisconnectStep
<1> QED
  BY <1>6, <1>7 DEF Well

\* The user finds the slot free, and what is chosen begins an operation, but
\* for tun_off with nothing running.
LEMMA UserMoves ==
  ASSUME SlotInv, User
  PROVE  /\ slot = None /\ At = "none" /\ SlotHolds' /\ WindowDisconnects'
         /\ \/ slot' = Gui /\ At' \in {"plan", "relift", "d_stop"} /\ (Overlap \/ Quiet)
               /\ pc' = [pc EXCEPT ![Gui] = At']
            \/ UserTunOff /\ slot' = None /\ At' = "none" /\ pc' = pc
         /\ UserDisconnect => At' = "d_stop"
         /\ At' = "d_stop" => UserDisconnect
<1>i. TypeOK /\ SlotHolds /\ WindowDisconnects /\ Gui \in Threads /\ None # Gui
  BY LifecycleAssumption DEF SlotInv, Threads, LifecycleAssumption
<1>1. Begin(Gui, "plan") \/ Begin(Gui, "relift") \/ Begin(Gui, "d_stop") =>
        /\ slot = None /\ At = "none" /\ SlotHolds' /\ WindowDisconnects' /\ slot' = Gui
        /\ pc' = [pc EXCEPT ![Gui] = At']
  BY <1>i, OpBegins DEF Begin, OpSteps
<1>2. /\ Begin(Gui, "plan") => At' = "plan"
      /\ Begin(Gui, "relift") => At' = "relift"
      /\ Begin(Gui, "d_stop") => At' = "d_stop"
  BY <1>i, OpBegins DEF OpSteps
<1>3. slot = None /\ UNCHANGED <<slot, pc>> => At = "none" /\ At' = "none"
                                               /\ SlotHolds' /\ WindowDisconnects'
  BY <1>i, OpStays DEF At
<1> QED
  BY <1>1, <1>2, <1>3, <1>i
  DEF User, UserConnect, UserReconnect, UserDisconnect, UserTunOn, UserTunOff, UserBegins

\* A watchdog beside an operation leaves it alone; TickReconnect may begin one.
LEMMA DogMoves ==
  ASSUME SlotInv, NEW d \in Dogs, DogStep(d)
  PROVE  /\ SlotHolds' /\ WindowDisconnects'
         /\ \/ slot' = slot /\ At' = At
            \/ /\ TickReconnect(d) /\ slot = None /\ slot' = d
               /\ At = "none" /\ At' \in {"relift", "tun_plan"}
         /\ slot # d /\ pc[d] \notin OpSteps \cup {"none"}
         /\ \A t \in Threads : pc'[t] = pc[t] \/ t = d
<1>i. TypeOK /\ SlotHolds /\ WindowDisconnects /\ d \in Threads /\ pc \in [Threads -> PcValues]
  BY DEF SlotInv, Threads, TypeOK
<1>1. CASE TickReconnect(d) /\ slot = None
  <2>1. Begin(d, "relift") \/ Begin(d, "tun_plan")
    BY <1>1 DEF TickReconnect
  <2>2. /\ At = "none" /\ slot' = d /\ SlotHolds' /\ WindowDisconnects'
        /\ At' \in {"relift", "tun_plan"}
    BY <1>i, <2>1, OpBegins DEF OpSteps, DiscSteps
  <2>3. slot # d /\ pc[d] \notin OpSteps \cup {"none"}
    BY <1>1, <1>i, LifecycleAssumption DEF TickReconnect, OpSteps, LifecycleAssumption
  <2> QED
    BY <1>1, <2>1, <2>2, <2>3, <1>i DEF Begin
<1>2. CASE ~(TickReconnect(d) /\ slot = None)
  <2>1. slot' = slot /\ pc' \in {[pc EXCEPT ![d] = p] : p \in PcValues \ OpSteps}
    BY <1>2, <1>i DEF DogStep, Tick, TickProbe, TickOwner, TickLift, TickReconnect, Settle,
                 DogEnds, Go, PcValues, OpSteps, TickSteps
  <2>2. pc[d] \notin OpSteps \cup {"none"}
    BY <1>2, <1>i DEF DogStep, Tick, TickProbe, TickOwner, TickLift, TickReconnect, Settle,
                 DogEnds, Go, OpSteps
  <2>3. \A t \in Threads : pc'[t] = pc[t] \/ (t = d /\ pc'[t] \notin OpSteps)
    BY <2>1, <1>i
  <2>4. At' = At /\ SlotHolds' /\ WindowDisconnects'
    BY <1>i, <2>1, <2>2, <2>3, OpStays
  <2>5. slot # d
    BY <1>i, <2>2 DEF SlotHolds
  <2> QED
    BY <2>1, <2>2, <2>3, <2>4, <2>5
<1> QED
  BY <1>1, <1>2

\* So do the clearing thread and the world.
LEMMA WorldMoves ==
  ASSUME SlotInv, Clearer \/ World
  PROVE  slot' = slot /\ pc' = pc /\ At' = At /\ SlotHolds' /\ WindowDisconnects'
<1>i. TypeOK /\ SlotHolds /\ WindowDisconnects
  BY DEF SlotInv
<1>1. slot' = slot /\ pc' = pc
  BY DEF Clearer, World, ClearShield, ClearRoutes, Crash, LinkDown, LinkUp, ForeignUp,
         ForeignDown
<1> QED
  BY <1>i, <1>1, OpStays

\* The slot, whatever goes wrong.
LEMMA StepSlotInv == SlotInv /\ [Next]_vars => SlotInv'
<1> SUFFICES ASSUME SlotInv, [Next]_vars PROVE SlotHolds' /\ WindowDisconnects'
  BY StepTypeOK DEF SlotInv
<1>1. CASE UNCHANGED vars
  BY <1>1 DEF vars, SlotInv, SlotHolds, WindowDisconnects
<1> QED
  BY <1>1, UserMoves, DisconnectMoves, ConnectMoves, DogMoves, WorldMoves DEF Next

LEMMA InitSlotInv == Init => SlotInv
<1> SUFFICES ASSUME Init PROVE SlotInv
  OBVIOUS
<1>1. TypeOK
  BY InitTypeOK
<1> QED
  BY <1>1, LifecycleAssumption
  DEF Init, SlotInv, SlotHolds, WindowDisconnects, OpSteps, DiscSteps, Threads, LifecycleAssumption

\* Steps beside an operation, and a step of another operation, leave the
\* snapshot and the configuration to the one under way.
LEMMA BesideKeeps ==
  ASSUME SlotInv
  PROVE  /\ \A d \in Dogs : DogStep(d) => UNCHANGED <<snap, cfg, cur, sb, link, disk, clr, off>>
         /\ Clearer => UNCHANGED <<snap, cfg, cur, dog, sb, link, disk, off, faults>>
         /\ World => UNCHANGED <<snap, cfg, cur, dog, disk, clr, off>>
  BY DEF DogStep, Tick, TickProbe, TickOwner, TickLift, TickReconnect, Settle, DogEnds,
         Clearer, ClearShield, ClearRoutes, World, Crash, LinkDown, LinkUp, ForeignUp, ForeignDown

\* A step to another settled phase but IDLE is the end of a connect.
LEMMA OnlyFinish ==
  ASSUME SlotInv, [Next]_vars, snap'.phase \in {"up", "degraded", "fail_closed"},
         snap'.phase # snap.phase
  PROVE  \E t \in Threads : Finish(t)
<1>i. snap \in Snapshots
  BY DEF SlotInv, TypeOK
<1>1. ASSUME NEW t \in Threads, ConnectStep(t) PROVE Finish(t)
  <2>1. ~(Arm(t) \/ Launch(t) \/ Integrate(t))
    BY <1>i DEF Arm, Launch, Integrate, FailConnect, Snapshots
  <2>2. ~(Relift(t) \/ Restop(t) \/ Plan(t) \/ Claim(t) \/ Probe(t) \/ OkRoute(t) \/ OkCheck(t))
    BY <1>i DEF Relift, Restop, Plan, Claim, Probe, OkRoute, OkCheck, Snapshots
  <2>3. ~After(t)
    BY <1>i DEF After, SealOnDeadExit, NoConfig, Snapshots
  <2> QED
    BY <1>1, <2>1, <2>2, <2>3 DEF ConnectStep
<1>2. User \/ UNCHANGED vars => snap' = snap
  BY DEF User, UserConnect, UserReconnect, UserDisconnect, UserTunOn, UserTunOff, UserBegins, vars
<1>3. DisconnectStep => snap'.phase \in {"stopping", "idle", snap.phase}
  BY <1>i DEF DisconnectStep, DiscStop, DiscCore, DiscTeardown, DiscJoin, DiscFinish, Snapshots
<1> QED
  BY <1>1, <1>2, <1>3, BesideKeeps DEF Next

-----------------------------------------------------------------------------

\* A connect that comes to its end without an exit, under the kill switch and
\* without the seal, has one of the two excuses.
DeadFinish ==
  At = "finish" /\ cfg.ks /\ snap.err # "" /\ ~snap.fail_closed
    => snap.err = "dns" \/ snap.pending_win_tun

\* DeadExitIsClosed as an invariant of the step before the last.
DeadInv == SlotInv /\ DeadFinish

\* Every step keeps it.
LEMMA StepDeadInv ==
  ASSUME "config" \notin Faults
  PROVE  DeadInv /\ [Next]_vars => DeadInv'
<1> SUFFICES ASSUME DeadInv, [Next]_vars PROVE DeadFinish'
  BY StepSlotInv DEF DeadInv
<1>i. SlotInv /\ DeadFinish
  BY DEF DeadInv
<1>1. CASE UNCHANGED vars
  BY <1>1, <1>i DEF vars, DeadFinish, At
<1>2. CASE User
  BY <1>2, <1>i, UserMoves DEF DeadFinish
<1>3. CASE DisconnectStep
  BY <1>3, <1>i, DisconnectMoves DEF DisconnectCourse, DisconnectStep, DeadFinish
<1>4. ASSUME NEW t \in Threads, ConnectStep(t) PROVE DeadFinish'
  <2>1. ConnectCourse(t)
    BY <1>i, ConnectMoves
  <2>2. CASE After(t)
    <3>1. cfg' = cfg /\ snap \in Snapshots
      BY <2>2, <1>i DEF After, SlotInv, TypeOK
    <3>2. CASE snap.err # "" /\ cfg.ks /\ ~snap.pending_win_tun
      <4>1. ~NoConfig
        BY DEF NoConfig, Fault
      <4> QED
        BY <2>2, <3>1, <3>2, <4>1 DEF After, SealOnDeadExit, DeadFinish, Snapshots
    <3>3. CASE ~(snap.err # "" /\ cfg.ks /\ ~snap.pending_win_tun)
      BY <2>2, <3>1, <3>3 DEF After, DeadFinish, Snapshots
    <3> QED
      BY <3>2, <3>3
  <2> QED
    BY <1>4, <2>1, <2>2 DEF ConnectCourse, ConnectStep, DeadFinish
<1>5. ASSUME NEW d \in Dogs, DogStep(d) PROVE DeadFinish'
  BY <1>5, <1>i, DogMoves, BesideKeeps DEF DeadFinish
<1>6. CASE Clearer \/ World
  BY <1>6, <1>i, WorldMoves, BesideKeeps DEF DeadFinish
<1> QED
  BY <1>1, <1>2, <1>3, <1>4, <1>5, <1>6 DEF Next

\* DeadExitIsClosed, whatever meets and whatever goes wrong but one thing, a
\* config.json that _seal_on_dead_exit cannot read: with the kill switch on, a
\* connect whose probe found no exit ends in FAIL_CLOSED and never in DEGRADED,
\* unless late DNS or an adapter that is still awaited excuses it.
THEOREM DeadExitClosed ==
  ASSUME "config" \notin Faults
  PROVE  Spec => DeadExitIsClosed
<1>1. Init => DeadInv
  BY InitSlotInv DEF Init, DeadInv, DeadFinish, At
<1>2. DeadInv /\ [Next]_vars =>
        [snap'.phase = "degraded" /\ snap.phase # "degraded" /\ cfg.ks
           => snap'.err = "dns" \/ snap'.pending_win_tun]_vars
  <2> SUFFICES ASSUME DeadInv, [Next]_vars, snap'.phase = "degraded", snap.phase # "degraded",
                      cfg.ks
               PROVE  snap'.err = "dns" \/ snap'.pending_win_tun
    OBVIOUS
  <2>i. SlotInv /\ DeadFinish /\ snap \in Snapshots
    BY DEF DeadInv, SlotInv, TypeOK
  <2>1. \E t \in Threads : Finish(t)
    BY <2>i, OnlyFinish
  <2>2. PICK t \in Threads : Finish(t)
    BY <2>1
  <2>3. At = "finish"
    BY <2>2, <2>i, ConnectMoves DEF ConnectCourse
  <2>4. snap.err # "" /\ ~snap.fail_closed /\ snap'.err = snap.err
        /\ snap'.pending_win_tun = snap.pending_win_tun
    BY <2>2, <2>i DEF Finish, Snapshots
  <2> QED
    BY <2>3, <2>4, <2>i DEF DeadFinish
<1> QED
  BY <1>1, <1>2, StepDeadInv, PTL DEF Spec, DeadExitIsClosed

-----------------------------------------------------------------------------

\* The clearing thread runs only while its disconnect still waits for it.
ClearerFits == clr # "none" => At \in {"d_teardown", "d_join"}

\* What each step of a connect has made sure of about the TUN routes of a live
\* adapter: they are there, or pending_win_tun asks a later step for them.
RoutedOrPending ==
  /\ Adapter /\ At = "integrate" => EnableTun
  /\ Adapter /\ At = "claim" => snap.pending_win_tun
  /\ Adapter /\ At \in {"probe", "okroute", "after"} => snap.pending_win_tun \/ net.split
  /\ Adapter /\ At \in {"after", "finish"} /\ snap.err = "" => net.split
  /\ At = "okcheck" => snap.err = ""

\* The phase UP goes with the routes.
UpRouted == snap.phase = "up" /\ Adapter => net.split

\* No other VPN is met where none is expected.
ForeignKnown == net.foreign => "foreign" \in Faults

\* UpOwnsDefault is not inductive: it needs what a connect passes from step to
\* step, the phase of each step, and that nobody clears beside it.
OwnInv == PhaseInv /\ SlotInv /\ ClearerFits /\ RoutedOrPending /\ UpRouted /\ ForeignKnown

\* What each operation of module Routes does to the halves.
LEMMA RoutesDo ==
  ASSUME NEW n \in Net
  PROVE  /\ ~Lift(n).hole /\ Lift(n).split = n.split /\ Lift(n).foreign = n.foreign
         /\ AdapterGone(n).hole = n.hole /\ ~AdapterGone(n).split
         /\ AdapterGone(n).foreign = n.foreign /\ AdapterGone(n).saved = n.saved
         /\ RestoreShield(n).hole = n.hole /\ RestoreShield(n).split = n.split
         /\ RestoreShield(n).foreign = n.foreign /\ RestoreShield(n).saved = n.saved
         /\ ~RestoreShield(n).shield
         /\ ~RemoveRoutes(n).hole /\ ~RemoveRoutes(n).split /\ ~RemoveRoutes(n).saved
         /\ RemoveRoutes(n).foreign = n.foreign
         /\ ~Cleared(n).hole /\ ~Cleared(n).split /\ ~Cleared(n).saved
         /\ Cleared(n).foreign = n.foreign
         /\ Seal(n).hole /\ Seal(n).split = n.split /\ Seal(n).foreign = n.foreign
         /\ NotSealed(n).hole = n.hole /\ NotSealed(n).split = n.split
         /\ NotSealed(n).foreign = n.foreign
         /\ \A m \in Unsealed(n) : m.hole = n.hole /\ m.split = n.split /\ m.foreign = n.foreign
         /\ Installed(n).split /\ ~Installed(n).hole /\ Installed(n).foreign = n.foreign
         /\ TunOwnsDefault(n) = (n.split /\ ~n.foreign)
  BY DEF Net, Lift, AdapterGone, RestoreShield, RemoveRoutes, Cleared, Seal, NotSealed, Unsealed,
         EnsureSplit, Installed, TunOwnsDefault

\* The routes a pinned host route leaves: without the blackholes.
LEMMA PinnedDo ==
  ASSUME NEW n \in Net, NEW m \in Pinned(n)
  PROVE  ~m.hole /\ m.split = n.split /\ m.foreign = n.foreign
  BY DEF Net, Pinned

\* What reclaim_tun_default leaves, and the seal that may follow it.
LEMMA ReclaimDo ==
  ASSUME NEW n \in Net
  PROVE  LET m == ReclaimTunDefault(n, Adapter)
         IN /\ m \in Net /\ m.split = (Adapter \/ n.split) /\ ~m.hole /\ m.foreign = n.foreign
            /\ Seal(m).split = (Adapter \/ n.split) /\ NotSealed(m).split = (Adapter \/ n.split)
            /\ Seal(m).foreign = n.foreign /\ NotSealed(m).foreign = n.foreign
            /\ Seal(m).hole /\ ~NotSealed(m).hole
            /\ TunOwnsDefault(m) = ((Adapter \/ n.split) /\ ~n.foreign)
  BY DEF Net, ReclaimTunDefault, EnsureSplit, Lift, Seal, NotSealed, TunOwnsDefault, Adapter

\* What a seal does to the routes however it ends.
LEMMA SealDo ==
  ASSUME NEW n \in Net, faults \in Nat, SealOutcome(n)
  PROVE  /\ net' \in Net /\ net'.foreign = n.foreign
         /\ net'.split => n.split
         /\ "silent" \notin Faults => net'.split = n.split
         /\ {"gateway", "silent"} \cap Faults = {} => net' = Seal(n) /\ faults' = faults
         /\ faults' = faults => net' = Seal(n)
         /\ faults' \in {faults, faults + 1}
<1>1. /\ Seal(n) \in Net /\ Unsealed(n) \subseteq Net /\ Cleared(n) \in Net
      /\ Seal(n).split = n.split /\ Seal(n).foreign = n.foreign
      /\ ~Cleared(n).split /\ Cleared(n).foreign = n.foreign
      /\ \A m \in Unsealed(n) : m.split = n.split /\ m.foreign = n.foreign
  BY RoutesType, RoutesDo
<1>2. CASE net' = Seal(n) /\ NoFault
  BY <1>1, <1>2 DEF NoFault
<1>3. CASE net' \in Unsealed(n) /\ Fault("gateway")
  BY <1>1, <1>3 DEF Fault
<1>4. CASE net' = Cleared(n) /\ Fault("silent")
  BY <1>1, <1>4 DEF Fault
<1> QED
  BY <1>2, <1>3, <1>4 DEF SealOutcome

\* What pinning the server does.
LEMMA PinDo ==
  ASSUME NEW n \in Net, faults \in Nat, PinOutcome(n)
  PROVE  /\ net' \in Net /\ net'.foreign = n.foreign
         /\ ~net'.hole
         /\ net'.split => n.split
         /\ faults' = faults => net'.split = n.split
         /\ faults' \in {faults, faults + 1}
<1>1. /\ Cleared(n) \in Net /\ Pinned(n) \subseteq Net
      /\ ~Cleared(n).hole /\ ~Cleared(n).split /\ Cleared(n).foreign = n.foreign
  BY RoutesType, RoutesDo
<1>2. \A m \in Pinned(n) : ~m.hole /\ m.split = n.split /\ m.foreign = n.foreign
  BY PinnedDo
<1> QED
  BY <1>1, <1>2 DEF PinOutcome, Fault, NoFault

\* What _arm_kill_switch does to what it finds.
LEMMA ArmDo ==
  ASSUME NEW n \in Net, faults \in Nat, ArmKillSwitch(n)
  PROVE  /\ net' \in Net /\ net'.foreign = n.foreign
         /\ net'.split => n.split
         /\ net'.hole => n.hole
         /\ KsDeferred /\ "memory" \notin Faults => ~net'.hole
         /\ faults' \in {faults, faults + 1}
<1>1. /\ Cleared(n) \in Net /\ NotSealed(n) \in Net /\ NotSealed(Cleared(n)) \in Net
      /\ ~Cleared(n).hole /\ ~Cleared(n).split /\ Cleared(n).foreign = n.foreign
      /\ NotSealed(n).hole = n.hole /\ NotSealed(n).split = n.split
      /\ NotSealed(n).foreign = n.foreign
  BY RoutesType, RoutesDo
<1>2. /\ ~NotSealed(Cleared(n)).hole /\ ~NotSealed(Cleared(n)).split
      /\ NotSealed(Cleared(n)).foreign = n.foreign
  BY <1>1, RoutesDo
<1>3. CASE StartKs
  BY <1>3, PinDo DEF ArmKillSwitch, StartKs, KsDeferred
<1>4. CASE KsDeferred
  <2>1. \/ net' = NotSealed(Cleared(n)) /\ NoFault
        \/ net' = NotSealed(n) /\ IF n.hole THEN Fault("memory") ELSE NoFault
    BY <1>4 DEF ArmKillSwitch, StartKs, KsDeferred
  <2> QED
    BY <2>1, <1>1, <1>2 DEF Fault, NoFault
<1>5. CASE ~StartKs /\ ~KsDeferred
  BY <1>5, <1>1 DEF ArmKillSwitch, NoFault
<1> QED
  BY <1>3, <1>4, <1>5

\* What _install_win_tun_routes does to what it finds.
LEMMA InstallDo ==
  ASSUME net \in Net, faults \in Nat, InstallWinTunRoutes
  PROVE  /\ net' \in Net /\ net'.foreign = net.foreign
         /\ TunOwnsDefault(net') => net'.split
         /\ ~net.foreign => net' = Installed(net) /\ net'.split /\ ~net'.hole /\ faults' = faults
         /\ ~TunOwnsDefault(net') => net.foreign
         /\ faults' \in {faults, faults + 1}
<1>1. /\ Installed(net) \in Net /\ Installed(net).split /\ ~Installed(net).hole
      /\ Installed(net).foreign = net.foreign
      /\ TunOwnsDefault(Installed(net)) = ~net.foreign
  <2>1. /\ Installed(net) \in Net /\ Installed(net).split /\ ~Installed(net).hole
        /\ Installed(net).foreign = net.foreign
    BY RoutesType, RoutesDo
  <2> QED
    BY <2>1 DEF TunOwnsDefault, Net
<1>2. CASE ~net.foreign
  BY <1>1, <1>2 DEF InstallWinTunRoutes, NoFault, TunOwnsDefault
<1>3. CASE net.foreign
  <2>1. SealOutcome(Installed(net))
    BY <1>1, <1>3 DEF InstallWinTunRoutes
  <2> QED
    BY <2>1, <1>1, <1>3, SealDo DEF TunOwnsDefault
<1> QED
  BY <1>2, <1>3 DEF Net

\* Another VPN comes by ForeignUp only.
LEMMA ForeignKept ==
  ASSUME TypeOK, [Next]_vars, ~ForeignUp
  PROVE  net'.foreign => net.foreign
<1>t. net \in Net /\ faults \in Nat
  BY LifecycleAssumption DEF TypeOK, LifecycleAssumption
<1>r. /\ Lift(net).foreign = net.foreign /\ AdapterGone(net).foreign = net.foreign
      /\ RestoreShield(net).foreign = net.foreign /\ RemoveRoutes(net).foreign = net.foreign
      /\ ReclaimTunDefault(net, Adapter).foreign = net.foreign
      /\ ReclaimTunDefault(net, Adapter) \in Net
      /\ Installed(net).foreign = net.foreign /\ Installed(net) \in Net
  BY <1>t, RoutesDo, ReclaimDo, RoutesType
<1>1. CASE User \/ DisconnectStep \/ Clearer \/ World \/ UNCHANGED vars
  BY <1>1, <1>r, <1>t
  DEF vars, User, UserConnect, UserReconnect, UserDisconnect, UserTunOn, UserTunOff, UserBegins,
      DisconnectStep, DiscStop, DiscCore, DiscTeardown, DiscJoin, DiscFinish, StopSingbox,
      Clearer, ClearShield, ClearRoutes, World, Crash, LinkDown, LinkUp, ForeignDown, Killed, Net
<1>2. ASSUME NEW t \in Threads, ConnectStep(t) PROVE net'.foreign => net.foreign
  <2>1. CASE Arm(t)
    <3>1. PICK n \in Killed(net) \cup {net} : net' = n \/ ArmKillSwitch(n)
      BY <2>1 DEF Arm, Killed
    <3>2. n \in Net /\ n.foreign = net.foreign
      BY <3>1, <1>r, <1>t, RoutesType DEF Killed
    <3> QED
      BY <3>1, <3>2, <1>t, ArmDo
  <2>2. CASE OkRoute(t)
    <3>1. PICK n \in {net, Installed(net)} : SealOutcome(n) \/ PinOutcome(n) \/ net' = n
      BY <2>2 DEF OkRoute
    <3>2. n \in Net /\ n.foreign = net.foreign
      BY <3>1, <1>r, <1>t
    <3> QED
      BY <3>1, <3>2, <1>t, SealDo, PinDo
  <2>3. CASE Claim(t)
    BY <2>3, <1>t, InstallDo DEF Claim
  <2>4. CASE After(t)
    <3>1. SealOutcome(net) \/ net' = net
      BY <2>4 DEF After, SealOnDeadExit, NoConfig
    <3> QED
      BY <3>1, <1>t, SealDo
  <2>5. CASE ~(Arm(t) \/ OkRoute(t) \/ Claim(t) \/ After(t))
    BY <1>2, <2>5, <1>r
    DEF ConnectStep, Relift, Restop, Plan, Launch, Integrate, Probe, OkCheck, Finish, StopSingbox
  <2> QED
    BY <2>1, <2>2, <2>3, <2>4, <2>5
<1>3. ASSUME NEW d \in Dogs, DogStep(d) PROVE net'.foreign => net.foreign
  <2>1. CASE TickOwner(d)
    <3>1. \/ net' \in {net, ReclaimTunDefault(net, Adapter)}
          \/ SealOutcome(ReclaimTunDefault(net, Adapter))
      BY <2>1 DEF TickOwner
    <3> QED
      BY <3>1, <1>r, <1>t, SealDo
  <2>2. CASE ~TickOwner(d)
    BY <1>3, <2>2, <1>r
    DEF DogStep, Tick, TickProbe, TickLift, TickReconnect, Settle, DogEnds
  <2> QED
    BY <2>1, <2>2
<1> QED
  BY <1>1, <1>2, <1>3 DEF Next

\* The phase is one of the stage where the operation stands.
LEMMA PhaseAt ==
  ASSUME PhaseInv
  PROVE  /\ snap \in Snapshots
         /\ snap.phase \in Settled <=>
              At \in {"none", "relift", "restop", "plan", "tun_plan", "d_stop"}
  <1>1. /\ StageOf(snap.phase) = IF slot = None THEN "settled" ELSE Stage(pc[slot])
        /\ snap \in Snapshots /\ (slot # None => pc[slot] \in OpSteps)
    BY DEF PhaseInv, PhaseFits, TypeOK, SlotHolds
  <1> QED
    BY <1>1 DEF At, Stage, StageOf, Settled, OpSteps, Snapshots, Phases, Connecting

\* The same after a step.
LEMMA PhaseAtNext ==
  ASSUME PhaseInv'
  PROVE  snap'.phase \in Settled <=>
           At' \in {"none", "relift", "restop", "plan", "tun_plan", "d_stop"}
  <1>1. /\ StageOf(snap'.phase) = IF slot' = None THEN "settled" ELSE Stage(pc'[slot'])
        /\ snap' \in Snapshots /\ (slot' # None => pc'[slot'] \in OpSteps)
    BY DEF PhaseInv, PhaseFits, TypeOK, SlotHolds
  <1> QED
    BY <1>1 DEF At, Stage, StageOf, Settled, OpSteps, Snapshots, Phases, Connecting

\* Every step keeps OwnInv.
LEMMA StepOwnInv ==
  ASSUME {"slowclear", "unlink"} \cap Faults = {}, ~({"silent", "foreign"} \subseteq Faults)
  PROVE  OwnInv /\ [Next]_vars => OwnInv'
<1>k. ASSUME OwnInv, [Next]_vars PROVE ForeignKnown'
  <2>1. CASE ForeignUp
    BY <2>1 DEF ForeignUp, Fault, ForeignKnown
  <2>2. CASE ~ForeignUp
    BY <1>k, <2>2, ForeignKept DEF OwnInv, SlotInv, ForeignKnown
  <2> QED
    BY <2>1, <2>2
<1> SUFFICES ASSUME OwnInv, [Next]_vars PROVE ClearerFits' /\ RoutedOrPending' /\ UpRouted'
  BY <1>k, StepPhaseInv, StepSlotInv DEF OwnInv
<1>i. /\ PhaseInv /\ SlotInv /\ ClearerFits /\ RoutedOrPending /\ UpRouted /\ ForeignKnown
      /\ PhaseInv' /\ faults \in Nat
      /\ snap \in Snapshots /\ net \in Net /\ snap' \in Snapshots /\ net' \in Net
  BY StepPhaseInv, LifecycleAssumption DEF OwnInv, PhaseInv, TypeOK, LifecycleAssumption
<1>s. snap.phase = "up" => At \in {"none", "relift", "restop", "plan", "tun_plan", "d_stop"}
  BY <1>i, PhaseAt DEF Settled
<1>p. snap'.phase = "up" => At' \in {"none", "relift", "restop", "plan", "tun_plan", "d_stop"}
  <2>1. snap'.phase \in Settled <=>
              At' \in {"none", "relift", "restop", "plan", "tun_plan", "d_stop"}
    BY <1>i, PhaseAtNext
  <2> QED
    BY <2>1 DEF Settled
<1> DEFINE Goal == ClearerFits' /\ RoutedOrPending' /\ UpRouted'
<1>1. CASE UNCHANGED vars
  BY <1>1, <1>i DEF vars, ClearerFits, RoutedOrPending, UpRouted, At, Adapter, EnableTun
<1>2. CASE User
  <2>1. /\ sb' = sb /\ snap' = snap /\ clr' = clr /\ net'.split = net.split
    BY <1>2, <1>i, RoutesDo
    DEF User, UserConnect, UserReconnect, UserDisconnect, UserTunOn, UserTunOff, UserBegins
  <2> QED
    BY <1>2, <2>1, <1>i, UserMoves DEF ClearerFits, RoutedOrPending, UpRouted, Adapter
<1>3. CASE DisconnectStep
  <2>0. DisconnectCourse
    BY <1>i, DisconnectMoves
  <2>1. CASE DiscStop
    BY <2>1, <2>0, <1>i
    DEF DisconnectCourse, DiscStop, ClearerFits, RoutedOrPending, UpRouted, Snapshots
  <2>2. CASE DiscCore
    BY <2>2, <2>0, <1>i, <1>p
    DEF DisconnectCourse, DiscCore, ClearerFits, RoutedOrPending, UpRouted
  <2>3. CASE DiscTeardown
    <3>1. ~Fault("unlink")
      BY DEF Fault
    <3>2. At' = "d_join"
      <4>1. slot' = slot /\ Go(Gui, "d_teardown", "d_join") /\ Gui \in Threads
        BY <2>3, <3>1 DEF DiscTeardown, Threads
      <4> QED
        BY <4>1, <1>i, OpMoves DEF SlotInv, OpSteps, DiscSteps
    <3> QED
      BY <2>3, <3>2, <1>i, <1>p DEF ClearerFits, RoutedOrPending, UpRouted
  <2>4. CASE DiscJoin
    <3>1. clr = "none" /\ clr' = clr
      BY <2>4 DEF DiscJoin, Fault
    <3> QED
      BY <2>4, <3>1, <2>0, <1>i, <1>p DEF DisconnectCourse, ClearerFits, RoutedOrPending, UpRouted
  <2>5. CASE DiscFinish
    BY <2>5, <2>0, <1>i
    DEF DisconnectCourse, DiscFinish, ClearerFits, RoutedOrPending, UpRouted, Snapshots
  <2> QED
    BY <1>3, <2>1, <2>2, <2>3, <2>4, <2>5 DEF DisconnectStep
<1>4. ASSUME NEW t \in Threads, ConnectStep(t) PROVE Goal
  <2>0. ConnectCourse(t) /\ clr' = clr
    BY <1>4, <1>i, ConnectMoves
    DEF ConnectStep, Relift, Restop, Plan, Arm, Launch, Integrate, Claim, Probe, OkRoute, OkCheck,
        After, Finish
  <2>c. ClearerFits'
    <3>1. At \notin {"d_teardown", "d_join"}
      BY <1>4, <2>0 DEF ConnectCourse, ConnectStep
    <3> QED
      BY <2>0, <3>1, <1>i DEF ClearerFits
  <2> SUFFICES RoutedOrPending' /\ UpRouted'
    BY <2>c
  <2>1. CASE Relift(t)
    BY <2>1, <2>0, <1>i, RoutesDo DEF ConnectCourse, Relift, RoutedOrPending, UpRouted, Adapter
  <2>2. CASE Restop(t)
    <3>1. Adapter' => Adapter /\ net' = net
      BY <2>2 DEF Restop, StopSingbox, Adapter
    <3> QED
      BY <2>2, <2>0, <1>i, <3>1 DEF ConnectCourse, Restop, RoutedOrPending, UpRouted
  <2>3. CASE Plan(t)
    <3>1. snap' = snap \/ snap'.phase = "preparing"
      BY <2>3, <1>i DEF Plan, Snapshots
    <3>2. sb' = sb /\ net' = net
      BY <2>3 DEF Plan
    <3> QED
      BY <2>3, <2>0, <1>i, <3>1, <3>2 DEF ConnectCourse, RoutedOrPending, UpRouted, Adapter
  <2>4. CASE Arm(t)
    <3>1. snap'.phase # "up"
      BY <2>4, <2>0, <1>i, <1>s DEF ConnectCourse, Arm, FailConnect, Snapshots
    <3> QED
      BY <2>4, <2>0, <3>1 DEF ConnectCourse, RoutedOrPending, UpRouted
  <2>5. CASE Launch(t)
    <3>1. snap'.phase # "up"
      BY <2>5, <2>0, <1>i, <1>s DEF ConnectCourse, Launch, FailConnect, Snapshots
    <3>2. At' = "integrate" /\ Adapter' => EnableTun'
      <4> SUFFICES ASSUME At' = "integrate", Adapter' PROVE EnableTun'
        OBVIOUS
      <4>1. CASE sb' = IF EnableTun THEN "tun" ELSE "socks"
        BY <2>5, <4>1 DEF Launch, EnableTun, Adapter
      <4>2. CASE sb' \in {"down", "stuck"}
        BY <4>2 DEF Adapter
      <4> QED
        BY <2>5, <4>1, <4>2 DEF Launch
    <3> QED
      BY <2>5, <2>0, <3>1, <3>2 DEF ConnectCourse, RoutedOrPending, UpRouted
  <2>6. CASE Integrate(t)
    <3>1. snap'.phase # "up"
      BY <2>6, <2>0, <1>i, <1>s DEF ConnectCourse, Integrate, FailConnect, Snapshots
    <3>2. At' = "claim" /\ Adapter' => snap'.pending_win_tun
      <4>1. At' = "claim" => snap'.pending_win_tun = EnableTun
        <5>1. CASE Go(t, "integrate", "claim") /\ snap'.pending_win_tun = EnableTun
          BY <5>1
        <5>2. CASE FailConnect(t)
          <6>1. At' = "none"
            BY <5>2 DEF FailConnect, LeaveOp, At
          <6> QED
            BY <6>1
        <5> QED
          BY <2>6, <1>i, <5>1, <5>2 DEF Integrate, Snapshots
      <4> QED
        BY <2>6, <4>1, <2>0, <1>i DEF Integrate, ConnectCourse, RoutedOrPending, Adapter
    <3> QED
      BY <2>6, <2>0, <3>1, <3>2 DEF ConnectCourse, RoutedOrPending, UpRouted
  <2>7. CASE Claim(t)
    <3>1. sb' = sb /\ snap'.phase = snap.phase
      BY <2>7, <1>i DEF Claim, Snapshots
    <3>2. CASE sb = "down"
      BY <2>7, <2>0, <3>1, <3>2, <1>i, <1>p DEF ConnectCourse, RoutedOrPending, UpRouted, Adapter
    <3>3. CASE sb # "down" /\ snap' = snap /\ net' = net
      BY <2>7, <2>0, <3>1, <3>3, <1>i, <1>p DEF ConnectCourse, RoutedOrPending, UpRouted, Adapter
    <3>4. CASE InstallWinTunRoutes /\ snap'.pending_win_tun = ~TunOwnsDefault(net')
      <4>1. snap'.pending_win_tun \/ net'.split
        BY <3>4, <1>i, InstallDo
      <4>2. CASE sb # "down"
        BY <2>7, <2>0, <3>1, <4>1, <4>2, <1>i, <1>p DEF ConnectCourse, RoutedOrPending, UpRouted
      <4> QED
        BY <3>2, <4>2
    <3> QED
      BY <2>7, <3>2, <3>3, <3>4, <1>i DEF Claim, Snapshots
  <2>8. CASE Probe(t)
    <3>1. /\ sb' = sb /\ snap'.pending_win_tun = snap.pending_win_tun /\ net' = net
          /\ At' = "after" => snap'.err # ""
      <4>1. /\ sb' = sb /\ snap'.pending_win_tun = snap.pending_win_tun /\ net' = net
        BY <2>8, <1>i DEF Probe, Snapshots
      <4>2. Go(t, "probe", "okroute") => At' = "okroute"
        BY <2>8, <1>i, OpMoves DEF Probe, SlotInv, OpSteps, DiscSteps
      <4> QED
        BY <2>8, <1>i, <4>1, <4>2 DEF Probe, Snapshots
    <3> QED
      BY <2>8, <2>0, <3>1, <1>i, <1>p DEF ConnectCourse, RoutedOrPending, UpRouted, Adapter
  <2>9. CASE OkRoute(t)
    <3>1. snap'.err = ""  /\ snap'.phase \in {snap.phase, "idle"} /\ sb' = sb
      BY <2>9, <1>i DEF OkRoute, Snapshots
    <3> QED
      BY <2>9, <2>0, <3>1, <1>i, <1>s DEF ConnectCourse, RoutedOrPending, UpRouted
  <2>10. CASE OkCheck(t)
    <3>1. sb' = sb /\ snap' = snap /\ (Adapter => net'.split)
      <4>1. Adapter \in BOOLEAN
        BY DEF Adapter
      <4> QED
        <5>1. CASE TunOwnsDefault(net)
          BY <2>10, <5>1, <1>i, RoutesDo DEF OkCheck, TunOwnsDefault
        <5>2. CASE ~TunOwnsDefault(net)
          BY <2>10, <5>2, <4>1, <1>i, ReclaimDo DEF OkCheck
        <5> QED
          BY <5>1, <5>2
    <3> QED
      BY <2>10, <2>0, <3>1, <1>i, <1>p DEF ConnectCourse, RoutedOrPending, UpRouted, Adapter
  <2>11. CASE After(t)
    <3>1. sb' = sb /\ (snap'.err = "" => net' = net)
      BY <2>11, <1>i DEF After, SealOnDeadExit, NoConfig, Snapshots
    <3>2. snap'.err = "" => snap.err = "" \/ ~snap.pending_win_tun
      BY <2>11, <1>i DEF After, SealOnDeadExit, NoConfig, Snapshots
    <3> QED
      BY <2>11, <2>0, <3>1, <3>2, <1>i, <1>p DEF ConnectCourse, RoutedOrPending, UpRouted, Adapter
  <2>12. CASE Finish(t)
    <3>1. sb' = sb /\ net' = net /\ (snap'.phase = "up" => snap.err = "")
      BY <2>12, <1>i DEF Finish, Snapshots
    <3> QED
      BY <2>12, <2>0, <3>1, <1>i DEF ConnectCourse, RoutedOrPending, UpRouted, Adapter
  <2> QED
    BY <1>4, <2>1, <2>2, <2>3, <2>4, <2>5, <2>6, <2>7, <2>8, <2>9, <2>10, <2>11, <2>12
    DEF ConnectStep
<1>5. ASSUME NEW d \in Dogs, DogStep(d) PROVE Goal
  <2>1. UNCHANGED <<snap, cfg, sb, clr>>
    BY <1>5, <1>i, BesideKeeps
  <2>2. Adapter /\ net.split => net'.split
    <3> SUFFICES ASSUME Adapter, net.split PROVE net'.split
      OBVIOUS
    <3> DEFINE m == ReclaimTunDefault(net, Adapter)
    <3>0. Lift(net).split = net.split /\ m \in Net /\ m.split /\ m.foreign = net.foreign
          /\ (~m.foreign => TunOwnsDefault(m))
      BY <1>i, RoutesDo, ReclaimDo DEF Net
    <3>1. \/ net' \in {net, Lift(net), m}
          \/ SealOutcome(m) /\ ~TunOwnsDefault(m)
      BY <1>5 DEF DogStep, Tick, TickProbe, TickOwner, TickLift, TickReconnect, Settle, DogEnds
    <3> HIDE DEF m
    <3>2. CASE SealOutcome(m) /\ ~TunOwnsDefault(m)
      <4>1. "silent" \notin Faults
        BY <3>0, <3>2, <1>i DEF ForeignKnown
      <4> QED
        BY <4>1, <3>0, <3>2, <1>i, SealDo
    <3> QED
      BY <3>0, <3>1, <3>2
  <2>3. At' = At \/ (At = "none" /\ At' \in {"relift", "tun_plan"})
    BY <1>5, <1>i, DogMoves
  <2> QED
    BY <2>1, <2>2, <2>3, <1>i DEF ClearerFits, RoutedOrPending, UpRouted, Adapter, EnableTun
<1>6. CASE Clearer
  <2>1. CASE clr = "none"
    BY <1>6, <2>1 DEF Clearer, ClearShield, ClearRoutes
  <2>2. CASE clr # "none"
    <3>1. At \in {"d_teardown", "d_join"} /\ At' = At
      BY <1>6, <2>2, <1>i, WorldMoves DEF ClearerFits
    <3> QED
      BY <3>1, <1>p DEF ClearerFits, RoutedOrPending, UpRouted
  <2> QED
    BY <2>1, <2>2
<1>7. CASE World
  <2>1. UNCHANGED <<snap, cfg, clr>> /\ At' = At
    BY <1>7, <1>i, BesideKeeps, WorldMoves
  <2>2. Adapter' => Adapter /\ net'.split = net.split
    BY <1>7, <1>i DEF World, Crash, LinkDown, LinkUp, ForeignUp, ForeignDown, Adapter, Net
  <2> QED
    BY <2>1, <2>2, <1>i DEF ClearerFits, RoutedOrPending, UpRouted, EnableTun
<1> QED
  BY <1>1, <1>2, <1>3, <1>4, <1>5, <1>6, <1>7 DEF Next

\* It holds at first.
LEMMA InitOwnInv == Init => OwnInv
<1> SUFFICES ASSUME Init PROVE OwnInv
  OBVIOUS
<1>1. ~net.foreign /\ sb = "down" /\ clr = "none" /\ At = "none"
  BY DEF Init, NoRoutes, At
<1>2. ClearerFits /\ RoutedOrPending /\ UpRouted /\ ForeignKnown
  BY <1>1 DEF ClearerFits, RoutedOrPending, UpRouted, ForeignKnown, Adapter
<1> QED
  BY <1>2, InitPhaseInv, InitSlotInv DEF OwnInv

\* UpOwnsDefault for any overlap of the threads, when the clearing thread of a
\* disconnect is in time (DiscJoin waits for it), disconnect can remove its
\* files, and no seal gives up on a silent server while another VPN is up:
\* between operations a connection that is UP has its TUN routes as long as its
\* adapter lives, so what an earlier disconnect cleared never takes away what a
\* later connect installed.
THEOREM UpAlwaysOwnsDefault ==
  ASSUME {"slowclear", "unlink"} \cap Faults = {}, ~({"silent", "foreign"} \subseteq Faults)
  PROVE  Spec => []UpOwnsDefault
<1>1. OwnInv => UpOwnsDefault
  BY DEF OwnInv, UpRouted, UpOwnsDefault
<1> QED
  BY <1>1, InitOwnInv, StepOwnInv, PTL DEF Spec

-----------------------------------------------------------------------------

\* Without overlap one watchdog is at work at most, the current one, and none
\* while another thread holds the slot; a stopped one only has to end.
TicksAlone ==
  /\ \A d \in Dogs : d # cur => pc[d] = "none" \/ (pc[d] = "rest" /\ dog[d].stop)
  /\ \A d \in Dogs : slot \notin {None, d} => pc[d] \in {"none", "rest"}
  /\ \A d \in Dogs : pc[d] = "none" => ~dog[d].stop
  /\ cur # None => pc[cur] # "none" /\ ~dog[cur].stop

\* The slot with it.
AloneInv == SlotInv /\ TicksAlone

\* Every step keeps TicksAlone.
LEMMA StepTicksAlone ==
  ASSUME ~Overlap
  PROVE  SlotInv /\ TicksAlone /\ [Next]_vars => TicksAlone'
<1> SUFFICES ASSUME SlotInv, TicksAlone, [Next]_vars PROVE TicksAlone'
  OBVIOUS
<1>t. /\ pc \in [Threads -> PcValues] /\ dog \in [Dogs -> Watchdog] /\ cur \in Dogs \cup {None}
      /\ slot \in Threads \cup {None} /\ Dogs \subseteq Threads /\ Gui \in Threads
      /\ Gui \notin Dogs /\ None \notin Threads
      /\ SlotHolds
  BY LifecycleAssumption DEF SlotInv, TypeOK, LifecycleAssumption, Threads
<1>1. CASE UNCHANGED vars
  BY <1>1 DEF vars, TicksAlone
<1>2. CASE User
  <2>1. dog' = dog /\ cur' = cur
    BY <1>2 DEF User, UserConnect, UserReconnect, UserDisconnect, UserTunOn, UserTunOff, UserBegins
  <2>2. \A d \in Dogs : pc'[d] = pc[d]
    BY <1>2, <1>t, UserMoves
  <2>3. slot' \notin {None} => \A d \in Dogs : pc[d] \in {"none", "rest"}
    BY <1>2, UserMoves DEF Quiet
  <2> QED
    BY <2>1, <2>2, <2>3, <1>t DEF TicksAlone
<1>3. CASE DisconnectStep
  <2>0. slot = Gui /\ \A d \in Dogs : pc[d] \in {"none", "rest"}
    BY <1>3, <1>t, DisconnectMoves DEF TicksAlone
  <2>1. \A d \in Dogs : pc'[d] = pc[d]
    BY <1>3, <1>t
    DEF DisconnectStep, DiscStop, DiscCore, DiscTeardown, DiscJoin, DiscFinish, Go, LeaveOp
  <2>2. CASE DiscStop
    <3>1. cur' = None /\ \A d \in Dogs : dog'[d].stop = (d = cur \/ dog[d].stop)
      BY <2>2, <1>t DEF DiscStop, Watchdog
    <3> QED
      BY <2>0, <2>1, <3>1, <1>t DEF TicksAlone
  <2>3. CASE ~DiscStop
    <3>1. cur' = cur /\ dog' = dog
      BY <1>3, <2>3 DEF DisconnectStep, DiscCore, DiscTeardown, DiscJoin, DiscFinish
    <3> QED
      BY <2>0, <2>1, <3>1, <1>t DEF TicksAlone
  <2> QED
    BY <2>2, <2>3
<1>4. ASSUME NEW t \in Threads, ConnectStep(t) PROVE TicksAlone'
  <2>0. slot = t /\ pc[t] \in OpSteps
    BY <1>4, <1>t, ConnectMoves DEF SlotHolds
  <2>1. t \in Dogs => t = cur
    BY <2>0, <1>t DEF TicksAlone, OpSteps
  <2>2. CASE Finish(t)
    <3>0. slot' = None
      BY <2>2 DEF Finish
    <3>n. NewDog.stop = FALSE
      BY DEF NewDog
    <3>1. CASE cur' = cur
      <4>1. /\ \A u \in Threads \ {t} : pc'[u] = pc[u]
            /\ pc'[t] \in {"rest", "settle"}
            /\ dog' = dog \/ (cur # None /\ dog' = [dog EXCEPT ![cur] = NewDog])
        BY <2>2, <3>1, <1>t DEF Finish
      <4> QED
        BY <3>0, <3>1, <3>n, <4>1, <2>1, <1>t DEF TicksAlone
    <3>2. CASE cur' # cur
      <4>1. /\ cur = None /\ dog' = dog /\ cur' \in Dogs
            /\ pc[cur'] = "none"
            /\ \E p \in {"rest", "settle"} : pc' = [pc EXCEPT ![t] = p, ![cur'] = "rest"]
        BY <2>2, <3>2, <1>t DEF Finish
      <4>2. t \notin Dogs
        BY <4>1, <2>1, <1>t
      <4>3. pc'[cur'] = "rest" /\ \A d \in Dogs \ {cur'} : pc'[d] = pc[d]
        BY <4>1, <4>2, <1>t
      <4> QED
        BY <3>0, <4>1, <4>3, <1>t DEF TicksAlone
    <3> QED
      BY <3>1, <3>2
  <2>3. CASE ~Finish(t)
    <3>1. /\ dog' = dog /\ cur' = cur
          /\ pc' \in {[pc EXCEPT ![t] = p] : p \in OpSteps \cup {"rest"}}
          /\ slot' \in {slot, None}
      BY <1>4, <2>3
      DEF ConnectStep, Relift, Restop, Plan, Arm, Launch, Integrate, Claim, Probe, OkRoute,
          OkCheck, After, FailConnect, Go, LeaveOp, OpSteps
    <3>2. pc'[t] \in OpSteps \cup {"rest"} /\ \A u \in Threads \ {t} : pc'[u] = pc[u]
      BY <3>1, <1>t
    <3> QED
      BY <2>0, <2>1, <3>1, <3>2, <1>t DEF TicksAlone, OpSteps
  <2> QED
    BY <2>2, <2>3
<1>5. ASSUME NEW d \in Dogs, DogStep(d) PROVE TicksAlone'
  <2>0. /\ slot # d /\ pc[d] \notin OpSteps \cup {"none"}
        /\ \A u \in Threads : pc'[u] = pc[u] \/ u = d
        /\ slot' = slot \/ (slot' = d /\ slot = None)
        /\ cur' = cur
    BY <1>5, DogMoves, BesideKeeps
  <2>1. CASE DogEnds(d)
    <3>1. d # cur /\ pc'[d] = "none" /\ dog' = [dog EXCEPT ![d] = NewDog] /\ ~NewDog.stop
          /\ slot' = slot
      BY <2>1, <1>t DEF DogEnds, Go, TicksAlone, NewDog
    <3> QED
      BY <2>0, <3>1, <1>t DEF TicksAlone
  <2>2. CASE ~DogEnds(d)
    <3>1. d = cur
      BY <1>5, <2>2, <2>0, <1>t
      DEF DogStep, Tick, TickProbe, TickOwner, TickLift, TickReconnect, Settle, Go, TicksAlone
    <3>2. slot = None
      BY <1>5, <2>0, <2>2, <1>t
      DEF DogStep, Tick, TickProbe, TickOwner, TickLift, TickReconnect, Settle, Go, TicksAlone
    <3>3. \A u \in Dogs : dog'[u].stop = dog[u].stop
      BY <1>5, <2>2, <1>t
      DEF DogStep, Tick, TickProbe, TickOwner, TickLift, TickReconnect, Settle, Watchdog, NewDog
    <3>4. pc'[d] # "none"
      BY <1>5, <2>2, <1>t
      DEF DogStep, Tick, TickProbe, TickOwner, TickLift, TickReconnect, Settle, Go, Begin
    <3> QED
      BY <2>0, <3>1, <3>2, <3>3, <3>4, <1>t DEF TicksAlone
  <2> QED
    BY <2>1, <2>2
<1>6. CASE Clearer \/ World
  BY <1>6, WorldMoves, BesideKeeps DEF TicksAlone
<1> QED
  BY <1>1, <1>2, <1>3, <1>4, <1>5, <1>6 DEF Next

LEMMA InitTicksAlone == Init => TicksAlone
<1> SUFFICES ASSUME Init PROVE TicksAlone
  OBVIOUS
<1>1. \A d \in Dogs : pc[d] = "none" /\ ~dog[d].stop
  BY LifecycleAssumption DEF Init, NewDog, Threads, LifecycleAssumption
<1> QED
  BY <1>1 DEF Init, TicksAlone

\* While somebody else holds the slot no tick touches the routes.
LEMMA NoTickBeside ==
  ASSUME SlotInv, TicksAlone, slot # None, NEW d \in Dogs, DogStep(d)
  PROVE  UNCHANGED <<net, slot>>
<1>1. slot # d
  BY DogMoves
<1>2. pc[d] \in {"none", "rest"}
  BY <1>1 DEF TicksAlone
<1> QED
  BY <1>2
  DEF DogStep, Tick, TickProbe, TickOwner, TickLift, TickReconnect, Settle, DogEnds, Go

\* Every step keeps AloneInv.
LEMMA StepAloneInv ==
  ASSUME ~Overlap
  PROVE  AloneInv /\ [Next]_vars => AloneInv'
  BY StepTicksAlone, StepSlotInv DEF AloneInv

-----------------------------------------------------------------------------

\* An AWG client launched under the kill switch finds no blackholes, and leaves
\* no halves of an earlier adapter.
FreeFits ==
  /\ KsDeferred /\ At \in {"launch", "integrate", "claim", "probe"} => ~net.hole
  /\ KsDeferred /\ At \in {"integrate", "claim", "probe"} => ~net.split

\* HandshakeIsFree at every step between launch and probe.
FreeInv == AloneInv /\ FreeFits

\* Every step keeps FreeInv.
LEMMA StepFreeInv ==
  ASSUME ~Overlap, "memory" \notin Faults
  PROVE  FreeInv /\ [Next]_vars => FreeInv'
<1> SUFFICES ASSUME FreeInv, [Next]_vars PROVE FreeFits'
  BY StepAloneInv DEF FreeInv
<1>i. SlotInv /\ TicksAlone /\ FreeFits /\ net \in Net /\ faults \in Nat
  BY LifecycleAssumption DEF FreeInv, AloneInv, SlotInv, TypeOK, LifecycleAssumption
<1>n. At = "none" <=> slot = None
  BY <1>i DEF At, SlotInv, SlotHolds, TypeOK, OpSteps
<1>1. CASE UNCHANGED vars
  BY <1>1, <1>i DEF vars, FreeFits, At, KsDeferred
<1>2. CASE User
  BY <1>2, <1>i, UserMoves DEF FreeFits
<1>3. CASE DisconnectStep
  BY <1>3, <1>i, DisconnectMoves DEF DisconnectCourse, DisconnectStep, FreeFits
<1>4. ASSUME NEW t \in Threads, ConnectStep(t) PROVE FreeFits'
  <2>1. ConnectCourse(t)
    BY <1>i, ConnectMoves
  <2>k. KsDeferred' = KsDeferred
    BY <1>4 DEF ConnectStep, Relift, Restop, Plan, Arm, Launch, Integrate, Claim, Probe, OkRoute,
        OkCheck, After, Finish, KsDeferred
  <2>2. CASE Arm(t)
    <3> SUFFICES ASSUME KsDeferred, At' = "launch" PROVE ~net'.hole
      BY <2>1, <2>2, <2>k DEF ConnectCourse, FreeFits
    <3>1. PICK n \in Killed(net) \cup {net} : ArmKillSwitch(n)
      <4>1. ~FailConnect(t)
        BY DEF FailConnect, LeaveOp, At
      <4> QED
        BY <2>2, <4>1 DEF Arm, Killed
    <3>2. n \in Net
      BY <3>1, <1>i, RoutesType DEF Killed
    <3> QED
      BY <3>1, <3>2, <1>i, ArmDo
  <2>3. CASE Launch(t)
    <3> SUFFICES ASSUME KsDeferred, At = "launch" PROVE ~net'.split /\ ~net'.hole
      BY <2>1, <2>3, <2>k DEF ConnectCourse, FreeFits
    <3>1. net' = AdapterGone(net)
      BY <2>3 DEF Launch, EnableTun, KsDeferred
    <3> QED
      BY <3>1, <1>i, RoutesDo DEF FreeFits
  <2>4. CASE Integrate(t) \/ Probe(t)
    BY <2>1, <2>4, <2>k, <1>i DEF ConnectCourse, FreeFits, Integrate, Probe
  <2>5. CASE Claim(t)
    BY <2>1, <2>5, <2>k, <1>i DEF ConnectCourse, FreeFits, Claim, KsDeferred
  <2> QED
    BY <1>4, <2>1, <2>2, <2>3, <2>4, <2>5 DEF ConnectStep, ConnectCourse, FreeFits
<1>5. ASSUME NEW d \in Dogs, DogStep(d) PROVE FreeFits'
  <2>1. cfg' = cfg
    BY <1>5, <1>i, BesideKeeps
  <2>2. CASE slot = None
    BY <1>5, <1>i, <1>n, <2>2, DogMoves DEF FreeFits
  <2>3. CASE slot # None
    <3>1. net' = net /\ At' = At
      BY <1>5, <1>i, <2>3, NoTickBeside, DogMoves
    <3> QED
      BY <2>1, <3>1, <1>i DEF FreeFits, KsDeferred
  <2> QED
    BY <2>2, <2>3
<1>6. CASE Clearer \/ World
  <2>1. cfg' = cfg /\ At' = At
    BY <1>6, <1>i, BesideKeeps, WorldMoves
  <2>2. (net'.hole => net.hole) /\ (net'.split => net.split)
    BY <1>6, <1>i
    DEF Clearer, ClearShield, ClearRoutes, World, Crash, LinkDown, LinkUp, ForeignUp, ForeignDown,
        Killed, AdapterGone, RestoreShield, RemoveRoutes, Net
  <2> QED
    BY <2>1, <2>2, <1>i DEF FreeFits, KsDeferred
<1> QED
  BY <1>1, <1>2, <1>3, <1>4, <1>5, <1>6 DEF Next

\* HandshakeIsFree, as long as operations and ticks do not overlap and the
\* memory of is_applied does not hide the blackholes from _arm_kill_switch: from
\* the launch of an AWG client under the kill switch until the probe has
\* answered, neither the TUN routes nor the blackholes are there.
THEOREM HandshakeStaysFree ==
  ASSUME ~Overlap, "memory" \notin Faults
  PROVE  Spec => []HandshakeIsFree
<1>1. Init => FreeInv
  BY InitSlotInv, InitTicksAlone DEF Init, FreeInv, AloneInv, FreeFits, At
<1>2. FreeInv => HandshakeIsFree
  <2> SUFFICES ASSUME FreeInv, NEW t \in Threads, cfg.awg, cfg.ks,
                      pc[t] \in {"integrate", "claim", "probe"}
               PROVE  ~net.split /\ ~net.hole
    BY DEF HandshakeIsFree
  <2>1. At = pc[t]
    BY LifecycleAssumption
    DEF FreeInv, AloneInv, SlotInv, SlotHolds, At, OpSteps, Threads, LifecycleAssumption
  <2> QED
    BY <2>1 DEF FreeInv, FreeFits, KsDeferred
<1> QED
  BY <1>1, <1>2, StepFreeInv, PTL DEF Spec

-----------------------------------------------------------------------------

\* What each step of a disconnect has already taken away.
OffFits ==
  /\ At \in {"d_core", "d_teardown", "d_join", "d_finish"} => cur = None
  /\ At \in {"d_teardown", "d_join"} /\ off = "no" =>
       sb = "down" /\ (clr # "none" \/ (~net.hole /\ ~net.split /\ ~net.saved))
  /\ At \in {"d_join", "d_finish"} => ~disk.state /\ ~disk.marks
  /\ At = "d_finish" =>
       /\ clr = "none" /\ ~net.shield
       /\ (off = "no" => sb = "down" /\ ~net.hole /\ ~net.split /\ ~net.saved)
  /\ off = "done" => slot = None /\ clr = "none"

\* OffRestores with what leads up to it.
OffInv == AloneInv /\ OffFits /\ OffRestores

\* Every step keeps OffInv.
LEMMA StepOffInv ==
  ASSUME ~Overlap, "slowclear" \notin Faults
  PROVE  OffInv /\ [Next]_vars => OffInv'
<1> SUFFICES ASSUME OffInv, [Next]_vars PROVE OffFits' /\ OffRestores'
  BY StepAloneInv DEF OffInv
<1>i. /\ SlotInv /\ TicksAlone /\ OffFits /\ OffRestores
      /\ net \in Net /\ disk \in Disk /\ off \in {"no", "stop_err", "done"}
      /\ sb \in {"down", "stuck", "socks", "tun"} /\ clr \in {"none", "shield", "routes"}
  BY DEF OffInv, AloneInv, SlotInv, TypeOK
<1>n. At = "none" <=> slot = None
  BY <1>i DEF At, SlotInv, SlotHolds, TypeOK, OpSteps
<1> DEFINE Goal == OffFits' /\ OffRestores'
<1>1. CASE UNCHANGED vars
  BY <1>1, <1>i DEF vars, OffFits, OffRestores, At
<1>2. CASE User
  <2>1. off' = "no" \/ off' = "stop_err"
    BY <1>2
    DEF User, UserConnect, UserReconnect, UserDisconnect, UserTunOn, UserTunOff, UserBegins
  <2>2. At' \notin {"d_core", "d_teardown", "d_join", "d_finish"}
    BY <1>2, <1>i, UserMoves
  <2> QED
    BY <2>1, <2>2 DEF OffFits, OffRestores
<1>3. CASE DisconnectStep
  <2>0. DisconnectCourse /\ slot = Gui /\ Gui # None /\ off # "done"
    BY <1>3, <1>i, DisconnectMoves, LifecycleAssumption
    DEF OffFits, LifecycleAssumption
  <2>1. CASE DiscStop
    BY <2>1, <2>0, <1>i DEF DisconnectCourse, DiscStop, OffFits, OffRestores
  <2>2. CASE DiscCore
    <3>0. cur' = None /\ At' = "d_teardown"
      BY <2>2, <2>0, <1>i DEF DisconnectCourse, DiscCore, OffFits
    <3>1. off' # "done"
      BY <2>2, <2>0, <1>i DEF DiscCore
    <3>2. off' = "no" => sb' = "down" /\ ~net'.split
      <4>1. CASE sb' = "down" /\ net' = AdapterGone(net)
        BY <4>1, <1>i, RoutesDo
      <4>2. CASE sb # "down" /\ sb' = sb
        BY <2>2, <4>2 DEF DiscCore
      <4> QED
        BY <2>2, <4>1, <4>2 DEF DiscCore, StopSingbox
    <3>3. clr' = "none" => ~net'.hole /\ ~net'.saved
      BY <2>2 DEF DiscCore, IsApplied
    <3> QED
      BY <3>0, <3>1, <3>2, <3>3 DEF OffFits, OffRestores
  <2>3. CASE DiscTeardown
    <3>1. UNCHANGED <<cur, sb, net, clr, off>> /\ At = "d_teardown" /\ At' \in {"d_join", "none"}
      BY <2>3, <2>0 DEF DiscTeardown, DisconnectCourse
    <3>2. At' = "d_join" => ~disk'.state /\ ~disk'.marks
      <4>1. CASE LeaveOp(Gui, "rest")
        BY <4>1 DEF LeaveOp, At
      <4>2. CASE ~LeaveOp(Gui, "rest")
        BY <2>3, <4>2, <1>i DEF DiscTeardown, Disk
      <4> QED
        BY <4>1, <4>2
    <3> QED
      BY <3>1, <3>2, <2>0, <1>i DEF OffFits, OffRestores
  <2>4. CASE DiscJoin
    <3>1. /\ clr = "none" /\ clr' = clr /\ net' = RestoreShield(net)
          /\ UNCHANGED <<cur, sb, disk, off>> /\ At = "d_join" /\ At' = "d_finish"
      BY <2>4, <2>0 DEF DiscJoin, DisconnectCourse, Fault
    <3>2. /\ net'.hole = net.hole /\ net'.split = net.split /\ net'.saved = net.saved
          /\ ~net'.shield
      BY <3>1, <1>i, RoutesDo
    <3> QED
      BY <3>1, <3>2, <2>0, <1>i DEF OffFits, OffRestores
  <2>5. CASE DiscFinish
    <3>1. /\ UNCHANGED <<cur, sb, net, disk, clr>> /\ At = "d_finish" /\ At' = "none"
          /\ slot' = None
          /\ off' = IF off = "no" /\ sb = "down" THEN "done" ELSE "no"
      BY <2>5, <2>0 DEF DiscFinish, DisconnectCourse, LeaveOp
    <3> QED
      BY <3>1, <1>i DEF OffFits, OffRestores
  <2> QED
    BY <1>3, <2>1, <2>2, <2>3, <2>4, <2>5 DEF DisconnectStep
<1>4. ASSUME NEW t \in Threads, ConnectStep(t) PROVE Goal
  <2>1. ConnectCourse(t) /\ slot # None /\ off' = off
    BY <1>4, <1>i, ConnectMoves, LifecycleAssumption
    DEF LifecycleAssumption, Threads, ConnectStep, Relift, Restop, Plan, Arm, Launch, Integrate,
        Claim, Probe, OkRoute, OkCheck, After, Finish
  <2>2. off # "done"
    BY <2>1, <1>i DEF OffFits
  <2>3. At' \notin {"d_core", "d_teardown", "d_join", "d_finish"}
    BY <1>4, <2>1 DEF ConnectCourse, ConnectStep
  <2> QED
    BY <2>1, <2>2, <2>3 DEF OffFits, OffRestores
<1>5. ASSUME NEW d \in Dogs, DogStep(d) PROVE Goal
  <2>1. UNCHANGED <<cur, sb, disk, clr, off>>
    BY <1>5, <1>i, BesideKeeps
  <2>2. CASE slot # None
    <3>1. net' = net /\ At' = At /\ slot' = slot
      BY <1>5, <1>i, <2>2, NoTickBeside, DogMoves
    <3> QED
      BY <2>1, <3>1, <1>i DEF OffFits, OffRestores
  <2>3. CASE slot = None /\ off # "done"
    <3>1. At' \notin {"d_core", "d_teardown", "d_join", "d_finish"}
      BY <1>5, <1>i, <1>n, <2>3, DogMoves
    <3> QED
      BY <2>1, <2>3, <3>1 DEF OffFits, OffRestores
  <2>4. CASE slot = None /\ off = "done"
    <3>1. cur = None /\ pc[d] \in {"none", "rest"} /\ (pc[d] = "rest" => dog[d].stop)
      BY <2>4, <1>i, LifecycleAssumption DEF OffRestores, TicksAlone, LifecycleAssumption
    <3>2. net' = net /\ slot' = slot
      BY <1>5, <3>1
      DEF DogStep, Tick, TickProbe, TickOwner, TickLift, TickReconnect, Settle, DogEnds, Go
    <3>3. At' = At
      BY <1>5, <1>i, <3>2, <1>n, <2>4 DEF At
    <3> QED
      BY <2>1, <3>2, <3>3, <1>i DEF OffFits, OffRestores
  <2> QED
    BY <2>2, <2>3, <2>4
<1>6. CASE Clearer
  <2>0. clr # "none" /\ At' = At /\ slot' = slot
    BY <1>6, <1>i, WorldMoves DEF Clearer, ClearShield, ClearRoutes
  <2>1. UNCHANGED <<cur, sb, disk, off>> /\ off # "done" /\ At # "d_finish"
    BY <1>6, <1>i, <2>0, BesideKeeps DEF OffFits
  <2>2. clr' = "routes" \/ (~net'.hole /\ ~net'.split /\ ~net'.saved)
    BY <1>6, <1>i, RoutesDo DEF Clearer, ClearShield, ClearRoutes
  <2> QED
    BY <2>0, <2>1, <2>2, <1>i DEF OffFits, OffRestores
<1>7. CASE World
  <2>1. UNCHANGED <<cur, disk, clr, off>> /\ At' = At /\ slot' = slot
    BY <1>7, <1>i, BesideKeeps, WorldMoves
  <2>2. CASE Crash
    <3>1. sb # "down" /\ sb' = "down" /\ net'.hole = net.hole /\ net'.saved = net.saved
          /\ (~net.split => ~net'.split) /\ net'.shield = net.shield
      BY <2>2, <1>i DEF Crash, Up, Killed, AdapterGone, Net
    <3> QED
      BY <2>1, <3>1, <1>i DEF OffFits, OffRestores
  <2>3. CASE ~Crash
    <3>1. sb' = sb /\ net'.hole = net.hole /\ net'.saved = net.saved
          /\ net'.split = net.split /\ net'.shield = net.shield
      BY <1>7, <2>3, <1>i DEF World, LinkDown, LinkUp, ForeignUp, ForeignDown, Net
    <3> QED
      BY <2>1, <3>1, <1>i DEF OffFits, OffRestores
  <2> QED
    BY <2>2, <2>3
<1> QED
  BY <1>1, <1>2, <1>3, <1>4, <1>5, <1>6, <1>7 DEF Next

\* OffRestores, as long as operations and ticks do not overlap and the clearing
\* thread is in time: after a disconnect that reported success no route, policy,
\* override or process of the connection is left, whatever else goes wrong.
THEOREM OffAlwaysRestores ==
  ASSUME ~Overlap, "slowclear" \notin Faults
  PROVE  Spec => []OffRestores
<1>1. Init => OffInv
  BY InitSlotInv, InitTicksAlone DEF Init, OffInv, AloneInv, OffFits, OffRestores, At
<1>2. OffInv => OffRestores
  BY DEF OffInv
<1> QED
  BY <1>1, <1>2, StepOffInv, PTL DEF Spec

-----------------------------------------------------------------------------

\* When the blackholes are gone in a connect, or the claim that takes them
\* away is still to come.
OpenFits ==
  /\ At = "claim" /\ EnableTun => snap.pending_win_tun
  /\ At \in {"probe", "okroute", "after"} /\ EnableTun /\ ~snap.pending_win_tun => ~net.hole
  /\ At = "okcheck" => snap.err = ""
  /\ At \in {"after", "finish"} /\ snap.err = "" => ~net.hole

\* Every step counts its fault.
LEMMA FaultsCount ==
  ASSUME TypeOK, [Next]_vars
  PROVE  faults \in Nat /\ faults' \in Nat /\ faults' >= faults /\ faults <= MaxFaults
<1>t. faults \in Nat /\ MaxFaults \in Nat /\ faults <= MaxFaults
  BY LifecycleAssumption DEF TypeOK, LifecycleAssumption
<1>f. faults' = faults \/ faults' = faults + 1
  <2>1. CASE User \/ DisconnectStep \/ Clearer \/ World \/ UNCHANGED vars
    BY <2>1
    DEF vars, User, UserConnect, UserReconnect, UserDisconnect, UserTunOn, UserTunOff, UserBegins,
        DisconnectStep, DiscStop, DiscCore, DiscTeardown, DiscJoin, DiscFinish, StopSingbox,
        Clearer, ClearShield, ClearRoutes, World, Crash, LinkDown, LinkUp, ForeignUp, ForeignDown,
        Fault, NoFault
  <2>2. ASSUME NEW t \in Threads, ConnectStep(t) PROVE faults' = faults \/ faults' = faults + 1
    <3>1. CASE After(t)
      BY <3>1 DEF After, SealOnDeadExit, NoConfig, SealOutcome, Fault, NoFault
    <3>2. CASE Arm(t) \/ Launch(t) \/ Integrate(t) \/ Plan(t) \/ Restop(t) \/ Probe(t)
      BY <3>2
      DEF Arm, ArmKillSwitch, PinOutcome, Launch, Integrate, Plan, Restop, Probe, StopSingbox,
          Fault, NoFault
    <3>3. CASE Relift(t) \/ Claim(t) \/ OkRoute(t) \/ OkCheck(t) \/ Finish(t)
      BY <3>3
      DEF Relift, Claim, OkRoute, OkCheck, Finish, InstallWinTunRoutes, SealOutcome, PinOutcome,
          Fault, NoFault
    <3> QED
      BY <2>2, <3>1, <3>2, <3>3 DEF ConnectStep
  <2>3. ASSUME NEW d \in Dogs, DogStep(d) PROVE faults' = faults \/ faults' = faults + 1
    BY <2>3
    DEF DogStep, Tick, TickProbe, TickOwner, TickLift, TickReconnect, Settle, DogEnds,
        SealOutcome, Fault, NoFault
  <2> QED
    BY <2>1, <2>2, <2>3 DEF Next
<1> QED
  BY <1>t, <1>f

\* The steps after the launch.
Launched == {"integrate", "claim", "probe", "okroute", "okcheck", "after", "finish"}

\* What runs is what was asked for.
Runs == Up /\ (EnableTun => Adapter)

\* The watchdog the client knows has not been told to stop, the others have;
\* one that does not run has counted nothing.
DogsFit ==
  /\ \A d \in Dogs : d # cur => pc[d] = "none" \/ dog[d].stop
  /\ \A d \in Dogs : pc[d] = "none" => dog[d] = NewDog
  /\ cur # None => pc[cur] # "none" /\ ~dog[cur].stop

\* As long as nothing has gone wrong: sing-box runs in a launched operation and
\* under a watchdog, so that nobody has a reason to reconnect, and a tick that
\* looks at the default route has not missed it before.
Healthy ==
  /\ link
  /\ At \in Launched \/ (cur # None /\ slot = None) => Runs
  /\ At \in {"arm", "launch"} \cup Launched => snap.want_watchdog
  /\ At \in {"d_core", "d_teardown", "d_join", "d_finish"} => cur = None
  /\ \A d \in Dogs : pc[d] \notin {"react", "call", "relift", "restop", "plan"}
  /\ \A d \in Dogs :
       \/ slot = None /\ ~dog[d].stop
       \/ pc[d] \in {"probing", "owner", "tun_react", "tun_call"}
       => dog[d].probe_fails = 0 /\ dog[d].misses = 0

\* A launched process that is not up has crashed, and a tick that meets this
\* misses the default route for the first time.
CrashSpares ==
  At \in Launched /\ ~Runs =>
    /\ sb = "down"
    /\ \A d \in Dogs : pc[d] = "owner" => dog[d].misses = 0

CalmInv == ~net.foreign /\ DogsFit /\ (faults = 0 => Healthy) /\ CrashSpares

\* Who watches stays so: a disconnect stops the watchdog the client knows.
LEMMA StepDogsFit == SlotInv /\ DogsFit /\ [Next]_vars => DogsFit'
<1> SUFFICES ASSUME SlotInv, DogsFit, [Next]_vars PROVE DogsFit'
  OBVIOUS
<1>t. /\ pc \in [Threads -> PcValues] /\ dog \in [Dogs -> Watchdog] /\ cur \in Dogs \cup {None}
      /\ slot \in Threads \cup {None} /\ Dogs \subseteq Threads /\ Gui \in Threads
      /\ Gui \notin Dogs /\ None \notin Threads /\ ~NewDog.stop
      /\ SlotHolds
  BY LifecycleAssumption DEF SlotInv, TypeOK, LifecycleAssumption, Threads, NewDog
<1>1. CASE UNCHANGED vars
  BY <1>1 DEF vars, DogsFit
<1>2. CASE User
  <2>1. dog' = dog /\ cur' = cur
    BY <1>2 DEF User, UserConnect, UserReconnect, UserDisconnect, UserTunOn, UserTunOff, UserBegins
  <2>2. \A d \in Dogs : pc'[d] = pc[d]
    BY <1>2, <1>t, UserMoves
  <2> QED
    BY <2>1, <2>2, <1>t DEF DogsFit
<1>3. CASE DisconnectStep
  <2>1. \A d \in Dogs : pc'[d] = pc[d]
    BY <1>3, <1>t
    DEF DisconnectStep, DiscStop, DiscCore, DiscTeardown, DiscJoin, DiscFinish, Go, LeaveOp
  <2>2. CASE DiscStop
    <3>1. /\ cur' = None
          /\ \A d \in Dogs : d # cur => dog'[d] = dog[d]
          /\ cur # None => dog'[cur].stop
      BY <2>2, <1>t DEF DiscStop, Watchdog
    <3> QED
      BY <2>1, <3>1, <1>t DEF DogsFit
  <2>3. CASE ~DiscStop
    <3>1. cur' = cur /\ dog' = dog
      BY <1>3, <2>3 DEF DisconnectStep, DiscCore, DiscTeardown, DiscJoin, DiscFinish
    <3> QED
      BY <2>1, <3>1, <1>t DEF DogsFit
  <2> QED
    BY <2>2, <2>3
<1>4. ASSUME NEW t \in Threads, ConnectStep(t) PROVE DogsFit'
  <2>0. slot = t /\ pc[t] \in OpSteps /\ pc[t] # "none"
    BY <1>4, <1>t, ConnectMoves DEF SlotHolds, OpSteps
  <2>2. CASE Finish(t)
    <3>1. CASE cur' = cur
      <4>1. /\ \A u \in Threads \ {t} : pc'[u] = pc[u]
            /\ pc'[t] \in {"rest", "settle"}
            /\ dog' = dog \/ (cur # None /\ dog' = [dog EXCEPT ![cur] = NewDog])
        BY <2>2, <3>1, <1>t DEF Finish
      <4> QED
        BY <3>1, <4>1, <2>0, <1>t DEF DogsFit
    <3>2. CASE cur' # cur
      <4>1. /\ cur = None /\ dog' = dog /\ cur' \in Dogs
            /\ pc[cur'] = "none"
            /\ \E p \in {"rest", "settle"} : pc' = [pc EXCEPT ![t] = p, ![cur'] = "rest"]
        BY <2>2, <3>2, <1>t DEF Finish
      <4>2. t # cur'
        BY <4>1, <2>0
      <4>3. /\ pc'[cur'] = "rest" /\ pc'[t] \in {"rest", "settle"}
            /\ \A d \in Dogs : d \notin {t, cur'} => pc'[d] = pc[d]
        BY <4>1, <4>2, <1>t
      <4>4. ~dog[cur'].stop
        BY <4>1, <1>t DEF DogsFit
      <4> QED
        BY <4>1, <4>3, <4>4, <2>0, <1>t DEF DogsFit
    <3> QED
      BY <3>1, <3>2
  <2>3. CASE ~Finish(t)
    <3>1. /\ dog' = dog /\ cur' = cur
          /\ pc' \in {[pc EXCEPT ![t] = p] : p \in OpSteps \cup {"rest"}}
      BY <1>4, <2>3
      DEF ConnectStep, Relift, Restop, Plan, Arm, Launch, Integrate, Claim, Probe, OkRoute,
          OkCheck, After, FailConnect, Go, LeaveOp, OpSteps
    <3>2. pc'[t] \in OpSteps \cup {"rest"} /\ \A u \in Threads \ {t} : pc'[u] = pc[u]
      BY <3>1, <1>t
    <3>3. pc'[t] # "none"
      BY <3>2 DEF OpSteps
    <3> QED
      BY <2>0, <3>1, <3>2, <3>3, <1>t DEF DogsFit
  <2> QED
    BY <2>2, <2>3
<1>5. ASSUME NEW d \in Dogs, DogStep(d) PROVE DogsFit'
  <2>0. /\ pc[d] # "none"
        /\ \A u \in Threads : pc'[u] = pc[u] \/ u = d
        /\ cur' = cur
    BY <1>5, DogMoves, BesideKeeps
  <2>1. CASE DogEnds(d)
    <3>1. d # cur /\ pc'[d] = "none" /\ dog' = [dog EXCEPT ![d] = NewDog]
      BY <2>1, <1>t DEF DogEnds, Go, DogsFit
    <3> QED
      BY <2>0, <3>1, <1>t DEF DogsFit
  <2>2. CASE ~DogEnds(d)
    <3>1. /\ \A u \in Dogs : dog'[u].stop = dog[u].stop
          /\ \A u \in Dogs : u # d => dog'[u] = dog[u]
      BY <1>5, <2>2, <1>t
      DEF DogStep, Tick, TickProbe, TickOwner, TickLift, TickReconnect, Settle, Watchdog, NewDog
    <3>2. pc'[d] # "none"
      BY <1>5, <2>2, <1>t
      DEF DogStep, Tick, TickProbe, TickOwner, TickLift, TickReconnect, Settle, Go, Begin
    <3> QED
      BY <2>0, <3>1, <3>2, <1>t DEF DogsFit
  <2> QED
    BY <2>1, <2>2
<1>6. CASE Clearer \/ World
  <2>1. UNCHANGED <<pc, dog, cur>>
    BY <1>6, WorldMoves, BesideKeeps
  <2> QED
    BY <2>1 DEF DogsFit
<1> QED
  BY <1>1, <1>2, <1>3, <1>4, <1>5, <1>6 DEF Next

\* No watchdog runs at first.
LEMMA InitDogsFit == Init => DogsFit
<1> SUFFICES ASSUME Init PROVE DogsFit
  OBVIOUS
<1>1. \A d \in Dogs : pc[d] = "none" /\ dog[d] = NewDog
  BY LifecycleAssumption DEF Init, Threads, LifecycleAssumption
<1> QED
  BY <1>1 DEF Init, DogsFit

\* As long as nothing goes wrong, and no other VPN has come, all stays well.
LEMMA StepHealthy ==
  ASSUME SlotInv, ~net.foreign, DogsFit, Healthy, [Next]_vars, faults' = 0, faults = 0
  PROVE  Healthy'
<1>t. /\ pc \in [Threads -> PcValues] /\ dog \in [Dogs -> Watchdog] /\ cur \in Dogs \cup {None}
      /\ slot \in Threads \cup {None} /\ Dogs \subseteq Threads /\ Gui \in Threads
      /\ Gui \notin Dogs /\ None \notin Threads /\ snap \in Snapshots /\ net \in Net
      /\ SlotHolds /\ cfg \in AnyConfig
  BY LifecycleAssumption DEF SlotInv, TypeOK, LifecycleAssumption, Threads
<1>n. ~NewDog.stop /\ NewDog.probe_fails = 0 /\ NewDog.misses = 0
  BY DEF NewDog
<1>f. ASSUME NEW f, Fault(f) PROVE FALSE
  BY <1>f DEF Fault
<1>1. CASE UNCHANGED vars
  BY <1>1 DEF vars, Healthy, At, Runs, Up, Adapter, EnableTun
<1>2. CASE User
  <2>1. (EnableTun' => EnableTun) \/ slot' # None
    BY <1>2, <1>t DEF User, UserConnect, UserReconnect, UserDisconnect, UserTunOn, UserTunOff,
                      UserBegins, EnableTun, AnyConfig, Begin
  <2>u. UNCHANGED <<dog, cur, sb, link, snap>>
    BY <1>2 DEF User, UserConnect, UserReconnect, UserDisconnect, UserTunOn, UserTunOff,
                UserBegins
  <2>2. \A d \in Dogs : pc'[d] = pc[d]
    BY <1>2, <1>t, UserMoves
  <2>3. slot = None /\ At' \in {"plan", "relift", "d_stop", "none"}
    BY <1>2, UserMoves
  <2>4. cur # None /\ slot' = None => Runs'
    BY <2>1, <2>u, <2>3, <1>t DEF Healthy, Runs, Up, Adapter
  <2> QED
    BY <2>u, <2>2, <2>3, <2>4 DEF Healthy, Launched
<1>3. CASE DisconnectStep
  <2>1. \A d \in Dogs : pc'[d] = pc[d]
    BY <1>3, <1>t
    DEF DisconnectStep, DiscStop, DiscCore, DiscTeardown, DiscJoin, DiscFinish, Go, LeaveOp
  <2>2. slot = Gui /\ link' = link
    BY <1>3, DisconnectMoves
    DEF DisconnectStep, DiscStop, DiscCore, DiscTeardown, DiscJoin, DiscFinish
  <2>3. /\ \A d \in Dogs : /\ dog'[d].probe_fails = dog[d].probe_fails
                           /\ dog'[d].misses = dog[d].misses
                           /\ dog[d].stop => dog'[d].stop
        /\ cur' = None
    <3>1. CASE DiscStop
      BY <3>1, <1>t DEF DiscStop, Watchdog
    <3>2. CASE ~DiscStop
      <4>1. dog' = dog /\ cur' = cur
        BY <1>3, <3>2 DEF DisconnectStep, DiscCore, DiscTeardown, DiscJoin, DiscFinish
      <4>2. At \in {"d_core", "d_teardown", "d_join", "d_finish"}
        BY <1>3, <3>2, DisconnectMoves DEF DisconnectStep, DisconnectCourse
      <4> QED
        BY <4>1, <4>2 DEF Healthy
    <3> QED
      BY <3>1, <3>2
  <2>4. At' \in {"d_core", "d_teardown", "d_join", "d_finish", "none"}
    BY <1>3, DisconnectMoves DEF DisconnectStep, DisconnectCourse
  <2>5. slot' = None => \A d \in Dogs : dog'[d].stop \/ pc'[d] = "none"
    <3>1. \A d \in Dogs : d # cur => pc[d] = "none" \/ dog[d].stop
      BY DEF DogsFit
    <3>2. CASE DiscStop
      BY <3>2, <2>2, <1>t DEF DiscStop
    <3>3. CASE ~DiscStop
      <4>1. cur = None /\ dog' = dog
        BY <1>3, <3>3, DisconnectMoves
        DEF Healthy, DisconnectStep, DisconnectCourse, DiscCore, DiscTeardown, DiscJoin, DiscFinish
      <4> QED
        BY <4>1, <3>1, <2>1, <1>t
    <3> QED
      BY <3>2, <3>3
  <2>6. \A d \in Dogs : pc[d] = "none" => dog[d].probe_fails = 0 /\ dog[d].misses = 0
    BY <1>n DEF DogsFit
  <2> QED
    BY <2>1, <2>2, <2>3, <2>4, <2>5, <2>6 DEF Healthy, Launched
<1>4. ASSUME NEW t \in Threads, ConnectStep(t) PROVE Healthy'
  <2>0. /\ slot = t /\ pc[t] \in OpSteps /\ At = pc[t] /\ slot # None
        /\ link' = link /\ cfg' = cfg
    BY <1>4, <1>t, ConnectMoves
    DEF SlotHolds, At, ConnectStep, Relift, Restop, Plan, Arm, Launch, Integrate, Claim, Probe,
        OkRoute, OkCheck, After, Finish
  <2>c. ConnectCourse(t)
    BY ConnectMoves
  <2>2. CASE Finish(t)
    <3>1. snap.want_watchdog /\ Runs /\ Runs'
      BY <2>0, <2>2, <2>c
      DEF ConnectCourse, Healthy, Launched, Runs, Up, Adapter, EnableTun, Finish
    <3>2. /\ slot' = None /\ At' = "none"
      BY <2>2, <2>c DEF Finish, ConnectCourse
    <3>3. \A d \in Dogs : pc'[d] = pc[d] \/ pc'[d] \in {"rest", "settle"}
      BY <2>2, <1>t DEF Finish
    <3>4. \A d \in Dogs : \/ dog'[d] = NewDog
                          \/ dog'[d] = dog[d] /\ (dog[d].stop \/ pc[d] = "none")
      <4>1. CASE cur # None
        <5>1. dog' = [dog EXCEPT ![cur] = NewDog]
          BY <2>2, <3>1, <4>1 DEF Finish
        <5> QED
          BY <5>1, <4>1, <1>t DEF DogsFit
      <4>2. CASE cur = None
        BY <2>2, <3>1, <4>2, <1>t DEF Finish, DogsFit
      <4> QED
        BY <4>1, <4>2
    <3>5. \A d \in Dogs : pc[d] = "none" => dog[d] = NewDog
      BY DEF DogsFit
    <3>6. \A d \in Dogs :
            (dog'[d].stop /\ dog'[d] = dog[d]) \/ (dog'[d].probe_fails = 0 /\ dog'[d].misses = 0)
      BY <3>4, <3>5, <1>n
    <3> QED
      BY <2>0, <3>1, <3>2, <3>3, <3>6 DEF Healthy, Launched
  <2>3. CASE ~Finish(t)
    <3>1. dog' = dog /\ cur' = cur
      BY <1>4, <2>3
      DEF ConnectStep, Relift, Restop, Plan, Arm, Launch, Integrate, Claim, Probe, OkRoute,
          OkCheck, After
    <3>2. slot' = slot
      <4>1. CASE OkRoute(t)
        <5>1. TunOwnsDefault(Installed(net))
          <6>1. Installed(net).split /\ Installed(net).foreign = net.foreign
            BY <1>t, RoutesDo
          <6> QED
            BY <6>1 DEF TunOwnsDefault
        <5> QED
          BY <4>1, <5>1 DEF OkRoute
      <4>2. CASE ~OkRoute(t)
        BY <1>4, <2>3, <4>2, <1>f
        DEF ConnectStep, Relift, Restop, Plan, Arm, Launch, Integrate, Claim, Probe, OkCheck, After
      <4> QED
        BY <4>1, <4>2
    <3>3. At \notin {"relift", "restop", "plan"} \/ t = Gui
      BY <2>0, <1>t DEF Healthy, Threads
    <3>4. At' \in Launched => Runs'
      <4>1. CASE Launch(t)
        <5>1. sb' = IF EnableTun THEN "tun" ELSE "socks"
          BY <4>1, <1>f DEF Launch
        <5> QED
          BY <5>1, <2>0 DEF Runs, Up, Adapter, EnableTun
      <4>2. CASE ~Launch(t) /\ At' \in Launched
        <5>1. At \in Launched
          BY <1>4, <2>3, <2>c, <4>2 DEF ConnectCourse, ConnectStep, Launched
        <5>2. sb' = sb
          BY <1>4, <2>3, <2>c, <4>2, <5>1
          DEF ConnectCourse, ConnectStep, Launched, Integrate, Claim, Probe, OkRoute, OkCheck, After
        <5> QED
          BY <5>1, <5>2, <2>0 DEF Healthy, Runs, Up, Adapter, EnableTun
      <4> QED
        BY <4>1, <4>2
    <3>5. At' \in {"arm", "launch"} \cup Launched => snap'.want_watchdog
      <4>1. CASE Plan(t)
        <5>1. snap'.want_watchdog = (t = Gui \/ pc[t] = "tun_plan")
          BY <4>1, <1>f, <1>t DEF Plan, Snapshots
        <5>2. At \in {"plan", "tun_plan"}
          BY <4>1, <2>c DEF ConnectCourse
        <5> QED
          BY <5>1, <5>2, <3>3, <2>0
      <4>2. CASE ~Plan(t)
        <5>1. At' \in {"arm", "launch"} \cup Launched => At \in {"arm", "launch"} \cup Launched
          BY <1>4, <2>3, <2>c, <4>2 DEF ConnectCourse, ConnectStep, Launched
        <5>2. snap'.want_watchdog = snap.want_watchdog
          BY <1>4, <2>3, <4>2, <1>f, <1>t
          DEF ConnectStep, Relift, Restop, Arm, Launch, Integrate, Claim, Probe, OkRoute, OkCheck,
              After, SealOnDeadExit, NoConfig, Snapshots
        <5> QED
          BY <5>1, <5>2 DEF Healthy
      <4> QED
        BY <4>1, <4>2
    <3>6. At' \notin {"d_core", "d_teardown", "d_join", "d_finish"}
      BY <1>4, <2>c DEF ConnectCourse, ConnectStep
    <3>7. \A d \in Dogs : pc'[d] = pc[d] \/ (d = t /\ pc'[d] = At')
      <4>1. \A d \in Dogs : d # t => pc'[d] = pc[d]
        BY <1>4, <2>3, <1>t
        DEF ConnectStep, Relift, Restop, Plan, Arm, Launch, Integrate, Claim, Probe, OkRoute,
            OkCheck, After, FailConnect, Go, LeaveOp
      <4> QED
        BY <4>1, <3>2, <2>0 DEF At
    <3>8. t \in Dogs => At' \notin {"react", "call", "relift", "restop", "plan", "probing", "owner",
                                   "tun_react", "tun_call"}
      <4>1. t \in Dogs => At \notin {"relift", "restop"}
        BY <3>3, <1>t
      <4> QED
        BY <4>1, <1>4, <2>c DEF ConnectCourse, ConnectStep
    <3> QED
      BY <2>0, <3>1, <3>2, <3>4, <3>5, <3>6, <3>7, <3>8 DEF Healthy
  <2> QED
    BY <2>2, <2>3
<1>5. ASSUME NEW d \in Dogs, DogStep(d) PROVE Healthy'
  <2>0. /\ \A u \in Threads : pc'[u] = pc[u] \/ u = d
        /\ UNCHANGED <<snap, cfg, cur, sb, link>>
        /\ pc[d] \notin OpSteps \cup {"none"}
        /\ \/ slot' = slot /\ At' = At
           \/ slot' = d /\ At' \in {"relift", "tun_plan"} /\ TickReconnect(d)
    BY <1>5, DogMoves, BesideKeeps
  <2>1. \A u \in Dogs : u # d => dog'[u] = dog[u] /\ pc'[u] = pc[u]
    BY <2>0, <1>5, <1>t
    DEF DogStep, Tick, TickProbe, TickOwner, TickLift, TickReconnect, Settle, DogEnds
  <2>2. slot = None /\ ~dog[d].stop => Runs /\ link
    BY <2>0, <1>t DEF DogsFit, Healthy
  <2>3. /\ pc'[d] \notin {"react", "call", "relift", "restop", "plan"}
        /\ \/ slot' = None /\ ~dog'[d].stop
           \/ pc'[d] \in {"probing", "owner", "tun_react", "tun_call"}
           => dog'[d].probe_fails = 0 /\ dog'[d].misses = 0
    <3>1. CASE Tick(d)
      <4>1. slot = None /\ ~dog[d].stop /\ Up /\ slot' = None /\ pc'[d] = "probing" /\ dog' = dog
        BY <3>1, <2>2, <1>t DEF Tick, Runs, Go
      <4> QED
        BY <4>1 DEF Healthy
    <3>2. CASE TickProbe(d)
      <4>1. /\ pc[d] = "probing" /\ dog[d].probe_fails = 0 /\ dog[d].misses = 0 /\ slot' = slot
        BY <3>2 DEF TickProbe, Go, Healthy
      <4>2. Count(dog[d].probe_fails) = 1
        BY <4>1 DEF Count
      <4>3. CASE Up /\ link
        <5>1. pc'[d] \in {"tun_react", "owner"} /\ dog' = [dog EXCEPT ![d].probe_fails = 0]
          BY <3>2, <4>3, <1>t DEF TickProbe, Go
        <5>2. dog'[d].probe_fails = 0 /\ dog'[d].misses = 0
          BY <5>1, <4>1, <1>t DEF Watchdog
        <5> QED
          BY <5>1, <5>2
      <4>4. CASE ~(Up /\ link)
        <5>1. pc'[d] = "rest" /\ dog' = [dog EXCEPT ![d].probe_fails = 1]
          BY <3>2, <4>2, <4>4, <1>t DEF TickProbe, Go
        <5>2. dog'[d].stop = dog[d].stop
          BY <5>1, <1>t DEF Watchdog
        <5> QED
          BY <5>1, <5>2, <4>1, <4>4, <2>2 DEF Runs
      <4> QED
        BY <4>3, <4>4
    <3>3. CASE TickOwner(d)
      <4>1. /\ pc[d] = "owner" /\ dog[d].probe_fails = 0 /\ dog[d].misses = 0 /\ slot' = slot
            /\ pc'[d] = "rest"
        BY <3>3, <1>t DEF TickOwner, Go, Healthy
      <4>2. dog'[d].stop = dog[d].stop /\ dog'[d].probe_fails = 0
        BY <3>3, <4>1, <1>t DEF TickOwner, Watchdog
      <4>3. slot = None /\ ~dog[d].stop => dog'[d].misses = 0
        <5>1. Adapter => TunOwnsDefault(ReclaimTunDefault(net, Adapter))
          BY <1>t, ReclaimDo
        <5>2. slot = None /\ ~dog[d].stop /\ EnableTun => Adapter
          BY <2>2 DEF Runs
        <5> QED
          BY <3>3, <4>1, <5>1, <5>2, <1>t DEF TickOwner, Watchdog
      <4> QED
        BY <4>1, <4>2, <4>3
    <3>4. CASE TickLift(d)
      <4>1. pc[d] = "tun_react" /\ pc'[d] = "tun_call" /\ dog' = dog
        BY <3>4, <1>t DEF TickLift, Go, Healthy
      <4> QED
        BY <4>1 DEF Healthy
    <3>5. CASE TickReconnect(d)
      <4>1. pc[d] = "tun_call" /\ dog' = dog /\ dog[d].probe_fails = 0 /\ dog[d].misses = 0
        BY <3>5, <1>t DEF TickReconnect, Healthy
      <4>2. pc'[d] \in {"tun_plan", "rest"}
        BY <3>5, <4>1, <1>t DEF TickReconnect, Begin
      <4> QED
        BY <4>1, <4>2
    <3>6. CASE Settle(d)
      <4>1. /\ pc'[d] = "rest" /\ slot' = slot
            /\ dog'[d] = [NewDog EXCEPT !.stop = dog[d].stop] \/ dog'[d] = dog[d]
        BY <3>6, <1>t DEF Settle, Go
      <4>2. dog'[d].stop = dog[d].stop
        BY <4>1 DEF NewDog
      <4>3. slot = None /\ ~dog[d].stop => dog'[d].probe_fails = 0 /\ dog'[d].misses = 0
        BY <4>1 DEF NewDog, Healthy
      <4> QED
        BY <4>1, <4>2, <4>3
    <3>7. CASE DogEnds(d)
      <4>1. pc'[d] = "none" /\ dog'[d] = NewDog
        BY <3>7, <1>t DEF DogEnds, Go
      <4> QED
        BY <4>1, <1>n
    <3> QED
      BY <1>5, <3>1, <3>2, <3>3, <3>4, <3>5, <3>6, <3>7 DEF DogStep
  <2>4. slot' # None \/ slot' = slot
    BY <2>0, <1>t
  <2>5. Runs' = Runs
    BY <2>0 DEF Runs, Up, Adapter, EnableTun
  <2>6. \A u \in Dogs : u # d => (slot' = None => slot = None)
    BY <2>4
  <2>7. At' \in {"relift", "tun_plan"} \/ At' = At
    BY <2>0
  <2> QED
    BY <2>0, <2>1, <2>3, <2>4, <2>5, <2>7 DEF Healthy, Launched
<1>6. CASE Clearer \/ World
  <2>1. /\ UNCHANGED <<pc, cur, dog, snap, cfg, slot>> /\ At' = At
    BY <1>6, WorldMoves, BesideKeeps
  <2>2. sb' = sb /\ link' = link
    BY <1>6, <1>f DEF Healthy, Clearer, ClearShield, ClearRoutes, World, Crash, LinkDown, LinkUp,
                      ForeignUp, ForeignDown
  <2>3. Runs' = Runs
    BY <2>1, <2>2 DEF Runs, Up, Adapter, EnableTun
  <2> QED
    BY <2>1, <2>2, <2>3 DEF Healthy
<1> QED
  BY <1>1, <1>2, <1>3, <1>4, <1>5, <1>6 DEF Next

\* With the adapter there and no other VPN the TUN routes can be reclaimed,
\* and nothing is sealed.
AdapterStays == ~net.foreign /\ (At \in Launched /\ EnableTun => Adapter)

\* Why no tick puts blackholes up beside a launched connect: without overlap
\* because there is no tick; with it because there is nothing to seal, or, after
\* a crash, because it is too early to.
NobodySeals ==
  IF ~Overlap THEN TicksAlone
  ELSE IF "crash" \notin Faults THEN AdapterStays
  ELSE CalmInv

\* UpIsOpen as an invariant of the steps before the last.
OpenInv == SlotInv /\ NobodySeals /\ OpenFits

\* At the start nothing has gone wrong.
LEMMA InitHealthy == Init => Healthy
<1> SUFFICES ASSUME Init PROVE Healthy
  OBVIOUS
<1>1. \A d \in Dogs : pc[d] = "none" /\ dog[d].probe_fails = 0 /\ dog[d].misses = 0
  BY LifecycleAssumption DEF Init, Threads, NewDog, LifecycleAssumption
<1>2. link /\ cur = None /\ At = "none"
  BY DEF Init, At
<1> QED
  BY <1>1, <1>2 DEF Healthy, Launched

\* A crash that uses up the only fault is met by nobody who has missed before.
LEMMA StepCrashSpares ==
  ASSUME MaxFaults <= 1, SlotInv, CalmInv, [Next]_vars
  PROVE  CrashSpares'
<1> SUFFICES ASSUME At' \in Launched, ~Runs'
             PROVE  sb' = "down" /\ \A d \in Dogs : pc'[d] = "owner" => dog'[d].misses = 0
  BY DEF CrashSpares
<1>t. /\ pc \in [Threads -> PcValues] /\ dog \in [Dogs -> Watchdog] /\ Dogs \subseteq Threads
      /\ faults \in 0 .. MaxFaults /\ MaxFaults \in Nat
  BY LifecycleAssumption DEF SlotInv, TypeOK, LifecycleAssumption, Threads
<1>i. CrashSpares /\ (faults = 0 => Healthy)
  BY DEF CalmInv
<1>1. CASE UNCHANGED vars
  BY <1>1, <1>i DEF vars, CrashSpares, At, Runs, Up, Adapter, EnableTun
<1>2. CASE User
  BY <1>2, UserMoves DEF Launched
<1>3. CASE DisconnectStep
  BY <1>3, DisconnectMoves DEF DisconnectCourse, DisconnectStep, Launched
<1>4. ASSUME NEW t \in Threads, ConnectStep(t)
      PROVE  sb' = "down" /\ \A d \in Dogs : pc'[d] = "owner" => dog'[d].misses = 0
  <2>c. ConnectCourse(t) /\ slot = t
    BY <1>4, ConnectMoves
  <2>1. ~Finish(t)
    BY <2>c DEF ConnectCourse, Launched
  <2>2. ~Launch(t)
    <3> SUFFICES ASSUME Launch(t) PROVE FALSE
      OBVIOUS
    <3>1. ~FailConnect(t)
      BY DEF FailConnect, LeaveOp, At, Launched
    <3> QED
      BY <3>1 DEF Launch, Runs, Up, Adapter, EnableTun
  <2>3. At \in Launched
    BY <1>4, <2>1, <2>2, <2>c DEF ConnectCourse, ConnectStep, Launched
  <2>4. cfg' = cfg /\ sb' = sb /\ dog' = dog
    BY <1>4, <2>1, <2>2, <2>3, <2>c
    DEF ConnectCourse, ConnectStep, Launched, Integrate, Claim, Probe, OkRoute, OkCheck, After
  <2>5. ~Runs
    BY <2>4 DEF Runs, Up, Adapter, EnableTun
  <2>6. \A d \in Dogs : pc'[d] = "owner" => pc[d] = "owner"
    BY <1>4, <2>1, <2>2, <2>3, <2>c, <1>t
    DEF ConnectCourse, ConnectStep, Launched, Integrate, Claim, Probe, OkRoute, OkCheck, After,
        FailConnect, Go, LeaveOp
  <2> QED
    BY <1>i, <2>3, <2>4, <2>5, <2>6 DEF CrashSpares
<1>5. ASSUME NEW d \in Dogs, DogStep(d)
      PROVE  sb' = "down" /\ \A u \in Dogs : pc'[u] = "owner" => dog'[u].misses = 0
  <2>1. /\ \A u \in Threads : pc'[u] = pc[u] \/ u = d
        /\ UNCHANGED <<cfg, sb>> /\ At' = At
    BY <1>5, DogMoves, BesideKeeps DEF Launched
  <2>2. At \in Launched /\ ~Runs /\ sb = "down" /\ slot # None
    BY <1>i, <2>1 DEF CrashSpares, Runs, Up, Adapter, EnableTun, At, Launched
  <2>3. pc'[d] # "owner"
    BY <1>5, <2>2, <1>t
    DEF DogStep, Tick, TickProbe, TickOwner, TickLift, TickReconnect, Settle, DogEnds, Go, Up
  <2>4. \A u \in Dogs : u # d => dog'[u] = dog[u]
    BY <1>5, <1>t
    DEF DogStep, Tick, TickProbe, TickOwner, TickLift, TickReconnect, Settle, DogEnds
  <2> QED
    BY <1>i, <2>1, <2>2, <2>3, <2>4, <1>t DEF CrashSpares
<1>6. CASE Clearer \/ World
  <2>1. UNCHANGED <<pc, dog, cfg>> /\ At' = At
    BY <1>6, WorldMoves, BesideKeeps
  <2>2. CASE Crash
    <3>1. sb' = "down" /\ faults = 0
      BY <2>2, <1>t DEF Crash, Fault
    <3> QED
      BY <3>1, <2>1, <1>i DEF Healthy
  <2>3. CASE ~Crash
    <3>1. sb' = sb
      BY <1>6, <2>3
      DEF Clearer, ClearShield, ClearRoutes, World, LinkDown, LinkUp, ForeignUp, ForeignDown
    <3> QED
      BY <3>1, <2>1, <1>i DEF CrashSpares, Runs, Up, Adapter, EnableTun
  <2> QED
    BY <2>2, <2>3
<1> QED
  BY <1>1, <1>2, <1>3, <1>4, <1>5, <1>6 DEF Next

\* The three parts of CalmInv together.
LEMMA StepCalmInv ==
  ASSUME MaxFaults <= 1, "foreign" \notin Faults
  PROVE  SlotInv /\ CalmInv /\ [Next]_vars => CalmInv'
<1> SUFFICES ASSUME SlotInv, CalmInv, [Next]_vars PROVE CalmInv'
  OBVIOUS
<1>1. ~net'.foreign
  <2>1. ~ForeignUp
    BY DEF ForeignUp, Fault
  <2> QED
    BY <2>1, ForeignKept DEF SlotInv, CalmInv
<1>2. faults' = 0 => faults = 0
  BY FaultsCount DEF SlotInv
<1> QED
  BY <1>1, <1>2, StepDogsFit, StepHealthy, StepCrashSpares DEF CalmInv

\* The process and its adapter, once launched, stay until the end of the
\* operation unless it crashes.
LEMMA StepAdapterStays ==
  ASSUME {"crash", "foreign"} \cap Faults = {}
  PROVE  SlotInv /\ AdapterStays /\ [Next]_vars => AdapterStays'
<1> SUFFICES ASSUME SlotInv, AdapterStays, [Next]_vars PROVE AdapterStays'
  OBVIOUS
<1>i. net \in Net /\ ~net'.foreign
  <2>1. ~ForeignUp
    BY DEF ForeignUp, Fault
  <2> QED
    BY <2>1, ForeignKept DEF SlotInv, TypeOK, AdapterStays
<1> SUFFICES ASSUME At' \in Launched, EnableTun' PROVE Adapter'
  BY <1>i DEF AdapterStays
<1>1. CASE UNCHANGED vars
  BY <1>1 DEF vars, AdapterStays, At, Adapter, EnableTun
<1>2. CASE User
  BY <1>2, UserMoves DEF Launched
<1>3. CASE DisconnectStep
  BY <1>3, DisconnectMoves DEF DisconnectCourse, DisconnectStep, Launched
<1>4. ASSUME NEW t \in Threads, ConnectStep(t) PROVE Adapter'
  <2>1. ConnectCourse(t)
    BY ConnectMoves
  <2>2. CASE Launch(t)
    <3>1. ~FailConnect(t)
      BY DEF FailConnect, LeaveOp, At, Launched
    <3> QED
      BY <2>2, <3>1 DEF Launch, EnableTun, Adapter
  <2>3. CASE ~Launch(t)
    <3>1. At \in Launched
      BY <1>4, <2>1, <2>3 DEF ConnectCourse, ConnectStep, Launched
    <3>2. cfg' = cfg /\ sb' = sb
      BY <1>4, <2>1, <2>3, <3>1
      DEF ConnectCourse, ConnectStep, Launched, Integrate, Claim, Probe, OkRoute, OkCheck, After,
          Finish
    <3> QED
      BY <3>1, <3>2 DEF AdapterStays, EnableTun, Adapter
  <2> QED
    BY <2>2, <2>3
<1>5. ASSUME NEW d \in Dogs, DogStep(d) PROVE Adapter'
  <2>1. At' = At
    BY <1>5, DogMoves DEF Launched
  <2> QED
    BY <1>5, <2>1, BesideKeeps DEF AdapterStays, EnableTun, Adapter
<1>6. CASE Clearer \/ World
  <2>1. ~Crash
    BY DEF Crash, Fault
  <2>2. sb' = sb /\ cfg' = cfg /\ At' = At
    BY <1>6, <2>1, WorldMoves, BesideKeeps DEF World, LinkDown, LinkUp, ForeignUp, ForeignDown
  <2> QED
    BY <2>2 DEF AdapterStays, EnableTun, Adapter
<1> QED
  BY <1>1, <1>2, <1>3, <1>4, <1>5, <1>6 DEF Next

\* What UpIsOpen speaks of: operations and ticks do not overlap, or no other VPN
\* comes and sing-box does not crash, unless that is all that goes wrong.
OpenHolds ==
  Overlap => "foreign" \notin Faults /\ ("crash" \in Faults => MaxFaults <= 1)

\* Each reason lasts.
LEMMA StepNobodySeals ==
  ASSUME OpenHolds
  PROVE  SlotInv /\ NobodySeals /\ [Next]_vars => NobodySeals'
<1>1. CASE ~Overlap
  BY <1>1, StepTicksAlone DEF NobodySeals
<1>2. CASE Overlap /\ "crash" \notin Faults
  <2>1. {"crash", "foreign"} \cap Faults = {}
    BY <1>2 DEF OpenHolds
  <2> QED
    BY <1>2, <2>1, StepAdapterStays DEF NobodySeals
<1>3. CASE Overlap /\ "crash" \in Faults
  <2>1. MaxFaults <= 1 /\ "foreign" \notin Faults
    BY <1>3 DEF OpenHolds
  <2> QED
    BY <1>3, <2>1, StepCalmInv DEF NobodySeals
<1> QED
  BY <1>1, <1>2, <1>3

\* While NobodySeals, a tick beside a launched operation puts no blackhole up.
LEMMA NoSealBeside ==
  ASSUME SlotInv, NobodySeals, At \in Launched, NEW d \in Dogs, DogStep(d)
  PROVE  net'.hole => net.hole
<1>1. net \in Net /\ slot # None
  BY DEF SlotInv, TypeOK, At, Launched
<1>2. CASE ~Overlap
  BY <1>1, <1>2, NoTickBeside DEF NobodySeals
<1>3. CASE Overlap
  <2>1. ~Lift(net).hole /\ ~ReclaimTunDefault(net, Adapter).hole
    BY <1>1, RoutesDo, ReclaimDo
  <2>2. CASE EnableTun => Adapter
    <3>1. ~net.foreign
      BY <1>3 DEF NobodySeals, AdapterStays, CalmInv
    <3>2. EnableTun => TunOwnsDefault(ReclaimTunDefault(net, Adapter))
      BY <1>1, <2>2, <3>1, ReclaimDo
    <3> QED
      BY <2>1, <3>2
      DEF DogStep, Tick, TickProbe, TickOwner, TickLift, TickReconnect, Settle, DogEnds
  <2>3. CASE ~(EnableTun => Adapter)
    <3>1. pc[d] = "owner" => dog[d].misses = 0
      BY <1>3, <2>3 DEF NobodySeals, AdapterStays, CalmInv, CrashSpares, Runs
    <3>2. pc[d] = "owner" => Count(dog[d].misses) < 3
      BY <3>1 DEF Count
    <3> QED
      BY <2>1, <3>2
      DEF DogStep, Tick, TickProbe, TickOwner, TickLift, TickReconnect, Settle, DogEnds, Go
  <2> QED
    BY <2>2, <2>3
<1> QED
  BY <1>2, <1>3

\* Every step keeps OpenInv.
LEMMA StepOpenInv ==
  ASSUME OpenHolds
  PROVE  OpenInv /\ [Next]_vars => OpenInv'
<1> SUFFICES ASSUME OpenInv, [Next]_vars PROVE OpenFits'
  BY StepSlotInv, StepNobodySeals DEF OpenInv
<1>i. /\ SlotInv /\ NobodySeals /\ OpenFits /\ net \in Net /\ snap \in Snapshots
      /\ faults \in Nat
  BY LifecycleAssumption DEF OpenInv, SlotInv, TypeOK, LifecycleAssumption
<1>1. CASE UNCHANGED vars
  BY <1>1, <1>i DEF vars, OpenFits, At, EnableTun
<1>2. CASE User
  BY <1>2, <1>i, UserMoves DEF OpenFits
<1>3. CASE DisconnectStep
  BY <1>3, <1>i, DisconnectMoves DEF DisconnectCourse, DisconnectStep, OpenFits
<1>4. ASSUME NEW t \in Threads, ConnectStep(t) PROVE OpenFits'
  <2>1. ConnectCourse(t)
    BY <1>i, ConnectMoves
  <2>2. CASE Integrate(t)
    <3> SUFFICES ASSUME At' = "claim", EnableTun' PROVE snap'.pending_win_tun
      BY <2>1, <2>2 DEF ConnectCourse, OpenFits
    <3>1. ~FailConnect(t)
      BY DEF FailConnect, LeaveOp, At
    <3> QED
      BY <2>2, <3>1, <1>i DEF Integrate, EnableTun, Snapshots
  <2>3. CASE Claim(t)
    <3>1. cfg' = cfg /\ (sb = "down" => snap'.err # "")
      BY <2>3, <1>i DEF Claim, Snapshots
    <3>2. CASE sb = "down" \/ snap' = snap
      <4>1. /\ snap'.pending_win_tun = snap.pending_win_tun
            /\ snap' = snap => At' = "probe" \/ sb = "down"
        BY <2>1, <2>3, <3>2, <1>i DEF Claim, Snapshots, ConnectCourse
      <4> QED
        BY <2>1, <2>3, <3>1, <3>2, <4>1, <1>i DEF ConnectCourse, OpenFits, EnableTun
    <3>3. CASE sb # "down" /\ snap' # snap
      <4>1. ~snap'.pending_win_tun => ~net'.hole
        <5>1. InstallWinTunRoutes /\ snap'.pending_win_tun = ~TunOwnsDefault(net')
          BY <2>3, <3>3, <1>i DEF Claim, Snapshots
        <5> QED
          BY <5>1, <1>i, InstallDo DEF TunOwnsDefault
      <4> QED
        BY <2>1, <2>3, <3>3, <4>1 DEF ConnectCourse, OpenFits
    <3> QED
      BY <3>2, <3>3
  <2>4. CASE Probe(t)
    <3>1. /\ cfg' = cfg /\ snap'.pending_win_tun = snap.pending_win_tun /\ net' = net
      BY <2>4, <1>i DEF Probe, Snapshots
    <3>2. At' = "after" => snap'.err # ""
      <4>1. Go(t, "probe", "okroute") => At' = "okroute"
        BY <2>4, <1>i, OpMoves DEF Probe, SlotInv, OpSteps, DiscSteps
      <4> QED
        BY <2>4, <1>i, <4>1 DEF Probe, Snapshots
    <3> QED
      BY <2>1, <2>4, <3>1, <3>2, <1>i DEF ConnectCourse, OpenFits, EnableTun
  <2>5. CASE OkRoute(t)
    <3>1. snap'.err = ""
      BY <2>5, <1>i DEF OkRoute, Snapshots
    <3> QED
      BY <2>1, <2>5, <3>1 DEF ConnectCourse, OpenFits
  <2>6. CASE OkCheck(t)
    <3>1. ~net'.hole
      BY <2>6, <1>i, RoutesDo, ReclaimDo DEF OkCheck
    <3> QED
      BY <2>1, <2>6, <3>1 DEF ConnectCourse, OpenFits
  <2>7. CASE After(t)
    <3>1. snap'.err = "" => net' = net
      BY <2>7, <1>i DEF After, SealOnDeadExit, NoConfig, Snapshots
    <3>2. snap'.err = "" => snap.err = "" \/ (EnableTun /\ ~snap.pending_win_tun)
      BY <2>7, <1>i DEF After, SealOnDeadExit, NoConfig, Snapshots, EnableTun
    <3> QED
      BY <2>1, <2>7, <3>1, <3>2, <1>i DEF ConnectCourse, OpenFits
  <2> QED
    BY <1>4, <2>1, <2>2, <2>3, <2>4, <2>5, <2>6, <2>7 DEF ConnectStep, ConnectCourse, OpenFits
<1>5. ASSUME NEW d \in Dogs, DogStep(d) PROVE OpenFits'
  <2>1. UNCHANGED <<snap, cfg>>
    BY <1>5, <1>i, BesideKeeps
  <2>2. At' = At \/ At' \in {"relift", "tun_plan"}
    BY <1>5, <1>i, DogMoves
  <2>3. At \in Launched => (net'.hole => net.hole)
    BY <1>5, <1>i, NoSealBeside
  <2> QED
    BY <2>1, <2>2, <2>3, <1>i DEF OpenFits, EnableTun, Launched
<1>6. CASE Clearer \/ World
  <2>1. UNCHANGED <<snap, cfg>> /\ At' = At
    BY <1>6, <1>i, BesideKeeps, WorldMoves
  <2>2. net'.hole => net.hole
    BY <1>6, <1>i
    DEF Clearer, ClearShield, ClearRoutes, World, Crash, LinkDown, LinkUp, ForeignUp, ForeignDown,
        Killed, AdapterGone, RestoreShield, RemoveRoutes, Net
  <2> QED
    BY <2>1, <2>2, <1>i DEF OpenFits, EnableTun
<1> QED
  BY <1>1, <1>2, <1>3, <1>4, <1>5, <1>6 DEF Next

\* UpIsOpen, as long as operations and ticks do not overlap, or no other VPN
\* comes and sing-box does not crash, unless a crash is all that goes wrong: no
\* connect ends in UP with the blackholes of an earlier one in the table, nor
\* with those of a tick beside it.
THEOREM UpAlwaysOpen ==
  ASSUME OpenHolds
  PROVE  Spec => UpIsOpen
<1>1. Init => OpenInv
  <2> SUFFICES ASSUME Init PROVE OpenInv
    OBVIOUS
  <2>1. At = "none" /\ ~net.foreign
    BY DEF Init, At, NoRoutes
  <2>2. CalmInv
    BY <2>1, InitDogsFit, InitHealthy DEF CalmInv, CrashSpares, Launched
  <2> QED
    BY <2>1, <2>2, InitSlotInv, InitTicksAlone
    DEF OpenInv, NobodySeals, AdapterStays, OpenFits, Launched
<1>2. OpenInv /\ [Next]_vars => [snap'.phase = "up" /\ snap.phase # "up" => ~net'.hole]_vars
  <2> SUFFICES ASSUME OpenInv, [Next]_vars, snap'.phase = "up", snap.phase # "up"
               PROVE  ~net'.hole
    OBVIOUS
  <2>i. SlotInv /\ OpenFits /\ snap \in Snapshots
    BY DEF OpenInv, SlotInv, TypeOK
  <2>1. PICK t \in Threads : Finish(t)
    BY <2>i, OnlyFinish
  <2>2. At = "finish"
    BY <2>1, <2>i, ConnectMoves DEF ConnectCourse
  <2>3. snap.err = "" /\ net' = net
    BY <2>1, <2>i DEF Finish, Snapshots
  <2> QED
    BY <2>2, <2>3, <2>i DEF OpenFits
<1> QED
  BY <1>1, <1>2, StepOpenInv, PTL DEF Spec, UpIsOpen

-----------------------------------------------------------------------------

\* What FailClosedIsSealed speaks of: operations and ticks do not overlap, a
\* seal finds the gateway and does not give up on a silent server, the
\* configuration is read and accepted, the clearing thread and the files of a
\* disconnect are in time, and when both a crash and another VPN are among the
\* faults there are at most two.
SealsHold ==
  /\ ~Overlap
  /\ {"gateway", "silent", "config", "plan", "slowclear", "unlink"} \cap Faults = {}
  /\ {"crash", "foreign"} \subseteq Faults => MaxFaults <= 2

\* Faults are counted: another VPN and a link that is down have each used up
\* one.
Spent ==
  /\ net.foreign => "foreign" \in Faults /\ faults >= 1
  /\ ~link => faults >= 1
  /\ net.foreign /\ ~link => faults >= 2

\* A dead exit needs a fault, and another VPN one of its own.
Paid == faults >= 1 /\ (net.foreign => faults >= 2)

\* A launched process that is not up has crashed or its link is down.
LossIsPaid == At \in Launched /\ ~Up => Paid

\* A connection whose exit is dead, with its routes.
DeadExit == Paid /\ (Adapter => net.split)

\* The current watchdog is about to reconnect.
CurCalls == cur # None /\ pc[cur] \in {"call", "tun_call"}

\* It has missed its exit once or twice and counts on.
CurCounts == cur # None /\ dog[cur].misses \in 1..2

\* FAIL_CLOSED along a connect and between operations: sealed at the end of
\* the connect; then sealed, or the watchdog is at work, or another VPN has
\* taken the routes over and both faults are used up.
SealedFits ==
  /\ At \in {"arm", "launch", "integrate", "claim", "probe", "okroute", "okcheck", "after"}
       => ~snap.fail_closed
  /\ At = "finish" /\ snap.fail_closed => net.hole /\ DeadExit
  /\ snap.phase = "fail_closed" => DeadExit
  /\ snap.phase = "fail_closed" /\ slot = None =>
       \/ net.hole \/ CurCalls
       \/ (net.split /\ "foreign" \in Faults /\ faults >= 2)
       \/ (~net.split /\ CurCounts)
  /\ snap.phase = "fail_closed" /\ cur # None /\ pc[cur] = "settle" => net.hole

\* FailClosedIsSealed needs all of it: the routes of UP, the lonely ticks and
\* the ledger of the faults.
SealedInv == OwnInv /\ TicksAlone /\ Spent /\ LossIsPaid /\ SealedFits

\* The ledger of the faults that have been used up.
LEMMA StepSpent == TypeOK /\ Spent /\ [Next]_vars => Spent'
<1> SUFFICES ASSUME TypeOK, Spent, [Next]_vars PROVE Spent'
  OBVIOUS
<1>i. faults \in Nat /\ faults' \in Nat /\ faults' >= faults /\ net \in Net
  BY FaultsCount DEF TypeOK
<1>1. CASE ForeignUp
  BY <1>1, <1>i DEF ForeignUp, Fault, Spent, Net
<1>2. CASE ~ForeignUp
  <2>1. net'.foreign => net.foreign
    BY <1>2, ForeignKept
  <2>2. CASE LinkDown
    BY <2>1, <2>2, <1>i DEF LinkDown, Fault, Spent
  <2>3. CASE ~LinkDown
    <3>1. link' = link \/ link'
      <4>1. CASE User \/ DisconnectStep \/ Clearer \/ World \/ UNCHANGED vars
        BY <4>1, <2>3
        DEF vars, User, UserConnect, UserReconnect, UserDisconnect, UserTunOn, UserTunOff,
            UserBegins,
            DisconnectStep, DiscStop, DiscCore, DiscTeardown, DiscJoin, DiscFinish,
            Clearer, ClearShield, ClearRoutes, World, Crash, LinkUp, ForeignUp, ForeignDown
      <4>2. ASSUME NEW t \in Threads, ConnectStep(t) PROVE link' = link
        BY <4>2
        DEF ConnectStep, Relift, Restop, Plan, Arm, Launch, Integrate, Claim, Probe, OkRoute,
            OkCheck, After, Finish
      <4>3. ASSUME NEW d \in Dogs, DogStep(d) PROVE link' = link
        BY <4>3
        DEF DogStep, Tick, TickProbe, TickOwner, TickLift, TickReconnect, Settle, DogEnds
      <4> QED
        BY <4>1, <4>2, <4>3 DEF Next
    <3> QED
      BY <2>1, <3>1, <1>i DEF Spent
  <2> QED
    BY <2>2, <2>3
<1> QED
  BY <1>1, <1>2

\* What has been paid stays paid, and another VPN costs a fault of its own.
LEMMA PaidStays == TypeOK /\ Spent /\ Paid /\ [Next]_vars => Paid'
<1> SUFFICES ASSUME TypeOK, Spent, Paid, [Next]_vars PROVE Paid'
  OBVIOUS
<1>i. faults \in Nat /\ faults' \in Nat /\ faults' >= faults /\ net \in Net
  BY FaultsCount DEF TypeOK
<1>1. CASE ForeignUp
  BY <1>1, <1>i DEF ForeignUp, Fault, Paid, Net
<1>2. CASE ~ForeignUp
  <2>1. net'.foreign => net.foreign
    BY <1>2, ForeignKept
  <2> QED
    BY <2>1, <1>i DEF Paid
<1> QED
  BY <1>1, <1>2

\* A launched sing-box that is gone has crashed.
LEMMA StepLossIsPaid == SlotInv /\ Spent /\ LossIsPaid /\ [Next]_vars => LossIsPaid'
<1> SUFFICES ASSUME SlotInv, Spent, LossIsPaid, [Next]_vars, At' \in Launched, ~Up' PROVE Paid'
  BY DEF LossIsPaid
<1>i. TypeOK /\ net \in Net /\ faults \in Nat
  BY FaultsCount DEF SlotInv, TypeOK
<1>0. CASE At \in Launched /\ ~Up
  BY <1>0, <1>i, PaidStays DEF LossIsPaid
<1>c. CASE Crash
  BY <1>c, <1>i DEF Crash, Fault, Spent, Paid, Killed, AdapterGone, Net
<1>1. CASE UNCHANGED vars
  BY <1>0, <1>1 DEF vars, At, Up
<1>2. CASE User
  BY <1>2, UserMoves DEF Launched
<1>3. CASE DisconnectStep
  BY <1>3, DisconnectMoves DEF DisconnectCourse, DisconnectStep, Launched
<1>4. ASSUME NEW t \in Threads, ConnectStep(t) PROVE Paid'
  <2>1. ConnectCourse(t)
    BY ConnectMoves
  <2>2. ~Launch(t)
    <3>1. ~FailConnect(t)
      BY DEF FailConnect, LeaveOp, At, Launched
    <3> QED
      BY <3>1 DEF Launch, Up
  <2>3. At \in Launched
    BY <1>4, <2>1, <2>2 DEF ConnectCourse, ConnectStep, Launched
  <2>4. sb' = sb
    BY <1>4, <2>1, <2>2, <2>3
    DEF ConnectCourse, ConnectStep, Launched, Integrate, Claim, Probe, OkRoute, OkCheck, After,
        Finish
  <2> QED
    BY <1>0, <2>3, <2>4 DEF Up
<1>5. ASSUME NEW d \in Dogs, DogStep(d) PROVE Paid'
  <2>1. At' = At
    BY <1>5, DogMoves DEF Launched
  <2> QED
    BY <1>0, <1>5, <2>1, BesideKeeps DEF Up
<1>6. CASE Clearer \/ (World /\ ~Crash)
  <2>1. sb' = sb /\ At' = At
    BY <1>6, WorldMoves, BesideKeeps DEF World, LinkDown, LinkUp, ForeignUp, ForeignDown
  <2> QED
    BY <1>0, <2>1 DEF Up
<1> QED
  BY <1>c, <1>1, <1>2, <1>3, <1>4, <1>5, <1>6 DEF Next

\* A dead exit that has been paid stays one while the routes do.
LEMMA DeadExitStays ==
  ASSUME TypeOK, Spent, DeadExit, [Next]_vars, Adapter' => Adapter /\ (net.split => net'.split)
  PROVE  DeadExit'
  BY PaidStays DEF DeadExit

\* Every step keeps SealedFits.
LEMMA StepSealedFits ==
  ASSUME SealsHold
  PROVE  SealedInv /\ [Next]_vars => SealedFits'
<1> SUFFICES ASSUME SealedInv, [Next]_vars PROVE SealedFits'
  OBVIOUS
<1>h. /\ ~Overlap
      /\ {"gateway", "silent", "config", "plan", "slowclear", "unlink"} \cap Faults = {}
      /\ {"crash", "foreign"} \subseteq Faults => MaxFaults <= 2
  BY DEF SealsHold
<1>i. /\ SlotInv /\ TicksAlone /\ Spent /\ LossIsPaid /\ SealedFits /\ ClearerFits
      /\ RoutedOrPending
      /\ PhaseInv /\ TypeOK /\ net \in Net /\ snap \in Snapshots /\ dog \in [Dogs -> Watchdog]
      /\ pc \in [Threads -> PcValues] /\ cur \in Dogs \cup {None} /\ None \notin Dogs
      /\ Dogs \subseteq Threads /\ Gui \notin Dogs
  BY LifecycleAssumption
  DEF SealedInv, OwnInv, SlotInv, TypeOK, LifecycleAssumption, Threads
<1>f. faults \in Nat /\ faults' \in Nat /\ faults' >= faults /\ faults <= MaxFaults
  BY <1>i, FaultsCount
<1>n. At = "none" <=> slot = None
  BY <1>i DEF At, SlotInv, SlotHolds, TypeOK, OpSteps
<1>s. snap.phase = "fail_closed" =>
        At \in {"none", "relift", "restop", "plan", "tun_plan", "d_stop"}
  BY <1>i, PhaseAt DEF Settled
<1> DEFINE Open == {"arm", "launch", "integrate", "claim", "probe", "okroute", "okcheck", "after"}
<1>1. CASE UNCHANGED vars
  BY <1>1, <1>i DEF vars, SealedFits, At, CurCalls, CurCounts, DeadExit, Paid, Adapter
<1>2. CASE User
  <2>1. /\ UNCHANGED <<snap, sb, dog, cur, faults>> /\ net'.split = net.split
        /\ net'.hole = net.hole /\ net'.foreign = net.foreign
    BY <1>2, <1>i, RoutesDo
    DEF User, UserConnect, UserReconnect, UserDisconnect, UserTunOn, UserTunOff, UserBegins
  <2>2. slot = None /\ At' \notin Open \cup {"finish"} /\ \A d \in Dogs : pc'[d] = pc[d]
    BY <1>2, <1>i, UserMoves
  <2> QED
    BY <2>1, <2>2, <1>i DEF SealedFits, CurCalls, CurCounts, DeadExit, Paid, Adapter
<1>3. CASE DisconnectStep
  <2>0. DisconnectCourse /\ At' \notin Open \cup {"finish"}
    BY <1>3, <1>i, DisconnectMoves DEF DisconnectCourse, DisconnectStep
  <2>1. snap'.phase # "fail_closed"
    BY <1>3, <2>0, <1>i, <1>s
    DEF DisconnectStep, DisconnectCourse, DiscStop, DiscCore, DiscTeardown, DiscJoin, DiscFinish,
        Snapshots
  <2> QED
    BY <2>0, <2>1 DEF SealedFits
<1>q. slot' # None => cur' = None \/ pc'[cur'] # "settle"
  <2>1. SlotInv' /\ TicksAlone'
    BY <1>h, <1>i, StepSlotInv, StepTicksAlone
  <2>2. cur' \in Dogs \cup {None} /\ SlotHolds'
    BY <2>1 DEF SlotInv, TypeOK
  <2> QED
    BY <2>1, <2>2, <1>i DEF TicksAlone, SlotHolds, OpSteps
<1>4. ASSUME NEW t \in Threads, ConnectStep(t) PROVE SealedFits'
  <2>1. ConnectCourse(t) /\ slot = t /\ slot # None
    BY <1>4, <1>i, ConnectMoves, LifecycleAssumption
    DEF LifecycleAssumption, Threads
  <2>2. CASE Relift(t)
    <3>1. UNCHANGED <<snap, sb>> /\ net' = Lift(net) /\ Lift(net).split = net.split
          /\ At' = "restop" /\ slot' # None
      BY <2>1, <2>2, <1>i, RoutesDo DEF Relift, ConnectCourse
    <3>2. snap'.phase = "fail_closed" => DeadExit'
      BY <3>1, <1>i, DeadExitStays DEF SealedFits, Adapter
    <3> QED
      BY <3>1, <3>2, <1>q DEF SealedFits
  <2>3. CASE Restop(t)
    <3>1. snap' = snap /\ At' = "plan" /\ slot' # None /\ (Adapter' => Adapter /\ net' = net)
      BY <2>1, <2>3 DEF Restop, StopSingbox, ConnectCourse, Adapter
    <3>2. Adapter' => Adapter /\ (net.split => net'.split)
      BY <3>1
    <3>3. snap'.phase = "fail_closed" => DeadExit'
      <4>1. CASE Adapter'
        BY <3>1, <3>2, <1>i, <4>1, DeadExitStays DEF SealedFits
      <4>2. CASE ~Adapter'
        BY <3>1, <4>2, <1>i, PaidStays DEF SealedFits, DeadExit
      <4> QED
        BY <4>1, <4>2
    <3> QED
      BY <3>1, <3>3, <1>q DEF SealedFits
  <2>4. CASE Plan(t)
    <3>1. ~snap'.fail_closed /\ snap'.phase = "preparing" /\ At' # "finish"
      BY <2>1, <2>4, <1>h, <1>i DEF Plan, Fault, Snapshots, ConnectCourse
    <3> QED
      BY <3>1 DEF SealedFits
  <2>5. CASE Arm(t) \/ Launch(t) \/ Integrate(t) \/ Claim(t) \/ Probe(t) \/ OkRoute(t) \/ OkCheck(t)
    <3>1. snap.phase # "fail_closed" /\ ~snap.fail_closed
      BY <2>1, <2>5, <1>i, <1>s DEF ConnectCourse, SealedFits
    <3>2. snap'.phase # "fail_closed" /\ ~snap'.fail_closed /\ At' # "finish"
      <4>1. CASE Arm(t) \/ Launch(t) \/ Integrate(t)
        BY <2>1, <4>1, <3>1, <1>i DEF Arm, Launch, Integrate, FailConnect, Snapshots, ConnectCourse
      <4>2. CASE Claim(t) \/ Probe(t) \/ OkRoute(t) \/ OkCheck(t)
        BY <2>1, <4>2, <3>1, <1>i DEF Claim, Probe, OkRoute, OkCheck, Snapshots, ConnectCourse
      <4> QED
        BY <2>5, <4>1, <4>2
    <3> QED
      BY <3>2 DEF SealedFits
  <2>6. CASE After(t)
    <3>0. At = "after" /\ At' = "finish" /\ ~snap.fail_closed /\ snap.phase # "fail_closed"
          /\ snap'.phase = snap.phase /\ UNCHANGED <<sb, link>>
      BY <2>1, <2>6, <1>i, <1>s DEF ConnectCourse, SealedFits, After, SealOnDeadExit,
        NoConfig, Snapshots
    <3>1. CASE ~snap'.fail_closed
      BY <3>0, <3>1 DEF SealedFits
    <3>2. CASE snap'.fail_closed
      <4>1. /\ snap.err # "" /\ ~snap.pending_win_tun /\ ~(Up /\ link)
            /\ IF net.hole THEN net' = net ELSE SealOutcome(net)
        BY <2>6, <3>0, <3>2, <1>i DEF After, SealOnDeadExit, NoConfig, Snapshots
      <4>2. (net' = net /\ net.hole) \/ net' = Seal(net)
        BY <4>1, <1>h DEF SealOutcome, Fault
      <4>3. Seal(net).hole /\ Seal(net).split = net.split /\ Seal(net).foreign = net.foreign
        BY <1>i, RoutesDo
      <4>4. net'.hole /\ net'.split = net.split /\ net'.foreign = net.foreign
        BY <4>2, <4>3
      <4>5. Paid
        BY <3>0, <4>1, <1>i, <1>f DEF LossIsPaid, Launched, Spent, Paid
      <4>6. Adapter => net.split
        BY <3>0, <4>1, <1>i DEF RoutedOrPending
      <4>7. DeadExit'
        BY <3>0, <4>4, <4>5, <4>6, <1>i, PaidStays DEF DeadExit, Adapter
      <4> QED
        BY <3>0, <4>4, <4>7 DEF SealedFits
    <3> QED
      BY <3>1, <3>2
  <2>7. CASE Finish(t)
    <3>0. At = "finish" /\ At' = "none" /\ UNCHANGED <<sb, net, faults>>
      BY <2>1, <2>7 DEF ConnectCourse, Finish
    <3>1. snap'.phase = "fail_closed" => snap.fail_closed
      BY <2>7, <1>i DEF Finish, Snapshots
    <3> QED
      BY <3>0, <3>1, <1>i DEF SealedFits, DeadExit, Paid, Adapter
  <2> QED
    BY <1>4, <2>2, <2>3, <2>4, <2>5, <2>6, <2>7 DEF ConnectStep
<1>5. ASSUME NEW d \in Dogs, DogStep(d) PROVE SealedFits'
  <2>1. UNCHANGED <<snap, cfg, sb, link, cur>>
    BY <1>5, <1>i, BesideKeeps
  <2>2. At' = At \/ (At = "none" /\ At' \in {"relift", "tun_plan"} /\ slot' # None)
    BY <1>5, <1>i, DogMoves
  <2>3. CASE slot # None
    <3>1. net' = net /\ slot' = slot
      BY <1>5, <1>i, <2>3, NoTickBeside
    <3>2. At' = At
      BY <1>5, <1>i, <2>3, DogMoves
    <3>3. DeadExit => DeadExit'
      BY <3>1, <2>1, <1>i, DeadExitStays DEF Adapter
    <3> QED
      BY <2>1, <2>3, <3>1, <3>2, <3>3, <1>i, <1>q DEF SealedFits
  <2>4. CASE slot = None
    <3>0. At' \notin Open \cup {"finish"}
      BY <2>2, <2>4, <1>n
    <3> DEFINE Covered == \/ net.hole \/ CurCalls
                          \/ (net.split /\ "foreign" \in Faults /\ faults >= 2)
                          \/ (~net.split /\ CurCounts)
    <3> SUFFICES ASSUME snap.phase = "fail_closed"
                 PROVE  /\ DeadExit'
                        /\ slot' = None => Covered'
                        /\ cur' # None /\ pc'[cur'] = "settle" => net'.hole
      BY <2>1, <3>0 DEF SealedFits
    <3>c. Covered /\ DeadExit
      BY <2>4, <1>i DEF SealedFits
    <3>r. LET m == ReclaimTunDefault(net, Adapter)
          IN /\ m.split = (Adapter \/ net.split) /\ m.foreign = net.foreign
             /\ Seal(m).split = (Adapter \/ net.split)
             /\ Seal(m).hole
             /\ TunOwnsDefault(net) = (net.split /\ ~net.foreign)
             /\ TunOwnsDefault(m) = ((Adapter \/ net.split) /\ ~net.foreign)
             /\ Lift(net).split = net.split
      BY <1>i, RoutesDo, ReclaimDo
    <3>1. DeadExit'
      <4>1. \/ net' = net \/ net' = Lift(net)
            \/ LET m == ReclaimTunDefault(net, Adapter) IN net' = m \/ net' = Seal(m)
        BY <1>5, <1>h DEF DogStep, Tick, TickProbe, TickOwner, TickLift, TickReconnect, Settle,
                    DogEnds, SealOutcome, Fault
      <4>2. net.split => net'.split
        BY <4>1, <3>r
      <4> QED
        BY <4>2, <2>1, <3>c, <1>i, DeadExitStays DEF Adapter
    <3>3. CASE d # cur
      <4>1. pc[d] \in {"none", "rest"} /\ (pc[d] = "rest" => dog[d].stop)
        BY <3>3, <1>i DEF TicksAlone
      <4>2. DogEnds(d)
        BY <1>5, <4>1
        DEF DogStep, Tick, TickProbe, TickOwner, TickLift, TickReconnect, Settle, Go
      <4>3. net' = net /\ slot' = slot /\ faults' = faults
            /\ (cur # None => pc'[cur] = pc[cur] /\ dog'[cur] = dog[cur])
        BY <4>2, <3>3, <1>i DEF DogEnds, Go
      <4> QED
        BY <2>1, <2>4, <3>1, <3>c, <4>3, <1>i DEF SealedFits, CurCalls, CurCounts
    <3>4. CASE d = cur
      <4>n. d # None /\ cur' = d
        BY <3>4, <2>1, <1>i
      <4>1. CASE Tick(d) \/ TickProbe(d)
        <5>1. net' = net /\ pc'[d] # "settle" /\ pc[d] \notin {"call", "tun_call"}
              /\ dog'[d].misses = dog[d].misses /\ faults' = faults
          BY <4>1, <1>i DEF Tick, TickProbe, Go, Watchdog
        <5> QED
          BY <3>1, <3>4, <3>c, <4>n, <5>1 DEF CurCalls, CurCounts
      <4>2. CASE TickOwner(d)
        <5>0. pc[d] = "owner" /\ pc'[d] = "rest"
          BY <4>2, <1>i DEF TickOwner, Go
        <5>c. \/ net.hole
              \/ (net.split /\ "foreign" \in Faults /\ faults >= 2)
              \/ (~net.split /\ CurCounts)
          BY <3>c, <3>4, <5>0 DEF CurCalls
        <5>1. CASE net' = net /\ dog' = dog
          BY <3>1, <3>4, <4>n, <5>c, <5>0, <5>1, <1>f DEF CurCounts
        <5>2. CASE TunOwnsDefault(net) /\ net' = net
          <6>1. net.split
            BY <5>2, <3>r
          <6> QED
            BY <3>1, <4>n, <5>c, <5>0, <5>2, <6>1, <1>f
        <5>3. CASE /\ EnableTun /\ ~TunOwnsDefault(net)
                   /\ ~TunOwnsDefault(ReclaimTunDefault(net, Adapter))
          <6>1. CASE net' = Seal(ReclaimTunDefault(net, Adapter))
            BY <3>1, <3>r, <4>n, <5>0, <6>1
          <6>2. CASE /\ net' = ReclaimTunDefault(net, Adapter)
                     /\ dog'[d].misses \in 1..2
            <7>1. net'.split => "foreign" \in Faults /\ faults >= 2
              BY <3>r, <3>c, <5>3, <6>2, <1>i DEF Spent, DeadExit, Paid
            <7> QED
              BY <3>1, <4>n, <5>0, <6>2, <7>1, <1>f DEF CurCounts
          <6> QED
            <7>1. CASE Count(dog[d].misses) < 3
              <8>1. net' = ReclaimTunDefault(net, Adapter) /\ dog'[d].misses = Count(dog[d].misses)
                BY <4>2, <5>3, <7>1, <1>i DEF TickOwner, Watchdog
              <8>2. dog[d].misses \in 0..3
                BY <1>i DEF Watchdog, Misses
              <8>3. Count(dog[d].misses) \in 1..2
                BY <7>1, <8>2 DEF Count
              <8> QED
                BY <6>2, <8>1, <8>3
            <7>2. CASE ~(Count(dog[d].misses) < 3)
              BY <4>2, <5>3, <6>1, <7>2, <1>h DEF TickOwner, SealOutcome, Fault
            <7> QED
              BY <7>1, <7>2
        <5>4. ~TunOwnsDefault(net) => ~TunOwnsDefault(ReclaimTunDefault(net, Adapter))
          BY <3>r, <3>c DEF DeadExit
        <5> QED
          BY <4>2, <5>1, <5>2, <5>3, <5>4 DEF TickOwner
      <4>3. CASE TickLift(d)
        <5>1. pc'[d] \in {"call", "tun_call"}
          BY <4>3, <1>i DEF TickLift, Go
        <5> QED
          BY <3>1, <4>n, <5>1 DEF CurCalls
      <4>4. CASE TickReconnect(d)
        <5>1. slot' # None /\ pc'[d] \in {"relift", "tun_plan"}
          BY <4>4, <2>4, <4>n, <1>i DEF TickReconnect, Begin
        <5> QED
          BY <3>1, <4>n, <5>1
      <4>5. CASE Settle(d)
        <5>1. pc[d] = "settle" /\ pc'[d] = "rest" /\ net' = net
          BY <4>5, <1>i DEF Settle, Go
        <5>2. net.hole
          BY <3>4, <4>n, <5>1, <1>i DEF SealedFits
        <5> QED
          BY <3>1, <4>n, <5>1, <5>2
      <4>6. ~DogEnds(d)
        BY <3>4, <4>n, <1>i DEF DogEnds, TicksAlone
      <4> QED
        BY <1>5, <4>1, <4>2, <4>3, <4>4, <4>5, <4>6 DEF DogStep
    <3> QED
      BY <3>3, <3>4
  <2> QED
    BY <2>3, <2>4
<1>6. CASE Clearer
  <2>1. clr # "none"
    BY <1>6 DEF Clearer, ClearShield, ClearRoutes
  <2>2. At \in {"d_teardown", "d_join"} /\ At' = At /\ snap' = snap
    BY <1>6, <2>1, <1>i, WorldMoves, BesideKeeps DEF ClearerFits
  <2> QED
    BY <2>2, <1>s DEF SealedFits
<1>7. CASE World
  <2>1. UNCHANGED <<snap, cfg, cur, dog, slot, pc>> /\ At' = At
    BY <1>7, <1>i, BesideKeeps, WorldMoves
  <2>2. CurCalls' = CurCalls /\ CurCounts' = CurCounts
    BY <2>1 DEF CurCalls, CurCounts
  <2>p. DeadExit => Paid'
    BY <1>i, PaidStays DEF DeadExit
  <2>3. net'.hole = net.hole
    BY <1>7, <1>i
    DEF World, Crash, LinkDown, LinkUp, ForeignUp, ForeignDown, Killed, AdapterGone, Net
  <2>4. CASE Crash
    <3>0. ~net.split => ~net'.split
      BY <2>4, <1>i DEF Crash, Killed, AdapterGone, Net
    <3>1. ~Adapter'
      BY <2>4 DEF Crash, Adapter
    <3>2. "crash" \in Faults /\ faults < MaxFaults
      BY <2>4 DEF Crash, Fault
    <3>3. ~("foreign" \in Faults /\ faults >= 2)
      BY <3>2, <1>h, <1>f, LifecycleAssumption DEF LifecycleAssumption
    <3> QED
      BY <2>1, <2>2, <2>3, <2>p, <3>0, <3>1, <3>3, <1>i DEF SealedFits, DeadExit
  <2>5. CASE ~Crash
    <3>1. sb' = sb /\ net'.split = net.split
      BY <1>7, <2>5, <1>i DEF World, LinkDown, LinkUp, ForeignUp, ForeignDown, Net
    <3>2. DeadExit => DeadExit'
      BY <3>1, <1>i, DeadExitStays DEF Adapter
    <3> QED
      BY <2>1, <2>2, <2>3, <3>1, <3>2, <1>i, <1>f DEF SealedFits, Adapter
  <2> QED
    BY <2>4, <2>5
<1> QED
  BY <1>1, <1>2, <1>3, <1>4, <1>5, <1>6, <1>7 DEF Next

\* Every step keeps SealedInv.
LEMMA StepSealedInv ==
  ASSUME SealsHold
  PROVE  SealedInv /\ [Next]_vars => SealedInv'
<1>1. /\ ~Overlap /\ {"slowclear", "unlink"} \cap Faults = {}
      /\ ~({"silent", "foreign"} \subseteq Faults)
  BY DEF SealsHold
<1> QED
  BY <1>1, StepOwnInv, StepTicksAlone, StepSpent, StepLossIsPaid, StepSealedFits
  DEF SealedInv, OwnInv, SlotInv

\* FailClosedIsSealed under SealsHold: between operations the phase FAIL_CLOSED
\* stands over blackholes or TUN routes, or over a watchdog that is at work on
\* the connection; it is never shown over an open underlay that nobody repairs.
THEOREM FailClosedStaysSealed ==
  ASSUME SealsHold
  PROVE  Spec => []FailClosedIsSealed
<1>1. Init => SealedInv
  <2> SUFFICES ASSUME Init PROVE SealedInv
    OBVIOUS
  <2>1. At = "none" /\ ~net.foreign /\ link /\ snap.phase = "idle"
    BY DEF Init, At, NoRoutes
  <2> QED
    BY <2>1, InitOwnInv, InitTicksAlone DEF SealedInv, Spent, LossIsPaid, Launched, SealedFits
<1>2. SealedInv => FailClosedIsSealed
  <2> SUFFICES ASSUME SealedInv PROVE FailClosedIsSealed
    OBVIOUS
  <2>1. (CurCalls \/ CurCounts) => Repairing
    BY DEF SealedInv, OwnInv, SlotInv, TypeOK, CurCalls, CurCounts, Repairing
  <2> QED
    BY <2>1 DEF SealedInv, SealedFits, FailClosedIsSealed
<1> QED
  BY <1>1, <1>2, StepSealedInv, PTL DEF Spec
=============================================================================
