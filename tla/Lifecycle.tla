------------------------------ MODULE Lifecycle ------------------------------
(***************************************************************************)
(* A connection from the first click to the last route: the pipeline of    *)
(* named steps (desktop/lifecycle), the exit probe, the watchdog and the   *)
(* kill switch, in one GUI process run by a Windows administrator.  The    *)
(* steps run in the thread that holds the operation slot; a watchdog tick  *)
(* and the thread that clears the kill switch run beside it, and neither   *)
(* looks at the slot again.                                                *)
(* No operation here outlives op_timeout: Session is about those.          *)
(***************************************************************************)
EXTENDS Naturals, Routes

CONSTANTS
  Gui,         \* the thread of the buttons
  Dogs,        \* instances of TunnelWatchdog that may be alive at once
  None,
  UserActions, \* members of Action the user chooses from
  Configs,     \* the configurations the program may start with
  Overlap,     \* an operation may begin while a tick is under way
  Faults,      \* what may go wrong
  MaxFaults    \* how often

ASSUME LifecycleAssumption ==
  /\ Configs \subseteq [tun : BOOLEAN, ks : BOOLEAN, awg : BOOLEAN]
  /\ Overlap \in BOOLEAN
  /\ Gui \notin Dogs /\ None \notin Dogs \cup {Gui}
  /\ UserActions \subseteq {"connect", "disconnect", "reconnect", "tun_on", "tun_off"}
  /\ MaxFaults \in Nat

VARIABLES
  snap,    \* the Snapshot of the session
  cfg,     \* of config.json: tun.enabled, kill_switch, and awg,
           \* whether the dial it leads to is amneziawg or vless-reality
  slot,    \* the thread in the body of session.operation, or None
  pc,      \* what each thread does next
  dog,     \* per watchdog: its _stop event and its two counters
  cur,     \* client._watchdog
  sb,      \* the sing-box process
  link,    \* the server answers
  net,     \* the routes (module Routes)
  disk,    \* state.json, and the overrides of other programs
  clr,     \* the thread ergoms-kill-switch-clear
  off,     \* how the last operation of the user, a disconnect, went
  faults   \* faults so far

vars == <<snap, cfg, slot, pc, dog, cur, sb, link, net, disk, clr, off, faults>>

Threads == Dogs \cup {Gui}

Connecting == {"preparing", "launching", "probing"}

Phases == Connecting \cup {"idle", "up", "degraded", "fail_closed", "stopping"}

\* Phase.holds_watchdog
HoldsWatchdog(phase) == phase \in Connecting \cup {"stopping"}

OpSteps == {"relift", "restop", "plan", "tun_plan", "arm", "launch", "integrate", "claim", "probe",
            "okroute", "okcheck", "after", "finish",
            "d_stop", "d_core", "d_teardown", "d_join", "d_finish"}

DiscSteps == {"d_stop", "d_core", "d_teardown", "d_join", "d_finish"}

TickSteps == {"probing", "owner", "react", "call", "tun_react", "tun_call", "settle"}

Misses == 0..3   \* _PROBE_FAILS_BEFORE_RECONNECT, _TUN_DEFAULT_MISSES_BEFORE_SEAL

PcValues == OpSteps \cup TickSteps \cup {"none", "rest"}

Snapshots ==
  [phase : Phases, err : {"", "stopped", "dead", "dns"}, fail_closed : BOOLEAN,
   hold_watchdog : BOOLEAN, pending_win_tun : BOOLEAN, defer_win_ks : BOOLEAN,
   want_watchdog : BOOLEAN]

AnyConfig == [tun : BOOLEAN, ks : BOOLEAN, awg : BOOLEAN]

Watchdog == [stop : BOOLEAN, probe_fails : Misses, misses : Misses]

Disk == [state : BOOLEAN, marks : BOOLEAN]

TypeOK ==
  /\ snap \in Snapshots
  /\ cfg \in AnyConfig
  /\ slot \in Threads \cup {None}
  /\ pc \in [Threads -> PcValues]
  /\ dog \in [Dogs -> Watchdog]
  /\ cur \in Dogs \cup {None}
  /\ sb \in {"down", "stuck", "socks", "tun"}
  /\ link \in BOOLEAN
  /\ net \in Net
  /\ disk \in Disk
  /\ clr \in {"none", "shield", "routes"}
  /\ off \in {"no", "stop_err", "done"}
  /\ faults \in 0..MaxFaults

NewDog == [stop |-> FALSE, probe_fails |-> 0, misses |-> 0]

Init ==
  /\ snap = [phase |-> "idle", err |-> "", fail_closed |-> FALSE, hold_watchdog |-> FALSE,
             pending_win_tun |-> FALSE, defer_win_ks |-> FALSE, want_watchdog |-> FALSE]
  /\ cfg \in Configs
  /\ slot = None
  /\ pc = [t \in Threads |-> IF t = Gui THEN "rest" ELSE "none"]
  /\ dog = [d \in Dogs |-> NewDog]
  /\ cur = None
  /\ sb = "down"
  /\ link = TRUE
  /\ net = NoRoutes
  /\ disk = [state |-> FALSE, marks |-> FALSE]
  /\ clr = "none"
  /\ off = "no"
  /\ faults = 0

-----------------------------------------------------------------------------
\* Shorthands.

\* sing-box answers on its SOCKS port; its TUN adapter exists.
Up == sb \in {"socks", "tun"}
Adapter == sb = "tun"

\* resolve_connect_plan
EnableTun == cfg.tun \/ cfg.ks
KsDeferred == cfg.ks /\ cfg.awg
StartKs == cfg.ks /\ ~cfg.awg

Fault(f) == f \in Faults /\ faults < MaxFaults /\ faults' = faults + 1
NoFault == UNCHANGED faults

Go(t, from, to) == pc[t] = from /\ pc' = [pc EXCEPT ![t] = to]

\* The body of operation() returns or raises; a watchdog that gets no
\* exception goes on to _health_after_enable.
LeaveOp(t, to) ==
  /\ slot' = None
  /\ pc' = [pc EXCEPT ![t] = to]

\* Variant of FailConnect for sensitivity: the phase is left as it was.
FailConnectQuietly(t) ==
  /\ snap' = [snap EXCEPT !.hold_watchdog = FALSE]
  /\ LeaveOp(t, "rest")

\* connect's except clause.  pending_win_tun is not among what it resets.
FailConnect(t) ==
  /\ snap' = [snap EXCEPT !.hold_watchdog = FALSE,
                          !.phase = IF @ \in Connecting THEN "idle" ELSE @]
  /\ LeaveOp(t, "rest")

\* The process is gone; its adapter may linger with the routes into it.
Killed(n) == {n, AdapterGone(n)}

\* SingboxManager.stop removes the adapter, unless the process survives.
StopSingbox ==
  \/ sb' = "down" /\ net' = AdapterGone(net) /\ NoFault
  \/ sb # "down" /\ Fault("stop") /\ UNCHANGED <<sb, net>>

\* apply(blackhole=True).  Without a gateway, or when the routes do not show,
\* nothing is closed; when the server answered before them and is silent
\* after, all is cleared again.  No caller looks at the result.
SealOutcome(n) ==
  \/ net' = Seal(n) /\ NoFault
  \/ net' \in Unsealed(n) /\ Fault("gateway")
  \/ net' = Cleared(n) /\ link /\ Fault("silent")

\* apply(blackhole=False) gives up in the same way, unless it finds its routes
\* in place: with the halves in TUN only a wrong memory hides them.
PinOutcome(n) ==
  \/ net' \in Pinned(n) /\ NoFault
  \/ net' = Cleared(n) /\ link /\ Fault(IF n.split THEN "memory" ELSE "silent")

\* _install_win_tun_routes when the adapter is there; a foreign VPN that keeps
\* the default has the underlay closed.
InstallWinTunRoutes ==
  IF TunOwnsDefault(Installed(net)) THEN net' = Installed(net) /\ NoFault
  ELSE SealOutcome(Installed(net))

-----------------------------------------------------------------------------
\* What begins an operation.

\* The slot is free, or SessionBusy is raised and nothing has changed.
Begin(t, first) ==
  /\ slot = None
  /\ slot' = t
  /\ pc' = [pc EXCEPT ![t] = first]

Quiet == \A d \in Dogs : pc[d] \in {"none", "rest"}

UserBegins(a) ==
  /\ a \in UserActions
  /\ pc[Gui] = "rest"
  /\ Overlap \/ Quiet
  /\ off' = "no"
  /\ UNCHANGED <<snap, dog, cur, sb, link, disk, clr, faults>>

UserConnect == UserBegins("connect") /\ Begin(Gui, "plan") /\ UNCHANGED <<cfg, net>>

UserReconnect == UserBegins("reconnect") /\ Begin(Gui, "relift") /\ UNCHANGED <<cfg, net>>

UserDisconnect == UserBegins("disconnect") /\ Begin(Gui, "d_stop") /\ UNCHANGED <<cfg, net>>

UserTunOn ==
  /\ UserBegins("tun_on")
  /\ Begin(Gui, "plan")
  /\ cfg' = [cfg EXCEPT !.tun = TRUE]
  /\ UNCHANGED net

\* tun_off reconnects without TUN, or only writes the configuration when
\* nothing is running.
UserTunOff ==
  /\ UserBegins("tun_off")
  /\ cfg' = [cfg EXCEPT !.tun = FALSE, !.ks = FALSE]
  /\ net' = RestoreShield(net)
  /\ IF sb # "down" \/ disk.state
       THEN Begin(Gui, "plan")
       ELSE slot = None /\ UNCHANGED <<slot, pc>>

-----------------------------------------------------------------------------
\* reconnect, then connect.

\* reconnect lifts the blackholes before anything else.
Relift(t) ==
  /\ Go(t, "relift", "restop")
  /\ net' = Lift(net)
  /\ UNCHANGED <<snap, cfg, slot, dog, cur, sb, link, disk, clr, off, faults>>

\* stop_singbox_mode(teardown=False); a sing-box that does not stop is only
\* logged.
Restop(t) ==
  /\ Go(t, "restop", "plan")
  /\ StopSingbox
  /\ disk' = [disk EXCEPT !.state = FALSE]
  /\ UNCHANGED <<snap, cfg, slot, dog, cur, link, clr, off>>

\* resolve_connect_plan may refuse the configuration before the first phase.
\* The reconnect of a watchdog asks for no watchdog, its tun_on does.
Plan(t) ==
  \/ /\ Go(t, "plan", "arm") \/ Go(t, "tun_plan", "arm")
     /\ snap' = [snap EXCEPT !.phase = "preparing", !.err = "", !.fail_closed = FALSE,
                             !.hold_watchdog = TRUE, !.defer_win_ks = KsDeferred,
                             !.want_watchdog = t = Gui \/ pc[t] = "tun_plan"]
     /\ UNCHANGED <<cfg, slot, dog, cur, sb, link, net, disk, clr, off, faults>>
  \/ /\ pc[t] \in {"plan", "tun_plan"}
     /\ Fault("plan")
     /\ LeaveOp(t, "rest")
     /\ UNCHANGED <<snap, cfg, dog, cur, sb, link, net, disk, clr, off>>

\* _arm_kill_switch: an amneziawg dial takes leftover routes down first, a
\* vless one pins the server now.  is_applied answers from its memory: it may
\* still know of routes that have gone, or not yet know of the halves in TUN;
\* only a poll overtaken by a seal makes it miss the blackholes.
ArmKillSwitch(n) ==
  CASE StartKs -> PinOutcome(n)
    [] KsDeferred ->
         \/ net' = NotSealed(Cleared(n)) /\ NoFault
         \/ net' = NotSealed(n) /\ IF n.hole THEN Fault("memory") ELSE NoFault
    [] OTHER -> net' = NotSealed(n) /\ NoFault

\* reap_leftovers kills whoever listens on the SOCKS port, the old sing-box;
\* a thread removes a stale adapter meanwhile.  The binary may be missing, or
\* the office proxy refuse the server.
Arm(t) ==
  /\ pc[t] = "arm"
  /\ sb' = IF Up THEN "down" ELSE sb
  /\ \E n \in IF Up \/ EnableTun THEN Killed(net) ELSE {net} :
       \/ /\ Go(t, "arm", "launch")
          /\ ArmKillSwitch(n)
          /\ snap' = [snap EXCEPT !.phase = "launching"]
          /\ UNCHANGED slot
       \/ /\ Fault("binary")
          /\ net' = n
          /\ FailConnect(t)
  /\ UNCHANGED <<cfg, dog, cur, link, disk, clr, off>>

\* singbox.start(force_restart=True).  A second failed launch is not killed.
Launch(t) ==
  /\ pc[t] = "launch"
  /\ net' = IF EnableTun \/ sb # "down" THEN AdapterGone(net) ELSE net
  /\ \/ /\ Go(t, "launch", "integrate")
        /\ sb' = IF EnableTun THEN "tun" ELSE "socks"
        /\ UNCHANGED <<snap, slot, faults>>
     \/ /\ Fault("launch")
        /\ sb' \in {"down", "stuck"}
        /\ FailConnect(t)
  /\ UNCHANGED <<cfg, dog, cur, link, disk, clr, off>>

\* set_git_singbox (get_docker_proxy_enabled is always false), _write_state, the phases
\* WAITING_TUN and PROBING.
Integrate(t) ==
  /\ pc[t] = "integrate"
  /\ \/ /\ Go(t, "integrate", "claim")
        /\ disk' = [disk EXCEPT !.state = TRUE, !.marks = TRUE]
        /\ snap' = [snap EXCEPT !.phase = "probing", !.pending_win_tun = EnableTun,
                                !.defer_win_ks = KsDeferred]
        /\ UNCHANGED <<slot, faults>>
     \/ /\ Fault("pac")
        /\ disk' = [disk EXCEPT !.marks = TRUE]
        /\ FailConnect(t)
  /\ UNCHANGED <<cfg, dog, cur, sb, link, net, clr, off>>

\* Variant of Claim for sensitivity: UDP dials are not excepted.
ClaimAnyDial(t) ==
  /\ Go(t, "claim", IF sb = "down" THEN "after" ELSE "probe")
  /\ IF sb # "down" /\ snap.pending_win_tun /\ Adapter
       THEN /\ InstallWinTunRoutes
            /\ snap' = [snap EXCEPT !.pending_win_tun = ~TunOwnsDefault(net')]
       ELSE /\ snap' = [snap EXCEPT !.err = IF sb = "down" THEN "stopped" ELSE @]
            /\ UNCHANGED <<net, faults>>
  /\ UNCHANGED <<cfg, slot, dog, cur, sb, link, disk, clr, off>>

\* _claim_default_route steals the default before the probe, except for UDP.
Claim(t) ==
  /\ IF sb = "down"
       THEN /\ Go(t, "claim", "after")
            /\ snap' = [snap EXCEPT !.err = "stopped"]
            /\ UNCHANGED <<net, faults>>
       ELSE /\ Go(t, "claim", "probe")
            /\ IF ~cfg.awg /\ snap.pending_win_tun /\ Adapter
                 THEN /\ InstallWinTunRoutes
                      /\ snap' = [snap EXCEPT !.pending_win_tun = ~TunOwnsDefault(net')]
                 ELSE UNCHANGED <<snap, net, faults>>
  /\ UNCHANGED <<cfg, slot, dog, cur, sb, link, disk, clr, off>>

\* Variant of Probe for sensitivity: the request has no timeout.
ProbeUntilOk(t) ==
  /\ Up /\ link
  /\ Go(t, "probe", "okroute")
  /\ UNCHANGED <<snap, cfg, slot, dog, cur, sb, link, net, disk, clr, off, faults>>

\* _probe_exit_body asks for a page through SOCKS.
Probe(t) ==
  /\ \/ /\ Up /\ link
        /\ Go(t, "probe", "okroute")
        /\ UNCHANGED <<snap, faults>>
     \/ /\ Up /\ link /\ Fault("dns")
        /\ Go(t, "probe", "after")
        /\ snap' = [snap EXCEPT !.err = "dns"]
     \/ /\ ~(Up /\ link)
        /\ Go(t, "probe", "after")
        /\ snap' = [snap EXCEPT !.err = IF sb = "down" THEN "stopped" ELSE "dead"]
        /\ NoFault
  /\ UNCHANGED <<cfg, slot, dog, cur, sb, link, net, disk, clr, off>>

\* _on_exit_probe_ok installs the routes that are still pending; strict, so a
\* foreign VPN ends the operation here.
OkRoute(t) ==
  /\ pc[t] = "okroute"
  /\ LET ok == [snap EXCEPT !.err = "", !.fail_closed = FALSE]
         install == snap.pending_win_tun /\ Adapter
         n == IF install THEN Installed(net) ELSE net
     IN IF install /\ ~TunOwnsDefault(n)
          THEN /\ SealOutcome(n)
               /\ snap' = [ok EXCEPT !.hold_watchdog = FALSE, !.phase = "idle"]
               /\ LeaveOp(t, "rest")
          ELSE /\ IF snap.pending_win_tun /\ snap.defer_win_ks
                    THEN PinOutcome(n)
                    ELSE net' = n /\ NoFault
               /\ snap' = [ok EXCEPT !.pending_win_tun = @ /\ ~install,
                                     !.defer_win_ks = @ /\ ~snap.pending_win_tun]
               /\ Go(t, "okroute", "okcheck")
               /\ UNCHANGED slot
  /\ UNCHANGED <<cfg, dog, cur, sb, link, disk, clr, off>>

\* _check_tun_owns_default; then the integrations once more.
OkCheck(t) ==
  /\ Go(t, "okcheck", "after")
  /\ net' = IF TunOwnsDefault(net) THEN Lift(net) ELSE ReclaimTunDefault(net, Adapter)
  /\ disk' = [disk EXCEPT !.marks = TRUE]
  /\ UNCHANGED <<snap, cfg, slot, dog, cur, sb, link, clr, off, faults>>

\* _seal_on_dead_exit returns early when config.json cannot be read.
NoConfig ==
  /\ Fault("config")
  /\ snap' = [snap EXCEPT !.hold_watchdog = FALSE]
  /\ UNCHANGED net

\* Variant of SealOnDeadExit for sensitivity: is_applied in place of is_sealed.
SealUnlessApplied ==
  IF snap.err = "dns" \/ (Up /\ link)
    THEN /\ snap' = [snap EXCEPT !.hold_watchdog = FALSE, !.err = IF @ = "dns" THEN @ ELSE ""]
         /\ UNCHANGED net /\ NoFault
    ELSE \/ NoConfig
         \/ /\ snap' = [snap EXCEPT !.hold_watchdog = FALSE, !.fail_closed = TRUE,
                                    !.defer_win_ks = FALSE]
            /\ IF IsApplied(net) THEN UNCHANGED net /\ NoFault ELSE SealOutcome(net)

\* _seal_on_dead_exit
SealOnDeadExit ==
  CASE snap.err = "dns" ->
         snap' = [snap EXCEPT !.hold_watchdog = FALSE] /\ UNCHANGED net /\ NoFault
    [] snap.err # "dns" /\ Up /\ link ->
         snap' = [snap EXCEPT !.hold_watchdog = FALSE, !.err = ""] /\ UNCHANGED net /\ NoFault
    [] OTHER ->
         \/ NoConfig
         \/ /\ snap' = [snap EXCEPT !.hold_watchdog = FALSE, !.fail_closed = TRUE,
                                    !.defer_win_ks = FALSE]
            /\ IF net.hole THEN UNCHANGED net /\ NoFault ELSE SealOutcome(net)

\* Variant of After for sensitivity: a sing-box that stopped is not sealed.
AfterUnlessStopped(t) ==
  /\ Go(t, "after", "finish")
  /\ IF snap.err \in {"dead", "dns"} /\ cfg.ks /\ ~snap.pending_win_tun
       THEN SealOnDeadExit
       ELSE /\ snap' = [snap EXCEPT !.hold_watchdog =
                          @ /\ snap.pending_win_tun /\ snap.err # ""]
            /\ UNCHANGED net /\ NoFault
  /\ UNCHANGED <<cfg, slot, dog, cur, sb, link, disk, clr, off>>

\* The finally block of _probe_exit.
After(t) ==
  /\ Go(t, "after", "finish")
  /\ IF snap.err # "" /\ cfg.ks /\ ~snap.pending_win_tun
       THEN SealOnDeadExit
       ELSE /\ snap' = [snap EXCEPT !.hold_watchdog =
                          @ /\ snap.pending_win_tun /\ snap.err # ""]
            /\ UNCHANGED net /\ NoFault
  /\ UNCHANGED <<cfg, slot, dog, cur, sb, link, disk, clr, off>>

\* _finish_after_probe, and ensure_watchdog_daemon when connect was asked for
\* a watchdog: the one there is starts counting anew, or a new one is started.
Finish(t) ==
  /\ pc[t] = "finish"
  /\ slot' = None
  /\ snap' = [snap EXCEPT !.hold_watchdog = FALSE,
                !.phase = IF snap.fail_closed THEN "fail_closed"
                          ELSE IF snap.err # "" THEN "degraded" ELSE "up"]
  /\ LET next == IF t = Gui THEN "rest" ELSE "settle"
     IN \/ /\ ~snap.want_watchdog
           /\ pc' = [pc EXCEPT ![t] = next]
           /\ UNCHANGED <<dog, cur>>
        \/ /\ snap.want_watchdog /\ cur # None
           /\ pc' = [pc EXCEPT ![t] = next]
           /\ dog' = [dog EXCEPT ![cur] = NewDog]
           /\ UNCHANGED cur
        \/ /\ snap.want_watchdog /\ cur = None
           /\ \E d \in Dogs :
                /\ pc[d] = "none"
                /\ pc' = [pc EXCEPT ![t] = next, ![d] = "rest"]
                /\ cur' = d
           /\ UNCHANGED dog
  /\ UNCHANGED <<cfg, sb, link, net, disk, clr, off, faults>>

-----------------------------------------------------------------------------
\* disconnect.

\* The first phase and stop_watchdog_daemon: the tick under way is not waited
\* for beyond 0.3 s.
DiscStop ==
  /\ Go(Gui, "d_stop", "d_core")
  /\ snap' = [snap EXCEPT !.phase = "stopping", !.err = "", !.fail_closed = FALSE,
                          !.pending_win_tun = FALSE, !.hold_watchdog = FALSE,
                          !.want_watchdog = FALSE, !.defer_win_ks = FALSE]
  /\ IF cur = None THEN UNCHANGED dog ELSE dog' = [dog EXCEPT ![cur].stop = TRUE]
  /\ cur' = None
  /\ UNCHANGED <<cfg, slot, sb, link, net, disk, clr, off, faults>>

\* _stop_session_core, and the thread that clears what the kill switch left.
DiscCore ==
  /\ Go(Gui, "d_core", "d_teardown")
  /\ StopSingbox
  /\ off' = IF sb' = "down" THEN off ELSE "stop_err"
  /\ clr' = IF net'.saved \/ IsApplied(net') THEN "shield" ELSE clr
  /\ UNCHANGED <<snap, cfg, slot, dog, cur, link, disk>>

\* teardown_overrides, then state.json; the file may be open in status().
DiscTeardown ==
  /\ pc[Gui] = "d_teardown"
  /\ \/ /\ Go(Gui, "d_teardown", "d_join")
        /\ disk' = [disk EXCEPT !.marks = FALSE, !.state = FALSE]
        /\ UNCHANGED <<slot, faults>>
     \/ /\ Fault("unlink") /\ disk.state
        /\ disk' = [disk EXCEPT !.marks = FALSE]
        /\ LeaveOp(Gui, "rest")
  /\ UNCHANGED <<snap, cfg, dog, cur, sb, link, net, clr, off>>

\* Variant of DiscJoin for sensitivity: the thread is not joined.
DiscJoinAtOnce ==
  /\ Go(Gui, "d_join", "d_finish")
  /\ net' = IF clr = "none" THEN RestoreShield(net) ELSE net
  /\ UNCHANGED <<snap, cfg, slot, dog, cur, sb, link, disk, clr, off, faults>>

\* join(timeout=8.0)
DiscJoin ==
  /\ Go(Gui, "d_join", "d_finish")
  /\ \/ clr = "none" /\ NoFault
     \/ clr # "none" /\ Fault("slowclear")
  /\ net' = IF clr = "none" THEN RestoreShield(net) ELSE net
  /\ UNCHANGED <<snap, cfg, slot, dog, cur, sb, link, disk, clr, off>>

\* A sing-box that did not stop is reported, from the phase IDLE as well.
DiscFinish ==
  /\ pc[Gui] = "d_finish"
  /\ LeaveOp(Gui, "rest")
  /\ snap' = [snap EXCEPT !.phase = "idle"]
  /\ off' = IF off = "no" /\ sb = "down" THEN "done" ELSE "no"
  /\ UNCHANGED <<cfg, dog, cur, sb, link, net, disk, clr, faults>>

\* clear(): the policies first, then the routes and kill-switch.json.
ClearShield ==
  /\ clr = "shield"
  /\ clr' = "routes"
  /\ net' = RestoreShield(net)
  /\ UNCHANGED <<snap, cfg, slot, pc, dog, cur, sb, link, disk, off, faults>>

ClearRoutes ==
  /\ clr = "routes"
  /\ clr' = "none"
  /\ net' = RemoveRoutes(net)
  /\ UNCHANGED <<snap, cfg, slot, pc, dog, cur, sb, link, disk, off, faults>>

-----------------------------------------------------------------------------
\* A tick of the watchdog, and what follows from it.  The time until the next
\* tick, the interval or the backoff, is any time.

Count(n) == IF n < 3 THEN n + 1 ELSE 3

\* Variant of Tick for sensitivity: state.json is not looked at.
TickStateless(d) ==
  /\ pc[d] = "rest" /\ ~dog[d].stop
  /\ slot = None /\ ~HoldsWatchdog(snap.phase)
  /\ Go(d, "rest", IF Up THEN "probing" ELSE IF sb = "stuck" THEN "react" ELSE "owner")
  /\ dog' = IF Up THEN dog ELSE [dog EXCEPT ![d].probe_fails = 0]
  /\ UNCHANGED <<snap, cfg, slot, cur, sb, link, net, disk, clr, off, faults>>

\* tick and the part of health_problem that looks at the ports.  With neither
\* a process nor state.json nothing is expected, and nothing is wrong.
Tick(d) ==
  /\ pc[d] = "rest"
  /\ ~dog[d].stop
  /\ slot = None /\ ~HoldsWatchdog(snap.phase)
  /\ IF Up
       THEN Go(d, "rest", "probing") /\ UNCHANGED dog
       ELSE /\ Go(d, "rest", IF sb = "stuck" \/ disk.state THEN "react" ELSE "owner")
            /\ dog' = [dog EXCEPT ![d].probe_fails = 0]
  /\ UNCHANGED <<snap, cfg, slot, cur, sb, link, net, disk, clr, off, faults>>

\* The rest of health_problem: a page through SOCKS, for up to 18 seconds,
\* and an adapter if TUN is on in the configuration.
TickProbe(d) ==
  LET n == Count(dog[d].probe_fails)
  IN /\ IF Up /\ link
          THEN /\ Go(d, "probing", IF cfg.tun /\ ~Adapter THEN "tun_react" ELSE "owner")
               /\ dog' = [dog EXCEPT ![d].probe_fails = 0]
          ELSE /\ Go(d, "probing", IF n = 3 THEN "react" ELSE "rest")
               /\ dog' = [dog EXCEPT ![d].probe_fails = n]
     /\ UNCHANGED <<snap, cfg, slot, cur, sb, link, net, disk, clr, off, faults>>

\* _ensure_tun_default.  It seals at the third miss whether or not the kill
\* switch is on.
TickOwner(d) ==
  LET n == Count(dog[d].misses)
      m == ReclaimTunDefault(net, Adapter)
  IN /\ Go(d, "owner", "rest")
     /\ \/ /\ ~EnableTun
           /\ UNCHANGED <<dog, net, faults>>
        \/ /\ EnableTun /\ TunOwnsDefault(net)
           /\ dog' = [dog EXCEPT ![d].misses = 0]
           /\ UNCHANGED <<net, faults>>
        \/ /\ EnableTun /\ ~TunOwnsDefault(net) /\ TunOwnsDefault(m)
           /\ dog' = [dog EXCEPT ![d].misses = 0]
           /\ net' = m /\ NoFault
        \/ /\ EnableTun /\ ~TunOwnsDefault(net) /\ ~TunOwnsDefault(m)
           /\ dog' = [dog EXCEPT ![d].misses = n]
           /\ \/ n < 3 /\ net' = m /\ NoFault
              \/ n = 3 /\ SealOutcome(m)
              \/ n = 3 /\ net' = m /\ Fault("config")
     /\ UNCHANGED <<snap, cfg, slot, cur, sb, link, disk, clr, off>>

\* _lift_blackholes_for_reconnect, before anybody asks for the slot.
TickLift(d) ==
  /\ Go(d, "react", "call") \/ Go(d, "tun_react", "tun_call")
  /\ net' = Lift(net)
  /\ UNCHANGED <<snap, cfg, slot, dog, cur, sb, link, disk, clr, off, faults>>

\* client.reconnect, or enable_tun: the stop event is not looked at again.
TickReconnect(d) ==
  /\ pc[d] \in {"call", "tun_call"}
  /\ IF slot = None
       THEN Begin(d, IF pc[d] = "call" THEN "relift" ELSE "tun_plan")
       ELSE pc' = [pc EXCEPT ![d] = "rest"] /\ UNCHANGED slot
  /\ UNCHANGED <<snap, cfg, dog, cur, sb, link, net, disk, clr, off, faults>>

\* _health_after_enable
Settle(d) ==
  /\ Go(d, "settle", "rest")
  /\ dog' = IF Up /\ link
              THEN [dog EXCEPT ![d] = [NewDog EXCEPT !.stop = dog[d].stop]]
              ELSE dog
  /\ UNCHANGED <<snap, cfg, slot, cur, sb, link, net, disk, clr, off, faults>>

\* The loop sees the stop event and the thread ends.
DogEnds(d) ==
  /\ dog[d].stop
  /\ Go(d, "rest", "none")
  /\ dog' = [dog EXCEPT ![d] = NewDog]
  /\ UNCHANGED <<snap, cfg, slot, cur, sb, link, net, disk, clr, off, faults>>

-----------------------------------------------------------------------------
\* What happens to the program.

Crash ==
  /\ Fault("crash") /\ Up
  /\ sb' = "down"
  /\ net' \in Killed(net)
  /\ UNCHANGED <<snap, cfg, slot, pc, dog, cur, link, disk, clr, off>>

LinkDown ==
  /\ Fault("link") /\ link
  /\ link' = FALSE
  /\ UNCHANGED <<snap, cfg, slot, pc, dog, cur, sb, net, disk, clr, off>>

LinkUp ==
  /\ ~link
  /\ link' = TRUE
  /\ UNCHANGED <<snap, cfg, slot, pc, dog, cur, sb, net, disk, clr, off, faults>>

ForeignUp ==
  /\ Fault("foreign") /\ ~net.foreign
  /\ net' = [net EXCEPT !.foreign = TRUE]
  /\ UNCHANGED <<snap, cfg, slot, pc, dog, cur, sb, link, disk, clr, off>>

ForeignDown ==
  /\ net.foreign
  /\ net' = [net EXCEPT !.foreign = FALSE]
  /\ UNCHANGED <<snap, cfg, slot, pc, dog, cur, sb, link, disk, clr, off, faults>>

-----------------------------------------------------------------------------

User == UserConnect \/ UserReconnect \/ UserDisconnect \/ UserTunOn \/ UserTunOff

ConnectStep(t) ==
  \/ Relift(t) \/ Restop(t) \/ Plan(t) \/ Arm(t) \/ Launch(t) \/ Integrate(t) \/ Claim(t)
  \/ Probe(t) \/ OkRoute(t) \/ OkCheck(t) \/ After(t) \/ Finish(t)

DisconnectStep == DiscStop \/ DiscCore \/ DiscTeardown \/ DiscJoin \/ DiscFinish

DogStep(d) ==
  \/ Tick(d) \/ TickProbe(d) \/ TickOwner(d) \/ TickLift(d) \/ TickReconnect(d)
  \/ Settle(d) \/ DogEnds(d)

Clearer == ClearShield \/ ClearRoutes

World == Crash \/ LinkDown \/ LinkUp \/ ForeignUp \/ ForeignDown

Next ==
  \/ User
  \/ DisconnectStep
  \/ \E t \in Threads : ConnectStep(t)
  \/ \E d \in Dogs : DogStep(d)
  \/ Clearer
  \/ World

\* Every thread that can take its next step does: the steps have timeouts,
\* and the loop of the watchdog comes round again.  Nothing is assumed of the
\* user or of the world.
Fairness ==
  /\ WF_vars(DisconnectStep)
  /\ \A t \in Threads : WF_vars(ConnectStep(t))
  /\ \A d \in Dogs : WF_vars(DogStep(d))
  /\ WF_vars(Clearer)

Spec == Init /\ [][Next]_vars

FairSpec == Spec /\ Fairness

-----------------------------------------------------------------------------
\* Properties that hold.

\* A watchdog is in the middle of putting the tunnel right: it is about to
\* reconnect, or has counted a miss that it has not answered with a seal yet.
Repairing ==
  \E d \in Dogs : pc[d] \in {"call", "tun_call"} \/ dog[d].misses \in 1..2

\* A phase, or a hold, that keeps the watchdog and the clean-up of leftovers
\* away (should_skip, teardown_overrides_if_dirty) never outlives the
\* operation it belongs to, however that operation ends.
PhaseHasWorker ==
  /\ snap.phase = "stopping" => slot = Gui /\ pc[Gui] \in DiscSteps
  /\ snap.phase \in Connecting => slot # None /\ pc[slot] \in OpSteps \ DiscSteps
  /\ snap.hold_watchdog => slot # None

\* "`disable` clears PAC / git / Docker / kill switch": once a disconnect has
\* reported success no route, policy, override or process is left.
OffRestores ==
  off = "done" =>
    /\ sb = "down" /\ cur = None
    /\ ~disk.state /\ ~disk.marks
    /\ ~net.hole /\ ~net.split /\ ~net.shield /\ ~net.saved

\* _seal_on_dead_exit, "no working exit, block underlay except the VPS": the
\* phase FAIL_CLOSED is shown over an open underlay only while a watchdog is
\* at work on it; the blackholes go only to make room for the TUN routes.
FailClosedIsSealed ==
  snap.phase = "fail_closed" /\ slot = None => net.hole \/ net.split \/ Repairing

\* "Loopback /1 next to TUN /1 blackholes the browser": no operation ends in
\* UP with the blackholes of an earlier one in the table.
UpIsOpen == [][snap'.phase = "up" /\ snap.phase # "up" => ~net'.hole]_vars

\* With the kill switch on, a connect whose probe found no exit never ends in
\* DEGRADED, the phase with open routes; only late DNS or an adapter that is
\* still awaited excuse it.
DeadExitIsClosed ==
  [][snap'.phase = "degraded" /\ snap.phase # "degraded" /\ cfg.ks
       => snap'.err = "dns" \/ snap'.pending_win_tun]_vars

\* Between operations a connection that is UP owns the default route as long
\* as its adapter lives: what an earlier disconnect cleared does not take away
\* what a later connect installed.
UpOwnsDefault ==
  snap.phase = "up" /\ slot = None /\ Adapter => net.split

\* "AWG UDP dies if TUN /1 and KS land before the handshake": until the probe
\* has answered, neither route is there.
HandshakeIsFree ==
  \A t \in Threads :
    cfg.awg /\ cfg.ks /\ pc[t] \in {"integrate", "claim", "probe"} => ~net.split /\ ~net.hole

\* Every operation ends, whatever fails in it, and the slot is free again.
OpEnds == slot # None ~> slot = None

\* A sing-box that dies while state.json says it should run is brought back,
\* unless the user disconnects: neither the reconnect that deletes state.json
\* nor what one failure leaves of it ends the watchdog's interest for good.
CrashHeals == sb = "down" /\ cur # None /\ disk.state ~> Up \/ cur = None

PhasesSeen ==
  INSTANCE Phases
    WITH phase <- snap.phase,
         worker <- IF slot = None THEN "none"
                   ELSE IF pc[slot] \in DiscSteps THEN "disconnect" ELSE "connect"

\* The window sees the phases of module Phases, in that order and no other.
PhasesSpec == PhasesSeen!Spec

-----------------------------------------------------------------------------
\* Claims of the code that the code does not keep.

\* disconnect logs "VPN off: sing-box, watchdog, PAC/git/Docker and routes are
\* reset": off is off until the user asks again.
StaysOff == off = "done" => sb = "down"

\* "Fail-closed: no working exit, block underlay except the VPS": a connect
\* with the kill switch on whose probe found no exit ends over blackholes.
DeadExitSeals ==
  \A t \in Threads :
    pc[t] = "finish" /\ cfg.ks /\ snap.err \in {"dead", "stopped"} /\ ~snap.pending_win_tun
      => net.hole

\* "reconnect failed: ...; retry in ...": the watchdog that has begun to bring
\* the tunnel back goes on until it is there or the user takes it down.
RetriesUntilUp == \A d \in Dogs : slot = d ~> Up \/ cur # d
==============================================================================
