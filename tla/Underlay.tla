------------------------------- MODULE Underlay -------------------------------
(***************************************************************************)
(* What a connection changes on the physical network card, and what        *)
(* kill-switch.json and the memory of is_applied know of it                *)
(* (desktop/killswitch, desktop/net): the host /32 pins, the interface     *)
(* metric, the LAN routes and the IPv6 block, beside the halves of Routes. *)
(* One window run by a Windows administrator; the pipeline and the         *)
(* watchdog are here only as far as they order these calls.  The status    *)
(* poll, the thread of the late pins, the network and the user come        *)
(* between any two steps.                                                  *)
(***************************************************************************)
EXTENDS Naturals, FiniteSets

CONSTANTS
  Servers,   \* addresses of servers the settings may name
  Squid,     \* the proxy of the office
  Gateways,  \* gateways of the networks the machine may be in
  None,
  Own,       \* metrics the card may have had
  Configs,   \* settings the user changes between
  SlowPins,  \* the thread of the late pins may outlive its operation
  MaxEvents  \* changes of network and settings, foreign VPNs, deaths

Hosts == Servers \cup {Squid}
Hops == Gateways \cup {None}
Metrics == {"low", "high", "ours"}   \* below 1000, at least 1000, 25

ASSUME UnderlayAssumption ==
  /\ Squid \notin Servers
  /\ None \notin Gateways /\ None \notin Metrics /\ None \notin BOOLEAN
  /\ Own \subseteq {"low", "high"}
  /\ Configs \subseteq [server : Servers, office : BOOLEAN, udp : BOOLEAN, ks : BOOLEAN]
  /\ SlowPins \in BOOLEAN
  /\ MaxEvents \in Nat

VARIABLES
  cfg,    \* of config.json; udp: the dial it leads to is amneziawg
  pc,     \* where the connection is
  plan,   \* the ConnectPlan of the last connect
  net,    \* the routes, the file and the memory
  gw,     \* the gateway of the network, or None
  ask,    \* what a poll has read of the table and not yet stored, or None
  late,   \* pins that _pin_underlay_later has still to set
  hist,   \* what the properties need to know of the past
  events

vars == <<cfg, pc, plan, net, gw, ask, late, hist, events>>

Kept == [there : BOOLEAN, allow : SUBSET Hosts, forget : SUBSET Hosts, hop : Hops,
         row : Metrics \cup {None}]

Network ==
  [pins   : [Hosts -> Hops],   \* the next hop of a /32, None without one
   hole   : BOOLEAN,           \* blackholed halves on the loopback
   split  : BOOLEAN,           \* halves into our TUN
   v6     : BOOLEAN,           \* ::/1 and 8000::/1 on the loopback
   lan    : BOOLEAN,           \* 10/8 and 192.168/16 on the card
   metric : Metrics,           \* of the card
   file   : Kept,              \* kill-switch.json
   memo   : BOOLEAN \cup {None}] \* _applied_cache

\* failed: the launch was; blocked: a foreign VPN ended the operation.
Adapted == {"on", "sealed", "blocked"}
Resting == {"off", "dead", "failed"} \cup Adapted

\* bare: the probe runs while the TUN routes are still pending.
Pcs == Resting \cup {"armed", "claim", "claimed", "probe", "bare", "ok", "okayed", "dying"}

Plans == [allow : SUBSET Hosts, forget : SUBSET Hosts, udp : BOOLEAN, ks : BOOLEAN]

\* own: the user's metric; twice: another took its place in the file; dropped:
\* hosts that new settings, or a clear under way, took off the list; gone: the
\* network changed since the last connect, there was none, or apply took all
\* back; dog: the watchdog sealed since; unfiled: it set routes after a file
\* was gone; overtaken: a poll stored what it had read before the table changed.
Histories == [own : Metrics, twice : BOOLEAN, dropped : SUBSET Hosts, gone : BOOLEAN,
              dog : BOOLEAN, unfiled : BOOLEAN, overtaken : BOOLEAN]

TypeOK ==
  /\ cfg \in Configs
  /\ pc \in Pcs
  /\ plan \in Plans
  /\ net \in Network
  /\ gw \in Hops
  /\ ask \in BOOLEAN \cup {None}
  /\ late \in 0..2
  /\ hist \in Histories
  /\ events \in 0..MaxEvents

NoFile == [there |-> FALSE, allow |-> {}, forget |-> {}, hop |-> None, row |-> None]

Init ==
  /\ cfg \in Configs
  /\ pc = "off"
  /\ plan = [allow |-> {}, forget |-> {}, udp |-> FALSE, ks |-> FALSE]
  /\ \E m \in Own :
       /\ net = [pins |-> [h \in Hosts |-> None], hole |-> FALSE, split |-> FALSE,
                 v6 |-> FALSE, lan |-> FALSE, metric |-> m, file |-> NoFile, memo |-> None]
       /\ hist = [own |-> m, twice |-> FALSE, dropped |-> {}, gone |-> FALSE, dog |-> FALSE,
                 unfiled |-> FALSE, overtaken |-> FALSE]
  /\ gw \in Gateways
  /\ ask = None
  /\ late = 0
  /\ events = 0

-----------------------------------------------------------------------------
\* The hosts, and the calls of killswitch and net on a Network.

\* underlay_keep_hosts, underlay_forget_hosts: an office connection goes out
\* through Squid, and its server must ride the tunnel.
Direct(c) == c.udp \/ ~c.office
Keep(c) == (IF c.office THEN {Squid} ELSE {}) \cup (IF Direct(c) THEN {c.server} ELSE {})
Forget(c) == IF Direct(c) THEN {} ELSE {c.server}

IsApplied(n) == n.hole \/ n.split

\* is_applied() answers from its memory, and remembers.
Answer(n) == IF n.memo = None THEN IsApplied(n) ELSE n.memo
Asked(n) == [n EXCEPT !.memo = Answer(n)]

\* lift_ipv4_blackholes; its commands alone leave the memory as it is.
LiftQuietly(n) == [n EXCEPT !.hole = FALSE]
Lift(n) == [n EXCEPT !.hole = FALSE, !.memo = None]

\* forget_host_commands, pin_commands
Unpin(p, hosts) == [h \in Hosts |-> IF h \in hosts THEN None ELSE p[h]]
Pin(p, hosts, hop) == [h \in Hosts |-> IF h \in hosts /\ hop # None THEN hop ELSE p[h]]

\* Variant of Updated for sensitivity: the file is written anew.
UpdatedAnew(f, allow, forget, hop) ==
  [there |-> TRUE, allow |-> allow, forget |-> forget, hop |-> hop, row |-> None]

\* _update_state keeps the other keys of the file.
Updated(f, allow, forget, hop) ==
  [f EXCEPT !.there = TRUE, !.allow = allow, !.forget = forget, !.hop = hop]

RememberPlan(n, allow, forget) ==
  [Asked(n) EXCEPT !.file = Updated(@, allow, forget, gw)]

\* Variant of PinUnderlay for sensitivity: nothing is forgotten.
PinOnly(n, allow, forget) ==
  LET hop == IF n.file.hop # None THEN n.file.hop ELSE gw
  IN [n EXCEPT !.pins = Pin(@, allow, hop), !.memo = None]

\* pin_underlay: with the gateway saved before the TUN came up, if there is one.
PinUnderlay(n, allow, forget) ==
  LET hop == IF n.file.hop # None THEN n.file.hop ELSE gw
      drop == forget \ allow
  IN IF drop = {} /\ (hop = None \/ allow = {})
       THEN n
       ELSE [n EXCEPT !.pins = Pin(Unpin(@, drop), allow, hop), !.memo = None]

\* Variant of Clear for sensitivity: the file goes before its list is read.
ClearUnread(n) ==
  [n EXCEPT !.hole = FALSE, !.split = FALSE, !.v6 = FALSE, !.lan = FALSE,
            !.metric = IF n.file.row = None THEN @ ELSE n.file.row,
            !.file = NoFile,
            !.memo = FALSE]

\* clear: what the file lists is taken back, the file goes, the memory is
\* asked anew.
Clear(n) ==
  [n EXCEPT !.pins = Unpin(@, n.file.allow),
            !.hole = FALSE, !.split = FALSE, !.v6 = FALSE, !.lan = FALSE,
            !.metric = IF n.file.row = None THEN @ ELSE n.file.row,
            !.file = NoFile,
            !.memo = FALSE]

\* The way through apply that finds the routes in place.
Shortcut(n, allow, forget) ==
  [n EXCEPT !.file = Updated(@, allow, forget, gw), !.pins = Unpin(@, forget)]

\* The way that sets them.  With an open link before and a silent server
\* after, all is taken back; without a gateway nothing is set.
Installed(n, allow, forget, hole) ==
  LET m == [n EXCEPT !.pins = Pin(Unpin(@, forget), allow, gw), !.hole = hole, !.v6 = TRUE]
      set == [m EXCEPT !.file = Updated(@, allow, forget, gw), !.memo = IsApplied(m)]
  IN IF gw = None
       THEN {[n EXCEPT !.file = Updated(@, allow, forget, None)]}
       ELSE {set} \cup {Clear(set) : h \in allow}

\* Variant of Seal for sensitivity: the memory is asked, not the table.
SealRemembering(n, allow) ==
  {[m EXCEPT !.memo = IF gw = None THEN @ ELSE Answer(n)] : m \in Installed(n, allow, {}, TRUE)}

\* apply(blackhole=True), never called with hosts to forget
Seal(n, allow) == Installed(n, allow, {}, TRUE)

\* Variant of Apply for sensitivity: a shortcut leaves the file alone.
ApplyKeepingFile(n, allow, forget) ==
  LET l == IF n.hole THEN Lift(n) ELSE n
      a == Asked(l)
      pinned == ~Answer(l) /\ \E h \in allow : l.pins[h] # None
  IN IF Answer(l) \/ pinned
       THEN {[a EXCEPT !.pins = Unpin(@, forget)]}
       ELSE Installed(a, allow, forget, FALSE)

\* apply(blackhole=False): any pin in the table stands for all of them.
Apply(n, allow, forget) ==
  LET l == IF n.hole THEN Lift(n) ELSE n
      a == Asked(l)
      pinned == ~Answer(l) /\ \E h \in allow : l.pins[h] # None
  IN IF Answer(l) \/ pinned
       THEN {Shortcut(a, allow, forget)}
       ELSE Installed(a, allow, forget, FALSE)

\* ensure_tun_split_default with ensure_lan_underlay: also what
\* reclaim_tun_default comes to.
EnsureSplit(n) == [LiftQuietly(n) EXCEPT !.split = TRUE, !.lan = @ \/ gw # None]

\* prefer_tun_ipv4 saves the metric it finds, whose ever it is.
PreferTun(n) ==
  [n EXCEPT !.file.there = TRUE, !.file.row = n.metric,
            !.metric = IF @ = "high" THEN "ours" ELSE @]

-----------------------------------------------------------------------------
\* Steps.

Event == events < MaxEvents /\ events' = events + 1
NoEvent == UNCHANGED events

\* prefer_tun_ipv4 would save another metric over the one in the file.
SavesAgain == net.file.row # None /\ net.metric # net.file.row

\* The history after a step that leaves n and records the list allow.
Noted(n, allow) ==
  [hist EXCEPT !.dropped = @ \cup (net.file.allow \ allow)
                             \cup (IF n.file.there THEN {} ELSE allow),
               !.gone = @ \/ ~n.file.there]

\* A step of the operation to one of the Networks ns.
Op(from, to, ns) ==
  /\ pc = from
  /\ pc' = to
  /\ \E n \in ns : net' = n /\ hist' = Noted(n, net.file.allow)
  /\ UNCHANGED <<cfg, plan, gw, ask>>

\* A step that prefers the TUN on its way.
OpPrefers(from, to, ns) ==
  /\ pc = from
  /\ pc' = to
  /\ \E n \in ns :
       net' = n /\ hist' = [Noted(n, net.file.allow) EXCEPT !.twice = @ \/ SavesAgain]
  /\ UNCHANGED <<cfg, plan, gw, ask>>

\* connect, or a reconnect's lift of the blackholes before it: the adapter
\* goes with the old process either way.
Down(n) == {[m EXCEPT !.split = FALSE] : m \in {n, IF n.hole THEN Lift(n) ELSE n}}

\* _arm_kill_switch: a UDP dial takes leftover routes down first.
Armed(n) ==
  IF cfg.ks /\ ~cfg.udp
    THEN Apply(n, Keep(cfg), Forget(cfg))
    ELSE {RememberPlan(IF ~cfg.ks THEN n ELSE IF Answer(n) THEN Clear(n) ELSE Asked(n),
                       Keep(cfg), Forget(cfg))}

\* resolve_connect_plan
ResolvePlan == [allow |-> Keep(cfg), forget |-> Forget(cfg), udp |-> cfg.udp, ks |-> cfg.ks]

Connect ==
  /\ pc \in Resting
  /\ SlowPins \/ late = 0
  /\ plan' = ResolvePlan
  /\ \E d \in Down(net) : \E n \in Armed(d) :
       /\ net' = n
       /\ hist' = [Noted(n, Keep(cfg)) EXCEPT !.gone = gw = None, !.dog = FALSE]
  /\ pc' = "armed"
  /\ UNCHANGED <<cfg, gw, ask, late>>
  /\ NoEvent

\* sing-box starts; the pins it may have disturbed are set again, and twice
\* more by a thread of their own.
Launch ==
  /\ Op("armed", "claim", {PinUnderlay(net, plan.allow, plan.forget)})
  /\ late' = 2
  /\ NoEvent

LaunchFails == Op("armed", "failed", {net}) /\ UNCHANGED late /\ Event

\* _claim_default_route leaves a UDP dial alone until its handshake.
ClaimPins ==
  /\ IF plan.udp
       THEN Op("claim", "bare", {net})
       ELSE Op("claim", "claimed", {PinUnderlay(net, plan.allow, net.file.forget)})
  /\ UNCHANGED late
  /\ NoEvent

\* The rest of _install_win_tun_routes: the TUN owns the default afterwards,
\* or a foreign VPN does and the card is sealed.
Owned(n) == PreferTun(EnsureSplit(n))
Foreign(n) == Seal(EnsureSplit(Owned(n)), plan.allow)

ClaimRoutes ==
  /\ \/ OpPrefers("claimed", "probe", {Owned(net)}) /\ NoEvent
     \/ OpPrefers("claimed", "bare", Foreign(net)) /\ Event
  /\ UNCHANGED late

\* _probe_exit_body: an exit, an exit without DNS, or none.
ProbeOk ==
  /\ \/ Op("probe", "on", {IF net.hole THEN Lift(net) ELSE net})
     \/ Op("bare", "ok", {net})
  /\ UNCHANGED late
  /\ NoEvent

ProbeDns == (\E from \in {"probe", "bare"} : Op(from, "on", {net})) /\ UNCHANGED late /\ Event

\* _seal_on_dead_exit
DeadExit(n) == IF n.hole THEN {n} ELSE Seal(n, plan.allow)

ProbeDead ==
  /\ \/ Op("probe", "sealed", DeadExit(net))
     \/ LET p == PinUnderlay(net, plan.allow, net.file.forget)
        IN OpPrefers("bare", "dying", {Owned(p)} \cup Foreign(p))
     \/ Op("dying", "sealed", DeadExit(net))
  /\ UNCHANGED late
  /\ NoEvent

\* _on_exit_probe_ok with routes still pending
OkPins ==
  /\ Op("ok", "okayed", {PinUnderlay(net, plan.allow, net.file.forget)})
  /\ UNCHANGED late
  /\ NoEvent

OkRoutes ==
  /\ \/ /\ LET o == Owned(net)
               a == IF plan.udp /\ plan.ks THEN Apply(o, plan.allow, {}) ELSE {o}
           IN OpPrefers("okayed", "on", a)
        /\ NoEvent
     \/ OpPrefers("okayed", "blocked", Foreign(net)) /\ Event
  /\ UNCHANGED late

\* _pin_underlay_later
LatePin ==
  /\ late > 0
  /\ late' = late - 1
  /\ net' = PinUnderlay(net, plan.allow, net.file.forget)
  /\ UNCHANGED <<cfg, pc, plan, gw, ask, hist>>
  /\ NoEvent

\* _ensure_tun_default of a tick: the halves are set again if there is an
\* adapter; a foreign VPN may stay, and the card is sealed whatever the plan
\* forgets.
Reclaimed(n) == IF pc \in Adapted THEN EnsureSplit(n) ELSE LiftQuietly(n)

WatchdogReclaims ==
  /\ pc \in Adapted \cup {"failed"}
  /\ net' = Reclaimed(net)
  /\ hist' = [hist EXCEPT !.unfiled = @ \/ ~net.file.there]
  /\ UNCHANGED <<cfg, pc, plan, gw, ask, late>>
  /\ NoEvent

WatchdogSeals ==
  LET hosts == {cfg.server} \cup IF cfg.office THEN {Squid} ELSE {}
  IN /\ pc \in Adapted \cup {"failed"}
     /\ \E n \in Seal(Reclaimed(net), hosts) :
          net' = n /\ hist' = [Noted(n, hosts) EXCEPT !.dog = TRUE]
     /\ UNCHANGED <<cfg, pc, plan, gw, ask, late>>
     /\ Event

\* need_routes; is_applied is asked past its memory where there is no file.
NeedRoutes(n) == n.file.there \/ IsApplied(n)

\* disconnect: sing-box has stopped; the history of what was lost ends here.
Disconnect ==
  /\ pc \in Resting
  /\ SlowPins \/ late = 0
  /\ \E d \in {[net EXCEPT !.split = FALSE]} :
       net' = IF NeedRoutes(d) THEN Clear(d) ELSE [d EXCEPT !.memo = FALSE]
  /\ hist' = [hist EXCEPT !.dropped = IF net.file.there THEN @ \ net.file.allow ELSE @,
                          !.own = IF hist.twice THEN net'.metric ELSE @,
                          !.twice = FALSE]
  /\ pc' = "off"
  /\ UNCHANGED <<cfg, plan, gw, ask, late>>
  /\ NoEvent

-----------------------------------------------------------------------------
\* The rest of the window, the network, the user.

\* status() asks while the file is there and the kill switch is on.
PollReads ==
  /\ cfg.ks /\ net.file.there
  /\ net.memo = None /\ ask = None
  /\ ask' = IsApplied(net)
  /\ UNCHANGED <<cfg, pc, plan, net, gw, late, hist, events>>

\* What it stores may be of a table that is gone.
PollStores ==
  /\ ask # None
  /\ ask' = None
  /\ net' = [net EXCEPT !.memo = ask]
  /\ hist' = [hist EXCEPT !.overtaken = @ \/ ask # IsApplied(net)]
  /\ UNCHANGED <<cfg, pc, plan, gw, late, events>>

\* The ten seconds are over.
Expire ==
  /\ net.memo # None
  /\ net' = [net EXCEPT !.memo = None]
  /\ hist' = [hist EXCEPT !.overtaken = FALSE]
  /\ UNCHANGED <<cfg, pc, plan, gw, ask, late, events>>

\* Routes of a card may go with its network.
ChangeNetwork ==
  /\ Event
  /\ gw' \in Hops \ {gw}
  /\ net' \in {net, [net EXCEPT !.pins = [h \in Hosts |-> None], !.lan = FALSE]}
  /\ hist' = [hist EXCEPT !.gone = TRUE]
  /\ UNCHANGED <<cfg, pc, plan, ask, late>>

ChangeSettings ==
  /\ Event
  /\ cfg' \in Configs \ {cfg}
  /\ UNCHANGED <<pc, plan, net, gw, ask, late, hist>>

\* The program dies with its memory, the machine with its routes.  The metric
\* and the file survive both.
Die ==
  /\ Event
  /\ pc' = "dead"
  /\ late' = 0
  /\ \E s \in {net.split, FALSE} : net' = [net EXCEPT !.split = s, !.memo = None]
  /\ ask' = None
  /\ UNCHANGED <<cfg, plan, gw, hist>>

Reboot ==
  /\ Event
  /\ pc' = "dead"
  /\ late' = 0
  /\ net' = [net EXCEPT !.pins = [h \in Hosts |-> None], !.hole = FALSE, !.split = FALSE,
                        !.v6 = FALSE, !.lan = FALSE, !.memo = None]
  /\ ask' = None
  /\ UNCHANGED <<cfg, plan, gw, hist>>

Next ==
  \/ Connect \/ Launch \/ LaunchFails \/ ClaimPins \/ ClaimRoutes
  \/ ProbeOk \/ ProbeDns \/ ProbeDead \/ OkPins \/ OkRoutes \/ LatePin
  \/ WatchdogReclaims \/ WatchdogSeals \/ Disconnect
  \/ PollReads \/ PollStores \/ Expire \/ ChangeNetwork \/ ChangeSettings \/ Die \/ Reboot

Spec == Init /\ [][Next]_vars

-----------------------------------------------------------------------------
\* Properties.

\* After a disconnect nothing of ours is on the card: no halves, no IPv6
\* block, a LAN route only if a tick set it after a clear had removed the file,
\* and a pin only of a host that new settings, or a server that fell silent, had
\* taken off the list in the file.
CardIsFree ==
  pc = "off" => /\ ~net.hole /\ ~net.split /\ ~net.v6
                /\ net.lan => hist.unfiled
                /\ \A h \in Hosts \ hist.dropped : net.pins[h] = None

\* After a disconnect the card has the user's metric, also when the program or
\* the machine died in between, unless two connects saved it one over the other.
MetricIsBack == pc = "off" => net.metric = hist.own

\* From the launch on, what the tunnel dials is pinned through the gateway of
\* the network the connect found, also when pins of an earlier network, or a
\* shortcut of apply, were in its way.
PinnedAfresh ==
  pc \in Pcs \ {"off", "dead", "failed", "armed"} /\ ~hist.gone =>
    \A h \in plan.allow : net.pins[h] = gw

\* From the launch on, the server of an office connection rides the tunnel: no
\* pin of another place takes it out, until the watchdog seals.
ServerRidesTunnel ==
  pc \in Pcs \ {"off", "dead", "failed", "armed"} /\ ~hist.dog =>
    \A h \in plan.forget : net.pins[h] = None

\* The memory of is_applied denies no blackhole, unless a poll stored what it had
\* read before the seal: a UDP dial that asks it would leave the blackhole in the
\* way of its handshake.
NeverDeniesHole == net.hole /\ ~hist.overtaken => net.memo # FALSE
==============================================================================
