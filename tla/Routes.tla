------------------------------- MODULE Routes -------------------------------
(***************************************************************************)
(* The Windows routes and policies that the connection steps leave behind, *)
(* seen by an administrator (desktop/killswitch, desktop/net,              *)
(* desktop/leak_shield).  The host /32 pins and the interface metrics are  *)
(* left out: no step decided here reads them.  The ten-second memory of    *)
(* is_applied is not a variable: a step that asks it takes either answer,  *)
(* and Lifecycle says which of the wrong ones cost a fault.                *)
(***************************************************************************)

Net == [hole    : BOOLEAN,   \* both IPv4 halves blackholed on the loopback
        split   : BOOLEAN,   \* both halves routed into our TUN
        foreign : BOOLEAN,   \* another VPN keeps better halves of its own
        shield  : BOOLEAN,   \* browser and DoH policies of leak_shield set
        saved   : BOOLEAN]   \* kill-switch.json is on the disk

NoRoutes ==
  [hole |-> FALSE, split |-> FALSE, foreign |-> FALSE, shield |-> FALSE, saved |-> FALSE]

\* is_applied(force=True)
IsApplied(n) == n.hole \/ n.split

\* tun_owns_default: our halves are there and no foreign one has a better metric.
TunOwnsDefault(n) == n.split /\ ~n.foreign

\* lift_ipv4_blackholes
Lift(n) == [n EXCEPT !.hole = FALSE]

\* The halves go with the adapter (remove_stale_tun_adapter).
AdapterGone(n) == [n EXCEPT !.split = FALSE]

\* leak_shield.restore, and what clear does after it.
RestoreShield(n) == [n EXCEPT !.shield = FALSE]

RemoveRoutes(n) == [n EXCEPT !.hole = FALSE, !.split = FALSE, !.saved = FALSE]

\* clear()
Cleared(n) == RemoveRoutes(RestoreShield(n))

\* apply(blackhole=False): it lifts leftover blackholes and pins the server.
\* The policies are set only when the routes were not there already.
Pinned(n) ==
  {[n EXCEPT !.hole = FALSE, !.saved = TRUE, !.shield = s] : s \in {n.shield, TRUE}}

\* apply(blackhole=True) when its routes appear.
Seal(n) == [n EXCEPT !.hole = TRUE, !.saved = TRUE, !.shield = TRUE]

\* remember_plan, and apply(blackhole=True) without a default gateway.
NotSealed(n) == [n EXCEPT !.saved = TRUE]

\* Or its routes do not appear: halves in our TUN pass for them.
Unsealed(n) == {NotSealed(n), [NotSealed(n) EXCEPT !.shield = @ \/ n.split]}

\* ensure_tun_split_default starts by lifting the blackholes.
EnsureSplit(n) == [n EXCEPT !.hole = FALSE, !.split = TRUE]

\* Variant of ReclaimTunDefault for sensitivity: no adapter, nothing to do.
ReclaimIfAdapter(n, adapter) == IF adapter THEN EnsureSplit(n) ELSE n

\* reclaim_tun_default lifts them even when there is no adapter to route into.
ReclaimTunDefault(n, adapter) == IF adapter THEN EnsureSplit(n) ELSE Lift(n)

\* What _install_win_tun_routes leaves when nobody overrides it.
Installed(n) == [EnsureSplit(n) EXCEPT !.saved = TRUE, !.shield = TRUE]
==============================================================================
