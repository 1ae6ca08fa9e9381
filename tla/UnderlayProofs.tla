---------------------------- MODULE UnderlayProofs ----------------------------
(***************************************************************************)
(* What a disconnect leaves on the network card, for any servers, networks *)
(* and settings.  Each call is first reduced to a contract: it keeps the   *)
(* list in kill-switch.json (Keeps), or replaces it or removes the file    *)
(* (Sets).  The invariant then follows the list: every pin, and every host *)
(* of the plan, is in it or is known to have been dropped from it.  Course *)
(* follows the hosts of the plan from the connect on.                      *)
(***************************************************************************)
EXTENDS Underlay, TLAPS

\* What is only there with the file
Filed(n) ==
  /\ n.v6 => n.file.there
  /\ n.file.row # None => n.file.there
  /\ n.file.allow # {} => n.file.there

HoleKnown(n) == n.hole => n.memo # FALSE

\* The metric is the user's, or the file has it.
MetricOk(n, own) == (n.file.row = None /\ n.metric = own) \/ n.file.row = own

RowKept(n, m) == \A own \in Metrics : MetricOk(n, own) => MetricOk(m, own)

PinsFrom(n, m, hosts) == \A h \in Hosts : m.pins[h] # None => n.pins[h] # None \/ h \in hosts

Sound(n, m) == m \in Network /\ Filed(m) /\ (HoleKnown(n) => HoleKnown(m))

\* A call that keeps the list and the file
Keeps(n, m, hosts) ==
  /\ Sound(n, m)
  /\ m.file.allow = n.file.allow
  /\ n.file.there => m.file.there
  /\ m.lan => n.lan \/ m.file.there
  /\ PinsFrom(n, m, hosts)

\* A call after which the list is another, or the file is gone
Sets(n, m, hosts) ==
  /\ Sound(n, m)
  /\ \/ m.file.there /\ m.file.allow = hosts
     \/ ~m.file.there /\ ~m.lan
  /\ PinsFrom(n, m, hosts)

-----------------------------------------------------------------------------
\* The calls.

LEMMA HostsOfPlan ==
  ASSUME cfg \in Configs
  PROVE  /\ Keep(cfg) \subseteq Hosts /\ Forget(cfg) \subseteq Hosts
         /\ {cfg.server} \cup (IF cfg.office THEN {Squid} ELSE {}) \subseteq Hosts
         /\ cfg.udp \in BOOLEAN /\ cfg.ks \in BOOLEAN
  BY UnderlayAssumption DEF UnderlayAssumption, Keep, Forget, Direct, Hosts

LEMMA UnpinTypes ==
  ASSUME NEW p \in [Hosts -> Hops], NEW hosts
  PROVE  /\ Unpin(p, hosts) \in [Hosts -> Hops]
         /\ \A h \in Hosts : Unpin(p, hosts)[h] # None => p[h] # None /\ h \notin hosts
  BY DEF Unpin, Hops

LEMMA PinTypes ==
  ASSUME NEW p \in [Hosts -> Hops], NEW hosts, NEW hop \in Hops
  PROVE  /\ Pin(p, hosts, hop) \in [Hosts -> Hops]
         /\ \A h \in Hosts : Pin(p, hosts, hop)[h] # None => p[h] # None \/ h \in hosts
  BY DEF Pin, Hops

LEMMA AskedKeeps ==
  ASSUME NEW n \in Network, Filed(n)
  PROVE  Keeps(n, Asked(n), {}) /\ RowKept(n, Asked(n)) /\ Answer(n) \in BOOLEAN
<1>1. IsApplied(n) \in BOOLEAN /\ n.memo \in BOOLEAN \cup {None} /\ (n.hole => IsApplied(n) = TRUE)
  BY DEF IsApplied, Network
<1>2. Answer(n) \in BOOLEAN
  BY <1>1 DEF Answer
<1>3. Asked(n) \in Network
  BY <1>2 DEF Asked, Network
<1>4. HoleKnown(n) => HoleKnown(Asked(n))
  BY <1>1, UnderlayAssumption DEF HoleKnown, Asked, Answer, Network, UnderlayAssumption
<1>5. /\ Asked(n).file = n.file /\ Asked(n).lan = n.lan /\ Asked(n).pins = n.pins
      /\ Asked(n).v6 = n.v6 /\ Asked(n).metric = n.metric
  BY DEF Asked, Network
<1> QED
  BY <1>2, <1>3, <1>4, <1>5 DEF Keeps, Sound, Filed, PinsFrom, RowKept, MetricOk

LEMMA LiftKeeps ==
  ASSUME NEW n \in Network, Filed(n), NEW m \in {Lift(n), LiftQuietly(n)}
  PROVE  Keeps(n, m, {}) /\ RowKept(n, m)
<1>1. /\ m \in Network /\ m.hole = FALSE /\ m.file = n.file /\ m.lan = n.lan
      /\ m.pins = n.pins /\ m.v6 = n.v6 /\ m.metric = n.metric
  BY DEF Lift, LiftQuietly, Network
<1> QED
  BY <1>1 DEF Keeps, Sound, HoleKnown, Filed, PinsFrom, RowKept, MetricOk

LEMMA PinUnderlayKeeps ==
  ASSUME NEW n \in Network, Filed(n), gw \in Hops, NEW allow, NEW forget
  PROVE  /\ Keeps(n, PinUnderlay(n, allow, forget), allow)
         /\ RowKept(n, PinUnderlay(n, allow, forget))
         /\ PinUnderlay(n, allow, forget).file = n.file
         /\ PinUnderlay(n, allow, forget).metric = n.metric
<1> DEFINE m == PinUnderlay(n, allow, forget)
           hop == IF n.file.hop # None THEN n.file.hop ELSE gw
           u == Unpin(n.pins, forget \ allow)
           p == Pin(u, allow, hop)
<1>1. hop \in Hops /\ n.pins \in [Hosts -> Hops]
  BY DEF Network, Kept
<1>2. /\ p \in [Hosts -> Hops]
      /\ \A h \in Hosts : p[h] # None => n.pins[h] # None \/ h \in allow
  <2> HIDE DEF hop
  <2>1. u \in [Hosts -> Hops] /\ \A h \in Hosts : u[h] # None => n.pins[h] # None
    BY <1>1, UnpinTypes
  <2> HIDE DEF u
  <2> QED
    BY <1>1, <2>1, PinTypes
<1>3. m = n \/ m = [n EXCEPT !.pins = p, !.memo = None]
  BY DEF PinUnderlay
<1> HIDE DEF p, m
<1>4. /\ m \in Network /\ m.hole = n.hole /\ m.file = n.file /\ m.lan = n.lan
      /\ m.v6 = n.v6 /\ m.metric = n.metric
      /\ (m.memo = n.memo \/ m.memo = None) /\ (m.pins = n.pins \/ m.pins = p)
  BY <1>2, <1>3 DEF Network
<1>5. Keeps(n, m, allow) /\ RowKept(n, m)
  BY <1>2, <1>4, UnderlayAssumption
     DEF Keeps, Sound, HoleKnown, Filed, PinsFrom, RowKept, MetricOk, UnderlayAssumption
<1> QED
  BY <1>4, <1>5 DEF m

\* After clear no file, no halves, no LAN route and no IPv6 block are left, no
\* pin but those that were not in the list, and the metric is the user's.
LEMMA ClearSets ==
  ASSUME NEW n \in Network, Filed(n)
  PROVE  LET m == Clear(n)
         IN /\ m \in Network /\ Filed(m) /\ HoleKnown(m)
            /\ ~m.file.there /\ ~m.lan /\ ~m.hole /\ ~m.split /\ ~m.v6
            /\ m.file = NoFile
            /\ \A h \in Hosts : m.pins[h] # None => n.pins[h] # None /\ h \notin n.file.allow
            /\ \A own \in Metrics : MetricOk(n, own) => MetricOk(m, own) /\ m.metric = own
<1> DEFINE m == Clear(n)
<1>1. NoFile \in Kept
  BY DEF NoFile, Kept, Hops
<1>2. /\ Unpin(n.pins, n.file.allow) \in [Hosts -> Hops]
      /\ \A h \in Hosts : Unpin(n.pins, n.file.allow)[h] # None
                            => n.pins[h] # None /\ h \notin n.file.allow
  <2>1. n.pins \in [Hosts -> Hops] /\ None \in Hops
    BY DEF Network, Hops
  <2> QED
    BY <2>1, UnpinTypes
<1>3. (IF n.file.row = None THEN n.metric ELSE n.file.row) \in Metrics
  BY DEF Network, Kept
<1>4. /\ m \in Network /\ m.hole = FALSE /\ m.split = FALSE /\ m.v6 = FALSE /\ m.lan = FALSE
      /\ m.file = NoFile /\ m.memo = FALSE /\ m.pins = Unpin(n.pins, n.file.allow)
      /\ m.metric = (IF n.file.row = None THEN n.metric ELSE n.file.row)
  BY <1>1, <1>2, <1>3 DEF Clear, Network
<1>5. NoFile.there = FALSE /\ NoFile.row = None /\ NoFile.allow = {}
  BY DEF NoFile
<1>6. Filed(m) /\ HoleKnown(m)
  BY <1>4, <1>5 DEF Filed, HoleKnown
<1>7. \A own \in Metrics : MetricOk(n, own) => MetricOk(m, own) /\ m.metric = own
  BY <1>4, <1>5, UnderlayAssumption DEF MetricOk, UnderlayAssumption
<1> HIDE DEF m
<1>8. /\ m \in Network /\ Filed(m) /\ HoleKnown(m)
      /\ ~m.file.there /\ ~m.lan /\ ~m.hole /\ ~m.split /\ ~m.v6
      /\ m.file = NoFile
      /\ \A h \in Hosts : m.pins[h] # None => n.pins[h] # None /\ h \notin n.file.allow
      /\ \A own \in Metrics : MetricOk(n, own) => MetricOk(m, own) /\ m.metric = own
  BY <1>2, <1>4, <1>5, <1>6, <1>7
<1> QED
  BY <1>8 DEF m

LEMMA InstalledSets ==
  ASSUME NEW n \in Network, Filed(n), gw \in Hops, NEW allow \in SUBSET Hosts,
         NEW forget \in SUBSET Hosts, NEW hole \in BOOLEAN,
         NEW m \in Installed(n, allow, forget, hole)
  PROVE  Sets(n, m, allow) /\ RowKept(n, m)
<1> DEFINE f == Updated(n.file, allow, forget, gw)
           u == Unpin(n.pins, forget)
           p == Pin(u, allow, gw)
           t == [n EXCEPT !.pins = p, !.hole = hole, !.v6 = TRUE]
           s == [t EXCEPT !.file = f, !.memo = IsApplied(t)]
<1>1. f \in Kept /\ f.there = TRUE /\ f.allow = allow /\ f.row = n.file.row
  <2>1. n.file \in Kept
    BY DEF Network
  <2> QED
    BY <2>1 DEF Updated, Kept
<1>2. None \in Hops /\ n.pins \in [Hosts -> Hops]
  BY DEF Hops, Network
<1>3. /\ p \in [Hosts -> Hops]
      /\ \A h \in Hosts : p[h] # None => n.pins[h] # None \/ h \in allow
  <2>1. u \in [Hosts -> Hops] /\ \A h \in Hosts : u[h] # None => n.pins[h] # None
    BY <1>2, UnpinTypes
  <2> HIDE DEF u
  <2> QED
    BY <1>2, <2>1, PinTypes
<1> HIDE DEF f, p
<1>4. CASE m = [n EXCEPT !.file = f]
  <2>1. /\ m \in Network /\ m.file = f /\ m.lan = n.lan /\ m.hole = n.hole /\ m.memo = n.memo
        /\ m.pins = n.pins /\ m.metric = n.metric
    BY <1>1, <1>4 DEF Network
  <2> QED
    BY <1>1, <2>1 DEF Sets, Sound, HoleKnown, Filed, PinsFrom, RowKept, MetricOk
<1>5. /\ t \in Network /\ t.file = n.file /\ t.pins = p /\ t.hole = hole /\ t.v6 = TRUE
      /\ t.metric = n.metric
  BY <1>3 DEF Network
<1> HIDE DEF t
<1>6. IsApplied(t) \in BOOLEAN /\ (t.hole => IsApplied(t) = TRUE)
  BY <1>5 DEF IsApplied, Network
<1>7. /\ s \in Network /\ s.file = f /\ s.pins = p /\ s.hole = t.hole /\ s.memo = IsApplied(t)
      /\ s.metric = n.metric /\ Filed(s) /\ HoleKnown(s) /\ RowKept(n, s) /\ PinsFrom(n, s, allow)
  <2>1. /\ s \in Network /\ s.file = f /\ s.pins = p /\ s.hole = t.hole /\ s.memo = IsApplied(t)
        /\ s.metric = n.metric
    BY <1>1, <1>5, <1>6 DEF Network
  <2> HIDE DEF s
  <2> QED
    BY <1>1, <1>3, <1>6, <2>1 DEF Filed, HoleKnown, RowKept, MetricOk, PinsFrom
<1> HIDE DEF s
<1>8. CASE m = s
  BY <1>1, <1>7, <1>8 DEF Sets, Sound
<1>9. CASE m = Clear(s)
  <2>1. /\ m \in Network /\ Filed(m) /\ HoleKnown(m) /\ ~m.file.there /\ ~m.lan
        /\ \A h \in Hosts : m.pins[h] # None => s.pins[h] # None
        /\ \A own \in Metrics : MetricOk(s, own) => MetricOk(m, own)
    BY <1>7, <1>9, ClearSets
  <2> QED
    BY <1>7, <2>1 DEF Sets, Sound, RowKept, PinsFrom
<1> QED
  BY <1>4, <1>8, <1>9 DEF Installed, f, u, p, t, s

\* Seal without and with the TUN's halves under it
LEMMA SealSets ==
  ASSUME NEW n \in Network, Filed(n), gw \in Hops, NEW allow \in SUBSET Hosts,
         NEW m \in Seal(n, allow)
  PROVE  Sets(n, m, allow) /\ RowKept(n, m)
  BY InstalledSets DEF Seal

LEMMA ApplySets ==
  ASSUME NEW n \in Network, Filed(n), gw \in Hops, NEW allow \in SUBSET Hosts,
         NEW forget \in SUBSET Hosts, NEW m \in Apply(n, allow, forget)
  PROVE  Sets(n, m, allow) /\ RowKept(n, m)
<1> DEFINE l == IF n.hole THEN Lift(n) ELSE n
           a == Asked(l)
           f == Updated(a.file, allow, forget, gw)
           p == Unpin(a.pins, forget)
           c == [a EXCEPT !.file = f, !.pins = p]
<1>1. Keeps(n, l, {}) /\ RowKept(n, l)
  BY LiftKeeps DEF Keeps, Sound, RowKept, PinsFrom
<1>2. l \in Network /\ Filed(l)
  BY <1>1 DEF Keeps, Sound
<1> HIDE DEF l
<1>3. Keeps(l, a, {}) /\ RowKept(l, a)
  BY <1>2, AskedKeeps
<1> HIDE DEF a
<1>4. /\ a \in Network /\ Filed(a) /\ (HoleKnown(n) => HoleKnown(a))
      /\ PinsFrom(n, a, {}) /\ RowKept(n, a)
  BY <1>1, <1>3 DEF Keeps, Sound, PinsFrom, RowKept
<1>5. CASE m \in Installed(a, allow, forget, FALSE)
  BY <1>4, <1>5, InstalledSets DEF Sets, Sound, PinsFrom, RowKept
<1>6. a.file \in Kept /\ a.pins \in [Hosts -> Hops]
  BY <1>4 DEF Network
<1>7. f \in Kept /\ f.there = TRUE /\ f.allow = allow /\ f.row = a.file.row
  BY <1>6 DEF Updated, Kept
<1>8. p \in [Hosts -> Hops] /\ \A h \in Hosts : p[h] # None => a.pins[h] # None
  BY <1>6, UnpinTypes
<1> HIDE DEF f, p
<1>9. /\ c \in Network /\ c.file = f /\ c.pins = p /\ c.hole = a.hole /\ c.memo = a.memo
      /\ c.metric = a.metric
  BY <1>4, <1>7, <1>8 DEF Network
<1> HIDE DEF c
<1>10. Sets(n, c, allow) /\ RowKept(n, c)
  BY <1>4, <1>7, <1>8, <1>9
     DEF Sets, Sound, HoleKnown, Filed, PinsFrom, RowKept, MetricOk
<1>11. CASE m = c
  BY <1>10, <1>11
<1> QED
  BY <1>5, <1>11 DEF Apply, Shortcut, l, a, f, p, c

LEMMA RememberPlanSets ==
  ASSUME NEW n \in Network, Filed(n), gw \in Hops, NEW allow \in SUBSET Hosts,
         NEW forget \in SUBSET Hosts
  PROVE  Sets(n, RememberPlan(n, allow, forget), allow) /\ RowKept(n, RememberPlan(n, allow, forget))
<1> DEFINE a == Asked(n)
           f == Updated(a.file, allow, forget, gw)
           m == [a EXCEPT !.file = f]
<1>1. Keeps(n, a, {}) /\ RowKept(n, a)
  BY AskedKeeps
<1> HIDE DEF a
<1>2. a \in Network /\ Filed(a) /\ a.file \in Kept
  BY <1>1 DEF Keeps, Sound, Network
<1>3. f \in Kept /\ f.there = TRUE /\ f.allow = allow /\ f.row = a.file.row
  BY <1>2 DEF Updated, Kept
<1> HIDE DEF f
<1>4. /\ m \in Network /\ m.file = f /\ m.pins = a.pins /\ m.hole = a.hole /\ m.memo = a.memo
      /\ m.metric = a.metric
  BY <1>2, <1>3 DEF Network
<1> HIDE DEF m
<1>5. Sets(n, m, allow) /\ RowKept(n, m)
  BY <1>1, <1>3, <1>4 DEF Keeps, Sets, Sound, HoleKnown, Filed, PinsFrom, RowKept, MetricOk
<1> QED
  BY <1>5 DEF RememberPlan, a, f, m

\* prefer_tun_ipv4 keeps the user's metric unless it is about to save another
\* over it.
LEMMA OwnedKeeps ==
  ASSUME NEW n \in Network, Filed(n), gw \in Hops
  PROVE  /\ Keeps(n, Owned(n), {})
         /\ Keeps(n, EnsureSplit(Owned(n)), {})
         /\ (n.file.row # None => n.metric = n.file.row)
              => RowKept(n, Owned(n)) /\ RowKept(n, EnsureSplit(Owned(n)))
<1> DEFINE e == EnsureSplit(n)
           o == PreferTun(e)
           x == EnsureSplit(o)
<1>1. /\ e \in Network /\ e.hole = FALSE /\ e.file = n.file /\ e.pins = n.pins
      /\ e.v6 = n.v6 /\ e.metric = n.metric
  BY DEF EnsureSplit, LiftQuietly, Network
<1> HIDE DEF e
<1>2. /\ o \in Network /\ o.hole = FALSE /\ o.pins = n.pins /\ o.file.there = TRUE
      /\ o.file.allow = n.file.allow /\ o.file.row = n.metric
  BY <1>1 DEF PreferTun, Network, Kept, Metrics
<1> HIDE DEF o
<1>3. /\ x \in Network /\ x.hole = FALSE /\ x.pins = o.pins /\ x.file = o.file
  BY <1>2 DEF EnsureSplit, LiftQuietly, Network
<1> HIDE DEF x
<1>4. Keeps(n, o, {}) /\ Keeps(n, x, {})
  BY <1>2, <1>3 DEF Keeps, Sound, HoleKnown, Filed, PinsFrom
<1>5. (n.file.row # None => n.metric = n.file.row) => RowKept(n, o) /\ RowKept(n, x)
  BY <1>2, <1>3, UnderlayAssumption DEF RowKept, MetricOk, UnderlayAssumption
<1> QED
  BY <1>4, <1>5 DEF Owned, e, o, x

LEMMA ForeignSets ==
  ASSUME NEW n \in Network, Filed(n), gw \in Hops, plan.allow \in SUBSET Hosts,
         NEW m \in Foreign(n)
  PROVE  /\ Sets(n, m, plan.allow)
         /\ (n.file.row # None => n.metric = n.file.row) => RowKept(n, m)
<1> DEFINE x == EnsureSplit(Owned(n))
<1>1. /\ Keeps(n, x, {})
      /\ (n.file.row # None => n.metric = n.file.row) => RowKept(n, x)
  BY OwnedKeeps
<1>2. m \in Seal(x, plan.allow)
  BY DEF Foreign
<1> HIDE DEF x
<1>3. x \in Network /\ Filed(x)
  BY <1>1 DEF Keeps, Sound
<1>4. Sets(x, m, plan.allow) /\ RowKept(x, m)
  BY <1>2, <1>3, SealSets
<1> QED
  BY <1>1, <1>4 DEF Keeps, Sets, Sound, PinsFrom, RowKept

LEMMA DownKeeps ==
  ASSUME NEW n \in Network, Filed(n), NEW m \in Down(n)
  PROVE  Keeps(n, m, {}) /\ RowKept(n, m)
<1>1. PICK l \in {n, IF n.hole THEN Lift(n) ELSE n} : m = [l EXCEPT !.split = FALSE]
  BY DEF Down
<1>2. l \in Network /\ Keeps(n, l, {}) /\ RowKept(n, l)
  BY <1>1, LiftKeeps DEF Keeps, Sound, RowKept, PinsFrom
<1>3. /\ m \in Network /\ m.file = l.file /\ m.pins = l.pins /\ m.hole = l.hole
      /\ m.memo = l.memo /\ m.lan = l.lan /\ m.v6 = l.v6 /\ m.metric = l.metric
  BY <1>1, <1>2 DEF Network
<1> QED
  BY <1>2, <1>3 DEF Keeps, Sound, HoleKnown, Filed, PinsFrom, RowKept, MetricOk

LEMMA ArmedSets ==
  ASSUME NEW n \in Network, Filed(n), gw \in Hops, cfg \in Configs, NEW m \in Armed(n)
  PROVE  Sets(n, m, Keep(cfg)) /\ RowKept(n, m)
<1>1. Keep(cfg) \in SUBSET Hosts /\ Forget(cfg) \in SUBSET Hosts
  BY HostsOfPlan
<1>2. CASE cfg.ks /\ ~cfg.udp
  BY <1>1, <1>2, ApplySets DEF Armed
<1>3. CASE ~(cfg.ks /\ ~cfg.udp)
  <2> DEFINE x == IF ~cfg.ks THEN n ELSE IF Answer(n) THEN Clear(n) ELSE Asked(n)
  <2>1. x \in Network /\ Filed(x) /\ (HoleKnown(n) => HoleKnown(x)) /\ PinsFrom(n, x, {}) /\ RowKept(n, x)
    <3>1. CASE x = n
      BY <3>1 DEF PinsFrom, RowKept
    <3>2. CASE x = Clear(n)
      BY <3>2, ClearSets DEF PinsFrom, RowKept
    <3>3. CASE x = Asked(n)
      BY <3>3, AskedKeeps DEF Keeps, Sound
    <3> QED
      BY <3>1, <3>2, <3>3
  <2>2. m = RememberPlan(x, Keep(cfg), Forget(cfg))
    BY <1>3 DEF Armed
  <2> HIDE DEF x
  <2>3. Sets(x, m, Keep(cfg)) /\ RowKept(x, m)
    BY <1>1, <2>1, <2>2, RememberPlanSets
  <2> QED
    BY <2>1, <2>3 DEF Sets, Sound, PinsFrom, RowKept
<1> QED
  BY <1>2, <1>3

LEMMA ReclaimedCard ==
  ASSUME NEW n \in Network, Filed(n)
  PROVE  LET m == Reclaimed(n)
         IN /\ m \in Network /\ Filed(m) /\ m.hole = FALSE /\ m.file = n.file /\ m.pins = n.pins
            /\ m.metric = n.metric
  BY DEF Reclaimed, EnsureSplit, LiftQuietly, Network, Filed

-----------------------------------------------------------------------------
\* The invariant.

Working == Pcs \ Resting

LanKept == net.lan => net.file.there \/ hist.unfiled
HoleKept == ~hist.overtaken => HoleKnown(net)
MetricKept == ~hist.twice => MetricOk(net, hist.own)

\* What is pinned, and what the connection may still pin
PinsListed ==
  ~SlowPins => \A h \in Hosts : net.pins[h] # None => h \in net.file.allow \cup hist.dropped

PlanListed == pc \notin {"off", "dead"} => plan.allow \subseteq net.file.allow \cup hist.dropped

WorkListed == pc \in Working => net.file.allow \subseteq plan.allow

OffIsBare == pc = "off" => ~net.hole /\ ~net.split /\ ~net.file.there /\ ~hist.twice

NoLatePin == ~SlowPins /\ pc \in {"off", "dead", "armed"} => late = 0

Ledger == Filed(net) /\ LanKept /\ HoleKept /\ MetricKept

IInv ==
  TypeOK /\ Ledger /\ PinsListed /\ PlanListed /\ WorkListed /\ OffIsBare /\ NoLatePin

LEMMA NotedType ==
  ASSUME hist \in Histories, net \in Network, NEW n \in Network, NEW allow \in SUBSET Hosts
  PROVE  LET h == Noted(n, allow)
         IN /\ h \in Histories
            /\ h.dropped = hist.dropped \cup (net.file.allow \ allow)
                             \cup (IF n.file.there THEN {} ELSE allow)
            /\ h.own = hist.own /\ h.twice = hist.twice /\ h.unfiled = hist.unfiled
            /\ h.overtaken = hist.overtaken
  BY DEF Noted, Histories, Network, Kept

\* Every step of the operation between the connect and the rest
LEMMA OperationStep ==
  ASSUME IInv, pc \in Working, pc' \in Pcs \ {"off", "dead", "armed"},
         UNCHANGED <<cfg, plan, gw, ask>>, late' \in 0..2, events' \in 0..MaxEvents,
         Keeps(net, net', plan.allow) \/ Sets(net, net', plan.allow),
         \/ hist' = Noted(net', net.file.allow) /\ RowKept(net, net')
         \/ /\ hist' = [Noted(net', net.file.allow) EXCEPT !.twice = @ \/ SavesAgain]
            /\ ~SavesAgain => RowKept(net, net')
  PROVE  IInv'
<1>1. /\ TypeOK /\ Ledger /\ PinsListed /\ PlanListed /\ WorkListed
      /\ net \in Network /\ hist \in Histories /\ pc \notin {"off", "dead"}
      /\ hist.own \in Metrics /\ hist.twice \in BOOLEAN
      /\ net.file.allow \in SUBSET Hosts /\ SavesAgain \in BOOLEAN
  BY DEF IInv, TypeOK, Histories, Network, Kept, Working, Resting, Adapted, SavesAgain
<1>2. /\ net' \in Network /\ Filed(net)' /\ (HoleKnown(net) => HoleKnown(net)')
      /\ PinsFrom(net, net', plan.allow)
  BY DEF Keeps, Sets, Sound, Filed, HoleKnown
<1>3. /\ hist' \in Histories
      /\ hist'.dropped = hist.dropped \cup (IF net'.file.there THEN {} ELSE net.file.allow)
      /\ hist'.own = hist.own /\ hist'.unfiled = hist.unfiled /\ hist'.overtaken = hist.overtaken
      /\ ~hist'.twice => ~hist.twice /\ RowKept(net, net')
  <2> DEFINE d == Noted(net', net.file.allow)
  <2>1. /\ d \in Histories
        /\ d.dropped = hist.dropped \cup (IF net'.file.there THEN {} ELSE net.file.allow)
        /\ d.own = hist.own /\ d.twice = hist.twice /\ d.unfiled = hist.unfiled
        /\ d.overtaken = hist.overtaken
    BY <1>1, <1>2, NotedType
  <2> HIDE DEF d
  <2>2. \/ hist' = d /\ RowKept(net, net')
        \/ /\ hist' = [d EXCEPT !.twice = d.twice \/ SavesAgain]
           /\ ~SavesAgain => RowKept(net, net')
    BY DEF d
  <2> QED
    BY <1>1, <2>1, <2>2 DEF Histories
<1>4. TypeOK'
  BY <1>1, <1>2, <1>3 DEF TypeOK
<1>5. Ledger'
  <2>1. LanKept'
    BY <1>1, <1>3 DEF Ledger, LanKept, Keeps, Sets
  <2>2. HoleKept'
    BY <1>1, <1>2, <1>3 DEF Ledger, HoleKept
  <2>3. MetricKept'
    BY <1>1, <1>3 DEF Ledger, MetricKept, RowKept, MetricOk
  <2> QED
    BY <1>2, <2>1, <2>2, <2>3 DEF Ledger
<1>6. PinsListed' /\ PlanListed'
  BY <1>1, <1>2, <1>3 DEF PinsListed, PlanListed, WorkListed, PinsFrom, Keeps, Sets
<1>7. WorkListed'
  BY <1>1, <1>2 DEF WorkListed, Keeps, Sets, Filed
<1> QED
  BY <1>4, <1>5, <1>6, <1>7 DEF IInv, OffIsBare, NoLatePin

LEMMA InitIInv == Init => IInv
<1> SUFFICES ASSUME Init PROVE IInv
  OBVIOUS
<1>1. PICK m \in Own :
        /\ net = [pins |-> [h \in Hosts |-> None], hole |-> FALSE, split |-> FALSE,
                  v6 |-> FALSE, lan |-> FALSE, metric |-> m, file |-> NoFile, memo |-> None]
        /\ hist = [own |-> m, twice |-> FALSE, dropped |-> {}, gone |-> FALSE, dog |-> FALSE,
                  unfiled |-> FALSE, overtaken |-> FALSE]
  BY DEF Init
<1>2. m \in Metrics
  BY UnderlayAssumption DEF UnderlayAssumption, Metrics
<1>3. net \in Network
  BY <1>1, <1>2 DEF Network, NoFile, Kept, Hops
<1>4. TypeOK
  BY <1>1, <1>2, <1>3, UnderlayAssumption
     DEF Init, TypeOK, Histories, Plans, Pcs, Resting, Hops, UnderlayAssumption
<1> QED
  BY <1>1, <1>4, UnderlayAssumption
     DEF Init, IInv, Ledger, Filed, LanKept, HoleKept, HoleKnown, MetricKept, MetricOk, PinsListed,
         PlanListed, WorkListed, Working, Resting, OffIsBare, NoLatePin, NoFile, UnderlayAssumption

LEMMA ConnectStep == IInv /\ Connect => IInv'
<1> SUFFICES ASSUME IInv, Connect PROVE IInv'
  OBVIOUS
<1>1. PICK d \in Down(net) : \E n \in Armed(d) :
        /\ net' = n
        /\ hist' = [Noted(n, Keep(cfg)) EXCEPT !.gone = gw = None, !.dog = FALSE]
  BY DEF Connect
<1>2. /\ TypeOK /\ Ledger /\ PinsListed /\ net \in Network /\ hist \in Histories /\ gw \in Hops
      /\ cfg \in Configs
  BY DEF IInv, TypeOK
<1>3. Keeps(net, d, {}) /\ RowKept(net, d)
  BY <1>1, <1>2, DownKeeps DEF Ledger
<1>4. Sets(d, net', Keep(cfg)) /\ RowKept(d, net')
  BY <1>1, <1>2, <1>3, ArmedSets DEF Keeps, Sound
<1>5. /\ net' \in Network /\ Filed(net)' /\ (HoleKnown(net) => HoleKnown(net)')
      /\ PinsFrom(net, net', Keep(cfg)) /\ RowKept(net, net')
      /\ net'.lan => net'.file.there
      /\ net'.file.there => net'.file.allow = Keep(cfg)
  BY <1>3, <1>4 DEF Keeps, Sets, Sound, Filed, HoleKnown, PinsFrom, RowKept
<1>6. Keep(cfg) \in SUBSET Hosts /\ Forget(cfg) \in SUBSET Hosts /\ cfg.udp \in BOOLEAN /\ cfg.ks \in BOOLEAN
  BY <1>2, HostsOfPlan
<1>7. /\ hist' \in Histories
      /\ hist'.dropped = hist.dropped \cup (net.file.allow \ Keep(cfg))
                          \cup (IF net'.file.there THEN {} ELSE Keep(cfg))
      /\ hist'.own = hist.own /\ hist'.unfiled = hist.unfiled /\ hist'.overtaken = hist.overtaken
      /\ hist'.twice = hist.twice
  <2> DEFINE h == Noted(net', Keep(cfg))
  <2>1. /\ h \in Histories
        /\ h.dropped = hist.dropped \cup (net.file.allow \ Keep(cfg))
                         \cup (IF net'.file.there THEN {} ELSE Keep(cfg))
        /\ h.own = hist.own /\ h.twice = hist.twice /\ h.unfiled = hist.unfiled
        /\ h.overtaken = hist.overtaken
    BY <1>2, <1>5, <1>6, NotedType
  <2> HIDE DEF h
  <2>2. hist' = [h EXCEPT !.gone = gw = None, !.dog = FALSE]
    BY <1>1 DEF h
  <2>3. (gw = None) \in BOOLEAN
    OBVIOUS
  <2> QED
    BY <2>1, <2>2, <2>3 DEF Histories
<1>8. plan' = [allow |-> Keep(cfg), forget |-> Forget(cfg), udp |-> cfg.udp, ks |-> cfg.ks]
  BY DEF Connect, ResolvePlan
<1>9. TypeOK'
  BY <1>2, <1>5, <1>6, <1>7, <1>8 DEF Connect, NoEvent, TypeOK, Plans, Pcs
<1>10. Ledger'
  BY <1>2, <1>5, <1>7 DEF Ledger, LanKept, HoleKept, MetricKept, RowKept, MetricOk, Histories
<1>11. PinsListed'
  BY <1>2, <1>5, <1>7 DEF PinsListed, PinsFrom
<1>12. PlanListed' /\ WorkListed'
  BY <1>5, <1>7, <1>8 DEF PlanListed, WorkListed, Filed
<1>13. OffIsBare' /\ NoLatePin'
  BY DEF Connect, OffIsBare, NoLatePin
<1> QED
  BY <1>9, <1>10, <1>11, <1>12, <1>13 DEF IInv

LEMMA DisconnectStep == IInv /\ Disconnect => IInv'
<1> SUFFICES ASSUME IInv, Disconnect PROVE IInv'
  OBVIOUS
<1> DEFINE d == [net EXCEPT !.split = FALSE]
<1>1. /\ TypeOK /\ Ledger /\ PinsListed /\ net \in Network /\ hist \in Histories
  BY DEF IInv, TypeOK
<1>2. /\ d \in Network /\ d.file = net.file /\ d.pins = net.pins /\ d.hole = net.hole
      /\ d.split = FALSE /\ d.v6 = net.v6 /\ d.lan = net.lan /\ d.metric = net.metric
      /\ d.memo = net.memo
  BY <1>1 DEF Network
<1>3. net' = IF NeedRoutes(d) THEN Clear(d) ELSE [d EXCEPT !.memo = FALSE]
  BY DEF Disconnect
<1> HIDE DEF d
<1>4. Filed(d) /\ (HoleKnown(net) => HoleKnown(d)) /\ RowKept(net, d)
  BY <1>1, <1>2 DEF Ledger, Filed, HoleKnown, RowKept, MetricOk
<1>5. /\ net' \in Network /\ Filed(net)' /\ (HoleKnown(net) => HoleKnown(net)')
      /\ ~net'.hole /\ ~net'.split /\ ~net'.file.there
      /\ net'.lan => net.lan /\ ~net.file.there
      /\ \A h \in Hosts : net'.pins[h] # None => net.pins[h] # None /\ h \notin net.file.allow
      /\ \A own \in Metrics : MetricOk(net, own) => net'.metric = own
  <2>1. CASE NeedRoutes(d)
    BY <1>2, <1>3, <1>4, <2>1, ClearSets DEF RowKept, Filed, HoleKnown
  <2>2. CASE ~NeedRoutes(d)
    <3>1. ~d.file.there /\ ~d.hole
      BY <2>2 DEF NeedRoutes, IsApplied
    <3>2. d.file.allow = {} /\ d.file.row = None
      BY <1>4, <3>1 DEF Filed
    <3>3. /\ net' \in Network /\ net'.file = d.file /\ net'.pins = d.pins
          /\ net'.hole = d.hole /\ net'.split = d.split /\ net'.v6 = d.v6
          /\ net'.lan = d.lan /\ net'.metric = d.metric
      BY <1>2, <1>3, <2>2 DEF Network
    <3> QED
      BY <1>2, <1>4, <3>1, <3>2, <3>3, UnderlayAssumption
         DEF Filed, HoleKnown, RowKept, MetricOk, UnderlayAssumption
  <2> QED
    BY <2>1, <2>2
<1>6. net'.file.row = None /\ net'.file.allow = {} /\ net'.metric \in Metrics
  BY <1>5 DEF Filed, Network
<1>7. /\ hist' \in Histories
      /\ hist'.dropped = (IF net.file.there THEN hist.dropped \ net.file.allow ELSE hist.dropped)
      /\ hist'.own = (IF hist.twice THEN net'.metric ELSE hist.own) /\ ~hist'.twice
      /\ hist'.unfiled = hist.unfiled /\ hist'.overtaken = hist.overtaken
  BY <1>1, <1>6 DEF Disconnect, Histories
<1>8. TypeOK'
  BY <1>1, <1>5, <1>7 DEF Disconnect, NoEvent, TypeOK, Pcs, Resting
<1>9. Ledger'
  BY <1>1, <1>5, <1>6, <1>7
     DEF Ledger, LanKept, HoleKept, MetricKept, MetricOk, Histories
<1>10. PinsListed'
  BY <1>1, <1>5, <1>6, <1>7 DEF PinsListed
<1>11. OffIsBare'
  BY <1>5, <1>7 DEF OffIsBare
<1>12. NoLatePin'
  BY DEF Disconnect, NoLatePin
<1>13. PlanListed' /\ WorkListed'
  BY DEF Disconnect, PlanListed, WorkListed, Working, Resting
<1> QED
  BY <1>8, <1>9, <1>10, <1>11, <1>12, <1>13 DEF IInv

\* The steps of the operation
LEMMA KeepsSelf ==
  ASSUME NEW n \in Network, Filed(n), NEW hosts
  PROVE  Keeps(n, n, hosts) /\ RowKept(n, n)
  BY DEF Keeps, Sound, PinsFrom, RowKept

LEMMA WiderKeeps ==
  ASSUME NEW n, NEW m, Keeps(n, m, {}), NEW hosts
  PROVE  Keeps(n, m, hosts)
  BY DEF Keeps, PinsFrom

\* The calls of a step one after the other
LEMMA KeepsThenSets ==
  ASSUME NEW n, NEW m, NEW k, NEW hosts, Keeps(n, m, hosts), Sets(m, k, hosts)
  PROVE  Sets(n, k, hosts)
  BY DEF Keeps, Sets, Sound, PinsFrom

LEMMA KeepsThenKeeps ==
  ASSUME NEW n, NEW m, NEW k, NEW hosts, Keeps(n, m, hosts), Keeps(m, k, hosts)
  PROVE  Keeps(n, k, hosts)
  BY DEF Keeps, Sound, PinsFrom

PlainOp == Launch \/ LaunchFails \/ ClaimPins \/ ProbeOk \/ ProbeDns \/ OkPins

LEMMA PlainStep == IInv /\ PlainOp => IInv'
<1> SUFFICES ASSUME IInv, PlainOp PROVE IInv'
  OBVIOUS
<1>1. net \in Network /\ Filed(net) /\ gw \in Hops /\ late \in 0..2 /\ events \in 0..MaxEvents
  BY DEF IInv, TypeOK, Ledger
<1>2. \E n \in {net, IF net.hole THEN Lift(net) ELSE net,
               PinUnderlay(net, plan.allow, plan.forget),
               PinUnderlay(net, plan.allow, net.file.forget)} :
        net' = n /\ hist' = Noted(n, net.file.allow)
  BY DEF PlainOp, Launch, LaunchFails, ClaimPins, ProbeOk, ProbeDns, OkPins, Op
<1>3. PICK n \in {net, IF net.hole THEN Lift(net) ELSE net,
                 PinUnderlay(net, plan.allow, plan.forget),
                 PinUnderlay(net, plan.allow, net.file.forget)} :
        net' = n /\ hist' = Noted(n, net.file.allow)
  BY <1>2
<1>4. Keeps(net, n, plan.allow) /\ RowKept(net, n)
  BY <1>1, <1>3, KeepsSelf, LiftKeeps, WiderKeeps, PinUnderlayKeeps
<1>5. /\ pc \in Working /\ pc' \in Pcs \ {"off", "dead", "armed"}
      /\ UNCHANGED <<cfg, plan, gw, ask>>
  BY DEF PlainOp, Launch, LaunchFails, ClaimPins, ProbeOk, ProbeDns, OkPins, Op, Working, Pcs,
         Resting, Adapted
<1>6. late' \in 0..2 /\ events' \in 0..MaxEvents
  BY <1>1, UnderlayAssumption
     DEF PlainOp, Launch, LaunchFails, ClaimPins, ProbeOk, ProbeDns, OkPins, NoEvent, Event,
         UnderlayAssumption
<1> QED
  BY <1>3, <1>4, <1>5, <1>6, OperationStep

\* The halves of a claim, after whatever pins
LEMMA ClaimedCard ==
  ASSUME NEW n \in Network, Filed(n), gw \in Hops, plan.allow \in SUBSET Hosts,
         NEW m \in {Owned(n)} \cup Foreign(n)
  PROVE  /\ Keeps(n, m, plan.allow) \/ Sets(n, m, plan.allow)
         /\ (n.file.row # None => n.metric = n.file.row) => RowKept(n, m)
  BY OwnedKeeps, ForeignSets, WiderKeeps

PreferringOp ==
  \/ ClaimRoutes \/ OkRoutes
  \/ /\ ProbeDead /\ pc = "bare"

LEMMA PreferringStep == IInv /\ PreferringOp => IInv'
<1> SUFFICES ASSUME IInv, PreferringOp PROVE IInv'
  OBVIOUS
<1> DEFINE p == PinUnderlay(net, plan.allow, net.file.forget)
<1>1. /\ net \in Network /\ Filed(net) /\ gw \in Hops /\ late \in 0..2 /\ events \in 0..MaxEvents
      /\ plan.allow \in SUBSET Hosts
  BY DEF IInv, TypeOK, Ledger, Plans
<1>2. /\ Keeps(net, p, plan.allow) /\ RowKept(net, p)
      /\ p.file = net.file /\ p.metric = net.metric /\ p \in Network /\ Filed(p)
  BY <1>1, PinUnderlayKeeps DEF Keeps, Sound
<1>3. /\ pc \in Working /\ pc' \in Pcs \ {"off", "dead", "armed"}
      /\ UNCHANGED <<cfg, plan, gw, ask>> /\ late' \in 0..2 /\ events' \in 0..MaxEvents
  BY <1>1, UnderlayAssumption
     DEF PreferringOp, ClaimRoutes, OkRoutes, ProbeDead, Op, OpPrefers, Working, Pcs, Resting, Adapted,
         NoEvent, Event, UnderlayAssumption
<1>4. hist' = [Noted(net', net.file.allow) EXCEPT !.twice = @ \/ SavesAgain]
  BY DEF PreferringOp, ClaimRoutes, OkRoutes, ProbeDead, Op, OpPrefers
<1>5. /\ Keeps(net, net', plan.allow) \/ Sets(net, net', plan.allow)
      /\ ~SavesAgain => RowKept(net, net')
  <2>1. CASE net' \in {Owned(net)} \cup Foreign(net)
    BY <1>1, <2>1, ClaimedCard DEF SavesAgain
  <2>2. CASE net' \in {Owned(p)} \cup Foreign(p)
    <3> HIDE DEF p
    <3>1. /\ Keeps(p, net', plan.allow) \/ Sets(p, net', plan.allow)
          /\ ~SavesAgain => RowKept(p, net')
      BY <1>1, <1>2, <2>2, ClaimedCard DEF SavesAgain
    <3> QED
      BY <1>2, <3>1, KeepsThenSets, KeepsThenKeeps DEF RowKept
  <2>3. CASE net' \in Apply(Owned(net), plan.allow, {})
    <3> DEFINE o == Owned(net)
    <3>1. Keeps(net, o, {}) /\ (~SavesAgain => RowKept(net, o))
      BY <1>1, OwnedKeeps DEF SavesAgain
    <3> HIDE DEF o
    <3>2. o \in Network /\ Filed(o) /\ Keeps(net, o, plan.allow)
      BY <3>1, WiderKeeps DEF Keeps, Sound
    <3>3. {} \in SUBSET Hosts /\ net' \in Apply(o, plan.allow, {})
      BY <2>3 DEF o
    <3>4. Sets(o, net', plan.allow) /\ RowKept(o, net')
      BY <1>1, <3>2, <3>3, ApplySets
    <3> QED
      BY <3>1, <3>2, <3>4, KeepsThenSets DEF RowKept
  <2> QED
    BY <2>1, <2>2, <2>3 DEF PreferringOp, ClaimRoutes, OkRoutes, ProbeDead, Op, OpPrefers
<1> QED
  BY <1>3, <1>4, <1>5, OperationStep

LEMMA DeadExitStep == IInv /\ ProbeDead /\ pc # "bare" => IInv'
<1> SUFFICES ASSUME IInv, ProbeDead, pc # "bare" PROVE IInv'
  OBVIOUS
<1>1. /\ net \in Network /\ Filed(net) /\ gw \in Hops /\ late \in 0..2 /\ events \in 0..MaxEvents
      /\ plan.allow \in SUBSET Hosts
  BY DEF IInv, TypeOK, Ledger, Plans
<1>2. net' \in DeadExit(net) /\ hist' = Noted(net', net.file.allow)
  BY DEF ProbeDead, Op, OpPrefers
<1>3. /\ Keeps(net, net', plan.allow) \/ Sets(net, net', plan.allow)
      /\ RowKept(net, net')
  BY <1>1, <1>2, SealSets, KeepsSelf DEF DeadExit
<1>4. /\ pc \in Working /\ pc' \in Pcs \ {"off", "dead", "armed"}
      /\ UNCHANGED <<cfg, plan, gw, ask>> /\ late' \in 0..2 /\ events' \in 0..MaxEvents
  BY <1>1 DEF ProbeDead, Op, OpPrefers, Working, Pcs, Resting, Adapted, NoEvent
<1> QED
  BY <1>2, <1>3, <1>4, OperationStep

\* The watchdog
LEMMA WatchdogStep == IInv /\ (WatchdogReclaims \/ WatchdogSeals) => IInv'
<1> SUFFICES ASSUME IInv, WatchdogReclaims \/ WatchdogSeals PROVE IInv'
  OBVIOUS
<1> DEFINE r == Reclaimed(net)
           hosts == {cfg.server} \cup IF cfg.office THEN {Squid} ELSE {}
<1>1. /\ TypeOK /\ Ledger /\ PinsListed /\ PlanListed /\ NoLatePin
      /\ net \in Network /\ Filed(net) /\ hist \in Histories /\ gw \in Hops /\ cfg \in Configs
  BY DEF IInv, TypeOK, Ledger
<1>2. /\ pc \in Adapted \cup {"failed"} /\ pc' = pc /\ pc \notin Working /\ pc \notin {"off", "dead"}
      /\ UNCHANGED <<cfg, plan, gw, ask, late>>
  BY DEF WatchdogReclaims, WatchdogSeals, Adapted, Working, Resting
<1>3. /\ r \in Network /\ Filed(r) /\ r.hole = FALSE /\ r.file = net.file /\ r.pins = net.pins
      /\ r.metric = net.metric
  BY <1>1, ReclaimedCard
<1> HIDE DEF r
<1>4. PlanListed' /\ WorkListed' /\ OffIsBare' /\ NoLatePin' /\ Ledger' /\ PinsListed' /\ TypeOK'
  <2>1. CASE WatchdogReclaims
    <3>1. net' = r
      BY <2>1 DEF WatchdogReclaims, r
    <3>2. /\ hist' \in Histories /\ hist'.unfiled = (hist.unfiled \/ ~net.file.there)
          /\ hist'.dropped = hist.dropped /\ hist'.twice = hist.twice /\ hist'.own = hist.own
      BY <1>1, <2>1 DEF WatchdogReclaims, Histories, Network, Kept
    <3>3. TypeOK'
      BY <1>1, <1>2, <1>3, <2>1, <3>1, <3>2 DEF WatchdogReclaims, NoEvent, TypeOK
    <3>4. Ledger'
      BY <1>1, <1>3, <3>1, <3>2
         DEF Ledger, LanKept, HoleKept, HoleKnown, MetricKept, MetricOk, Filed
    <3>5. PinsListed' /\ PlanListed'
      BY <1>1, <1>2, <1>3, <3>1, <3>2 DEF PinsListed, PlanListed
    <3> QED
      BY <1>1, <1>2, <3>3, <3>4, <3>5 DEF WorkListed, OffIsBare, NoLatePin
  <2>2. CASE WatchdogSeals
    <3>1. PICK n \in Seal(r, hosts) : net' = n /\ hist' = [Noted(n, hosts) EXCEPT !.dog = TRUE]
      BY <2>2 DEF WatchdogSeals, r
    <3>2. hosts \in SUBSET Hosts
      BY <1>1, HostsOfPlan
    <3> HIDE DEF hosts
    <3>3. Sets(r, net', hosts) /\ RowKept(r, net')
      BY <1>1, <1>3, <3>1, <3>2, SealSets
    <3>4. /\ net' \in Network /\ Filed(net)' /\ HoleKnown(net)' /\ RowKept(net, net')
          /\ PinsFrom(net, net', hosts) /\ (net'.lan => net'.file.there)
          /\ net'.file.there => net'.file.allow = hosts
      BY <1>3, <3>3 DEF Sets, Sound, HoleKnown, Filed, PinsFrom, RowKept, MetricOk
    <3>5. /\ hist' \in Histories
          /\ hist'.dropped = hist.dropped \cup (net.file.allow \ hosts)
                              \cup (IF net'.file.there THEN {} ELSE hosts)
          /\ hist'.own = hist.own /\ hist'.twice = hist.twice
      <4> DEFINE h == Noted(net', hosts)
      <4>1. /\ h \in Histories
            /\ h.dropped = hist.dropped \cup (net.file.allow \ hosts)
                             \cup (IF net'.file.there THEN {} ELSE hosts)
            /\ h.own = hist.own /\ h.twice = hist.twice
        BY <1>1, <3>2, <3>4, NotedType
      <4> HIDE DEF h
      <4>2. hist' = [h EXCEPT !.dog = TRUE]
        BY <3>1 DEF h
      <4> QED
        BY <4>1, <4>2 DEF Histories
    <3>6. TypeOK'
      BY <1>1, <1>2, <2>2, <3>4, <3>5, UnderlayAssumption
         DEF WatchdogSeals, Event, TypeOK, UnderlayAssumption
    <3>7. Ledger'
      BY <1>1, <3>4, <3>5 DEF Ledger, LanKept, HoleKept, MetricKept, RowKept, Histories
    <3>8. PinsListed' /\ PlanListed'
      BY <1>1, <1>2, <3>4, <3>5 DEF PinsListed, PlanListed, PinsFrom
    <3> QED
      BY <1>1, <1>2, <3>6, <3>7, <3>8 DEF WorkListed, OffIsBare, NoLatePin
  <2> QED
    BY <2>1, <2>2
<1> QED
  BY <1>4 DEF IInv

LEMMA LatePinStep == IInv /\ LatePin => IInv'
<1> SUFFICES ASSUME IInv, LatePin PROVE IInv'
  OBVIOUS
<1>1. /\ TypeOK /\ Ledger /\ PinsListed /\ PlanListed /\ NoLatePin /\ WorkListed /\ OffIsBare
      /\ net \in Network /\ Filed(net) /\ gw \in Hops /\ late \in 0..2
  BY DEF IInv, TypeOK, Ledger
<1>2. /\ Keeps(net, net', plan.allow) /\ RowKept(net, net')
      /\ net'.file = net.file /\ net'.metric = net.metric
  BY <1>1, PinUnderlayKeeps DEF LatePin
<1>3. net'.hole = net.hole /\ net'.split = net.split /\ net'.lan = net.lan
  BY <1>1 DEF LatePin, PinUnderlay, Network
<1>4. late' \in 0..2
  BY <1>1 DEF LatePin
<1>5. TypeOK'
  BY <1>1, <1>2, <1>4 DEF LatePin, NoEvent, TypeOK, Keeps, Sound
<1>6. Ledger'
  BY <1>1, <1>2, <1>3
     DEF LatePin, Ledger, LanKept, HoleKept, HoleKnown, MetricKept, MetricOk, Keeps, Sound, Filed
<1>7. PinsListed'
  BY <1>1, <1>2
     DEF LatePin, PinsListed, PlanListed, NoLatePin, Keeps, PinsFrom
<1>8. PlanListed' /\ WorkListed' /\ OffIsBare'
  BY <1>1, <1>2, <1>3 DEF LatePin, PlanListed, WorkListed, OffIsBare
<1>9. NoLatePin'
  BY <1>1 DEF LatePin, NoLatePin
<1> QED
  BY <1>5, <1>6, <1>7, <1>8, <1>9 DEF IInv

\* What changes nothing but the memory, the pins and halves that go, and the
\* history of the gateway
Outside == PollReads \/ PollStores \/ Expire \/ ChangeNetwork \/ ChangeSettings \/ Die \/ Reboot

LEMMA OutsideStep == IInv /\ Outside => IInv'
<1> SUFFICES ASSUME IInv, Outside PROVE IInv'
  OBVIOUS
<1>1. /\ TypeOK /\ Ledger /\ PinsListed /\ PlanListed /\ NoLatePin /\ WorkListed /\ OffIsBare
      /\ net \in Network /\ hist \in Histories /\ IsApplied(net) \in BOOLEAN
      /\ late \in 0..2 /\ events \in 0..MaxEvents /\ ask \in BOOLEAN \cup {None}
  BY DEF IInv, TypeOK, IsApplied, Network
<1> DEFINE bare == [h \in Hosts |-> None]
<1>2. bare \in [Hosts -> Hops] /\ \A h \in Hosts : bare[h] = None
  BY DEF Hops
<1>3. /\ net' \in Network /\ net'.file = net.file /\ net'.metric = net.metric
      /\ net'.pins \in {net.pins, bare}
      /\ net'.lan => net.lan
      /\ net'.v6 => net.v6
      /\ net'.hole => net.hole
      /\ net'.split => net.split
  <2> HIDE DEF bare
  <2>1. CASE PollReads \/ PollStores \/ Expire
    BY <1>1, <2>1 DEF PollReads, PollStores, Expire, Network
  <2>2. CASE ChangeNetwork
    BY <1>1, <1>2, <2>2 DEF ChangeNetwork, Network, bare
  <2>3. CASE ChangeSettings
    BY <1>1, <2>3 DEF ChangeSettings
  <2>4. CASE Die
    <3>1. PICK s \in {net.split, FALSE} : net' = [net EXCEPT !.split = s, !.memo = None]
      BY <2>4 DEF Die
    <3> QED
      BY <1>1, <3>1 DEF Network
  <2>5. CASE Reboot
    BY <1>1, <1>2, <2>5 DEF Reboot, Network, bare
  <2> QED
    BY <2>1, <2>2, <2>3, <2>4, <2>5 DEF Outside
<1>4. /\ hist' \in Histories /\ hist'.dropped = hist.dropped /\ hist'.own = hist.own
      /\ hist'.twice = hist.twice /\ hist'.unfiled = hist.unfiled
  <2>1. CASE PollStores
    <3>1. hist' = [hist EXCEPT !.overtaken = hist.overtaken \/ ask # IsApplied(net)]
      BY <2>1 DEF PollStores
    <3>2. hist.overtaken \in BOOLEAN
      BY <1>1 DEF Histories
    <3> QED
      BY <1>1, <3>1, <3>2 DEF Histories
  <2>2. CASE ~PollStores
    BY <1>1, <2>2
       DEF Outside, PollReads, Expire, ChangeNetwork, ChangeSettings, Die, Reboot, Histories
  <2> QED
    BY <2>1, <2>2
<1>5. HoleKept'
  <2>1. CASE PollStores
    <3>1. net'.memo = ask /\ net'.hole = net.hole /\ (net.hole => IsApplied(net) = TRUE)
      BY <1>1, <2>1 DEF PollStores, IsApplied, Network
    <3>2. hist'.overtaken = (hist.overtaken \/ ask # IsApplied(net))
      BY <1>1, <2>1 DEF PollStores, Histories
    <3> QED
      BY <3>1, <3>2 DEF HoleKept, HoleKnown
  <2>2. CASE Expire \/ Die \/ Reboot
    <3>1. net'.memo = None
      BY <1>1, <2>2 DEF Expire, Die, Reboot, Network
    <3> QED
      BY <3>1, UnderlayAssumption DEF HoleKept, HoleKnown, UnderlayAssumption
  <2>3. CASE PollReads \/ ChangeNetwork \/ ChangeSettings
    <3>1. net'.memo = net.memo /\ hist'.overtaken = hist.overtaken
      BY <1>1, <2>3 DEF PollReads, ChangeNetwork, ChangeSettings, Network, Histories
    <3> QED
      BY <1>1, <1>3, <3>1 DEF Ledger, HoleKept, HoleKnown
  <2> QED
    BY <2>1, <2>2, <2>3 DEF Outside
<1>6. Ledger'
  BY <1>1, <1>3, <1>4, <1>5 DEF Ledger, LanKept, MetricKept, MetricOk, Filed
<1>7. /\ (pc' = pc /\ late' = late) \/ (pc' = "dead" /\ late' = 0 /\ ~(pc' \in Working))
      /\ UNCHANGED plan
  BY DEF Outside, PollReads, PollStores, Expire, ChangeNetwork, ChangeSettings, Die, Reboot,
     Working, Resting
<1>8. PinsListed'
  BY <1>1, <1>2, <1>3, <1>4 DEF PinsListed
<1>9. WorkListed' /\ NoLatePin'
  BY <1>1, <1>3, <1>7 DEF WorkListed, NoLatePin
<1>10. OffIsBare'
  BY <1>1, <1>3, <1>4, <1>7 DEF OffIsBare
<1>11. PlanListed'
  BY <1>1, <1>3, <1>4, <1>7 DEF PlanListed
<1>12. TypeOK'
  <2>1. /\ cfg' \in Configs /\ gw' \in Hops /\ ask' \in BOOLEAN \cup {None}
        /\ events' \in 0..MaxEvents /\ pc' \in Pcs /\ late' \in 0..2
    BY <1>1, UnderlayAssumption
       DEF Outside, PollReads, PollStores, Expire, ChangeNetwork, ChangeSettings, Die, Reboot,
           Event, TypeOK, Pcs, Resting, UnderlayAssumption
  <2> QED
    BY <1>1, <1>3, <1>4, <1>7, <2>1 DEF TypeOK
<1> QED
  BY <1>6, <1>8, <1>9, <1>10, <1>11, <1>12 DEF IInv

LEMMA StepIInv == IInv /\ [Next]_vars => IInv'
<1> SUFFICES ASSUME IInv, [Next]_vars PROVE IInv'
  OBVIOUS
<1>1. CASE UNCHANGED vars
  BY <1>1 DEF vars, IInv, TypeOK, Ledger, Filed, LanKept, HoleKept, HoleKnown, MetricKept, MetricOk,
     PinsListed, PlanListed, WorkListed, OffIsBare, NoLatePin
<1>2. CASE PlainOp
  BY <1>2, PlainStep
<1>3. CASE PreferringOp
  BY <1>3, PreferringStep
<1>4. CASE ProbeDead
  BY <1>4, PreferringStep, DeadExitStep DEF PreferringOp
<1>5. CASE Outside
  BY <1>5, OutsideStep
<1> QED
  BY <1>1, <1>2, <1>3, <1>4, <1>5, ConnectStep, DisconnectStep, WatchdogStep, LatePinStep
     DEF Next, PlainOp, PreferringOp, Outside

LEMMA Inductive == Spec => []IInv
  BY InitIInv, StepIInv, PTL DEF Spec

-----------------------------------------------------------------------------
\* The tunnel's own hosts.

\* The file leads to the gateway of now, or leaves it to be asked.
Aimed(n) == gw # None /\ n.file.hop \in {gw, None}

AllPinned(n) == \A h \in plan.allow : n.pins[h] = gw

\* A call that keeps the pins, or takes the file away
OnCourse(n, m) == Aimed(n) /\ AllPinned(n) /\ m.file.there => Aimed(m) /\ AllPinned(m)

LEMMA PinUnderlayAims ==
  ASSUME NEW n \in Network, Aimed(n), plan.allow \in SUBSET Hosts, NEW forget
  PROVE  Aimed(PinUnderlay(n, plan.allow, forget)) /\ AllPinned(PinUnderlay(n, plan.allow, forget))
<1> DEFINE m == PinUnderlay(n, plan.allow, forget)
           hop == IF n.file.hop # None THEN n.file.hop ELSE gw
           p == Pin(Unpin(n.pins, forget \ plan.allow), plan.allow, hop)
<1>1. hop = gw /\ gw # None
  BY DEF Aimed
<1>2. \A h \in plan.allow : p[h] = gw
  BY <1>1 DEF Pin
<1>3. (m = n /\ plan.allow = {}) \/ m = [n EXCEPT !.pins = p, !.memo = None]
  BY <1>1 DEF PinUnderlay
<1> HIDE DEF p, m, hop
<1>4. m.file = n.file /\ (plan.allow = {} \/ m.pins = p)
  BY <1>3 DEF Network
<1> QED
  BY <1>2, <1>4 DEF Aimed, AllPinned, m

LEMMA PinUnderlayForgets ==
  ASSUME NEW n \in Network, NEW allow \in SUBSET Hosts, NEW forget \in SUBSET Hosts,
         allow \cap forget = {}
  PROVE  \A h \in forget : PinUnderlay(n, allow, forget).pins[h] = None
<1> DEFINE m == PinUnderlay(n, allow, forget)
           hop == IF n.file.hop # None THEN n.file.hop ELSE gw
           u == Unpin(n.pins, forget \ allow)
           p == Pin(u, allow, hop)
<1>1. forget \ allow = forget
  OBVIOUS
<1>2. \A h \in forget : u[h] = None
  BY <1>1 DEF Unpin
<1>3. \A h \in forget : p[h] = None
  BY <1>2 DEF Pin
<1>4. forget = {} \/ m = [n EXCEPT !.pins = p, !.memo = None]
  BY <1>1 DEF PinUnderlay
<1> HIDE DEF p, m
<1>5. forget = {} \/ m.pins = p
  BY <1>4 DEF Network
<1> QED
  BY <1>3, <1>5 DEF m

LEMMA InstalledAims ==
  ASSUME NEW n \in Network, gw \in Hops, gw # None, plan.allow \in SUBSET Hosts,
         NEW allow, NEW hole, NEW m \in Installed(n, allow, {}, hole)
  PROVE  OnCourse(n, m)
<1> DEFINE f == Updated(n.file, allow, {}, gw)
           u == Unpin(n.pins, {})
           p == Pin(u, allow, gw)
           t == [n EXCEPT !.pins = p, !.hole = hole, !.v6 = TRUE]
           s == [t EXCEPT !.file = f, !.memo = IsApplied(t)]
<1>1. f.hop = gw
  BY DEF Updated, Network, Kept
<1>2. u = n.pins
  BY DEF Unpin, Network
<1>3. \A h \in Hosts : n.pins[h] = gw => p[h] = gw
  BY <1>2 DEF Pin
<1>4. m = s \/ m = Clear(s)
  BY DEF Installed
<1>5. s.file = f /\ s.pins = p
  <2>1. t.pins = p /\ "file" \in DOMAIN t /\ "pins" \in DOMAIN t
    BY DEF Network
  <2> HIDE DEF t, f, p
  <2> QED
    BY <2>1
<1> HIDE DEF s
<1>6. CASE m = s
  BY <1>1, <1>3, <1>5, <1>6 DEF OnCourse, Aimed, AllPinned
<1>7. CASE m = Clear(s)
  <2>1. "file" \in DOMAIN s
    BY DEF s, Network
  <2>2. m.file = NoFile
    BY <1>7, <2>1 DEF Clear
  <2> QED
    BY <2>2 DEF OnCourse, NoFile
<1> QED
  BY <1>4, <1>6, <1>7

LEMMA OwnedAims ==
  ASSUME NEW n \in Network
  PROVE  /\ Owned(n).pins = n.pins /\ Owned(n).file.hop = n.file.hop
         /\ Owned(n) \in Network /\ EnsureSplit(Owned(n)) \in Network
         /\ EnsureSplit(Owned(n)).pins = n.pins /\ EnsureSplit(Owned(n)).file.hop = n.file.hop
<1> DEFINE e == EnsureSplit(n)
           o == PreferTun(e)
<1>1. /\ e \in Network /\ e.file = n.file /\ e.pins = n.pins
  BY DEF EnsureSplit, LiftQuietly, Network
<1> HIDE DEF e
<1>2. o \in Network /\ o.pins = n.pins /\ o.file.hop = n.file.hop
  BY <1>1 DEF PreferTun, Network, Kept, Metrics
<1> HIDE DEF o
<1>3. EnsureSplit(o) \in Network /\ EnsureSplit(o).pins = o.pins /\ EnsureSplit(o).file = o.file
  BY <1>2 DEF EnsureSplit, LiftQuietly, Network
<1> QED
  BY <1>2, <1>3 DEF Owned, e, o

LEMMA LiftAims ==
  ASSUME NEW n \in Network
  PROVE  Lift(n) \in Network /\ Lift(n).pins = n.pins /\ Lift(n).file = n.file
BY DEF Lift, Network

LEMMA AskedAims ==
  ASSUME NEW n \in Network
  PROVE  Asked(n) \in Network /\ Asked(n).pins = n.pins /\ Asked(n).file = n.file
BY DEF Asked, Answer, IsApplied, Network

LEMMA ApplyAims ==
  ASSUME NEW n \in Network, gw \in Hops, gw # None, plan.allow \in SUBSET Hosts,
         NEW m \in Apply(n, plan.allow, {})
  PROVE  OnCourse(n, m)
<1> DEFINE l == IF n.hole THEN Lift(n) ELSE n
           a == Asked(l)
           f == Updated(a.file, plan.allow, {}, gw)
           p == Unpin(a.pins, {})
           c == [a EXCEPT !.file = f, !.pins = p]
<1>1. l \in Network /\ l.pins = n.pins /\ l.file = n.file
  BY LiftAims
<1> HIDE DEF l
<1>2. a \in Network /\ a.pins = n.pins /\ a.file = n.file
  BY <1>1, AskedAims
<1> HIDE DEF a
<1>3. CASE m \in Installed(a, plan.allow, {}, FALSE)
  <2>1. OnCourse(a, m)
    BY <1>2, <1>3, InstalledAims
  <2> QED
    BY <1>2, <2>1 DEF OnCourse, Aimed, AllPinned
<1>4. CASE m = c
  <2>1. f.hop = gw
    BY <1>2 DEF Updated, Network, Kept
  <2>2. p = a.pins
    BY <1>2 DEF Unpin, Network
  <2> HIDE DEF f, p
  <2>3. c.file = f /\ c.pins = p
    BY <1>2 DEF Network
  <2> QED
    BY <1>2, <1>4, <2>1, <2>2, <2>3 DEF OnCourse, Aimed, AllPinned
<1> QED
  BY <1>3, <1>4 DEF Apply, Shortcut, l, a, f, p, c

LEMMA ForeignAims ==
  ASSUME NEW n \in Network, gw \in Hops, gw # None, plan.allow \in SUBSET Hosts, NEW m \in Foreign(n)
  PROVE  OnCourse(n, m)
<1> DEFINE x == EnsureSplit(Owned(n))
<1>1. x \in Network /\ x.pins = n.pins /\ x.file.hop = n.file.hop
  BY OwnedAims
<1>2. m \in Installed(x, plan.allow, {}, TRUE)
  BY DEF Foreign, Seal
<1> HIDE DEF x
<1>3. OnCourse(x, m)
  BY <1>1, <1>2, InstalledAims
<1> QED
  BY <1>1, <1>3 DEF OnCourse, Aimed, AllPinned

\* After a connect has taken its plan the file leads to the gateway it found.
LEMMA ArmedAims ==
  ASSUME NEW n \in Network, gw \in Hops, gw # None, NEW m \in Armed(n)
  PROVE  m.file.hop \in {gw, None}
<1>1. ASSUME NEW k, k \in Network, NEW allow, NEW forget
      PROVE  /\ Updated(k.file, allow, forget, gw).hop = gw
             /\ [k EXCEPT !.file = Updated(k.file, allow, forget, gw)].file.hop = gw
  BY <1>1 DEF Updated, Network, Kept
<1>2. CASE cfg.ks /\ ~cfg.udp
  <2> DEFINE l == IF n.hole THEN Lift(n) ELSE n
             a == Asked(l)
             f == Updated(a.file, Keep(cfg), Forget(cfg), gw)
  <2>1. a \in Network
    BY LiftAims, AskedAims
  <2>2. m \in {Shortcut(a, Keep(cfg), Forget(cfg))} \cup Installed(a, Keep(cfg), Forget(cfg), FALSE)
    BY <1>2 DEF Armed, Apply
  <2> HIDE DEF a
  <2>3. f.hop = gw
    BY <1>1, <2>1
  <2> HIDE DEF f
  <2>4. CASE m = Shortcut(a, Keep(cfg), Forget(cfg))
    <3>1. m = [a EXCEPT !.file = f, !.pins = Unpin(a.pins, Forget(cfg))]
      BY <2>4 DEF Shortcut, f
    <3> QED
      BY <2>1, <2>3, <3>1 DEF Network
  <2>5. CASE m \in Installed(a, Keep(cfg), Forget(cfg), FALSE)
    <3> DEFINE t == [a EXCEPT !.pins = Pin(Unpin(a.pins, Forget(cfg)), Keep(cfg), gw), !.hole = FALSE, !.v6 = TRUE]
               s == [t EXCEPT !.file = f, !.memo = IsApplied(t)]
    <3>1. t.file = a.file /\ "file" \in DOMAIN t
      BY <2>1 DEF Network
    <3>2. m = s \/ m = Clear(s)
      BY <2>5, <3>1 DEF Installed, f
    <3>3. s.file = f /\ "file" \in DOMAIN s
      <4> HIDE DEF t
      <4> QED
        BY <3>1
    <3> HIDE DEF s
    <3>4. CASE m = Clear(s)
      <4>1. m.file = NoFile
        BY <3>3, <3>4 DEF Clear
      <4> QED
        BY <4>1 DEF NoFile
    <3> QED
      BY <2>3, <3>2, <3>3, <3>4
  <2> QED
    BY <2>2, <2>4, <2>5
<1>3. CASE ~(cfg.ks /\ ~cfg.udp)
  <2> DEFINE x == IF ~cfg.ks THEN n ELSE IF Answer(n) THEN Clear(n) ELSE Asked(n)
  <2>1. "file" \in DOMAIN Asked(x)
    BY DEF Asked, Clear, Network
  <2>2. m = [Asked(x) EXCEPT !.file = Updated(Asked(x).file, Keep(cfg), Forget(cfg), gw)]
    BY <1>3 DEF Armed, RememberPlan
  <2>3. x \in Network
    <3>1. Clear(n) \in Network
      <4>1. NoFile \in Kept /\ n.pins \in [Hosts -> Hops] /\ n.file \in Kept
        BY DEF NoFile, Kept, Hops, Network
      <4>2. Unpin(n.pins, n.file.allow) \in [Hosts -> Hops]
        BY <4>1, UnpinTypes
      <4>3. (IF n.file.row = None THEN n.metric ELSE n.file.row) \in Metrics
        BY <4>1 DEF Network, Kept
      <4> QED
        BY <4>1, <4>2, <4>3 DEF Clear, Network
    <3> QED
      BY <3>1, AskedAims
  <2> HIDE DEF x
  <2> QED
    BY <1>1, <2>2, <2>3, AskedAims
<1> QED
  BY <1>2, <1>3

-----------------------------------------------------------------------------
\* The course of the connection: no host is both pinned and forgotten, the file
\* leads to the gateway of now, and from the launch on the pins do.
OffCourse == {"off", "dead", "failed"}

Steered ==
  pc \notin OffCourse /\ ~hist.gone => Aimed(net) /\ (pc # "armed" => AllPinned(net))

Riding ==
  pc \notin OffCourse \cup {"armed"} /\ ~hist.dog => \A h \in plan.forget : net.pins[h] = None

Course == plan.allow \cap plan.forget = {} /\ Steered /\ Riding

LEMMA NotedCourse ==
  ASSUME hist \in Histories, NEW n \in Network, NEW allow
  PROVE  LET h == Noted(n, allow)
             g == [h EXCEPT !.twice = @ \/ SavesAgain]
             d == [h EXCEPT !.dog = TRUE]
         IN /\ h.gone = (hist.gone \/ ~n.file.there) /\ h.dog = hist.dog
            /\ g.gone = h.gone /\ g.dog = h.dog
            /\ d.gone = h.gone /\ d.dog = TRUE
  BY DEF Noted, Histories

\* Any step on its course
LEMMA CourseStep ==
  ASSUME Course, plan \in Plans, pc \notin OffCourse \cup {"armed"}, UNCHANGED <<plan, gw>>,
         ~hist'.gone => /\ ~hist.gone
                        /\ Aimed(net) /\ AllPinned(net) => Aimed(net') /\ AllPinned(net'),
         ~hist'.dog => ~hist.dog /\ PinsFrom(net, net', plan.allow)
  PROVE  Course'
<1>1. Steered'
  BY DEF Course, Steered, Aimed, AllPinned
<1>2. Riding'
  BY DEF Course, Riding, PinsFrom, Plans
<1> QED
  BY <1>1, <1>2 DEF Course

\* A call of the operation brings the network card no further off its course.
LEMMA OperationCourse ==
  ASSUME IInv, Course, pc \in Working \ {"armed"}, UNCHANGED <<plan, gw>>,
         net' \in Network, PinsFrom(net, net', plan.allow), gw # None => OnCourse(net, net'),
         \/ hist' = Noted(net', net.file.allow)
         \/ hist' = [Noted(net', net.file.allow) EXCEPT !.twice = @ \/ SavesAgain]
  PROVE  Course'
<1>1. hist \in Histories /\ plan \in Plans
  BY DEF IInv, TypeOK
<1>2. hist'.gone = (hist.gone \/ ~net'.file.there) /\ hist'.dog = hist.dog
  <2> DEFINE h == Noted(net', net.file.allow)
             g == [h EXCEPT !.twice = @ \/ SavesAgain]
  <2>1. /\ h.gone = (hist.gone \/ ~net'.file.there) /\ h.dog = hist.dog
        /\ g.gone = h.gone /\ g.dog = h.dog
    BY <1>1, NotedCourse
  <2>2. hist' = h \/ hist' = g
    OBVIOUS
  <2> HIDE DEF h, g
  <2> QED
    BY <2>1, <2>2
<1>3. pc \notin OffCourse \cup {"armed"}
  BY DEF Working, Resting, OffCourse
<1>4. ~hist'.gone => (Aimed(net) /\ AllPinned(net) => Aimed(net') /\ AllPinned(net'))
  BY <1>2 DEF OnCourse, Aimed
<1> QED
  BY <1>1, <1>2, <1>3, <1>4, CourseStep

LEMMA InitCourse == Init => Course
  BY DEF Init, Course, Steered, Riding, OffCourse

LEMMA ConnectCourse == IInv /\ Connect => Course'
<1> SUFFICES ASSUME IInv, Connect PROVE Course'
  OBVIOUS
<1>1. PICK d \in Down(net) : \E n \in Armed(d) :
        /\ net' = n
        /\ hist' = [Noted(n, Keep(cfg)) EXCEPT !.gone = gw = None, !.dog = FALSE]
  BY DEF Connect
<1>2. net \in Network /\ Filed(net) /\ gw \in Hops /\ cfg \in Configs /\ hist \in Histories
  BY DEF IInv, TypeOK, Ledger
<1>3. d \in Network
  BY <1>1, <1>2, DownKeeps DEF Keeps, Sound
<1>4. hist'.gone = (gw = None)
  <2> DEFINE h == Noted(net', Keep(cfg))
  <2>1. "gone" \in DOMAIN h
    BY <1>2 DEF Noted, Histories
  <2>2. hist' = [h EXCEPT !.gone = gw = None, !.dog = FALSE]
    BY <1>1
  <2> HIDE DEF h
  <2> QED
    BY <2>1, <2>2
<1>5. ~hist'.gone => Aimed(net)'
  BY <1>1, <1>2, <1>3, <1>4, ArmedAims DEF Aimed, Connect
<1>6. plan'.allow \cap plan'.forget = {}
  <2>1. Keep(cfg) \cap Forget(cfg) = {}
    <3>1. cfg.server # Squid
      BY <1>2, UnderlayAssumption DEF UnderlayAssumption
    <3> QED
      BY <3>1 DEF Keep, Forget, Direct
  <2>2. plan'.allow = Keep(cfg) /\ plan'.forget = Forget(cfg)
    BY DEF Connect, ResolvePlan
  <2> QED
    BY <2>1, <2>2
<1>7. pc' = "armed"
  BY DEF Connect
<1> QED
  BY <1>5, <1>6, <1>7 DEF Course, Steered, Riding

LEMMA ArmedCourse == IInv /\ Course /\ (Launch \/ LaunchFails) => Course'
<1> SUFFICES ASSUME IInv, Course, Launch \/ LaunchFails PROVE Course'
  OBVIOUS
<1>1. net \in Network /\ Filed(net) /\ gw \in Hops /\ plan \in Plans /\ hist \in Histories
  BY DEF IInv, TypeOK, Ledger
<1>2. CASE Launch
  <2>1. /\ net' = PinUnderlay(net, plan.allow, plan.forget) /\ hist' = Noted(net', net.file.allow)
        /\ pc = "armed" /\ UNCHANGED <<plan, gw>>
    BY <1>2 DEF Launch, Op
  <2>2. plan.allow \in SUBSET Hosts /\ plan.forget \in SUBSET Hosts /\ plan.allow \cap plan.forget = {}
    BY <1>1 DEF Plans, Course
  <2>3. net' \in Network
    BY <1>1, <2>1, PinUnderlayKeeps DEF Keeps, Sound
  <2>4. ~hist'.gone => ~hist.gone
    BY <1>1, <2>1, <2>3, NotedCourse
  <2>5. Steered'
    <3>1. ~hist.gone => Aimed(net)
      BY <2>1 DEF Course, Steered, OffCourse
    <3>2. Aimed(net) => Aimed(net') /\ AllPinned(net')
      BY <1>1, <2>1, <2>2, PinUnderlayAims
    <3> QED
      BY <2>1, <2>4, <3>1, <3>2 DEF Steered, Aimed, AllPinned
  <2>6. Riding'
    BY <1>1, <2>1, <2>2, PinUnderlayForgets DEF Riding
  <2> QED
    BY <2>1, <2>2, <2>5, <2>6 DEF Course
<1>3. CASE LaunchFails
  BY <1>3 DEF LaunchFails, Op, Course, Steered, Riding, OffCourse
<1> QED
  BY <1>2, <1>3

LEMMA PinsAgainCourse ==
  ASSUME IInv, NEW forget
  PROVE  LET m == PinUnderlay(net, plan.allow, forget)
         IN /\ m \in Network /\ Filed(m) /\ PinsFrom(net, m, plan.allow) /\ m.file = net.file
            /\ Aimed(net) => Aimed(m) /\ AllPinned(m)
<1> DEFINE m == PinUnderlay(net, plan.allow, forget)
<1>1. net \in Network /\ Filed(net) /\ gw \in Hops /\ plan.allow \in SUBSET Hosts
  BY DEF IInv, TypeOK, Ledger, Plans
<1>2. Keeps(net, m, plan.allow) /\ m.file = net.file
  BY <1>1, PinUnderlayKeeps
<1>3. Aimed(net) => Aimed(m) /\ AllPinned(m)
  BY <1>1, PinUnderlayAims
<1> HIDE DEF m
<1>4. m \in Network /\ Filed(m) /\ PinsFrom(net, m, plan.allow) /\ m.file = net.file
  BY <1>2 DEF Keeps, Sound
<1> QED
  BY <1>3, <1>4 DEF m

LEMMA PlainCourse ==
  IInv /\ Course /\ (ClaimPins \/ ProbeOk \/ ProbeDns \/ OkPins) => Course'
<1> SUFFICES ASSUME IInv, Course, ClaimPins \/ ProbeOk \/ ProbeDns \/ OkPins PROVE Course'
  OBVIOUS
<1> DEFINE p == PinUnderlay(net, plan.allow, net.file.forget)
<1>1. net \in Network /\ Filed(net)
  BY DEF IInv, TypeOK, Ledger
<1>2. /\ net' \in {net, IF net.hole THEN Lift(net) ELSE net, p}
      /\ hist' = Noted(net', net.file.allow) /\ UNCHANGED <<plan, gw>>
      /\ pc \in {"claim", "probe", "bare", "ok"}
  BY DEF ClaimPins, ProbeOk, ProbeDns, OkPins, Op
<1>3. net' \in Network /\ PinsFrom(net, net', plan.allow) /\ OnCourse(net, net')
  <2>1. CASE net' = net
    BY <1>1, <2>1 DEF PinsFrom, OnCourse
  <2>2. CASE net' = Lift(net)
    BY <1>1, <2>2, LiftAims DEF PinsFrom, OnCourse, Aimed, AllPinned
  <2>3. CASE net' = p
    BY <2>3, PinsAgainCourse DEF OnCourse
  <2> QED
    BY <1>2, <2>1, <2>2, <2>3
<1>4. pc \in Working \ {"armed"}
  BY <1>2 DEF Working, Resting, Adapted, Pcs
<1> QED
  BY <1>2, <1>3, <1>4, OperationCourse

\* The halves of a claim, of a seal, of a UDP dial's kill switch
LEMMA ClaimCourse ==
  ASSUME NEW n \in Network, Filed(n), gw \in Hops, plan.allow \in SUBSET Hosts,
         NEW m \in {Owned(n)} \cup Foreign(n) \cup Apply(Owned(n), plan.allow, {}) \cup DeadExit(n)
  PROVE  m \in Network /\ PinsFrom(n, m, plan.allow) /\ (gw # None => OnCourse(n, m))
<1> DEFINE o == Owned(n)
<1>1. /\ o \in Network /\ Filed(o) /\ PinsFrom(n, o, {})
      /\ o.pins = n.pins /\ o.file.hop = n.file.hop
  BY OwnedKeeps, OwnedAims DEF Keeps, Sound
<1> HIDE DEF o
<1>2. CASE m = Owned(n)
  BY <1>1, <1>2 DEF o, PinsFrom, OnCourse, Aimed, AllPinned
<1>3. CASE m \in Foreign(n)
  BY <1>3, ForeignSets, ForeignAims DEF Sets, Sound
<1>4. CASE m \in Apply(Owned(n), plan.allow, {})
  <2>1. m \in Apply(o, plan.allow, {}) /\ {} \in SUBSET Hosts
    BY <1>4 DEF o
  <2>2. Sets(o, m, plan.allow)
    BY <1>1, <2>1, ApplySets
  <2>3. gw # None => OnCourse(o, m)
    BY <1>1, <2>1, ApplyAims
  <2> QED
    BY <1>1, <2>2, <2>3 DEF Sets, Sound, PinsFrom, OnCourse, Aimed, AllPinned
<1>5. CASE m \in DeadExit(n)
  <2>1. CASE m = n
    BY <2>1 DEF PinsFrom, OnCourse
  <2>2. CASE m \in Seal(n, plan.allow)
    <3>1. Sets(n, m, plan.allow)
      BY <2>2, SealSets
    <3>2. gw # None => OnCourse(n, m)
      BY <2>2, InstalledAims DEF Seal
    <3> QED
      BY <3>1, <3>2 DEF Sets, Sound
  <2> QED
    BY <1>5, <2>1, <2>2 DEF DeadExit
<1> QED
  BY <1>2, <1>3, <1>4, <1>5

LEMMA ClaimStepCourse ==
  IInv /\ Course /\ (ClaimRoutes \/ OkRoutes \/ ProbeDead) => Course'
<1> SUFFICES ASSUME IInv, Course, ClaimRoutes \/ OkRoutes \/ ProbeDead PROVE Course'
  OBVIOUS
<1> DEFINE p == PinUnderlay(net, plan.allow, net.file.forget)
           Calls(n) == {Owned(n)} \cup Foreign(n) \cup Apply(Owned(n), plan.allow, {}) \cup DeadExit(n)
<1>1. net \in Network /\ Filed(net) /\ gw \in Hops /\ plan.allow \in SUBSET Hosts
  BY DEF IInv, TypeOK, Ledger, Plans
<1>2. net' \in Calls(net) \/ net' \in Calls(p)
  BY DEF ClaimRoutes, OkRoutes, ProbeDead, Op, OpPrefers
<1>3. /\ \/ hist' = Noted(net', net.file.allow)
         \/ hist' = [Noted(net', net.file.allow) EXCEPT !.twice = @ \/ SavesAgain]
      /\ pc \in {"claimed", "okayed", "probe", "bare", "dying"} /\ UNCHANGED <<plan, gw>>
  BY DEF ClaimRoutes, OkRoutes, ProbeDead, Op, OpPrefers
<1>4. /\ p \in Network /\ Filed(p) /\ PinsFrom(net, p, plan.allow) /\ p.file = net.file
      /\ Aimed(net) => Aimed(p) /\ AllPinned(p)
  BY PinsAgainCourse
<1> HIDE DEF p
<1>5. net' \in Network /\ PinsFrom(net, net', plan.allow) /\ (gw # None => OnCourse(net, net'))
  <2>1. CASE net' \in Calls(net)
    BY <1>1, <2>1, ClaimCourse
  <2>2. CASE net' \in Calls(p)
    <3>1. net' \in Network /\ PinsFrom(p, net', plan.allow) /\ (gw # None => OnCourse(p, net'))
      BY <1>1, <1>4, <2>2, ClaimCourse
    <3> QED
      BY <1>4, <3>1 DEF PinsFrom, OnCourse
  <2> QED
    BY <1>2, <2>1, <2>2
<1>6. pc \in Working \ {"armed"}
  BY <1>3 DEF Working, Resting, Adapted, Pcs
<1> QED
  BY <1>3, <1>5, <1>6, OperationCourse

LEMMA WatchdogCourse == IInv /\ Course /\ (WatchdogReclaims \/ WatchdogSeals) => Course'
<1> SUFFICES ASSUME IInv, Course, WatchdogReclaims \/ WatchdogSeals PROVE Course'
  OBVIOUS
<1> DEFINE r == Reclaimed(net)
           hosts == {cfg.server} \cup IF cfg.office THEN {Squid} ELSE {}
<1>1. /\ net \in Network /\ Filed(net) /\ gw \in Hops /\ plan \in Plans /\ hist \in Histories
      /\ plan.allow \in SUBSET Hosts
  BY DEF IInv, TypeOK, Ledger, Plans
<1>2. r \in Network /\ r.file = net.file /\ r.pins = net.pins
  BY <1>1, ReclaimedCard
<1> HIDE DEF r
<1>3. pc' = pc /\ UNCHANGED <<plan, gw>>
  BY DEF WatchdogReclaims, WatchdogSeals
<1>4. CASE pc = "failed"
  BY <1>3, <1>4 DEF Course, Steered, Riding, OffCourse
<1>5. CASE pc # "failed" /\ WatchdogReclaims
  <2>1. net' = r /\ pc \notin OffCourse \cup {"armed"}
    BY <1>5 DEF WatchdogReclaims, r, Adapted, OffCourse
  <2>2. hist'.gone = hist.gone /\ hist'.dog = hist.dog
    BY <1>1, <1>5 DEF WatchdogReclaims, Histories
  <2> QED
    BY <1>1, <1>2, <1>3, <2>1, <2>2, CourseStep DEF Aimed, AllPinned, PinsFrom
<1>6. CASE pc # "failed" /\ WatchdogSeals
  <2>1. /\ net' \in Seal(r, hosts) /\ hist' = [Noted(net', hosts) EXCEPT !.dog = TRUE]
        /\ pc \notin OffCourse \cup {"armed"}
    BY <1>6 DEF WatchdogSeals, r, Adapted, OffCourse
  <2>2. net' \in Network
    <3>1. hosts \in SUBSET Hosts /\ Filed(r)
      BY <1>1, HostsOfPlan, ReclaimedCard DEF r, IInv, TypeOK
    <3> HIDE DEF hosts
    <3> QED
      BY <1>1, <1>2, <2>1, <3>1, SealSets DEF Sets, Sound
  <2>3. hist'.gone = (hist.gone \/ ~net'.file.there) /\ hist'.dog = TRUE
    <3> DEFINE h == Noted(net', hosts)
               d == [h EXCEPT !.dog = TRUE]
    <3>1. h.gone = (hist.gone \/ ~net'.file.there) /\ d.gone = h.gone /\ d.dog = TRUE
      BY <1>1, <2>2, NotedCourse
    <3>2. hist' = d
      BY <2>1
    <3> HIDE DEF h, d
    <3> QED
      BY <3>1, <3>2
  <2>4. gw # None => OnCourse(r, net')
    BY <1>1, <1>2, <2>1, InstalledAims DEF Seal
  <2>5. ~hist'.gone => (Aimed(net) /\ AllPinned(net) => Aimed(net') /\ AllPinned(net'))
    BY <1>2, <2>3, <2>4 DEF OnCourse, Aimed, AllPinned
  <2> QED
    BY <1>1, <1>3, <2>1, <2>3, <2>5, CourseStep
<1> QED
  BY <1>4, <1>5, <1>6

LEMMA LateCourse == IInv /\ Course /\ LatePin => Course'
<1> SUFFICES ASSUME IInv, Course, LatePin PROVE Course'
  OBVIOUS
<1> DEFINE p == PinUnderlay(net, plan.allow, net.file.forget)
<1>1. /\ PinsFrom(net, p, plan.allow) /\ p.file = net.file
      /\ Aimed(net) => Aimed(p) /\ AllPinned(p)
  BY PinsAgainCourse
<1>2. net' = p /\ UNCHANGED <<pc, plan, gw, hist>>
  BY DEF LatePin
<1> HIDE DEF p
<1>3. CASE pc \notin OffCourse \cup {"armed"}
  BY <1>1, <1>2, <1>3, CourseStep DEF IInv, TypeOK
<1>4. CASE pc = "armed"
  BY <1>1, <1>2, <1>4 DEF Course, Steered, Riding, Aimed, AllPinned
<1>5. CASE pc \in OffCourse
  BY <1>2, <1>5 DEF Course, Steered, Riding
<1> QED
  BY <1>3, <1>4, <1>5

LEMMA OutsideCourse == IInv /\ Course /\ Outside => Course'
<1> SUFFICES ASSUME IInv, Course, Outside PROVE Course'
  OBVIOUS
<1>1. net \in Network /\ hist \in Histories /\ plan \in Plans
  BY DEF IInv, TypeOK
<1>2. CASE Die \/ Reboot
  BY <1>2 DEF Die, Reboot, Course, Steered, Riding, OffCourse
<1>3. CASE ChangeNetwork
  <2> DEFINE bare == [h \in Hosts |-> None]
  <2>1. net'.pins \in {net.pins, bare} /\ \A h \in Hosts : bare[h] = None
    BY <1>1, <1>3 DEF ChangeNetwork, Network
  <2>2. hist'.gone = TRUE /\ hist'.dog = hist.dog /\ UNCHANGED <<pc, plan>>
    BY <1>1, <1>3 DEF ChangeNetwork, Histories
  <2> HIDE DEF bare
  <2> QED
    BY <1>1, <2>1, <2>2 DEF Course, Steered, Riding, Plans
<1>4. CASE PollReads \/ PollStores \/ Expire \/ ChangeSettings
  <2>1. net'.pins = net.pins /\ net'.file = net.file /\ UNCHANGED <<pc, plan, gw>>
    BY <1>1, <1>4 DEF PollReads, PollStores, Expire, ChangeSettings, Network
  <2>2. hist'.gone = hist.gone /\ hist'.dog = hist.dog
    BY <1>1, <1>4 DEF PollReads, PollStores, Expire, ChangeSettings, Histories
  <2> QED
    BY <2>1, <2>2 DEF Course, Steered, Riding, Aimed, AllPinned
<1> QED
  BY <1>2, <1>3, <1>4 DEF Outside

LEMMA StepCourse == IInv /\ Course /\ [Next]_vars => Course'
<1> SUFFICES ASSUME IInv, Course, [Next]_vars PROVE Course'
  OBVIOUS
<1>1. CASE UNCHANGED vars
  BY <1>1 DEF vars, Course, Steered, Riding, Aimed, AllPinned
<1>2. CASE Disconnect
  BY <1>2 DEF Disconnect, Course, Steered, Riding, OffCourse
<1>3. CASE Outside
  BY <1>3, OutsideCourse
<1> QED
  BY <1>1, <1>2, <1>3, ConnectCourse, ArmedCourse, PlainCourse, ClaimStepCourse, WatchdogCourse,
     LateCourse DEF Next, Outside

LEMMA CourseInductive == Spec => []Course
  BY Inductive, InitCourse, StepCourse, PTL DEF Spec

-----------------------------------------------------------------------------
\* The theorems.

\* The routes, the file and the memory keep their types (killswitch, net).
THEOREM UnderlayType == Spec => []TypeOK
<1>1. IInv => TypeOK
  BY DEF IInv
<1> QED
  BY <1>1, Inductive, PTL

\* After a disconnect (clear, need_routes) the card is free of what the list in
\* kill-switch.json names, where the thread of the late pins ends with its
\* operation.
THEOREM CardFree == Spec => [](SlowPins \/ CardIsFree)
<1>1. IInv => SlowPins \/ CardIsFree
  BY DEF IInv, Ledger, Filed, LanKept, OffIsBare, PinsListed, CardIsFree
<1> QED
  BY <1>1, Inductive, PTL

\* After a disconnect the metric is the user's (prefer_tun_ipv4,
\* restore_ipv4_metrics), unless it was saved twice.
THEOREM MetricBack == Spec => []MetricIsBack
<1>1. IInv => MetricIsBack
  BY UnderlayAssumption
     DEF IInv, TypeOK, Histories, Ledger, Filed, MetricKept, MetricOk, OffIsBare, MetricIsBack,
         UnderlayAssumption
<1> QED
  BY <1>1, Inductive, PTL

\* is_applied never forgets a blackhole that apply has set, but by an answer
\* that a poll read before it.
THEOREM HoleRemembered == Spec => []NeverDeniesHole
<1>1. IInv => NeverDeniesHole
  BY DEF IInv, Ledger, HoleKept, HoleKnown, NeverDeniesHole
<1> QED
  BY <1>1, Inductive, PTL

\* From the launch on, what the tunnel dials is pinned through the gateway of
\* now (pin_underlay, apply), whatever pins an earlier network left.
THEOREM PinsAfresh == Spec => []PinnedAfresh
<1>1. IInv /\ Course => PinnedAfresh
  BY DEF IInv, TypeOK, Course, Steered, AllPinned, OffCourse, PinnedAfresh
<1> QED
  BY <1>1, Inductive, CourseInductive, PTL

\* From the launch on, no pin takes the server of an office connection out of
\* the tunnel (forget_host_commands), until the watchdog seals.
THEOREM RidesTunnel == Spec => []ServerRidesTunnel
<1>1. IInv /\ Course => ServerRidesTunnel
  BY DEF IInv, TypeOK, Course, Riding, OffCourse, ServerRidesTunnel
<1> QED
  BY <1>1, Inductive, CourseInductive, PTL
==============================================================================
