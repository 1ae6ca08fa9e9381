------------------------------- MODULE Traffic -------------------------------
(***************************************************************************)
(* Where a connection goes (singbox/manager build_config and its rules,    *)
(* route_tokens, lib/pac, the browser's part of integrations): the         *)
(* settings and the user's two lists become one list of route rules and    *)
(* one of DNS rules, of which sing-box takes the first that matches, and,  *)
(* for the browsers, a PAC file or a list of exceptions from the proxy.    *)
(***************************************************************************)
EXTENDS Naturals, Sequences, SequencesExt

CONSTANTS
  Sites,  \* hosts that the user may list, beside the known ones
  Apps,   \* and programs
  Names,  \* the shape of a site's name
  Nets,   \* and the network of its address
  Lists,  \* what the two lists may hold
  Vacant  \* no packet

Squid == "squid"
Hosts == {"vps", Squid, "lan", "tun lan"} \cup Sites
Programs == {"sing-box", "docker", "rustdesk", "python", "browser"} \cup Apps

-----------------------------------------------------------------------------
\* The lists: what route_tokens makes of a text.

\* A text by the traits it is told apart by: its prefix, an http(s) address, a
\* slash, the ending .exe, an address, asterisks; and whom the user means by it.
\* A pattern that covers several hosts counts as one text for each.
Texts ==
  {t \in [pre : {"", "exe:", "svc:"}, url : BOOLEAN, slash : BOOLEAN, exe : BOOLEAN,
          ip : BOOLEAN, star : {"none", "leading", "inside"}, shared : BOOLEAN,
          of : Hosts \cup Programs] :
     /\ t.of \in Hosts => t.pre = "" /\ ~t.exe /\ ~t.shared
     /\ t.of \in Programs =>
          /\ t.pre # "" \/ t.exe \/ t.slash
          /\ ~t.url /\ ~t.ip /\ t.star = "none"
     /\ t.url => t.slash
     /\ t.ip => t.star = "none"}

\* normalize_route_input: of a web address only the host is left.
Normalized(t) == IF t.url THEN [t EXCEPT !.url = FALSE, !.slash = FALSE] ELSE t

\* parse_token: a slash makes a process of it before an address is looked for.
ParseToken(text) ==
  LET t == Normalized(text)
      isProcess == t.pre = "exe:" \/ (t.pre = "" /\ (t.slash \/ t.exe))
  IN CASE t.pre = "svc:" -> "service"
       [] isProcess -> "process"
       [] t.pre = "" /\ ~isProcess -> IF t.ip THEN "ip" ELSE "domain"

\* process_matchers, and the image of a service: shared ones are left alone.
MatchesProcess(text) == ~text.shared /\ text.of \in Programs

\* parse_routes: what of a text becomes a rule.
ParseRoutes(text) ==
  LET kind == ParseToken(text)
  IN CASE kind = "domain" -> IF text.star = "inside" THEN "none" ELSE "name"
       [] kind = "ip" -> "address"
       [] OTHER -> IF MatchesProcess(text) THEN "process" ELSE "none"

\* Variant of Listed for sensitivity: the suffixes are forgotten.
ListedExact(texts, kind) ==
  {t.of : t \in {x \in texts : ParseRoutes(x) = kind /\ x.star = "none"}}

\* What the texts of a kind stand for, each as often as it likes
Listed(texts, kind) == {t.of : t \in {x \in texts : ParseRoutes(x) = kind}}

\* host_patterns: of a web address the host counts, networks do not.
IsHostPattern(text) ==
  LET t == Normalized(text) IN t.pre = "" /\ ~t.slash /\ ~t.exe

\* bypass_to_singbox: the same texts for DNS, where a slash ends the matter.
NamesHost(text) == text.pre = "" /\ ~text.slash /\ ~text.exe /\ ~text.ip /\ text.star # "inside"

-----------------------------------------------------------------------------
\* Settings and packets.

\* normalize_dial: an empty dial is AmneziaWG, in the office as well.
Dial(c) == IF c.dial = "reality" THEN "reality" ELSE "amneziawg"

\* amneziawg_opts: the keys of a conf, or nothing.
AwgOpts(c) == "amneziawg" \in c.keys

\* require_transport: what has not the keys of its dial is not started.
Required(c) == IF Dial(c) = "amneziawg" THEN AwgOpts(c) ELSE "reality" \in c.keys

\* resolve_dial_bundle, which sees the dial normalized by require_transport
Awg(c) == Dial(c) = "amneziawg" /\ AwgOpts(c)

\* office: through Squid; hostname: server.host is a name; resolved: it was
\* resolved when the rules were made; github: an office profile without a Squid
\* leaves everything but the listed hosts alone.
Settings ==
  {s \in [lists : Lists, office : BOOLEAN, dial : {"", "reality", "amneziawg"},
          keys : SUBSET {"reality", "amneziawg"}, tun : BOOLEAN, rustdesk : BOOLEAN,
          hostname : BOOLEAN, resolved : BOOLEAN, github : BOOLEAN] :
     /\ Required(s) /\ (s.hostname \/ s.resolved)
     /\ s.github => ~s.office /\ ~s.tun}

Ports == {"vpn", "ssh", "relay", "hbbs", "dns", "https"}

\* by: the destination is an address, or still a name, which only a proxy
\* client may send; via "none": past sing-box.  TUN leaves the private networks out
\* (_PRIVATE_ROUTE_EXCLUDE).
Packets ==
  {p \in [to : Hosts, port : Ports, net : {"tcp", "udp"}, via : {"tun", "proxy", "none"},
          proc : Programs, by : {"address", "name"}] :
     /\ p.via = "tun" => p.by = "address" /\ (p.to \in Sites => Nets[p.to] = "public")
     /\ p.via = "proxy" => p.net = "tcp" /\ p.proc # "sing-box"
     /\ p.via = "none" => p.proc = "browser"
     /\ p.proc = "browser" => p.to \in Sites /\ p.port = "https" /\ p.net = "tcp"
     /\ p.by = "name" => p.to \in {"vps"} \cup Sites
     /\ p.port = "vpn" => p.to \in {"vps", Squid}
     /\ p.port = "dns" => p.to \in {"lan"} \cup Sites}

ASSUME TrafficAssumption ==
  /\ Lists \subseteq [vpn : SUBSET Texts, bypass : SUBSET Texts]
  /\ Vacant \notin Packets
  /\ Names \in [Sites -> {"dotted", "plain", "internal", "lan", "metadata"}]
  /\ Nets \in [Sites -> {"public", "private", "172"}]
  /\ {"vps", Squid, "lan", "tun lan"} \cap Sites = {}
  /\ {"sing-box", "docker", "rustdesk", "python", "browser"} \cap Apps = {}
  /\ Hosts \cap Programs = {}

-----------------------------------------------------------------------------
\* Rules.

\* What is not named matches; name: the rule asks for a domain.
Rule(out) ==
  [to |-> Hosts, port |-> Ports, net |-> {"tcp", "udp"}, via |-> {"tun", "proxy"},
   proc |-> Programs, ask |-> "any", out |-> out, loopback |-> FALSE]

ToAddress(host, out) == [Rule(out) EXCEPT !.to = {host}, !.ask = "address"]
ToName(host, out) == [Rule(out) EXCEPT !.to = {host}, !.ask = "name"]

\* The name of a TCP connection of a browser is sniffed, in the rules that come
\* after the sniffing.
Sniffed(p) == p.net = "tcp" /\ p.port = "https"

Matches(r, p) ==
  /\ p.to \in r.to /\ p.port \in r.port /\ p.net \in r.net
  /\ p.via \in r.via /\ p.proc \in r.proc
  /\ r.ask = "address" => p.by = "address"
  /\ r.ask = "name" => p.by = "name" \/ Sniffed(p)
  /\ r.ask = "sent name" => p.by = "name"

When(cond, rules) == IF cond THEN rules ELSE <<>>

\* rustdesk_hairpin_rules, ahead of the sniffing, and the reject of TUN's own
\* network; the relay keeps the public address.
RustdeskRules(c) ==
  LET both(ports, loop) ==
        LET extra(r) == [r EXCEPT !.port = ports, !.loopback = loop]
        IN When(c.resolved, <<extra(ToAddress("vps", "proxy"))>>)
           \o When(c.hostname,
                   <<[extra(ToName("vps", "proxy")) EXCEPT !.ask = "sent name"]>>)
  IN When(c.rustdesk,
          both({"relay"}, FALSE) \o both({"hbbs"}, TRUE)
          \o <<[ToAddress("tun lan", "reject") EXCEPT !.proc = {"rustdesk"}]>>)

Squidded(c) == c.office /\ ~Awg(c)

\* underlay_keep_hosts that resolve
Kept(c) ==
  (IF c.office THEN {Squid} ELSE {})
    \cup (IF (Awg(c) \/ ~c.office) /\ c.resolved THEN {"vps"} ELSE {})

\* _vps_loopback_rule: everything in the office, else SSH of proxy clients.
HairpinRules(c) ==
  When(c.resolved,
    <<[ToAddress("vps", "direct") EXCEPT !.port = {"vpn"}]>>
    \o <<IF Squidded(c) THEN [ToAddress("vps", "proxy") EXCEPT !.loopback = TRUE]
         ELSE [ToAddress("vps", "proxy") EXCEPT
                 !.loopback = TRUE, !.port = {"ssh"}, !.via = {"proxy"}]>>)

KeptRules(c) == When(Kept(c) # {}, <<[Rule("direct") EXCEPT !.to = Kept(c), !.ask = "address"]>>)

\* _token_host_rules and _token_process_rules of a list
TokenRules(texts, out) ==
  LET names == Listed(texts, "name")
      addresses == Listed(texts, "address")
      processes == Listed(texts, "process")
  IN When(names # {}, <<[Rule(out) EXCEPT !.to = names, !.ask = "name"]>>)
     \o When(addresses # {}, <<[Rule(out) EXCEPT !.to = addresses, !.ask = "address"]>>)
     \o When(processes # {}, <<[Rule(out) EXCEPT !.proc = processes]>>)

\* The rules that are there with any settings
FixedRules(c) ==
  <<[Rule("dns") EXCEPT !.port = {"dns"}],
    [Rule("direct") EXCEPT
       !.to = {Squid, "lan", "tun lan"} \cup {h \in Sites : Nets[h] # "public"},
       !.ask = "address"]>>
  \o When(Squidded(c), <<[Rule("reject") EXCEPT !.net = {"udp"}, !.port = {"https"}]>>)
  \o <<[Rule("proxy") EXCEPT !.via = {"proxy"}],
       [Rule("direct") EXCEPT !.proc = {"docker", "sing-box", "python"}]>>

\* AmneziaWG without TUN gets no rules at all (_minimal_awg_config).
Minimal(c) == Awg(c) /\ ~c.tun

\* Variant of RouteRules for sensitivity: the lists come before the server.
RouteRulesListsFirst(c) ==
  When(~Minimal(c),
       RustdeskRules(c) \o TokenRules(c.lists.vpn, "proxy") \o TokenRules(c.lists.bypass, "direct")
       \o HairpinRules(c) \o KeptRules(c) \o FixedRules(c))

\* build_config
RouteRules(c) ==
  When(~Minimal(c),
       RustdeskRules(c) \o HairpinRules(c) \o KeptRules(c)
       \o TokenRules(c.lists.vpn, "proxy") \o TokenRules(c.lists.bypass, "direct") \o FixedRules(c))

Route(c, p) ==
  LET rules == RouteRules(c)
      i == SelectInSeq(rules, LAMBDA r : Matches(r, p))
  IN CASE p.via = "none" -> Rule("direct") [] p.via # "none" /\ i = 0 -> Rule("proxy")
       [] OTHER -> rules[i]

NamedIn(texts, host) == \E t \in texts : t.of = host /\ NamesHost(t)

\* The names that are asked of no server outside, in one of the lists or not; these
\* rules stand between those of the two lists.
StaysLocal(host) == Names[host] \in {"plain", "internal", "lan"}

\* Variant of Lookup for sensitivity: the list comes before the names that stay local.
LookupListFirst(c, host, proc) ==
  LET listed == NamedIn(c.lists.vpn, host)
      local == \/ StaysLocal(host) /\ ~listed
               \/ ~Minimal(c) /\ proc = "docker"
               \/ ~Minimal(c) /\ NamedIn(c.lists.bypass, host)
               \/ ~Minimal(c) /\ c.office /\ ~listed
  IN IF local THEN "local" ELSE "proxy"

\* _dns_lookup_rules for the name of a site, asked by a program.  Without TUN
\* AmneziaWG gets neither the lists nor the programs.
Lookup(c, host, proc) ==
  LET local == \/ StaysLocal(host)
               \/ ~Minimal(c) /\ proc = "docker"
               \/ ~Minimal(c) /\ NamedIn(c.lists.bypass, host)
               \/ ~Minimal(c) /\ c.office /\ ~NamedIn(c.lists.vpn, host)
  IN IF local THEN "local" ELSE "proxy"

-----------------------------------------------------------------------------
\* Browsers.  What the user types is a name or an address.

\* The text is for this host, and of the kind that is typed.
Fits(text, host, typed) == text.of = host /\ (typed = "address" <=> text.ip)

\* _pac_cond of a text that _bridge_hosts lets through
PacCond(text) == IsHostPattern(text) /\ ~text.slash

PacLists(texts, host, typed) == \E t \in texts : PacCond(t) /\ Fits(t, host, typed)

\* _pac_mode: a listed host, or all, goes to the proxy.
PacProxied(c, host, typed) == ~c.github \/ PacLists(c.lists.vpn, host, typed)

\* private_parts of build_pac: what is typed goes to no proxy, listed or not.
PrivateParts(host, typed) ==
  \/ typed = "name" /\ Names[host] \in {"plain", "internal", "metadata"}
  \/ typed = "address" /\ Nets[host] # "public"

\* build_pac: the exceptions come first.
PacDirect(c, host, typed) ==
  \/ PrivateParts(host, typed)
  \/ PacLists(c.lists.bypass, host, typed)
  \/ ~PacProxied(c, host, typed)

\* The exceptions proxy_override_list starts with: <local>, and three networks
LocalParts(host, typed) ==
  \/ typed = "name" /\ Names[host] = "plain"
  \/ typed = "address" /\ Nets[host] = "private"

\* proxy_override_list
Override(c, host, typed) ==
  \/ LocalParts(host, typed)
  \/ \E t \in c.lists.bypass : IsHostPattern(t) /\ Fits(t, host, typed)

\* _apply_integrations: a fixed proxy in the office, none with TUN at home, a
\* PAC without.
BrowserVia(c, host, typed) ==
  LET direct == IF c.office THEN Override(c, host, typed)
                ELSE c.tun \/ PacDirect(c, host, typed)
      caught == c.tun /\ Nets[host] = "public"
  IN IF ~direct THEN "proxy" ELSE IF caught THEN "tun" ELSE "none"

\* An address goes into TUN, whatever was typed.
BrowserSends(c, p) ==
  \E typed \in {"name", "address"} :
    p.via = BrowserVia(c, p.to, typed) /\ (p.via # "tun" => p.by = typed)

-----------------------------------------------------------------------------
VARIABLES
  settings,  \* those sing-box was started with
  packet,    \* the packet that is on its way
  route,     \* the rule it went by
  lookup     \* the DNS server its program asks for the name of the site

trafficVars == <<settings, packet, route, lookup>>

TrafficInit ==
  /\ settings \in Settings
  /\ packet = Vacant
  /\ route = Vacant
  /\ lookup = Vacant

Send ==
  /\ packet = Vacant
  /\ packet' \in {p \in Packets : IF p.proc = "browser" THEN BrowserSends(settings, p)
                                  ELSE p.via = "tun" => settings.tun}
  /\ route' = Route(settings, packet')
  /\ lookup' = IF packet'.to \in Sites THEN Lookup(settings, packet'.to, packet'.proc)
                ELSE Vacant
  /\ UNCHANGED settings

\* The connection is over, another may follow.
Over ==
  /\ packet # Vacant
  /\ packet' = Vacant /\ route' = Vacant /\ lookup' = Vacant
  /\ UNCHANGED settings

TrafficNext == Send \/ Over

TrafficSpec == TrafficInit /\ [][TrafficNext]_trafficVars

-----------------------------------------------------------------------------
\* Properties.

\* The traffic of the tunnel itself, when the TUN catches it, goes out directly
\* and never into the tunnel again; in the office every other service of the
\* VPN server is reached through the tunnel on its loopback address, but for
\* the relay, whatever the user's lists say, of these hosts and programs too.
ServerIsReached ==
  LET p == packet
  IN p # Vacant /\ settings.resolved =>
       /\ p.proc = "sing-box" /\ p.port = "vpn" /\ (p.to = Squid => settings.office)
            => route.out = "direct"
       /\ Squidded(settings) /\ p.to = "vps" /\ p.by = "address" /\ p.port # "vpn"
            => /\ route.out = "proxy"
               /\ route.loopback \/ (settings.rustdesk /\ p.port = "relay")

\* The user has the packet's host or its program in the list.
Concerns(texts, p) == \E t \in texts : t.of \in {p.to, p.proc}

\* A host the user lists is looked up where its connections go: the route rules
\* and the DNS rules are made from the same texts by two parsers and in two
\* orders.  Of the hosts of the VPN's list only the names of the local network stay
\* with the local server; a host alias never goes to public DoH, whatever the lists
\* say (manager.py:188).  Exempt are a host in both lists, which is looked up directly
\* and goes through the tunnel, and a web address, which only the routes know.
LookedUpWhereSent ==
  LET p == packet
      named(texts) == NamedIn(texts, p.to)
  IN p # Vacant /\ settings.tun /\ p.to \in Sites /\ p.proc \in Apps \cup {"python"}
       /\ p.port = "https" /\ p.net = "tcp" =>
       /\ named(settings.lists.bypass) /\ ~Concerns(settings.lists.vpn, p)
            => route.out = "direct" /\ lookup = "local"
       /\ named(settings.lists.vpn) /\ ~named(settings.lists.bypass)
            => /\ route.out = "proxy"
               /\ lookup = "proxy" \/ Names[p.to] \in {"plain", "internal", "lan"}
       /\ Names[p.to] = "plain" => lookup = "local"

\* The text obliges the browser that sends the packet.
Obliges(text, p) ==
  /\ text.of = p.to
  /\ IF text.ip THEN ~text.slash /\ p.via # "tun" /\ p.by = "address"
     ELSE NamesHost(text) /\ (p.via = "tun" \/ p.by = "name")

\* What goes past sing-box whatever the lists say: without TUN the names and
\* addresses the browser's exceptions start with, with TUN the private networks.
Unlisted(c, p) ==
  /\ p.via = "none"
  /\ IF c.tun THEN Nets[p.to] # "public"
     ELSE IF c.office THEN LocalParts(p.to, p.by) ELSE PrivateParts(p.to, p.by)

\* A browser reaches a host of one list as the list says, be it sent to sing-box
\* by the fixed proxy, by TUN or by the PAC, or past it: the exceptions of the
\* browser are made from the list by two further parsers, and without TUN
\* AmneziaWG has nothing else.  Web addresses and patterns with an asterisk
\* inside are exempt, which some of the parsers leave out, and what stays in the
\* local network although it is in the list of the VPN.
BrowserObeys ==
  LET p == packet
      listed(texts) == \E t \in texts : Obliges(t, p)
  IN p # Vacant /\ p.proc = "browser" =>
       /\ listed(settings.lists.bypass) /\ ~Concerns(settings.lists.vpn, p)
            => route.out = "direct"
       /\ listed(settings.lists.vpn) /\ ~Concerns(settings.lists.bypass, p)
            => route.out = "proxy" \/ Unlisted(settings, p)

\* Both: a host of one list is looked up and reached as the list says, by programs
\* and by browsers, although four parsers read the list.
ListsHold == LookedUpWhereSent /\ BrowserObeys
=============================================================================
