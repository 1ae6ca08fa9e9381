# Verification of ergoms-secure-connection

TLA+ models of the desktop client (`src/desktop`): how it connects, watches,
seals and disconnects, what it changes on the machine and gives back, where it
sends a connection, which files it keeps; and of the client table of its server
(`src/modes/vps`); with the model-checking configurations and the proofs.
The modules are written from the source; `PROJECT.json` names, for every
definition, the lines it stands for.

## 1. Inventory

The program is a Python GUI (and a command line) that runs **sing-box** as a
child process and arranges the operating system around it: routes, policies,
proxy settings of git, docker and the browser.

| Part | State it keeps | Operations | What makes it correct |
|---|---|---|---|
| Operation slot `lifecycle/session.py` | the action under way and since when; the snapshot | `operation` (enter, busy, take over after `op_timeout`, release), `update`, observers | one writer of the snapshot; the slot is always given back |
| Pipeline `lifecycle/pipeline.py`, `snapshot.py`, `connection.py` | phase, error, `hold_watchdog`, `pending_win_tun`, `defer_win_ks`, `fail_closed`, `want_watchdog` | connect, disconnect, reconnect, tun_on, tun_off as named steps | a phase never outlives its operation; off means off; a dead exit is not left open |
| Exit probe `probes.py` | nothing of its own; decides the phase | claim the default route, probe, diagnose, seal | the probe decides between UP, DEGRADED and FAIL_CLOSED and the routes agree |
| Watchdog `watchdog.py`, `client.py` | stop event, failure and miss counters, backoff | tick, reconnect, TUN-only reconnect, keep the TUN default, seal | a dead tunnel is brought back; a stopped watchdog does nothing more |
| Kill switch `killswitch/_impl.py`, `net/_impl.py` | routes of the OS, the card's metric, `kill-switch.json`, a memory of `is_applied` | apply, clear, lift, seal, pin, prefer the TUN | no route to the underlay while sealed; the tunnel's own hosts pinned; everything undone by clear |
| Leak shield `leak_shield.py` | browser and DoH policies, their backups in the same file | apply, restore, the toast's flag | every policy comes back as the user had it, and no older; the backup outlives a crash |
| Overrides `integrations.py`, `git_proxy.py`, `docker_proxy.py`, `win_proxy.py`, `rustdesk_opt.py` | proxy settings of other programs, a backup file for each, marker files | save, override, give back; tidy up at a start and an end | no override survives a disconnect, no setting of the user's is lost |
| sing-box `singbox/manager.py`, `readiness.py` | process, log position, pid file | start with one retry, stop, reap leftovers | at most one process; ready means listening |
| sing-box's binary `net/_impl.py` (`TunManager`) | the files in `tools/`, a version file | copy the packed binary, or download, check, unpack, stamp | what is started is whole and the pinned build |
| sing-box's configuration `singbox/manager.py`, `route_tokens.py`, `lib/pac.py` | none (pure): settings and two lists become rules | route rules, DNS rules, PAC, the browser's exceptions | the tunnel never carries itself; a listed host is looked up and reached as the list says |
| Connect plan `lifecycle/plan.py`, `singbox_mode.py` | none (pure) | choose dial, TUN, kill switch | the flags the steps rely on |
| Window `ui/bridge.py`, `services/status.py` | busy, awaited status, poll thread, quit and update flags | buttons, `bgFinished`, poll, quit, update | busy ends with its own operation; quit and update leave no tunnel behind |
| Update `update.py` | the offer, the downloaded installer | check, download, run | the newest final release, and only a newer one |
| Settings `config_io.py`, `services/settings.py` | `config.json`, `amneziawg.conf`, a cache by their stamps | load, save, import, migrate the keys | no key is lost, no load is stale |
| Reverse SSH `reverse_ssh.py` | ssh process | start, stop, keep alive | stopped with the tunnel |
| AWG clients `modes/vps/awg_clients.py` | `peers.json`, a conf per client, the server's conf | add, emit, migrate a legacy client | no address twice; no command cuts a client off |
| SOCKS and HTTP clients `lib/` | sockets | handshakes | the stated grammar |

**How they interact.** A button runs the client in a thread of the window. The
client enters the slot and runs the pipeline; the pipeline calls the kill
switch, sing-box, the overrides and the probe in turn, and starts two threads
that nobody tracks to the end: the watchdog (joined for 0.3 s) and the thread
`ergoms-kill-switch-clear` (joined for 8 s). A command of the command line is a
process of its own with the same files. The watchdog reads the snapshot and the slot without a lock, then
calls back into the client and competes for the slot. Routes,
`kill-switch.json`, `state.json` and the configuration are shared by all of
them with no lock in common.

**What is hard.** Threads that outlive the operation that started them; checks
that are stale when used (`should_skip`, the stop event, `is_applied`,
`tun_owns_default`); steps that fail half way; crashes of sing-box at any
point; an operation presumed hung that returns after all. `PROJECT.json`,
"hazards", lists each at its line with the properties aimed at it.

## 2. Modules

| Module | Models |
|---|---|
| `Session` | the slot of `ConnectionSession.operation`: workers, actions, takeovers of hung operations |
| `WriterPool` | abstract: a pool of permits, one more per takeover |
| `SessionProofs` | proofs about `Session` |
| `Routes` | the Windows routes and policies as five bits, one operator per routine of `killswitch`, `net` and `leak_shield` the steps call |
| `Lifecycle` | pipeline, probe, watchdog and kill-switch threads together |
| `Phases` | abstract: the order of phases the window may rely on |
| `LifecycleProofs` | proofs about `Lifecycle` |
| `LeakShield` | the policies lent to the program, their backups in `kill-switch.json`, the threads that share the file |
| `LeakShieldProofs` | proofs about `LeakShield` |
| `SingboxManager` | starting, retrying and stopping sing-box, its log, its port and its adapter |
| `SingboxManagerProofs` | proofs about `SingboxManager` and `Traffic` |
| `Overrides` | settings of git, docker, browser and RustDesk, overridden and given back by the window and by commands |
| `OverridesProofs` | proofs about `Overrides` |
| `Underlay` | what a connection changes on the network card, and what `kill-switch.json` and the memory of `is_applied` know of it |
| `UnderlayProofs` | proofs about `Underlay` |
| `Traffic` | the rules sing-box is given, the PAC and the browser's exceptions, as what becomes of a packet |
| `ConfigFiles` | `config.json`, `amneziawg.conf` and the cache between them |
| `Programs` | which version of the program runs and which sing-box it starts |
| `AwgClients` | the client table of a server |
| `FilesProofs` | proofs about `ConfigFiles`, `Programs` and `AwgClients` |
| `GuiBridge` | the window: buttons, awaited status, the poll, posted events, update and quit, over `Phases` |
| `GuiBridgeProofs` | proofs about `GuiBridge` |
| `MCLifecycle`, `MCOperations`, `MCSingboxManager`, `MCOverrides`, `MCUnderlay`, `MCTraffic`, `MCFiles` | the instances for TLC; `MCOperations` holds the slot, the pipeline and the browser policies, `MCFiles` the three stores of files |

### Session

`op` is `_op`; `inside` the threads in the body of `operation`, each with its
action `act`. `Enter`, `TakeOver` and `Expire` are the admission test, `Exit` with `Release` the `finally` block, which
compares *actions* and not operations, as the code does. Time is the action
`Expire`: an operation may be found older than `op_timeout` at any moment,
`MaxTakeovers` times in a behaviour.

### Lifecycle

One action per step of an operation. `pc[t]` is the step thread `t` is at,
`slot` the thread inside `session.operation`; `snap` holds the fields of
`Snapshot` that decide something, `net` the routes, `disk` the files and
overrides, `sb` the process (`stuck`: it runs and does not listen), `clr` the
clearing thread, `dog` and `cur` the watchdogs alive and the one the client
knows, `off` what the last disconnect reported. Each action is a stretch of
code in which no other thread can be observed by, or disturb, what the step
decides; where the code reads, waits and then uses what it read (probe, tick,
join), the wait is between two actions. A tick is five actions: test and ports,
the probe through SOCKS, the owner of the default route, lifting the
blackholes, and the call into the client, which alone asks for the slot.

The user is any sequence of the actions in `UserActions`. The world kills
sing-box, takes the server away and gives it back, and lets another VPN take
over the default route. What may fail is in `Faults` and how often in
`MaxFaults`: `crash`, `link`, `foreign`, `gateway` (no default gateway, or the routes
of a seal do not show), `silent` (a server that answered before `apply` set its routes
is silent after them, so that it clears everything), `memory` (what `is_applied`
remembers is not what the table says), `config` (`config.json` cannot be read when the
probe has found no exit), `launch`, `binary`, `stop` (sing-box survives its stop), `pac`, `dns`,
`plan` (the configuration is refused), `unlink` (state.json cannot be deleted
while another thread has it open), `slowclear` (the clearing thread takes
longer than 8 s).

Simplifications, each of which narrows what is claimed: Windows, administrator,
helpers in the process; operations end before `op_timeout` (beyond it is
`Session`); office and home differ by the dial (`cfg.awg`) only; host /32
pins, interface metrics and IPv6 are in `Underlay`, and so is what makes the memory of
`is_applied` wrong and a server silent, which are faults here; foreign
halves come and go by themselves and are not deleted by us; TUN routes install
when the adapter is there; a second clearing thread restarts the first, which
is idempotent; reverse SSH, quitting and updating are left out; `Finish` waits
for a free instance of the watchdog, of which there are two.

### LeakShield

`policy` is the registry, `file` the block "leak_shield" of `kill-switch.json`
(one backup per policy, `NoBackups` when the block is missing), `wish` what the
user last put in each policy: a history variable, the program does not have it.
Every routine of `killswitch` and `leak_shield` that touches the file loads the
whole dictionary, works, and writes the whole of it back; so each is two
actions, a read (`Carry`, `Apply`, `Restore`, `Consume`) that leaves the block
it will write in `copy[t]`, and `Write`. What a routine does to the registry
belongs to its read: between the two it is only the file that is behind.
`Carriers` are the routines that do not look at the block and yet write it
back. `at[t]` names the routine, `Follows` the order in which `clear`, `apply`
and the pipeline call them. Of the policies the module keeps only whether they
need the rights of an administrator.

The threads are the operation in the slot, the clearing thread of a disconnect,
the watchdog's seal and the window's toast. `Restart` is a death or a quit
followed by a new start, which restores nothing: the file alone remembers.
`ShieldFaults` names what must not happen for the properties to hold:

- `torn`: death between the registry and the file, or inside a write (the file
  is then unreadable and loaded as empty).
- `rights`: the next start has other rights than this one.
- `slow`: the clearing thread outlives its join of 8 s.
- `overlap`: the watchdog seals while an operation is under way.

The registry reads that fail are taken for "absent", as the code takes them.
`UserEdits` happens while the program is off; edits to a lent policy are the
user's to lose and are not followed. The dictionary's other entries are not
followed either.

### SingboxManager

`Lifecycle` takes the start of sing-box for one step with three outcomes; this
module is what happens inside. `pc` is where `start` or `stop` is; `kill`,
`force` and `sweep` are of `stop`, which `start` calls twice before it launches,
and `run.rest` is where start goes on after them. sing-box is what the code can
see of it: the processes of its name (`alive`, those of them that only an
administrator can kill in `high`), who listens, who has the adapter, and three
marks that `readiness.py` looks for in the log. `old` are the marks that were
there before the launch, a history variable. Every pass of `wait_ready` reads
log, port, interface and processes in one action; time is `run.left`, two ticks,
which may pass at any speed.

Without the rights of an administrator a launch with TUN is a prompt; what was
consented to is `coming` until it `Appears`. `Faults`: `user` (the program may
run without rights), `ghost` (a left adapter withstands its removal), `stuck`
(a process outlives the three seconds of `kill_pids`), `slow` (the commands
before sing-box behind the prompt outlast the wait), `held` (another program has the
log open, which is then not emptied). `spared` records that a process escaped the
call, `kept` that the log of this start could not be emptied, see section 3.

Left out: the reuse of a running process (the pipeline always asks for a
restart), pid files and reused pids, firewall rules and Linux. The binary is in
`Programs`, the routes pinned after the launch in `Underlay`.

### Overrides

Four places are lent to a connection: the proxies of git, docker and the browser
and the relay option of RustDesk. `place` is what is in each (a user's value or
`"ours"`; that git's proxy is emptied and the browser set direct are ours too, the
latter only as far as nothing else is in it, `Own`), `backup` its backup file,
`wish` what the user last put there, a history variable. A job is a walk over the
places in the order of `_apply_integrations` or `teardown_overrides` (`Order`,
`Walk`); `at[t]` is the job of process `t`, the step, and the number of the place.
The steps are those a death can come between: `Save` and `Put`, `Give` and `Drop`,
in the order of each file: RustDesk's option is overridden before it is saved
and its backup deleted before it is given back, and between the two is in `hand`
only. What a place is given back from which backup is `Given`, with what each
file does when the backup is missing, of our own making, or torn.

The window connects, reconnects (`Connect`), disconnects, closes, dies and opens
again; commands come and go beside it. Both tidy up when they start and when they
end if there are markers and sing-box does not run (`Tidy`), and neither knows the
slot of the other. docker's proxy is overridden by the command `docker-env` only,
since `get_docker_proxy_enabled` is false. `Faults`: `crash`, `torn` (a death in the
middle of a backup's write), `overlap` (a command beside an operation of the window),
`unwritable` (one of RustDesk's files cannot be written: `RustdeskFails`, which its
caller passes over). `lost` are the places whose setting may have been destroyed: the
torn one, or RustDesk's while in hand, or after a write that failed.

Simplifications: Windows, where the overrides of Cursor and of the environment do
nothing; RustDesk's two files are one place, but for a write that fails at either (the values
of the first are given back to the second, and the peers' option is not given back at
all); the keys of git that are unset and never
saved (`http.version`, `http.extraheader`, `http.postBuffer`) and
`credential...provider`; failures that are caught and passed over (the registry, git
in a teardown); `_teardown_lock`, which nobody contends for, and the tests of the
phase in `teardown_overrides_if_dirty`, which say no more than `watched` for a window at
rest; the test of sing-box that the start asks for twice; `on` and `off` of the command
line; `ensure_browser_proxy`, which has no caller. `mode.tun` is TUN or the kill
switch. What the user sets in a lent place is not followed.

### GuiBridge

The client is seen through `Phases` (composed with `INSTANCE`, over `phase` and
`worker`), the slot, and what `status()` reads: `sb` (`starting` has neither
SOCKS nor adapter), `applied`, and `pending` (`pending_win_tun`, which outlives its
operation and makes a status say "connecting"). Each thread of the pool is at a
place `at[t]` of the work `does[t]`: download, call into the client, inside the
slot, installer. `Enter` is `SessionBusy` when another is inside. `events` is the
queue of what the threads post, and `Window` the handlers of the window's one
thread, which take them in order. The poll reads `status()` in three steps, in
the order of the code: the kill switch and the probe's error; the process and
its adapter; whether a connect is under way. `win` holds the fields of the bridge that
decide (`_busy`, `_await_status`, `_busy_intent`, `_update_applying`, `_closing`),
`shown` what `present_status` made of the last status let through, and the
button does what `activatePower` reads from `shown`. `troubled` is a history
variable: a thread whose work began beside another's, or raised; a connect also
when sing-box was up already or was so in a status on its way; an update also when a
status was still awaited as it was asked for; and the threads at work when the timer
of the buttons runs out.

Left out: elevation and the resume after it, the TUN buttons (the page has none),
a sing-box left by an earlier program, progress texts, the limit of the pool's threads.

### Underlay

`Routes` has a bit per kind of route; this module has the card itself. `net.pins`
is the next hop of each host's /32, `hole`, `split`, `v6`, `lan` the other routes,
`metric` the card's, `net.file` the part of `kill-switch.json` that is about them,
`net.memo` what `is_applied` remembers. The routines of `killswitch` and `net` are
operators from one such record to the next (`Apply`, `Clear`, `Seal`, `PinUnderlay`,
`Claimed`, `Owned` ...), and an action is what the pipeline or a tick calls between
two waits, in the order of the calls. `plan` is the `ConnectPlan` of the last
connect: the settings may change at any moment, and the next disconnect works
with the list in the file.

Beside the operation there are the status poll, in two steps (it reads the table,
and stores what it read), the thread of the late pins, the ticks, other networks,
foreign VPNs, deaths of the program and of the machine. `hist` is history: the
user's metric, which hosts were taken off the list and why, whether a poll was
overtaken. `SlowPins` lets the thread of the late pins (2 x 0.6 s) outlive its
operation.

Left out: the binding of IPv6 to our TUN, which goes with the TUN, and to the card,
which nothing asks for; Linux; a program without rights.

### Traffic

`Settings` are the settings that `build_config` distinguishes, with the user's two
lists, each a set of texts; a text is the traits its parsers look at, and whose it is
(`of`). The hosts and programs the user may list (`Sites`, `Apps`) and the lists
themselves (`Lists`) are constants. `RouteRules` are the rules in the order of the
code, each a record of what it matches, and `Route` takes the first that does, as
sing-box does; `Listed` is what the texts of one kind stand for, of which
`TokenRules` makes one rule per kind. `Lookup` is the DNS server that
`_dns_lookup_rules` leads a program to. A site has a name of some shape (`Names`: with
dots, plain, internal ...) and an address in some network (`Nets`), since fixed rules
decide by them before the lists do: the names that are looked up locally
(`StaysLocal`), and what the script and the browser's exceptions keep in the local
network (`PrivateParts`, `LocalParts`). `ParseToken` and `ParseRoutes` are
`route_tokens`, `NamesHost` the parser of `lib/pac` for DNS, `PacProxied` and
`PacDirect` the script, `Override` the list beside a fixed proxy; `BrowserVia` is which
of them the integrations give a browser. A behaviour chooses settings, and then sends
packets.

Left out: how sing-box looks inside a connection (of a browser's TCP connection the
name is known after the rule that sniffs), ports and addresses as numbers, the hosts
the program itself names in the PAC and the DNS rules, the analyzer.

### ConfigFiles

`json` and `conf` are the two files with their stamps, `cache` what `load_config`
keeps by them, `job[t]` the settings a thread has in hand, from its load to its
write. There is no lock. A load (`Reload`, which never asks the cache; what asks it either
does the same or changes nothing) is read, overlay and store, since between them
another thread or the user may write; a save is merge with migration, write,
invalidate, and the load that follows. The migration of the keys from the first
file to the second is one step and part of the load or save. `keys` are those the user gave
last, a history variable; a death in a write empties the file, one in a migration
leaves a conf without keys, with which the user's keys are given up (section 3).

Left out: the other fields of the settings and their defaults (one, `opt`, stands
for them), encryption of the file, the locations the file is looked for in.

### Programs

The update: `Check` takes the release that GitHub names as the latest (`Named`, any
final one) or, where none is named, the newest final one of the list (`Newest`, release
by release as the loop does), and makes an offer of it, or leaves the earlier one
standing when there was an error; `DownloadSetup` may get a part of the file, `Install` hands over to the
installer, and `Checkout` is the user of the sources. The binary: `Ensure` is
`_ensure_binary` up to its first copy or download, then one action per step a death
can come after. A file is its build and whether all of it is there; the code tells a
packed file's copy by its size and a downloaded archive by its digest. A file that a
running sing-box holds cannot be replaced. `cut` marks a download that a death left
half done, `started` what was started and what was due.

### AwgClients

One command at a time: `Add`, `AddOne` per name, `SaveAdded`, and what emit does,
`EnsureFirst`, one `WriteConf` per client, `WriteServer`. A death may come before each,
and inside the write of `peers.json`. `lost` is set when a command takes a torn or a
missing list for an empty one.

## 3. Runs

| Run | Question | Bounds | Result |
|---|---|---|---|
| `lifecycle` | phases and routes with every button at any moment, ticks overlapping operations, one fault of seven | 2 watchdogs | holds, 0.4 M states |
| `lifecycle_prompt` | what a disconnect, a seal and a UDP handshake promise, two faults of nine | 2 watchdogs, both dials | holds, 0.9 M states |
| `operations` | does every operation end, is sing-box brought back after a crash; is the slot exact and freed, is it a pool of permits; are the policies given back, the latest ones, whatever the order of routines and restarts | 2 watchdogs, both dials, one fault of fifteen; 4 workers, 2 actions, 3 takeovers; 2 policies (one per hive), 2 values, no fault of theirs | holds, 0.08 M states |
| `singbox` | does a start know its own process, is a stop final, does every call end | 2 processes, 1 consent under way, a log that may be held | holds, 0.6 M states |
| `bridge` | does a wait end with its connect, does an update or a quit leave the VPN down, do the buttons come back, is the client shown | 2 in all of buttons and faults | holds, 0.9 M states |
| `overrides` | is a user's setting ever lost, does it come back, does anybody take it from a connection | 4 places, 2 processes, 3 configurations, deaths at any step, one torn write, failing writes of RustDesk's files | holds, 7.2 M states |
| `underlay` | what is left on the card, who is pinned, what is remembered | 2 servers and the office's proxy, 2 gateways, 4 configurations, 2 events | holds, 5.8 M states |
| `traffic` | does the tunnel carry itself, is a listed host looked up and reached as the list says | every setting with every packet; 4 hosts (a name with dots, a plain one, an internal one, a private network) and a program to list, every kind of text in one of the lists, all lists of 3 plain texts | holds, 7.5 M states |
| `files` | are keys, binaries, releases and clients what they should be after any deaths | 2 threads, 2 edits or deaths; 4 versions, a named release or lists of 3, 3 faults; 3 clients, 3 addresses, 4 keys | holds, 6.0 M states |
| `claim_stays_off` | the log line of a disconnect | one watchdog's tick | violated |
| `claim_seals` | the comment of `_seal_on_dead_exit` | a crash, a silent server, an unreadable `config.json` | violated |
| `claim_retries` | the log line of a failed reconnect | a crash and a launch that fails | violated |

**Why the bounds are enough.** Three takeovers with four workers let a hung
operation return before, between and after two successors of either kind. Two
watchdogs are the one at work and the last one, still in its tick after a
disconnect; a third needs a third disconnect inside one tick of 18 seconds.
The counters stop at 3, where the code acts (`_PROBE_FAILS_BEFORE_RECONNECT`,
`_TUN_DEFAULT_MISSES_BEFORE_SEAL`). The faults of a run are those its
properties can survive; the ones left out are named next. The
policies of `operations` do not influence each other except through the one block that holds
them all, so one that needs rights and one that does not are enough; with two
values a backup of an earlier session differs from the present one. In
`singbox` one process can be in the way of one other, for the port, the adapter,
the log and in the list of processes; a third would be in the way of the same.
In `overrides` a user
has something in a place or nothing, deaths and edits are not counted, and what
may be given back does not depend on what has become of another place: the walks
order the places, and that is why there are four. The configurations differ in
every test of the walks.
`bridge` lets two things be asked for, or one and one fault, or two faults: a
late answer of one thing meets the next one. The poll is not bounded.
In `underlay` an event is a change of network or of settings, a foreign VPN or a
death; the operations are not bounded. Two servers let the pins of one connect meet
the next one's list, two gateways an outdated next hop; the user's metric is the
kind that the code does not keep by chance. `files` works on one of its three stores in
each behaviour, as they share nothing: two threads are a load overtaken by a save; of the four
versions two have the same parts but for a missing one, and two come with another
sing-box; three clients are one of an earlier command and two of this one. `traffic` is
exhaustive for its settings and packets and has a text for every test in the parsers,
alone in a list; a rule is made from all texts of a kind, which the lists of plain
texts, two of one kind and one of another, bring together. The proofs do without
these bounds.

**Where the properties stop holding.** The runs state their conditions because
outside them the program does behave differently:

- `FailClosedIsSealed` fails with `plan` (a user's reconnect lifts the
  blackholes before the configuration is refused), with `Overlap` (a late tick
  lifts them and is then told that the session is busy), with `slowclear` and `unlink`
  (the clearing thread of an earlier disconnect takes the blackholes), and with
  three faults: foreign VPN, link and crash.
- `FailClosedIsSealed` also fails at once with `gateway` and with `silent`: the seal sets
  nothing or takes everything back, the False that `apply` returns is not looked at, and
  the phase is FAIL_CLOSED all the same. `DeadExitIsClosed` fails with `config`: the seal
  is given up before `fail_closed` is set. The runs of the two are without these faults;
  `claim_seals` has them, and shows `DeadExitSeals`, what the code says of a dead exit, to be
  violated. With `config` the first fails as well, but only after six faults, crashes and
  links that are down among them (the watchdog gives its own seal up).
- `HandshakeIsFree` fails with `Overlap`: a tick that began before the connect
  puts the TUN routes back in the middle of the handshake; and with `memory`: a poll
  that a seal has overtaken lets `is_applied` deny the blackholes for ten seconds, and
  the connect does not clear them.
- `UpOwnsDefault` fails with `slowclear` and with `unlink`: the clearing thread of an
  earlier disconnect takes the routes of a later connect, since the disconnect did not
  wait for it, or raised before it could. It also fails with `silent` and `foreign`
  together: the routes just installed are overridden by the other VPN, so the
  underlay is to be closed, and `apply` clears them too.
- `CrashHeals` fails with two faults, a crash and then a launch that fails
  (`claim_retries`).
- `OffRestores` fails with `slowclear`, as the disconnect reports success before
  everything is cleared, and with `Overlap`: a late tick reconnects.
- `UpIsOpen` fails with `Overlap` and a foreign VPN, and with `Overlap`, a crash and a
  launch that failed before: a late tick that has missed the default route twice misses
  it once more beside a connect that is past its probe, and seals. The connect ends in UP over
  blackholes.
- The properties of `LeakShield` under one fault at a time (TLC, the instance of
  `operations`):

  | Fault | `BackupKept` | `PolicyReturned` | `Lent` |
  |---|---|---|---|
  | `torn` | fails | fails | holds |
  | `rights` | fails | fails | holds |
  | `slow`, `overlap` | fails | fails | fails |

  With `slow` and `overlap` a block read before another thread's write is
  written after it. With `torn` the next apply backs up its own values.
- `AloneWhileStarting`, `LogIsOfThisLaunch`, `ReadyIsOurs` and `StopIsFinal` hold
  unless `spared`: a program without rights cannot kill the elevated process of
  its first attempt (`kill_pids` in `start` does not ask for consent), and
  launches the second beside it. The first three hold unless `kept`, too: with an old
  mark in the log the first attempt may be given up at once, while what it asked
  consent for is still on its way, or taken for ready. With `slow` all but `StopIsFinal` fail: the
  process of the first prompt arrives during the second attempt.
- `ConnectIsAwaited` and the others of `bridge` except the two liveness
  properties speak of a thread that is not `troubled`. Otherwise: a reconnect's wait ends
  with the tunnel it replaces; the `bgFinished` of an operation whose wait has
  ended unlocks the next one; an update and a quit swallow `SessionBusy` and go on
  beside the connect. A `status()` that raises ends a wait, too. An update whose
  download outlasts the timer of the buttons gives them back, although
  `_update_applying` was to keep them (`_busy_timed_out` clears both), and the installer
  then starts over whatever was pressed meanwhile. With two in all this could not be
  seen, the proof of `InstallerFindsItDown` came upon it: it takes an update, the
  timer and a button.
- `ShowsTheClient` fails once `status()` has raised or the settings have become
  incomplete: the title these put up is not among what `_last_status_sig` tells
  apart, so it stays until the status changes. After a raise the button
  reconnects while its text is that of the last status.
- With `overlap` the invariants of `overrides` fail. The tidying
  of a command asks for markers and sing-box only, so between a connect's first
  override and its sing-box, or in a reconnect, it gives back what the window is
  overriding, takes backups that were just written, and the last `Give` of the
  one comes after a `Put` of the other.
- With `torn` the setting of the place whose backup was being written is not
  restored, since nothing says what it was; as the overriding comes after it, it is
  still in its place, and what becomes of it is up to the code that reads the
  torn file: the browser's raises and deletes nothing, so that the next connect
  finds a backup, overrides, and every later disconnect leaves our proxy behind;
  docker's takes it for an empty backup and removes the proxy. RustDesk's is lost,
  as it is overridden first. It is lost without a death, too (`unwritable`), when its
  second file cannot be written after the first was.
- `PhaseHasWorker` and `PhasesSpec` fail with `unlink`: the phase STOPPING is
  left behind and keeps every later watchdog away.
- `CardIsFree` fails with `SlowPins`: a disconnect within 1.2 s of a launch is
  followed by pins. Its exemptions are in `hist`: a host that the settings named when
  the file was written and name no more; the LAN routes that a tick sets after a
  seal and a clear; what a clear for a silent server took off the list.
- `MetricIsBack` exempts a metric of at least 1000, or another one, that two
  connects in a row saved: the second saves what the first set (`twice`).
- `NeverDeniesHole` exempts a poll that stored an answer older than the table
  (`overtaken`); nothing but the ten seconds puts that right.
- `KeysSurvive` gives up the keys with a death inside a migration or an import of a conf: the torn
  conf is there and has no keys, so nothing is migrated any more, and the next save
  strips the keys from `config.json`.
- `CacheIsTrue` gives up when the user replaces the conf under a load that has
  already read `config.json` (`raced`), and says nothing while an import is under way.
- `StartsPinned` exempts an old AWG binary that a running sing-box holds, the
  official build of the sources, which has no version file, and what a death left
  between the extraction and the version file, which the next connect writes unseen.
- `AddressesApart` and `NobodyIsCutOff` end with `lost`: a torn `peers.json` is read
  as an empty list, so that addresses are issued again and the server forgets the
  rest; `add` before the first `emit` forgets the legacy client.
- `OfferIsNewest` is about the answer: which release GitHub names as the latest is
  GitHub's, and one that is not the newest of the list hides the newer ones.
- `ListsHold` exempts what fixed rules keep in the local network although it is in the
  list of the VPN: names without a dot, `.local`, `.lan`, `.internal` and `.localhost`
  are looked up by the local server, and yet routed to the proxy; without TUN the script
  and the exceptions send some of them, and private networks, past sing-box, and so
  does the TUN with private networks (`Unlisted`). 172.16/12 is private to the script
  only. It also exempts a host in both lists (looked up directly and sent through the
  tunnel, by a PAC directly), web addresses (known to the routes and the fixed proxy's
  exceptions, not to the PAC and to DNS) and patterns with an asterisk inside (known
  to the PAC and the fixed proxy only). `ServerIsReached` asks that the server's name
  was resolved when the rules were made.

**Fairness.** `FairSpec` asks weak fairness of the disconnect, of each thread's
connect steps, of each watchdog and of the clearing thread. Every wait in them
has a timeout (probes 18 s, joins 0.3 s and 8 s, start 25 s), and the loop of
the watchdog comes round after its interval or backoff. Nothing is assumed of
the user, of the link or of the other VPN. The slot
asks only that of the workers inside one returns in the end, hung or not. `singbox` asks
that the manager goes on (all its waits have a deadline, `kill_tun_binaries`
one of 45 s), that a prompt is answered, and that a process that was consented
to appears. Nothing is assumed of sing-box itself. `bridge` asks that threads run,
that the window handles what is posted, that its timers fire and a launched
sing-box opens; the busy timer fires when nothing is under way (and, with `late`,
earlier). Nothing is assumed of the user or the watchdog's tick.

**The violated claims.** *Off stays off* (`StaysOff`): the disconnect logs that sing-box,
watchdog and routes are reset. A tick in its probe when the user disconnects
reconnects afterwards, since nothing looks at the stop event again. *No exit, no
underlay* (`DeadExitSeals`): a seal that `apply` gives up on a server that fell silent,
or that ends at an unreadable `config.json`, leaves the underlay open and goes unnoticed.
*A reconnect that failed is retried* (`RetriesUntilUp`): a reconnect deletes `state.json`
before it launches; when the launch fails, every later tick believes that nothing is
wanted. `PROJECT.json`, "findings", quotes the lines.

**Observations without a run.** Each is what the code does, met while modelling.

- Slot: a hung connect that returns after a takeover by another connect frees the
  slot of the live one, since `finally` compares actions.
- Leak shield: a restore without the rights of the apply passes over the machine's
  policies and drops their backups with the block. The policies are given back
  not "only on explicit off" (`leak_shield.py:4`) but by every clear, also the one
  with which `apply` gives up and the one before a connect of a deferred kill switch.
- Routes: "TUN must win" (`probes.py:284`), but after a seal on a
  dead exit the blackholes stay beside the TUN routes though the link is back, since
  `tun_owns_default` ignores loopback rows and the tick finds nothing wrong; while
  connected no blackhole is in the table (`apply(blackhole=False)` lifts them), so a
  crash of sing-box opens the underlay until the watchdog has reconnected, where
  `killswitch/_impl.py:3` promises that the routes stay; the watchdog seals at the
  third miss even with the kill switch off; a reconnect lifts the blackholes although
  its log line says that protection stays on; `start` that raises leaves the process
  of its last attempt running.
- Card: with AmneziaWG the deferred apply of the kill switch finds the TUN's halves
  and takes its shortcut, so that the IPv6 block is never set, and so it does with
  any pin of the server that is left. A clear for a silent server deletes the file, and the
  pins set later are in no list, so a disconnect leaves them. A seal of the watchdog
  pins the server of an office connection, which must ride the tunnel. The LAN routes
  10/8 and 192.168/16 of the user are deleted without a backup.
- Settings: `_runtime_cfg` is None between the invalidation and the next apply, and
  whoever reads it then gets the defaults. Two threads that load, change and save
  different keys at once lose the one that saved first, if the other's load was before it.
  An empty value cannot be saved over another.
- Update: the newest release without a file for this system is reported as "this
  version is current". The download by `urllib` takes a file that was cut off for whole.
- Lists: an empty dial becomes AmneziaWG in the office too, although `choose_dial`
  says Reality, since `require_transport` normalises first. A network in the lists
  ("a slash") is taken for a program's path. AmneziaWG without TUN has neither list nor
  the way back to its own server in its rules; only the PAC obeys. A bypassed site over QUIC is not recognised in
  the TUN, where only TCP is sniffed. A site in the PAC includes its subdomains, in
  sing-box it does not. A server given by name and asked for through SOCKS is not
  matched by the rule for its address.

## 4. Proofs

`SessionProofs`, for every set of workers, of actions and any bound: the
inductive invariant `IInv` is `TypeOK`, the count of admissions
(`AdmissionsBounded`: those inside, and one more while the slot is free, are at
most one plus the takeovers) and `NoOrphanSlot`. `WritersBounded` alone is not
inductive: `Enter` adds a worker, so a free slot has to count as an admission
not used yet. `SlotIsExact` needs both parts, one for each direction. The same
invariant carries the refinement of `WriterPool`.

`LifecycleProofs`, for every set of watchdogs, configurations, user actions and
faults and any number of faults:

- `TypeCorrect`: `TypeOK` is inductive as it stands; one step per action, one
  leaf per variable it changes.
- `PhaseAlwaysHasWorker` and `ImplementsPhases`, if `unlink` is not among the
  faults. The inductive invariant `PhaseInv` adds to the types that the thread
  in the slot, and no other, stands at a step of an operation; that only the
  window disconnects; that the phase is of the stage the step belongs to; and
  that the hold is set in connecting phases only. Every step is first shown to
  be one of four kinds (`StepKinds`: beside the operation, its beginning, a
  step of it, its end), and the invariant and the refinement of `Phases` are
  then proved for the four kinds.
- What relates routes, phases and threads rests on `SlotInv` (the thread in the slot
  stands at a step, a disconnect is the window's) and on the course of a connect
  and of a disconnect (`ConnectMoves`, `DisconnectMoves`): which step follows which, as
  seen from `At`, the step of whoever is in the slot. Each property then has an
  invariant that says what every step has already made sure of:

  | Theorem | Invariant | Assumes |
  |---|---|---|
  | `DeadExitClosed` | `DeadFinish`: what a probe without an exit hands to `Finish` | no `config` |
  | `UpAlwaysOwnsDefault` | `RoutedOrPending`: the TUN routes are there or a later step is told to set them; `ClearerFits`: nobody clears beside | no `slowclear`, no `unlink`, not both `silent` and `foreign` |
  | `HandshakeStaysFree` | `FreeFits`, the property from the launch on | no overlap, no `memory` |
  | `OffAlwaysRestores` | `OffFits`: what each step of a disconnect has taken away | no overlap, no `slowclear` |
  | `UpAlwaysOpen` | `OpenFits`: the blackholes are gone, or the claim that lifts them is to come; `NobodySeals`: nor does a tick set them | `OpenHolds` |
  | `FailClosedStaysSealed` | `SealedFits`, with `UpOwnsDefault` and the ledger of faults (`Spent`, `LossIsPaid`) | `SealsHold` |

  Without overlap `TicksAlone` says that a watchdog that is not the client's is done for
  and that nobody ticks beside an operation. A phase FAIL_CLOSED may lose its blackholes
  while the watchdog repairs it; that the TUN routes are then there, or a foreign VPN
  owns them by the last fault, is why the faults are counted. With overlap and a crash
  `NobodySeals` is `CalmInv`: until the first fault no watchdog has a reason to
  reconnect and none has missed the default route in an earlier tick (`Healthy`), so that
  after it, which must be the last, the one tick that may be under way is two short of a
  seal (`CrashSpares`). `SealsHold` and `OpenHolds` contain what the runs `lifecycle_prompt`
  and `lifecycle` assume. For every assumption TLC has a counterexample without it (section 3).

`LeakShieldProofs`, for any set of policies, of values and any split of the
policies between user and machine: `ShieldTypes` whatever goes wrong, and
`BackupIsKept`, `PolicyIsReturned`, `PolicyIsLent` if `ShieldFaults` is empty. None of
the three is inductive, since each speaks of the file while the block in
question is in some thread's hand. `Inv` adds to the types `Turns` (besides the
window at most one thread is in a routine, and neither the window nor the
watchdog in a disconnect), `Blocks` (a block, in the file or in a hand, is empty or is the user's
latest; the empty one is in a hand only when nothing is lent any more) and
`Registry` (a policy is the user's, or ours and the block in charge has the
backup). `Turns` is what a fault `slow` or `overlap` breaks and `Blocks` what
`torn` and `rights` break.

`OverridesProofs`, for any settings, configurations and deaths: `TypeCorrect`
whatever goes wrong, and `SettingsAreRecoverable`, `UndoingGivesBack` and
`LinkedStaysOverridden` if `overlap` is not among the faults; RustDesk's option is
exempt after a write that failed (`RustdeskGoes`, `RustdeskKeeps`). `Recoverable` is not inductive:
that a backup may be deleted depends on what was given back before. `Inv` adds what a process counts on in the middle of a place
(`Counts`: before `put` the backup is the user's, before `drop` the place is, in
RustDesk's steps the hand is) and that at most one process works (`OneWorks`), which
is what `overlap` breaks. Steps at no place (`OutsideKeeps`), at one
(`HandleKeeps`), deaths (`DeathKeeps`) and edits (`EditKeeps`) are a lemma each.
The other two follow a walk from place to place, on top of `Inv`: whoever undoes has
given back every place before the one he is at (`BackInv`, `UndoFits`), and whoever
connects has overridden every place before it and knows what the browser had
(`LinkInv`, `ConnectFits`, `Connects`); between operations nobody but `docker-env` is at a
place of a connected window (`OnlyDocker`).

`SingboxManagerProofs`, for any processes and any number of consents: `ManagerTypes` and
`StopAlwaysFinal` whatever goes wrong, and `AloneWhenStarting`, `LogAlwaysOfThisLaunch`
and `ReadyAlwaysOurs` if `slow` is not among the faults. These three say something, of
a start whose log was emptied (not `kept`), of
the steps `wait` and `idle` only; the invariant `CallInv` says what each step of a call
leaves to the next: after `sweep` nobody runs or is on its way, at `launch` the log is
empty too, and from then on the marks in the log, the listener and the adapter are
of the one process there is (`Launched`). `slow` breaks the first of these, since the
process of the first prompt may come later. A stop alone needs
less: `StopInv` follows only its own steps.

Of `Traffic`, for any lists of texts of any kind, any hosts and programs:
`ServerIsAlwaysReached` and `ListsAlwaysHold`. The state is simple (`TrafficInv`: what is
sent is a packet of the settings and went by their rules), the list of rules is not.
`Decides` says that a rule is the first to match a packet and `Misses` that none does;
both are proved of one rule and of two lists in a row (`OneRule`, `TwoParts`), so that
each part of `build_config` has a lemma of its own: the rules of a list match what
its texts catch and nothing else (`TokensRule`), those of RustDesk only send its ports to the
tunnel (`RustdeskWithin`), those of the server and of the underlay are for these hosts
(`HairpinsRule`, `KeptRule`), and the first part that has a rule for a packet decides
(`FirstPartDecides`). What the parsers make of a text is `TextTyped`; that they agree is
`LookupFollowsRoute` for DNS and `BrowserFollowsLists` for the browser, both with the
names and networks that fixed rules keep local set apart. The proofs assume
that the program's own hosts and programs are not among the user's and that no host is a
program (`TrafficAssumption`).

`GuiBridgeProofs`, for any number of buttons and any faults, without an assumption:
`BridgeTypes`, `InstallerAlwaysFindsItDown`, `QuitAlwaysLeavesItOff` and
`ConnectAlwaysAwaited`. The invariant `BridgeInv` speaks of threads that are not
`troubled`: beside the thread that quits nobody is at work (`QuitFits`); an update keeps
the buttons locked, and nothing that is posted gives them back (`UpdateFits`); a status
that has seen sing-box up has the phase of the connect that started it, as `status()` reads the phase
last (`OnFits`), so that it does not end that connect's wait. What a step must not do to the
worker in question is one contract, `Apart`, which the poll, the window's handlers and
the other threads are shown to keep.

`UnderlayProofs`, for any servers, gateways, settings and number of events: the calls
of `killswitch` and `net` are first reduced to two contracts. A call `Keeps` the list
in the file, or it `Sets` another one or removes the file; both say which pins may
come, that nothing is there without the file that the file must tell of, and what
becomes of the memory. The steps are then proved by contract and not by routine. The
invariant follows the list (`PinsListed`: what is pinned is listed or was dropped;
`PlanListed`, `WorkListed`: so is what the connection may still pin, and nothing more
while an operation is under way) and the ledger (`LanKept`, `HoleKept`, `MetricKept`). `CardFree` assumes
that `SlowPins` is false; the other theorems do not.
That the pins lead to the gateway of now is a second invariant, `Course`, inductive
beside the first: the gateway in the file is that of the connect (`Aimed`), which is what
lets a pin set again by a later call, or a shortcut of `apply` that sets none, leave
every host on it (`Steered`); and as no host is both pinned and forgotten, only a call
with another list, the watchdog's seal, can pin what must ride the tunnel (`Riding`).
`PinsAfresh` and `RidesTunnel` follow.

`FilesProofs` has the proofs about the three stores of files. Of `AwgClients`, for any
names, addresses and keys: what holds the confs and the server's peers together is `Listed`, that all of them are in `peers.json` while
nothing was lost, and that the clients of a list are distinct and no key newer than
the last. `NobodyIsCutOff` is an action property and follows from it, as the server's conf is
written from the whole list.

Of `ConfigFiles`, for any threads, settings and number of edits and deaths:
`KeysSurvive` is not inductive, as a save takes the keys out of what it writes long
before it writes it. `KeysPlaced` says that a conf that is there has the keys, that
without one they are in `config.json`, and that a thread about to write has
migrated. It assumes that "nothing" is none of the values (`ConfigAssumption`).
`CacheStaysTrue` needs more (`CacheInv`): a load is outdated by a write of `config.json`,
whose stamp it took before it read; a conf changes under it by the user's hand, by an
import that still has its write before it, and by no other thread's migration, as a
load that is past its read has migrated itself (`HasRead`).

Of `Programs`, for any versions, builds, releases and faults: `StartsPinned` needs what is known at
each step between a missing file and the start: the archive is of the build that is
due, is whole once it was checked, and what lies unpacked is whole when its version
file is written (`InHand`); the version file tells the truth except then (`VersionTold`);
and the version of the program does not change in between (`ProgramTypeOK`).
`AlwaysOffersTheNewest` is for versions with any number of parts and lists of any
length. Two versions are compared at the first part that differs (`NewerIsTransitive`),
so that a release beaten by the best so far is beaten by every later best
(`TakingKeepsNewest`); `NewestIsNewest` carries this through the list, and
`AnswersAreNewest` adds the release that GitHub names. It is an
induction, for which the library has only theorems that take an operator:
`InductionOverNats` is one about the set of the numbers that a fact holds for, by
the least number outside it.

The proofs assume the named `ASSUME`s of the modules only, which TLC evaluates in
the runs, and what the text above names. Every safety property of the passing runs has
a theorem, some under a condition that is named with them. Model-checked only are the
liveness properties (`SlotFreed`, `OpEnds`, `CrashHeals`, `CallsEnd`, `BusyEnds`,
`ShowsTheClient`), as fairness is beyond the prover.

## 5. Plan

Done: `Session`, `WriterPool`, `Routes`, `Lifecycle`, `Phases`, `LeakShield`,
`Overrides`, `GuiBridge`, `SingboxManager`, `Underlay`, `Traffic`, `ConfigFiles`,
`Programs`, `AwgClients`, and the proofs that section 4 lists.

Left, in this order:

1. `ReverseSsh`: the keep-alive of a child process beside the watchdog.
2. `Handshakes`: SOCKS5 and HTTP CONNECT as request and answer sequences.
3. The command line: its watchdog daemon and the helpers it starts, as a second
   process beside the pipeline (`Overrides` and `LeakShield` have their parts of it).

To keep the number of runs small, a component whose questions fit another's
instance is composed with it, as the three stores of `MCFiles` and the three parts of
`MCOperations` are.

## 6. Not modelled

- *Platform services* (autostart, elevation, process and network listings, ssh
  setup, the sandbox): calls of the operating system that keep no state the
  program decides by; what the steps see of them (a consent, a list of processes,
  a failure) is a choice in the modules that call them.
- *User interface* (themes, layout, texts, clipboard), start-up and logging.
- *Reverse SSH*, *SOCKS and HTTP CONNECT clients*: next in the plan.
- The fields of the settings, their defaults and the encryption of the file; QR
  codes and the shape of the server's files; sing-box's own document beyond its
  rules.
- Installers and the shell scripts under `modes/`; Linux services; the watchdog
  daemon of the command line.
