---------------------------- MODULE SingboxManager ----------------------------
(***************************************************************************)
(* Starting and stopping sing-box on Windows.  start takes down what runs, *)
(* removes a left adapter, empties the log and launches; whether the       *)
(* process got its listener and its adapter it can only tell from the port,*)
(* from the log and from the list of interfaces.  With TUN it tries twice. *)
(* Without the rights of an administrator the process runs elevated behind *)
(* a consent prompt, may come late and cannot be killed without another.   *)
(* Processes are found by name, so the pid file is a hint only and is left *)
(* out: pid() is any process that is alive.                                *)
(***************************************************************************)
EXTENDS Naturals, FiniteSets

CONSTANTS
  Pids,    \* bound: processes at a time; one more ends at once
  None,    \* no process
  Ghost,   \* an adapter left by a process that is gone
  MaxComing, \* bound: consents whose process is not there yet
  Faults   \* what may go wrong, see ManagerAssumption

ASSUME ManagerAssumption ==
  /\ MaxComing \in Nat
  /\ None \notin Pids /\ Ghost \notin Pids /\ None # Ghost
  \* "user": the program may run without rights
  \* "ghost": an adapter may withstand its removal
  \* "stuck": a process may outlive the three seconds kill_pids grants it
  \* "slow": what runs before sing-box behind the prompt outlasts the wait
  \* "held": another program has the log open, which can then not be renamed
  /\ Faults \subseteq {"user", "ghost", "stuck", "slow", "held"}

VARIABLES
  alive,   \* the processes of that name
  high,    \* those that only an administrator can kill
  coming,  \* consents whose process is not there yet
  port,    \* who listens on SOCKS
  nic,     \* who has the adapter, or Ghost
  log,     \* the marks readable in the end of the log
  old,     \* those that were there before the launch
  kept,    \* another program kept this start from emptying the log
  pc,      \* where start or stop is
  run,     \* with TUN, the pid, the attempt, the time left, prolonged, what follows a stop
  spared,  \* a process escaped this start or stop: a kill left it alive, or it
           \* was consented to before and not there yet
  said,    \* how the last call ended
  admin    \* the program has the rights

vars == <<alive, high, coming, port, nic, log, old, kept, pc, run, spared, said, admin>>

world == <<alive, high, coming, port, nic>>
journal == <<log, old, kept>>

\* In the log: the adapter exists already; it takes long; TUN is up.
Marks == {"exists", "opening", "started"}

\* kill, force and sweep are of stop; start continues after them.
Steps == {"idle", "kill", "force", "sweep", "start", "stale", "clean", "rotate",
          "launch", "found", "wait", "retry"}

Runs == [tun : BOOLEAN, mine : Pids \cup {None}, attempt : 1..2, left : 0..2,
         prolonged : BOOLEAN, rest : {"idle", "stale", "clean"}]

\* Outside a call; whether the process runs with TUN outlives the call.
Fresh(tun) ==
  [tun |-> tun, mine |-> None, attempt |-> 1, left |-> 0, prolonged |-> FALSE,
   rest |-> "idle"]

Init ==
  /\ alive \in SUBSET Pids /\ high = {} /\ coming = 0
  /\ port \in alive \cup {None} /\ nic \in {None, Ghost}
  /\ log \in SUBSET Marks /\ old = log /\ kept = FALSE
  /\ pc = "idle"
  /\ run = Fresh(FALSE)
  /\ spared = FALSE /\ said = "none"
  /\ admin \in (IF "user" \in Faults THEN BOOLEAN ELSE {TRUE})

-----------------------------------------------------------------------------
(* sing-box *)

\* The processes in gone end; their adapter goes with them or stays.
End(gone) ==
  /\ alive' = alive \ gone
  /\ high' = high \ gone
  /\ port' = (IF port \in gone THEN None ELSE port)
  /\ IF nic \in gone THEN nic' \in {None, Ghost} ELSE UNCHANGED nic
  /\ UNCHANGED coming

External == UNCHANGED <<pc, run, spared, said, admin>>

Dies(p) ==
  /\ p \in alive
  /\ End({p})
  /\ UNCHANGED journal /\ External

Listens(p) ==
  /\ p \in alive /\ port = None
  /\ port' = p
  /\ UNCHANGED <<alive, high, coming, nic>> /\ UNCHANGED journal /\ External

TakesAdapter(p) ==
  /\ run.tun /\ p \in alive /\ nic = None
  /\ nic' = p
  /\ UNCHANGED <<alive, high, coming, port>> /\ UNCHANGED journal /\ External

\* Started once the adapter is its own; before, it may say that it takes long,
\* and with the adapter in the way that it exists.
Logs(p, m) ==
  /\ run.tun /\ p \in alive
  /\ CASE m = "started" -> nic = p
       [] m = "opening" -> nic # None /\ "started" \notin log
       [] m = "exists"  -> nic \notin {None, p}
  /\ log' = log \cup {m} /\ old' = old \ {m}
  /\ UNCHANGED kept /\ UNCHANGED world /\ External

\* Traffic fills the log: a mark leaves the part that is read, the oldest first.
Scrolls(m) ==
  /\ port # None /\ m \in log
  /\ m = "started" => log = {m}
  /\ log' = log \ {m} /\ old' = old \ {m}
  /\ UNCHANGED kept /\ UNCHANGED world /\ External

\* Behind the prompt a left adapter is removed with all rights, then sing-box
\* runs; it may be gone before anybody sees it.
Appears ==
  /\ coming > 0
  /\ coming' = coming - 1
  /\ \E new \in {{}} \cup {{p} : p \in Pids \ alive} :
       alive' = alive \cup new /\ high' = high \cup new
  /\ nic' = (IF nic = Ghost THEN None ELSE nic)
  /\ UNCHANGED port /\ UNCHANGED journal /\ External

-----------------------------------------------------------------------------
(* stop *)

Internal(c) == pc' = c /\ UNCHANGED admin

Returns(how) == Internal("idle") /\ said' = how /\ run' = Fresh(run.tun)

Raises == Returns("raised")

\* A process that withstands a kill is one of another's rights, or a slow one.
Withstands(p) == (p \in high /\ ~admin) \/ "stuck" \in Faults

StopCalled ==
  /\ pc = "idle"
  /\ spared' = (coming > 0)
  /\ Internal("kill")
  /\ UNCHANGED <<run, said>> /\ UNCHANGED world /\ UNCHANGED journal

\* Every process of the name is a target.
Kill ==
  /\ pc = "kill"
  /\ \E left \in SUBSET {p \in alive : Withstands(p)} :
       /\ \A p \in high : ~admin => p \in left
       /\ End(alive \ left)
       /\ Internal(IF left = {} THEN "sweep" ELSE "force")
  /\ UNCHANGED <<run, spared, said>> /\ UNCHANGED journal

\* Variant of ForceKill for sensitivity: it does not look whether they are gone.
ForceKillBlindly ==
  /\ pc = "force"
  /\ \E left \in SUBSET alive :
       /\ End(alive \ left)
       /\ Internal("sweep")
  /\ UNCHANGED <<run, spared, said>> /\ UNCHANGED journal

\* By image name, behind a prompt if need be, which the user may refuse; stop
\* raises when one is left.
ForceKill ==
  /\ pc = "force"
  /\ \E left \in SUBSET {p \in alive : Withstands(p)} :
       /\ End(alive \ left)
       /\ IF left = {}
          THEN Internal("sweep") /\ UNCHANGED <<run, spared, said>>
          ELSE Raises /\ spared' = TRUE
  /\ UNCHANGED journal

\* remove_stale_tun_adapter, with or without success.
RemovesAdapter ==
  /\ nic' \in (IF nic = Ghost /\ (~admin \/ "ghost" \in Faults) THEN {None, Ghost}
               ELSE IF nic \in alive THEN {nic, None} ELSE {None})
  /\ UNCHANGED <<alive, high, coming, port>>

Sweep ==
  /\ pc = "sweep"
  /\ RemovesAdapter
  /\ IF run.rest = "idle" THEN Returns("stopped")
                          ELSE Internal(run.rest) /\ UNCHANGED <<run, said>>
  /\ UNCHANGED spared /\ UNCHANGED journal

-----------------------------------------------------------------------------
(* start, as the pipeline calls it: force_restart *)

StartCalled ==
  /\ pc = "idle"
  /\ \E tun \in BOOLEAN : run' = Fresh(tun)
  /\ spared' = (coming > 0)
  /\ Internal("start")
  /\ kept' = FALSE
  /\ UNCHANGED <<said, log, old>> /\ UNCHANGED world

\* No binary, or a configuration that cannot be built.
Misconfigured ==
  /\ pc = "start"
  /\ Raises
  /\ UNCHANGED spared /\ UNCHANGED world /\ UNCHANGED journal

\* What runs is stopped, and looked for once more before the launch.
StopsFirst ==
  /\ \E c, next \in Steps :
       /\ <<c, next>> \in {<<"start", "stale">>, <<"stale", "clean">>}
       /\ pc = c
       /\ Internal(IF alive # {} THEN "kill" ELSE next)
       /\ run' = [run EXCEPT !.rest = next]
  /\ UNCHANGED <<spared, said>> /\ UNCHANGED world /\ UNCHANGED journal

Clean ==
  /\ pc = "clean"
  /\ IF run.tun THEN RemovesAdapter ELSE UNCHANGED world
  /\ Internal("rotate")
  /\ UNCHANGED <<run, spared, said>> /\ UNCHANGED journal

\* Windows does not rename a log that is open, in a sing-box or elsewhere; the
\* launch goes on with the old one.
Rotate ==
  /\ pc = "rotate"
  /\ \/ alive = {} /\ log' = {} /\ old' = {} /\ UNCHANGED kept
     \/ alive # {} /\ UNCHANGED journal
     \/ "held" \in Faults /\ kept' = TRUE /\ UNCHANGED <<log, old>>
  /\ Internal("launch")
  /\ UNCHANGED <<run, spared, said>> /\ UNCHANGED world

Behind == run.tun /\ ~admin

Waiting(p) == [run EXCEPT !.mine = p, !.left = 2, !.prolonged = FALSE]

Launch ==
  /\ pc = "launch" /\ ~Behind
  /\ \E p \in (IF alive = Pids THEN {None} ELSE Pids \ alive) :
       /\ alive' = alive \cup ({p} \ {None})
       /\ run' = Waiting(p)
  /\ old' = log
  /\ Internal("wait")
  /\ UNCHANGED <<high, coming, port, nic, log, kept, spared, said>>

\* The prompt: refused, or the process is on its way.
Prompt ==
  /\ pc = "launch" /\ Behind
  /\ old' = log
  /\ \/ Raises /\ UNCHANGED coming
     \/ /\ coming < MaxComing
        /\ coming' = coming + 1
        /\ Internal("found") /\ UNCHANGED <<run, said>>
  /\ UNCHANGED <<alive, high, port, nic, log, kept, spared>>

\* For four seconds the first process of the name that shows up is taken for it.
Find ==
  /\ pc = "found"
  /\ \E p \in alive \cup {None} : run' = Waiting(p)
  /\ Internal("wait")
  /\ UNCHANGED <<spared, said>> /\ UNCHANGED world /\ UNCHANGED journal

-----------------------------------------------------------------------------
(* wait_ready: one pass of its loop reads the log, the port, the interfaces *)
(* and the processes, in this order.                                        *)

Pass == pc = "wait" /\ run.left > 0

Conflict == run.tun /\ "exists" \in log /\ "started" \notin log

StillOpening == "opening" \in log /\ "started" \notin log

IfaceUp == nic \in Pids

\* Variant of Usable for sensitivity: SOCKS is enough.
UsableBySocks == port # None

Usable == port # None /\ (run.tun => ~StillOpening /\ ("started" \in log \/ IfaceUp))

Ready ==
  /\ Pass /\ ~Conflict /\ Usable
  /\ Returns("ok")
  /\ UNCHANGED spared /\ UNCHANGED world /\ UNCHANGED journal

\* Variant of Prolong for sensitivity: it moves whenever the adapter is seen.
ProlongAgain ==
  /\ Pass /\ ~Conflict /\ ~Usable /\ run.tun /\ port # None
  /\ StillOpening /\ IfaceUp
  /\ run' = [run EXCEPT !.left = 2, !.prolonged = TRUE]
  /\ UNCHANGED <<pc, spared, said, admin>> /\ UNCHANGED world /\ UNCHANGED journal

\* The adapter is being made: the deadline moves, once.
Prolong ==
  /\ Pass /\ ~Conflict /\ ~Usable /\ run.tun /\ port # None
  /\ StillOpening /\ IfaceUp /\ ~run.prolonged
  /\ run' = [run EXCEPT !.left = 2, !.prolonged = TRUE]
  /\ UNCHANGED <<pc, spared, said, admin>> /\ UNCHANGED world /\ UNCHANGED journal

\* Time passes; what is behind a prompt shows up in time unless slow.
Tick ==
  /\ Pass
  /\ coming = 0 \/ "slow" \in Faults
  /\ run' = [run EXCEPT !.left = @ - 1]
  /\ UNCHANGED <<pc, spared, said, admin>> /\ UNCHANGED world /\ UNCHANGED journal

\* The adapter is in the way; SOCKS answers for 2.5 s and there is no adapter;
\* the process is dead; or the time is over.
GivesUp ==
  \/ Pass /\ Conflict
  \/ Pass /\ ~Usable /\ run.tun /\ port # None /\ ~IfaceUp
  \/ Pass /\ ~Usable /\ run.mine # None /\ alive = {}
  \/ pc = "wait" /\ run.left = 0

\* start raises and leaves what runs to the next stop; with TUN it tries again first.
Fail ==
  /\ pc = "wait" /\ GivesUp
  /\ IF run.tun /\ run.attempt = 1
     THEN Internal("retry") /\ UNCHANGED <<run, said>>
     ELSE Raises
  /\ UNCHANGED spared /\ UNCHANGED world /\ UNCHANGED journal

\* Variants of Retry for sensitivity: the first process is left alone; the log
\* of the first attempt is kept.
RetryBeside ==
  /\ pc = "retry"
  /\ run' = [run EXCEPT !.attempt = 2]
  /\ Internal("clean")
  /\ UNCHANGED <<spared, said>> /\ UNCHANGED world /\ UNCHANGED journal

RetryInLog ==
  /\ pc = "retry"
  /\ End(alive)
  /\ run' = [run EXCEPT !.attempt = 2]
  /\ Internal("launch")
  /\ UNCHANGED <<spared, said>> /\ UNCHANGED journal

\* One process is killed, without a prompt; then as for the first attempt.
Retry ==
  /\ pc = "retry"
  /\ IF alive = {} THEN UNCHANGED world /\ UNCHANGED spared
     ELSE \E p \in alive :
            \/ ~(p \in high /\ ~admin) /\ End({p}) /\ UNCHANGED spared
            \/ Withstands(p) /\ UNCHANGED world /\ spared' = TRUE
  /\ run' = [run EXCEPT !.attempt = 2]
  /\ Internal("clean")
  /\ UNCHANGED said /\ UNCHANGED journal

-----------------------------------------------------------------------------
Calls == StopCalled \/ StartCalled

Manager ==
  \/ Kill \/ ForceKill \/ Sweep
  \/ Misconfigured \/ StopsFirst \/ Clean \/ Rotate \/ Launch \/ Prompt \/ Find
  \/ Ready \/ Prolong \/ Tick \/ Fail \/ Retry

Behaves(p) ==
  \/ Dies(p) \/ Listens(p) \/ TakesAdapter(p)
  \/ \E m \in Marks : Logs(p, m)

Next ==
  \/ Calls \/ Manager \/ Appears
  \/ \E p \in Pids : Behaves(p)
  \/ \E m \in Marks : Scrolls(m)

Spec == Init /\ [][Next]_vars

\* The manager goes on and a prompt is answered; what was consented to appears.
FairSpec == Spec /\ WF_vars(Manager) /\ WF_vars(Appears)

-----------------------------------------------------------------------------
\* Values; who listens or has the adapter is alive, and a wait never goes on
\* beyond its time.
TypeOK ==
  /\ alive \subseteq Pids /\ high \subseteq alive /\ coming \in 0..MaxComing
  /\ port \in alive \cup {None} /\ nic \in alive \cup {None, Ghost}
  /\ log \subseteq Marks /\ old \subseteq log /\ kept \in BOOLEAN
  /\ pc \in Steps /\ run \in Runs
  /\ spared \in BOOLEAN /\ admin \in BOOLEAN
  /\ said \in {"none", "ok", "raised", "stopped"}

\* While start waits its process is the only one, here or on its way: two would
\* fight for port and adapter and be taken for one another.  The exceptions are a
\* first attempt that the retry could not kill, and one that was given up before
\* it came, on a mark of a log that could not be emptied (SingboxModeManager.start).
AloneWhileStarting ==
  pc = "wait" /\ ~spared /\ ~kept => Cardinality(alive) + coming <= 1

\* What wait_ready reads in the log is of the launch it waits for: no mark of
\* the first attempt ends the second (_rotate_log, the comment in start).  The
\* exception is a log that another program has open, which is not emptied.
LogIsOfThisLaunch ==
  pc = "wait" /\ ~spared /\ ~kept => old = {}

\* When start returns, the process it launched listens and, with TUN, has the
\* adapter; neither a log nor an interface of another is taken for it, unless
\* the log could not be emptied.
ReadyIsOurs ==
  [][pc = "wait" /\ pc' = "idle" /\ said' = "ok" /\ ~spared /\ ~kept =>
       \E p \in alive' : /\ port' = p /\ run.mine \in {p, None}
                         /\ run.tun => nic' = p]_vars

\* stop returns only when no process is left, and none comes back by itself
\* unless a consent was under way (SingboxModeManager.stop).
StopIsFinal ==
  said = "stopped" /\ pc = "idle" /\ ~spared => alive = {} /\ coming = 0

\* Every start and stop ends: a launch that never gets ready is given up twice
\* at most, and a slow adapter moves the deadline once (wait_ready).
CallsEnd == pc # "idle" ~> pc = "idle"
===============================================================================
