------------------------------ MODULE Overrides ------------------------------
(***************************************************************************)
(* The settings of other programs that a connection overrides on Windows:  *)
(* the proxies of git, of docker and of the browser, and the relay option  *)
(* of RustDesk.  Each is saved in a file before it is overridden, or after *)
(* it, and given back from there.  Two processes do this: the window and a *)
(* command of the command line, whatever command it is.                    *)
(***************************************************************************)
EXTENDS Naturals, Sequences

CONSTANTS
  Users,   \* what a user may have in a place
  Absent,  \* nothing: one of Users
  Modes,   \* configurations
  Faults   \* what may go wrong; see OverridesAssumption

ASSUME OverridesAssumption ==
  /\ Absent \in Users
  /\ Users \cap {"ours", "torn", "nofile"} = {}
  \* tun stands for TUN or the kill switch, office for a corporate proxy
  /\ Modes \subseteq [tun : BOOLEAN, office : BOOLEAN, rustdesk : BOOLEAN]
  \* "crash": a process dies; "torn": it dies while it writes a backup;
  \* "overlap": a command runs beside an operation of the window; "unwritable":
  \* a file of RustDesk's cannot be written
  /\ Faults \subseteq {"crash", "torn", "overlap", "unwritable"}

Places == {"git", "docker", "browser", "rustdesk"}

Processes == {"gui", "cli"}

\* What may be in a place, and in a backup.
Values == Users \cup {"ours"}

Files == Values \cup {"torn", "nofile"}

VARIABLES
  place,   \* what is in each place
  backup,  \* and in its backup file
  state,   \* state.json is there
  up,      \* sing-box runs
  mode,    \* the configuration of the last connect
  running, \* the window's process is there
  watched, \* it has a watchdog
  at,      \* where each process is: its job and a step at the i-th place of it
  hand,    \* what rustdesk_opt holds of the option of RustDesk
  wish,    \* history: what the user last put in each place
  off,     \* history: all was undone since the last override
  linked,  \* history: the last connect has succeeded
  lost     \* history: places whose setting a death or a failed write may have lost

files == <<place, backup, state>>
process == <<at, hand>>
history == <<wish, off, linked, lost>>
vars == <<files, up, mode, running, watched, process, history>>

Rest == [job |-> "rest", step |-> "none", i |-> 0]

Job(job) == [Rest EXCEPT !.job = job]

Walks == {"apply", "again", "teardown", "tidy", "docker", "leave"}

Jobs == {"launch", "state", "connected", "unlink", "tidied", "command", "exit"}

Locations ==
  {Rest} \cup {Job(j) : j \in Jobs}
    \cup [job : Walks, step : {"save", "put", "take", "give", "drop"}, i : 1 .. 4]

-----------------------------------------------------------------------------
\* The order of _apply_integrations and of teardown_overrides.
Order(job) ==
  CASE job \in {"apply", "again"} -> <<"git", "docker", "browser", "rustdesk">>
    [] job = "docker"             -> <<"docker">>
    [] OTHER                      -> <<"browser", "git", "docker", "rustdesk">>

\* Variant of Undoes for sensitivity: what is switched off is passed over.
UndoesEnabled(job, p) ==
  \/ job \in {"teardown", "tidy", "leave"} /\ (p = "rustdesk" => mode.rustdesk)
  \/ job = "docker" /\ ~up
  \/ job \in {"apply", "again"} /\ (p = "docker" \/ (p = "git" /\ ~mode.tun))

\* A connect undoes what is not asked for, and docker's always:
\* get_docker_proxy_enabled is false, only the command docker-env sets it.
Undoes(job, p) ==
  \/ job \in {"teardown", "tidy", "leave"}
  \/ job = "docker" /\ ~up
  \/ job \in {"apply", "again"} /\ \/ p = "docker"
                                   \/ p = "git" /\ ~mode.tun
                                   \/ p = "rustdesk" /\ ~mode.rustdesk

After(job) ==
  CASE job = "apply" -> Job("state")
    [] job = "again" -> Job("connected")
    [] job = "teardown" -> Job("unlink")
    [] job = "tidy" -> Job("tidied")
    [] job = "docker" -> Job("exit")
    [] OTHER -> Rest

\* The i-th place of a job: RustDesk's is overridden before it is saved, and its
\* backup is taken away before it is given back.
Walk(job, i) ==
  IF i > Len(Order(job)) THEN After(job)
  ELSE LET p == Order(job)[i]
       IN [job |-> job, i |-> i,
           step |-> CASE Undoes(job, p) /\ p = "rustdesk"  -> "take"
                      [] Undoes(job, p) /\ p # "rustdesk"  -> "give"
                      [] ~Undoes(job, p) /\ p = "rustdesk" -> "put"
                      [] OTHER                             -> "save"]

GoTo(t, loc) == at' = [at EXCEPT ![t] = loc]

NextPlace(t) == GoTo(t, Walk(at[t].job, at[t].i + 1))

Step(t, step) == GoTo(t, [at[t] EXCEPT !.step = step])

Doing(t, step, p) == at[t].step = step /\ Order(at[t].job)[at[t].i] = p

-----------------------------------------------------------------------------
(* One place *)

\* The browser is set direct when there is TUN, unless in the office.
Own(p) == IF p = "browser" /\ mode.tun /\ ~mode.office THEN Absent ELSE "ours"

Init ==
  /\ wish \in [Places -> Users] /\ place = wish
  /\ backup = [p \in Places |-> "nofile"]
  /\ state = FALSE /\ up = FALSE /\ running = FALSE /\ watched = FALSE
  /\ mode \in Modes
  /\ at = [t \in Processes |-> Rest]
  /\ hand = [t \in Processes |-> "nofile"]
  /\ off = TRUE /\ linked = FALSE /\ lost = {}

Beside == UNCHANGED <<state, up, mode, running, watched, wish, linked, lost>>

\* Variant of Save for sensitivity: an earlier backup is no reason not to.
SaveAnew(t, p) ==
  /\ Doing(t, "save", p)
  /\ backup' = [backup EXCEPT ![p] = IF p = "rustdesk" THEN hand[t] ELSE place[p]]
  /\ IF p = "rustdesk" THEN NextPlace(t) ELSE Step(t, "put")
  /\ hand' = [hand EXCEPT ![t] = "nofile"]
  /\ off' = FALSE /\ UNCHANGED place /\ Beside

\* A backup that is there is kept.
Save(t, p) ==
  /\ Doing(t, "save", p)
  /\ backup' = [backup EXCEPT ![p] = IF @ # "nofile" THEN @
                                     ELSE IF p = "rustdesk" THEN hand[t] ELSE place[p]]
  /\ IF p = "rustdesk" THEN NextPlace(t) ELSE Step(t, "put")
  /\ hand' = [hand EXCEPT ![t] = "nofile"]
  /\ off' = FALSE /\ UNCHANGED place /\ Beside

Put(t, p) ==
  /\ Doing(t, "put", p)
  /\ place' = [place EXCEPT ![p] = Own(p)]
  /\ IF p = "rustdesk"
     THEN hand' = [hand EXCEPT ![t] = place[p]] /\ Step(t, "save")
     ELSE UNCHANGED hand /\ NextPlace(t)
  /\ off' = FALSE /\ UNCHANGED backup /\ Beside

\* The values a place may have once it was given back from what its backup says.
\* git: what looks like ours is removed, also without a backup or with a torn one.
GivenGit(b) ==
  IF b \in Users THEN {b}
  ELSE IF "ours" \in {b, place["git"]} THEN {Absent} ELSE {place["git"]}

\* The browser: likewise without a backup; of a backup of ours the PAC is left out;
\* a torn one raises.
GivenBrowser(b) ==
  CASE b \in Users -> {b}
    [] b = "ours" -> {"ours", Absent}
    [] b = "nofile" /\ place["browser"] = "ours" -> {Absent}
    [] OTHER -> {place["browser"]}

\* docker: a torn backup counts as an empty one.
GivenDocker(b) ==
  CASE b \in Values -> {b}
    [] b = "torn" -> {Absent}
    [] OTHER -> {place["docker"]}

\* RustDesk: a torn one is ignored.
GivenRustdesk(b) == IF b \in Values THEN {b} ELSE {place["rustdesk"]}

Given(p, b) ==
  CASE p = "git" -> GivenGit(b)
    [] p = "browser" -> GivenBrowser(b)
    [] p = "docker" -> GivenDocker(b)
    [] OTHER -> GivenRustdesk(b)

\* RustDesk: the backup is read and deleted, then the option is written.
Take(t) ==
  /\ Doing(t, "take", "rustdesk")
  /\ hand' = [hand EXCEPT ![t] = backup["rustdesk"]]
  /\ backup' = [backup EXCEPT !["rustdesk"] = "nofile"]
  /\ Step(t, "give")
  /\ UNCHANGED <<place, off>> /\ Beside

Give(t, p) ==
  /\ Doing(t, "give", p)
  /\ \E v \in Given(p, IF p = "rustdesk" THEN hand[t] ELSE backup[p]) :
       place' = [place EXCEPT ![p] = v]
  /\ IF p = "rustdesk" \/ (p = "browser" /\ backup[p] = "torn")
     THEN NextPlace(t) ELSE Step(t, "drop")
  /\ hand' = [hand EXCEPT ![t] = "nofile"]
  /\ UNCHANGED <<backup, off>> /\ Beside

Drop(t, p) ==
  /\ Doing(t, "drop", p)
  /\ backup' = [backup EXCEPT ![p] = "nofile"]
  /\ NextPlace(t)
  /\ UNCHANGED <<place, hand, off>> /\ Beside

Handle(t) ==
  Take(t) \/ \E p \in Places : Save(t, p) \/ Put(t, p) \/ Give(t, p) \/ Drop(t, p)

-----------------------------------------------------------------------------
(* The window *)

\* Nobody else is at work, if that is asked for.
Alone == "overlap" \in Faults \/ \A t \in Processes : at[t] = Rest

\* _override_markers
Marked == state \/ \E p \in Places : backup[p] # "nofile"

\* Variant of Tidy for sensitivity: it does not ask whether the VPN is up.
TidyAnyway(t, job, otherwise) ==
  GoTo(t, IF Marked /\ ~(t = "gui" /\ watched) THEN Walk(job, 1) ELSE otherwise)

\* teardown_overrides_if_dirty; a command knows nothing of the window's watchdog.
Tidy(t, job, otherwise) ==
  GoTo(t, IF Marked /\ ~up /\ ~(t = "gui" /\ watched) THEN Walk(job, 1) ELSE otherwise)

\* OpsClient(startup_cleanup=True)
Open ==
  /\ ~running /\ at["gui"] = Rest /\ Alone
  /\ running' = TRUE
  /\ Tidy("gui", "tidy", Rest)
  /\ UNCHANGED <<files, up, mode, watched, hand, history>>

\* What tidying leads to: the window rests, a command does what it is for.
Tidied(t) ==
  /\ at[t] = Job("tidied")
  /\ GoTo(t, IF t = "gui" THEN Rest ELSE Job("command"))
  /\ off' = TRUE
  /\ UNCHANGED <<files, up, mode, running, watched, hand, wish, linked, lost>>

\* A connect or a reconnect, by the user or the watchdog: sing-box, if it runs,
\* is stopped, and a reconnect deletes state.json.
Connect ==
  /\ running /\ at["gui"] = Rest /\ Alone
  /\ mode' \in Modes /\ up' = FALSE /\ state' \in {FALSE, state}
  /\ linked' = FALSE
  /\ GoTo("gui", Job("launch"))
  /\ UNCHANGED <<place, backup, running, watched, hand, wish, off, lost>>

\* sing-box starts, or the connect has failed.
Launch ==
  /\ at["gui"] = Job("launch")
  /\ \/ up' = TRUE /\ GoTo("gui", Walk("apply", 1))
     \/ GoTo("gui", Rest) /\ UNCHANGED up
  /\ UNCHANGED <<files, mode, running, watched, hand, history>>

\* git, or the proxy or PAC of the browser, may raise before it is saved or
\* after: the connect fails, but after the probe nobody minds.
ApplyFails ==
  /\ at["gui"].job \in {"apply", "again"}
  /\ \E p \in {"git", "browser"}, step \in {"save", "put"} :
       Doing("gui", step, p) /\ Own(p) = "ours"
  /\ GoTo("gui", IF at["gui"].job = "apply" THEN Rest ELSE Job("connected"))
  /\ UNCHANGED <<files, up, mode, running, watched, hand, history>>

\* RustDesk has a file of the user's and one of its service, written one after the
\* other, and nobody minds when that fails: at the first, nothing is overridden; at the
\* second, what the first had is not saved; and what the backup had, which is gone by
\* then, may not be given back.
RustdeskFails(t) ==
  LET inHandOnly == hand[t] # "nofile" /\ backup["rustdesk"] = "nofile"
  IN /\ "unwritable" \in Faults
     /\ \E step \in {"put", "save", "give"} : Doing(t, step, "rustdesk")
     /\ lost' = (IF Doing(t, "put", "rustdesk") \/ inHandOnly
                 THEN lost \cup {"rustdesk"} ELSE lost)
     /\ hand' = [hand EXCEPT ![t] = "nofile"]
     /\ NextPlace(t)
     /\ UNCHANGED <<files, up, mode, running, watched, wish, off, linked>>

\* _write_state; the integrations are applied again once the probe has succeeded.
WriteState ==
  /\ at["gui"] = Job("state")
  /\ state' = TRUE
  /\ GoTo("gui", Walk("again", 1)) \/ GoTo("gui", Job("connected"))
  /\ UNCHANGED <<place, backup, up, mode, running, watched, hand, history>>

Connected ==
  /\ at["gui"] = Job("connected")
  /\ watched' = TRUE /\ linked' = TRUE
  /\ GoTo("gui", Rest)
  /\ UNCHANGED <<files, up, mode, running, hand, wish, off, lost>>

\* sing-box may withstand its stop.
Disconnect ==
  /\ running /\ at["gui"] = Rest /\ Alone
  /\ watched' = FALSE /\ linked' = FALSE
  /\ up' \in {FALSE, up}
  /\ GoTo("gui", Walk("teardown", 1))
  /\ UNCHANGED <<files, mode, running, hand, wish, off, lost>>

Unlink ==
  /\ at["gui"] = Job("unlink")
  /\ state' = FALSE /\ off' = TRUE
  /\ GoTo("gui", Rest)
  /\ UNCHANGED <<place, backup, up, mode, running, watched, hand, wish, linked, lost>>

\* teardownNow or atexit: the process ends, tidied up or not.
Close ==
  /\ running /\ at["gui"] = Rest /\ Alone
  /\ running' = FALSE /\ watched' = FALSE /\ linked' = FALSE
  /\ Tidy("gui", "leave", Rest)
  /\ UNCHANGED <<files, up, mode, hand, wish, off, lost>>

-----------------------------------------------------------------------------
(* The command line, the user and the world *)

\* Any command builds a client first.
Command ==
  /\ at["cli"] = Rest /\ Alone
  /\ Tidy("cli", "tidy", Job("command"))
  /\ UNCHANGED <<files, up, mode, running, watched, hand, history>>

\* docker-env sets docker's proxy if sing-box listens, and undoes it otherwise.
Runs ==
  /\ at["cli"] = Job("command")
  /\ GoTo("cli", Walk("docker", 1)) \/ GoTo("cli", Job("exit"))
  /\ UNCHANGED <<files, up, mode, running, watched, hand, history>>

\* _atexit_teardown
Exit ==
  /\ at["cli"] = Job("exit")
  /\ Tidy("cli", "leave", Rest)
  /\ UNCHANGED <<files, up, mode, running, watched, hand, history>>

\* The user sets a place that is not overridden.
UserEdits ==
  /\ \A t \in Processes : at[t] = Rest
  /\ \E p \in Places, v \in Users :
       /\ backup[p] = "nofile" /\ place[p] # "ours"
       /\ place' = [place EXCEPT ![p] = v]
       /\ wish' = [wish EXCEPT ![p] = v]
  /\ UNCHANGED <<backup, state, up, mode, running, watched, process, off, linked, lost>>

SingboxDies ==
  /\ up /\ up' = FALSE
  /\ UNCHANGED <<files, mode, running, watched, process, history>>

Dies(t) ==
  /\ at[t] # Rest \/ (t = "gui" /\ running)
  /\ GoTo(t, Rest)
  /\ hand' = [hand EXCEPT ![t] = "nofile"]
  /\ running' = (running /\ t # "gui")
  /\ watched' = (watched /\ t # "gui")
  /\ linked' = (linked /\ t # "gui")
  /\ UNCHANGED <<place, state, up, mode, wish, off>>

\* What RustDesk had is lost when it is in hand only.
Crash(t) ==
  /\ "crash" \in Faults
  /\ Dies(t) /\ UNCHANGED backup
  /\ lost' = (IF hand[t] # "nofile" /\ backup["rustdesk"] = "nofile"
              THEN lost \cup {"rustdesk"} ELSE lost)

\* It dies in the middle of write_text.  Bound: nothing is lost yet.
Tear(t) ==
  /\ "torn" \in Faults /\ lost = {}
  /\ \E p \in Places :
       /\ Doing(t, "save", p) /\ backup[p] = "nofile"
       /\ backup' = [backup EXCEPT ![p] = "torn"]
       /\ lost' = lost \cup {p}
  /\ Dies(t)

-----------------------------------------------------------------------------
Window ==
  \/ Open \/ Connect \/ Launch \/ ApplyFails \/ WriteState \/ Connected
  \/ Disconnect \/ Unlink \/ Close

CommandLine == Command \/ Runs \/ Exit

Next ==
  \/ Window \/ CommandLine \/ UserEdits \/ SingboxDies
  \/ \E t \in Processes : Handle(t) \/ RustdeskFails(t) \/ Tidied(t) \/ Crash(t) \/ Tear(t)

Spec == Init /\ [][Next]_vars

-----------------------------------------------------------------------------
\* Values, and only RustDesk's steps hold anything in hand.
TypeOK ==
  /\ place \in [Places -> Values]
  /\ backup \in [Places -> Files]
  /\ state \in BOOLEAN /\ up \in BOOLEAN /\ mode \in Modes
  /\ running \in BOOLEAN /\ watched \in BOOLEAN
  /\ at \in [Processes -> Locations]
  /\ hand \in [Processes -> Files]
  /\ \A t \in Processes :
       hand[t] # "nofile" => Doing(t, "save", "rustdesk") \/ Doing(t, "give", "rustdesk")
  /\ wish \in [Places -> Users]
  /\ off \in BOOLEAN /\ linked \in BOOLEAN /\ lost \subseteq Places

Safe == Places \ lost

\* Whenever the program dies the user's latest setting is in its place, or in its
\* backup, which is never of an earlier day nor of our own making; exceptions are
\* the option of RustDesk while it is in hand, or where a file of its cannot be
\* written, and a backup half written (_backup_git_proxy, backup_win_proxy,
\* enable_docker_desktop_proxy).
Recoverable ==
  \A p \in Safe :
    /\ backup[p] \in {wish[p], "nofile"}
    /\ backup[p] = "nofile" =>
         \/ place[p] = wish[p]
         \/ p = "rustdesk" /\ \E t \in Processes : hand[t] = wish[p]

\* Once a disconnect or the tidying at a start is through, every setting is the
\* user's latest again and no backup is left (teardown_overrides: "Undo git / PAC
\* / Docker / env changes").
OffGivesBack ==
  off /\ (\A t \in Processes : at[t] = Rest) =>
    \A p \in Safe : place[p] = wish[p] /\ backup[p] = "nofile"

\* While the window is connected no other run of the program has taken its
\* overrides away, which are all there but for a file that could not be written
\* (teardown_overrides_if_dirty asks _vpn_process_up).
LinkedIsOverridden ==
  linked /\ up =>
    /\ place["browser"] = Own("browser")
    /\ mode.tun => place["git"] = "ours"
    /\ mode.rustdesk /\ "rustdesk" \in Safe => place["rustdesk"] = "ours"

==============================================================================
