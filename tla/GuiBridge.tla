------------------------------- MODULE GuiBridge -------------------------------
(***************************************************************************)
(* The window: buttons run the client in threads of a pool, a poll reads   *)
(* the client's status, and what they post comes to the one thread of the  *)
(* window in order.  The client is seen through the phases of module       *)
(* Phases, the slot that lets one operation in, and what status() reads.   *)
(***************************************************************************)
EXTENDS Naturals, Sequences, FiniteSets

CONSTANTS
  Quitter,  \* the thread of quitApp
  Dog,      \* the watchdog
  None,
  Budget,   \* bound: how many things the user asks for or go wrong
  Faults    \* what may go wrong, each once; see BridgeAssumption

\* The threads of the pool that run a button's work, one for each that is asked.
Workers == 1 .. Budget

Threads == Workers \cup {Quitter, Dog}

ASSUME BridgeAssumption ==
  /\ Cardinality({Quitter, Dog, None}) = 3
  /\ (1 .. Budget) \cap {Quitter, Dog, None} = {}
  /\ Budget \in Nat
  \* "crash": sing-box dies; "error": status() raises; "config": settings make
  \* the configuration incomplete, or complete; "late": an operation or a
  \* download outlives the timer of the buttons
  /\ Faults \subseteq {"crash", "error", "config", "late"}

VARIABLES
  phase, worker, \* of module Phases
  slot,     \* the thread inside session.operation
  sb,       \* sing-box: down, starting (no adapter and no SOCKS yet), up
  applied,  \* the kill switch is applied
  pending,  \* TUN routes are still to be installed (pending_win_tun)
  watch,    \* the watchdog is wanted
  at,       \* where each thread is
  does,     \* and what it does
  win,      \* fields of the window: buttons, awaited status, update, quit
  shown,    \* what the window shows and what its button does
  sig,      \* the status it shows
  ready,    \* the configuration is complete
  poll,     \* the status poll and its timer
  events,   \* posted to the window, in order
  left,     \* bound: what is left of Budget, and of Faults
  troubled  \* threads that met another, for a connect a sing-box or the sight of
            \* one, for an update a wait or the timer of the buttons, or that raised

client == <<phase, worker, slot, sb, applied, pending, watch>>
threads == <<at, does>>
window == <<win, shown, sig, ready>>
history == <<left, troubled>>
vars == <<client, threads, window, poll, events, history>>

PhasesSeen == INSTANCE Phases

Connecting == PhasesSeen!Connecting

\* Of Action; tun_on and tun_off are connects, updates disconnect.
Deeds == {"on", "reconnect", "off", "update"}

Intent(d) == IF d = "off" THEN "off" ELSE "on"

-----------------------------------------------------------------------------
(* services/status.py *)

\* What status() answers; err: the last probe found no exit.
Statuses == [applied : BOOLEAN, err : BOOLEAN, sb : {"down", "starting", "up"},
             connecting : BOOLEAN]

NoStatus == [applied |-> FALSE, err |-> FALSE, sb |-> "down", connecting |-> FALSE]

Title(st) ==
  CASE st.connecting \/ (st.sb = "starting" /\ ~st.err) -> "connecting"
    [] ~st.connecting /\ st.sb = "up" /\ st.err         -> "noexit"
    [] ~st.connecting /\ st.sb = "up" /\ ~st.err        -> "protected"
    [] ~st.connecting /\ st.sb = "starting" /\ st.err   -> "fault"
    [] ~st.connecting /\ st.sb = "down" /\ st.applied   -> "closed"
    [] OTHER -> IF ready THEN "off" ELSE "noconfig"

Retry(title) == title \in {"noexit", "fault", "closed"}

View(st) ==
  LET title == Title(st)
  IN [active |-> st.sb # "down",
      ks |-> st.applied \/ st.sb # "down",
      title |-> title,
      retry |-> Retry(title),
      power |-> IF Retry(title) THEN "reconnect"
                ELSE IF title \in {"off", "noconfig"} THEN "on" ELSE "off"]

Titles == {"connecting", "noexit", "protected", "fault", "closed", "off", "noconfig", "error"}

Views == [active : BOOLEAN, ks : BOOLEAN, title : Titles, retry : BOOLEAN,
          power : {"on", "off", "reconnect"}]

\* Variant of Status for sensitivity: it cannot tell that a connect is under way.
StatusBlind ==
  [applied |-> applied, err |-> phase \in {"degraded", "fail_closed"}, sb |-> sb,
   connecting |-> FALSE]

Status ==
  [applied |-> applied, err |-> phase \in {"degraded", "fail_closed"}, sb |-> sb,
   connecting |-> phase \in Connecting \/ pending]

-----------------------------------------------------------------------------
Wins == [busy : BOOLEAN, await : BOOLEAN, intent : {"", "on", "off"},
         asked : Workers \cup {None}, applying : BOOLEAN, closing : BOOLEAN, gone : BOOLEAN]

Polls == [stage : {"idle", "safety", "process", "phase", "posted"}, st : Statuses,
          force : BOOLEAN, queued : BOOLEAN, qforce : BOOLEAN, armed : BOOLEAN]

Stages == {"idle", "download", "call", "restop", "in", "install"}

Events ==
  [k : {"bg"}, err : BOOLEAN] \cup [k : {"status"}, st : Statuses, force : BOOLEAN]
    \cup [k : {"failed", "polled", "installing", "notinstalled"}]

Init ==
  /\ PhasesSeen!Init
  /\ slot = None /\ sb = "down" /\ applied = FALSE /\ pending = FALSE /\ watch = FALSE
  /\ at = [t \in Threads |-> "idle"]
  /\ does = [t \in Threads |-> None]
  /\ win = [busy |-> FALSE, await |-> FALSE, intent |-> "", asked |-> None,
            applying |-> FALSE, closing |-> FALSE, gone |-> FALSE]
  /\ ready = TRUE
  /\ shown = View(NoStatus) /\ sig = None
  /\ poll = [stage |-> "idle", st |-> NoStatus, force |-> FALSE, queued |-> FALSE,
             qforce |-> FALSE, armed |-> TRUE]
  /\ events = <<>>
  /\ left = [more |-> Budget, faults |-> Faults] /\ troubled = {}

Fault(f) ==
  /\ left.more > 0 /\ f \in left.faults
  /\ left' = [left EXCEPT !.more = @ - 1, !.faults = @ \ {f}]

-----------------------------------------------------------------------------
(* The client *)

\* What a call into the client is followed by: a button's work posts how it
\* ended, an update goes on to its installer, quitApp ends the program.
Returns(t, err) ==
  /\ at' = [at EXCEPT ![t] = IF does[t] = "update" THEN "install" ELSE "idle"]
  /\ events' = (IF t \in Workers /\ does[t] # "update"
                THEN Append(events, [k |-> "bg", err |-> err]) ELSE events)
  /\ win' = (IF t = Quitter THEN [win EXCEPT !.gone = TRUE] ELSE win)
  /\ troubled' = (IF err THEN troubled \cup {t} ELSE troubled)
  /\ UNCHANGED <<does, shown, sig, ready, poll, left>>

Beside == UNCHANGED <<does, window, poll, events, history>>

\* session.operation; SessionBusy otherwise.
Enter(t) ==
  /\ at[t] = "call"
  /\ \/ /\ slot = None /\ slot' = t
        /\ PhasesSeen!Start
        /\ worker' = (IF does[t] \in {"off", "update"} THEN "disconnect" ELSE "connect")
        /\ at' = [at EXCEPT ![t] = IF does[t] = "reconnect" THEN "restop" ELSE "in"]
        /\ UNCHANGED <<sb, applied, pending, watch>> /\ Beside
     \/ slot # None /\ Returns(t, TRUE) /\ UNCHANGED client

\* A reconnect stops sing-box in the old phase, if it can.
Restop(t) ==
  /\ at[t] = "restop"
  /\ sb' \in {"down", sb}
  /\ at' = [at EXCEPT ![t] = "in"]
  /\ UNCHANGED <<phase, worker, slot, applied, pending, watch>> /\ Beside

Connects(t) ==
  /\ at[t] = "in"
  /\ PhasesSeen!Advance
  /\ phase' = "probing" => sb = "up"
  /\ sb' = (IF phase' = "launching" THEN "starting" ELSE sb)
  /\ UNCHANGED <<slot, applied, pending, watch, at>> /\ Beside

\* After the probe the phase says how it went; before, something has raised, and
\* the kill switch, which is switched on, may be applied or not.
Connected(t) ==
  /\ at[t] = "in"
  /\ PhasesSeen!Settle
  /\ LET err == phase # "probing" \/ phase' = "idle"
     IN watch' = (watch \/ ~err) /\ Returns(t, err)
  /\ applied' \in (IF phase = "probing" THEN {TRUE} ELSE {TRUE, applied})
  /\ pending' \in (IF phase = "probing" THEN BOOLEAN ELSE {pending})
  /\ slot' = None /\ UNCHANGED sb

Disconnects(t) ==
  /\ at[t] = "in"
  /\ \/ PhasesSeen!Stop /\ watch' = FALSE /\ pending' = FALSE /\ UNCHANGED sb
     \/ /\ phase = "stopping" /\ sb # "down" /\ sb' = "down"
        /\ UNCHANGED <<phase, worker, pending, watch>>
  /\ UNCHANGED <<slot, applied, at>> /\ Beside

\* It raises when sing-box is still there.
Disconnected(t) ==
  /\ at[t] = "in"
  /\ PhasesSeen!Stopped
  /\ applied' = FALSE /\ slot' = None /\ UNCHANGED <<sb, pending, watch>>
  /\ Returns(t, sb # "down")

Runs(t) ==
  \/ Enter(t) \/ Restop(t) \/ Connects(t) \/ Connected(t) \/ Disconnects(t) \/ Disconnected(t)

\* A tick that finds sing-box dead reconnects.
DogCalls ==
  /\ at[Dog] = "idle" /\ watch /\ slot = None /\ sb = "down"
  /\ at' = [at EXCEPT ![Dog] = "call"]
  /\ does' = [does EXCEPT ![Dog] = "reconnect"]
  /\ troubled' = Threads
  /\ UNCHANGED <<client, window, poll, events, left>>

Opens ==
  /\ sb = "starting" /\ sb' = "up"
  /\ UNCHANGED <<phase, worker, slot, applied, pending, watch, at>> /\ Beside

Crash ==
  /\ Fault("crash")
  /\ sb # "down" /\ sb' = "down"
  /\ UNCHANGED <<phase, worker, slot, applied, pending, watch, at>>
  /\ UNCHANGED <<does, window, poll, events, troubled>>

-----------------------------------------------------------------------------
(* The status poll *)

\* _refresh_status; one poll at a time, another is remembered.
Refresh(p, force) ==
  IF win.closing THEN p
  ELSE IF p.stage = "idle"
       THEN [p EXCEPT !.stage = "safety", !.force = force \/ p.qforce, !.qforce = FALSE]
       ELSE [p EXCEPT !.queued = TRUE, !.qforce = @ \/ force]

PollTick ==
  /\ poll.armed
  /\ poll' = Refresh([poll EXCEPT !.armed = FALSE], FALSE)
  /\ UNCHANGED <<client, threads, window, events, history>>

\* What the thread of the poll posts at its end, unless the window is closing.
Posts(e) == events' = (IF win.closing THEN events ELSE events \o <<e, [k |-> "polled"]>>)

\* OpsClient.status: the kill switch and the probe's error, then the process
\* and its adapter, then whether a connect is under way.
Read ==
  /\ \/ /\ poll.stage = "safety"
        /\ \E err \in IF phase = "probing" THEN BOOLEAN ELSE {Status.err} :
             poll' = [poll EXCEPT !.stage = "process", !.st.applied = applied, !.st.err = err]
        /\ UNCHANGED events
     \/ /\ poll.stage = "process"
        /\ poll' = [poll EXCEPT !.stage = "phase", !.st.sb = sb]
        /\ UNCHANGED events
     \/ /\ poll.stage = "phase"
        /\ LET st == [poll.st EXCEPT !.connecting = Status.connecting]
           IN Posts([k |-> "status", st |-> st, force |-> poll.force])
        /\ poll' = [poll EXCEPT !.stage = "posted", !.st = NoStatus, !.force = FALSE]
  /\ UNCHANGED <<client, threads, window, history>>

ReadFails ==
  /\ Fault("error")
  /\ poll.stage \in {"safety", "process", "phase"}
  /\ Posts([k |-> "failed"])
  /\ poll' = [poll EXCEPT !.stage = "posted", !.st = NoStatus, !.force = FALSE]
  /\ UNCHANGED <<client, threads, window, troubled>>

-----------------------------------------------------------------------------
(* The window's thread *)

Taken(k) == events # <<>> /\ Head(events).k = k /\ events' = Tail(events)

Unlocked == [win EXCEPT !.busy = FALSE, !.await = FALSE, !.intent = "", !.asked = None]

BgFinished ==
  /\ Taken("bg")
  /\ win' = (IF Head(events).err THEN Unlocked ELSE win)
  /\ poll' = Refresh(poll, TRUE)
  /\ UNCHANGED <<client, threads, shown, sig, ready, history>>

\* The awaited status is not there yet.
Waits(st) ==
  /\ win.await
  /\ \/ win.intent = "on" /\ (st.sb = "down" \/ (Title(st) = "connecting" /\ ~st.err))
     \/ win.intent = "off" /\ st.sb # "down"

PassedOver(st, force) == ~force /\ ~win.await /\ (st = sig \/ win.busy)

StatusReady ==
  /\ Taken("status")
  /\ LET st == Head(events).st
     IN IF PassedOver(st, Head(events).force) \/ Waits(st)
        THEN UNCHANGED <<win, shown, sig>>
        ELSE /\ sig' = st /\ shown' = View(st)
             /\ win' = (IF win.await /\ (win.intent = "off" \/ Title(st) # "connecting")
                        THEN Unlocked ELSE win)
  /\ UNCHANGED <<client, threads, ready, poll, history>>

StatusFailed ==
  /\ Taken("failed")
  /\ IF win.busy /\ ~win.await THEN UNCHANGED <<win, shown>>
     ELSE /\ shown' = [shown EXCEPT !.title = "error", !.retry = shown.active \/ shown.ks]
          /\ win' = Unlocked
  /\ UNCHANGED <<client, threads, sig, ready, poll, history>>

\* Variant of Polled for sensitivity: the timer is not set again.
PolledOnce ==
  /\ Taken("polled")
  /\ LET p == [poll EXCEPT !.stage = "idle", !.queued = FALSE, !.qforce = FALSE]
     IN poll' = (IF win.closing \/ ~poll.queued THEN p ELSE Refresh(p, poll.qforce))
  /\ UNCHANGED <<client, threads, window, history>>

Polled ==
  /\ Taken("polled")
  /\ LET p == [poll EXCEPT !.stage = "idle", !.queued = FALSE, !.qforce = FALSE]
     IN poll' = (IF win.closing THEN p
                 ELSE IF poll.queued THEN Refresh(p, poll.qforce)
                 ELSE [p EXCEPT !.armed = TRUE])
  /\ UNCHANGED <<client, threads, window, history>>

\* Another thread than t, or how a button's work ended, is still about.
Others(t) ==
  \/ \E u \in Threads \ {t} : at[u] # "idle"
  \/ \E i \in DOMAIN events : events[i].k \in {"bg", "installing", "notinstalled"}

\* Minutes are long: unless "late", whatever was asked has ended by then.
RunsOut ==
  \/ Fault("late") /\ troubled' = troubled \cup {w \in Workers : at[w] # "idle"}
  \/ ~Others(Dog) /\ UNCHANGED history

\* Variant of TimesOut for sensitivity: it serves updates only.
TimesOutOfUpdate ==
  /\ win.busy /\ win.applying
  /\ RunsOut
  /\ win' = [Unlocked EXCEPT !.applying = FALSE]
  /\ poll' = Refresh(poll, TRUE)
  /\ UNCHANGED <<client, threads, shown, sig, ready, events>>

TimesOut ==
  /\ win.busy
  /\ RunsOut
  /\ win' = [Unlocked EXCEPT !.applying = FALSE]
  /\ poll' = Refresh(poll, TRUE)
  /\ UNCHANGED <<client, threads, shown, sig, ready, events>>

-----------------------------------------------------------------------------
(* What the user asks for *)

\* No sing-box, and none in a status that is still to be shown.
FromScratch ==
  /\ sb = "down" /\ poll.st.sb = "down"
  /\ \A i \in DOMAIN events : events[i].k = "status" => events[i].st.sb = "down"

Ask == left.more > 0 /\ left' = [left EXCEPT !.more = @ - 1]

Starts(t, d, stage) ==
  /\ at[t] = "idle"
  /\ at' = [at EXCEPT ![t] = stage]
  /\ does' = [does EXCEPT ![t] = d]
  /\ troubled' = (IF \/ Others(t)
                     \/ d = "on" /\ ~FromScratch
                     \/ d = "update" /\ win.await
                  THEN troubled \cup {t} ELSE troubled \ {t})
  /\ UNCHANGED client

\* activatePower, toggleConnection
ButtonDoes ==
  IF shown.retry THEN "reconnect" ELSE IF shown.active \/ shown.ks THEN "off" ELSE "on"

\* _run_bg
Press ==
  /\ ~win.busy /\ ~win.closing
  /\ ready \/ shown.active \/ shown.ks
  /\ Ask /\ Starts(left.more, ButtonDoes, "call")
  /\ win' = [win EXCEPT !.busy = TRUE, !.await = TRUE, !.intent = Intent(ButtonDoes),
                        !.asked = left.more]
  /\ UNCHANGED <<shown, sig, ready, poll, events>>

\* Variant of StartUpdate for sensitivity: the buttons stay free.
StartUpdateUnlocked ==
  /\ ~win.busy /\ ~win.applying /\ ~win.closing
  /\ Ask /\ Starts(left.more, "update", "download")
  /\ win' = [win EXCEPT !.applying = TRUE]
  /\ UNCHANGED <<shown, sig, ready, poll, events>>

StartUpdate ==
  /\ ~win.busy /\ ~win.applying /\ ~win.closing
  /\ Ask /\ Starts(left.more, "update", "download")
  /\ win' = [win EXCEPT !.busy = TRUE, !.applying = TRUE]
  /\ UNCHANGED <<shown, sig, ready, poll, events>>

\* The download, which may fail, and after the client's disconnect the
\* installer, which may not start.
Updates(w) ==
  /\ does[w] = "update"
  /\ \/ at[w] = "download" /\ at' = [at EXCEPT ![w] = "call"] /\ UNCHANGED events
     \/ /\ at[w] \in {"download", "install"}
        /\ at' = [at EXCEPT ![w] = "idle"]
        /\ events' = Append(events, [k |-> "notinstalled"])
     \/ /\ at[w] = "install"
        /\ at' = [at EXCEPT ![w] = "idle"]
        /\ events' = Append(events, [k |-> "installing"])
  /\ UNCHANGED <<client, does, window, poll, history>>

\* Variant of Closes for sensitivity: the program ends beside the shutdown.
ClosesAtOnce ==
  /\ Starts(Quitter, "off", "call")
  /\ win' = [win EXCEPT !.closing = TRUE, !.gone = TRUE, !.applying = FALSE]
  /\ poll' = [poll EXCEPT !.armed = FALSE]
  /\ UNCHANGED <<shown, sig, ready, left>>

\* quitApp: client.shutdown in a thread of its own.
Closes ==
  /\ Starts(Quitter, "off", "call")
  /\ win' = [win EXCEPT !.closing = TRUE, !.applying = FALSE]
  /\ poll' = [poll EXCEPT !.armed = FALSE]
  /\ UNCHANGED <<shown, sig, ready, left>>

Quit == ~win.closing /\ Closes /\ UNCHANGED events

\* The installer runs: the program quits, unless it is quitting.
ApplyReady ==
  /\ Taken("installing")
  /\ IF win.closing
     THEN /\ win' = [win EXCEPT !.applying = FALSE]
          /\ UNCHANGED <<client, threads, shown, sig, ready, poll, history>>
     ELSE Closes

ApplyFailed ==
  /\ Taken("notinstalled")
  /\ win' = [win EXCEPT !.applying = FALSE, !.busy = FALSE]
  /\ UNCHANGED <<client, threads, shown, sig, ready, poll, history>>

\* The settings are saved as they are typed (_autosave_settings).
SyncConfig ==
  /\ Fault("config") /\ ~win.closing
  /\ ready' = ~ready
  /\ shown' = (IF ready /\ ~shown.active /\ ~win.busy
               THEN [shown EXCEPT !.title = "noconfig", !.power = "on", !.retry = FALSE]
               ELSE shown)
  /\ UNCHANGED <<client, threads, win, sig, poll, events, troubled>>

-----------------------------------------------------------------------------
Window ==
  \/ BgFinished \/ StatusReady \/ StatusFailed \/ Polled \/ ApplyReady \/ ApplyFailed

Next ==
  \/ \E t \in Threads : Runs(t)
  \/ DogCalls \/ Opens \/ Crash
  \/ PollTick \/ Read \/ ReadFails \/ Window \/ TimesOut
  \/ Press \/ StartUpdate \/ Quit \/ SyncConfig
  \/ \E w \in Workers : Updates(w)

Spec == Init /\ [][Next]_vars

\* Threads run, the window handles what is posted, and its timers fire.
FairSpec ==
  /\ Spec
  /\ \A t \in Threads : WF_vars(Runs(t))
  /\ WF_vars(Opens) /\ WF_vars(PollTick) /\ WF_vars(Read) /\ WF_vars(Window) /\ WF_vars(TimesOut)
  /\ \A w \in Workers : WF_vars(Updates(w))

-----------------------------------------------------------------------------
\* Values; an intent goes with each wait, and no poll is remembered when none runs.
TypeOK ==
  /\ phase \in PhasesSeen!Settled \cup Connecting \cup {"stopping"}
  /\ worker \in {"none", "connect", "disconnect"}
  /\ slot \in Threads \cup {None} /\ sb \in {"down", "starting", "up"}
  /\ applied \in BOOLEAN /\ pending \in BOOLEAN /\ watch \in BOOLEAN
  /\ at \in [Threads -> Stages] /\ does \in [Threads -> Deeds \cup {None}]
  /\ win \in Wins /\ (win.await <=> win.intent # "")
  /\ shown \in Views /\ sig \in Statuses \cup {None} /\ ready \in BOOLEAN
  /\ poll \in Polls /\ (poll.queued => poll.stage # "idle")
  /\ events \in Seq(Events)
  /\ left \in [more : 0 .. Budget, faults : SUBSET Faults] /\ troubled \subseteq Threads

\* A wait for a connect from scratch ends only when the connect has ended: no
\* status read on the way, however torn, is taken for the one awaited
\* (_apply_status; GUI wait until tunnel/TUN ready).
ConnectIsAwaited ==
  [][Taken("status") /\ win.busy /\ ~win'.busy
       => \A w \in Workers \ troubled :
            win.asked = w /\ does[w] = "on" => at[w] = "idle"]_vars

\* The installer of an update finds the VPN down and nobody about to bring it up,
\* if nobody else was about and no status awaited when the update was asked for, and
\* the timer of the buttons has not run out since (startUpdate, _busy_timed_out).
InstallerFindsItDown ==
  \A w \in Workers : at[w] = "install" /\ w \notin troubled => sb = "down" /\ worker # "connect"

\* Quitting leaves no VPN behind, under the same condition (quitApp).
QuitLeavesItOff ==
  win.gone /\ Quitter \notin troubled => sb = "down" /\ ~applied /\ slot = None

\* The buttons come back, whatever becomes of what was asked (_busy_timer).
BusyEnds == win.busy ~> ~win.busy

\* When the client comes to rest the window shows it as it is, and its button
\* does the thing that fits (the poll, present_status), unless status() has raised
\* or the settings have changed: what those put up stays until the status changes.
ShowsTheClient ==
  <>[][FALSE]_<<client, at>>
    => <>[](\/ win.closing \/ shown = View(Status)
           \/ ~(Faults \cap {"error", "config"} \subseteq left.faults))

===============================================================================
