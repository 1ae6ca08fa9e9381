---------------------------- MODULE GuiBridgeProofs ----------------------------
(***************************************************************************)
(* What holds of module GuiBridge for any number of buttons pressed and    *)
(* any faults: types, that an installer finds the VPN down, that quitting  *)
(* leaves none behind, and that a wait for a connect ends with it.         *)
(***************************************************************************)
EXTENDS GuiBridge, FiniteSetTheorems, TLAPS

\* The threads are different ones, and none of them is None.
LEMMA ThreadsDiffer ==
  /\ Quitter \in Threads /\ Dog \in Threads /\ Workers \subseteq Threads /\ None \notin Threads
  /\ Quitter # Dog /\ Quitter \notin Workers /\ Dog \notin Workers /\ None \notin Workers
  /\ Workers \subseteq Nat /\ Budget \in Nat
<1>1. ASSUME NEW a, NEW b, {Quitter, Dog, None} = {a, b} PROVE FALSE
  <2>1. IsFiniteSet({a}) /\ Cardinality({a}) = 1
    BY FS_Singleton
  <2>2. Cardinality({a} \cup {b}) <= 2
    BY <2>1, FS_AddElement
  <2>3. {a} \cup {b} = {a, b}
    OBVIOUS
  <2> QED
    BY <1>1, <2>2, <2>3, BridgeAssumption
<1>2. Quitter # Dog
  <2>1. Quitter = Dog => {Quitter, Dog, None} = {Dog, None}
    OBVIOUS
  <2> QED
    BY <1>1, <2>1
<1>3. Quitter # None
  <2>1. Quitter = None => {Quitter, Dog, None} = {Dog, None}
    OBVIOUS
  <2> QED
    BY <1>1, <2>1
<1>4. Dog # None
  <2>1. Dog = None => {Quitter, Dog, None} = {Quitter, None}
    OBVIOUS
  <2> QED
    BY <1>1, <2>1
<1> QED
  BY <1>2, <1>3, <1>4, BridgeAssumption DEF Threads, Workers

-----------------------------------------------------------------------------
(* What is posted *)

\* What is on its way to the window.
Elems(s) == {s[i] : i \in DOMAIN s}

LEMMA AppendHas ==
  ASSUME NEW S, NEW s \in Seq(S), NEW e \in S
  PROVE  /\ Append(s, e) \in Seq(S)
         /\ Elems(Append(s, e)) \subseteq Elems(s) \cup {e}
  BY DEF Elems

LEMMA TailHas ==
  ASSUME NEW S, NEW s \in Seq(S), s # <<>>
  PROVE  /\ Head(s) \in S /\ Head(s) \in Elems(s)
         /\ Tail(s) \in Seq(S)
         /\ Elems(Tail(s)) \subseteq Elems(s)
  BY DEF Elems

LEMMA BothHas ==
  ASSUME NEW S, NEW s \in Seq(S), NEW e \in S, NEW f \in S
  PROVE  /\ s \o <<e, f>> \in Seq(S)
         /\ Elems(s \o <<e, f>>) \subseteq Elems(s) \cup {e, f}
  BY DEF Elems

-----------------------------------------------------------------------------
(* Types, one part of the state at a time *)

ClientTypes ==
  /\ phase \in PhasesSeen!Settled \cup Connecting \cup {"stopping"}
  /\ worker \in {"none", "connect", "disconnect"}
  /\ slot \in Threads \cup {None} /\ sb \in {"down", "starting", "up"}
  /\ applied \in BOOLEAN /\ pending \in BOOLEAN /\ watch \in BOOLEAN

ThreadTypes == at \in [Threads -> Stages] /\ does \in [Threads -> Deeds \cup {None}]

WinTypes == win \in Wins /\ (win.await <=> win.intent # "")

ShownTypes == shown \in Views /\ sig \in Statuses \cup {None} /\ ready \in BOOLEAN

PollTypes == poll \in Polls /\ (poll.queued => poll.stage # "idle")

EventTypes == events \in Seq(Events)

HistoryTypes ==
  left \in [more : 0 .. Budget, faults : SUBSET Faults] /\ troubled \subseteq Threads

LEMMA TypesSplit ==
  TypeOK <=> /\ ClientTypes /\ ThreadTypes /\ WinTypes /\ ShownTypes /\ PollTypes
             /\ EventTypes /\ HistoryTypes
  BY DEF TypeOK, ClientTypes, ThreadTypes, WinTypes, ShownTypes, PollTypes, EventTypes,
         HistoryTypes

\* What status() answers, and what the window makes of it.
LEMMA StatusTyped ==
  ASSUME ClientTypes
  PROVE  Status \in Statuses
  BY DEF ClientTypes, Status, Statuses

LEMMA ViewTyped ==
  ASSUME NEW st \in Statuses
  PROVE  Title(st) \in Titles \ {"error"} /\ View(st) \in Views
<1>1. Title(st) \in Titles \ {"error"}
  BY DEF Title, Titles
<1>2. Retry(Title(st)) \in BOOLEAN
  BY DEF Retry
<1> QED
  BY <1>1, <1>2 DEF View, Views, Statuses

\* A poll that is asked for.
LEMMA RefreshTyped ==
  ASSUME NEW p \in Polls, p.queued => p.stage # "idle", NEW force \in BOOLEAN
  PROVE  /\ Refresh(p, force) \in Polls
         /\ Refresh(p, force).queued => Refresh(p, force).stage # "idle"
         /\ Refresh(p, force).st = p.st
         /\ p.stage # "idle" => Refresh(p, force).stage = p.stage
  BY DEF Refresh, Polls

LEMMA UnlockedTyped ==
  ASSUME WinTypes
  PROVE  /\ Unlocked \in Wins /\ (Unlocked.await <=> Unlocked.intent # "")
         /\ [Unlocked EXCEPT !.applying = FALSE] \in Wins
         /\ ~[Unlocked EXCEPT !.applying = FALSE].await
         /\ [Unlocked EXCEPT !.applying = FALSE].intent = ""
  BY DEF WinTypes, Wins, Unlocked

LEMMA InitTypes == Init => TypeOK
<1> SUFFICES ASSUME Init PROVE TypeOK
  OBVIOUS
<1>1. ClientTypes
  BY ThreadsDiffer DEF Init, ClientTypes, PhasesSeen!Init, PhasesSeen!Settled
<1>2. ThreadTypes
  BY DEF Init, ThreadTypes, Stages
<1>3. WinTypes
  BY DEF Init, WinTypes, Wins
<1>4. NoStatus \in Statuses
  BY DEF NoStatus, Statuses
<1>5. ShownTypes
  BY <1>4, ViewTyped DEF Init, ShownTypes
<1>6. PollTypes
  BY <1>4 DEF Init, PollTypes, Polls
<1>7. EventTypes
  <2>1. <<>> \in Seq(Events)
    OBVIOUS
  <2> QED
    BY <2>1 DEF Init, EventTypes
<1>8. HistoryTypes
  <2>1. Budget \in 0 .. Budget /\ Faults \in SUBSET Faults
    BY ThreadsDiffer
  <2> QED
    BY <2>1 DEF Init, HistoryTypes
<1> QED
  BY <1>1, <1>2, <1>3, <1>5, <1>6, <1>7, <1>8, TypesSplit

\* What is asked for, or goes wrong, is counted down.
LEMMA CountsDown ==
  ASSUME HistoryTypes, Ask \/ \E f : Fault(f)
  PROVE  /\ left' \in [more : 0 .. Budget, faults : SUBSET Faults]
         /\ left'.more = left.more - 1 /\ left.more \in Workers
<1>1. /\ left.more \in 0 .. Budget /\ left.faults \in SUBSET Faults
      /\ left.more > 0 /\ Budget \in Nat
  BY ThreadsDiffer DEF HistoryTypes, Ask, Fault
<1>2. left.more - 1 \in 0 .. Budget /\ left.more \in Workers
  BY <1>1 DEF Workers
<1>3. CASE Ask
  BY <1>2, <1>3 DEF Ask, HistoryTypes
<1>4. ASSUME NEW f, Fault(f)
      PROVE  /\ left' \in [more : 0 .. Budget, faults : SUBSET Faults]
             /\ left'.more = left.more - 1
  <2>1. left.faults \ {f} \in SUBSET Faults
    BY <1>1
  <2>2. left' = [left EXCEPT !.more = left.more - 1, !.faults = left.faults \ {f}]
    BY <1>4 DEF Fault
  <2> QED
    BY <1>2, <2>1, <2>2 DEF HistoryTypes
<1> QED
  BY <1>2, <1>3, <1>4

\* What a call is followed by.
LEMMA ReturnsTyped ==
  ASSUME TypeOK, NEW t \in Threads, NEW err \in BOOLEAN, Returns(t, err)
  PROVE  /\ ThreadTypes' /\ WinTypes' /\ ShownTypes' /\ PollTypes' /\ EventTypes' /\ HistoryTypes'
         /\ at'[t] \in {"idle", "install"} /\ \A u \in Threads \ {t} : at'[u] = at[u]
<1>1. ThreadTypes /\ WinTypes /\ ShownTypes /\ PollTypes /\ EventTypes /\ HistoryTypes
  BY TypesSplit
<1>2. ThreadTypes' /\ at'[t] \in {"idle", "install"} /\ \A u \in Threads \ {t} : at'[u] = at[u]
  BY <1>1 DEF Returns, ThreadTypes, Stages
<1>3. WinTypes'
  BY <1>1 DEF Returns, WinTypes, Wins
<1>4. EventTypes'
  <2>1. [k |-> "bg", err |-> err] \in Events
    BY DEF Events
  <2>2. events \in Seq(Events)
    BY <1>1 DEF EventTypes
  <2>3. Append(events, [k |-> "bg", err |-> err]) \in Seq(Events)
    BY <2>1, <2>2, AppendHas
  <2> QED
    BY <2>2, <2>3 DEF Returns, EventTypes
<1>5. ShownTypes' /\ PollTypes' /\ HistoryTypes'
  BY <1>1 DEF Returns, ShownTypes, PollTypes, HistoryTypes
<1> QED
  BY <1>2, <1>3, <1>4, <1>5

\* The phases keep to their values.
LEMMA PhaseTyped ==
  ASSUME ClientTypes, PhasesSeen!Next
  PROVE  /\ phase' \in PhasesSeen!Settled \cup Connecting \cup {"stopping"}
         /\ worker' \in {"none", "connect", "disconnect"}
  BY DEF ClientTypes, PhasesSeen!Next, PhasesSeen!Start, PhasesSeen!Advance, PhasesSeen!Settle,
         PhasesSeen!Stop, PhasesSeen!Stopped, PhasesSeen!Settled, PhasesSeen!Connecting, Connecting

LEMMA RunsTyped ==
  ASSUME TypeOK, NEW t \in Threads, Runs(t)
  PROVE  TypeOK'
<1>1. /\ ClientTypes /\ ThreadTypes /\ WinTypes /\ ShownTypes /\ PollTypes /\ EventTypes
      /\ HistoryTypes
  BY TypesSplit
<1>2. ClientTypes'
  <2>1. CASE UNCHANGED client
    BY <1>1, <2>1 DEF client, ClientTypes
  <2>2. CASE ~UNCHANGED client
    <3>1. PhasesSeen!Next \/ UNCHANGED <<phase, worker>>
      BY <2>2 DEF Runs, Enter, Restop, Connects, Connected, Disconnects, Disconnected,
                  PhasesSeen!Next
    <3>2. /\ phase' \in PhasesSeen!Settled \cup Connecting \cup {"stopping"}
          /\ worker' \in {"none", "connect", "disconnect"}
      BY <1>1, <3>1, PhaseTyped DEF ClientTypes
    <3>3. /\ slot' \in Threads \cup {None} /\ sb' \in {"down", "starting", "up"}
          /\ applied' \in BOOLEAN /\ pending' \in BOOLEAN /\ watch' \in BOOLEAN
      BY <1>1, <2>2
      DEF Runs, Enter, Restop, Connects, Connected, Disconnects, Disconnected, ClientTypes
    <3> QED
      BY <3>2, <3>3 DEF ClientTypes
  <2> QED
    BY <2>1, <2>2
<1>3. CASE Beside /\ (UNCHANGED at \/ \E stage \in Stages : at' = [at EXCEPT ![t] = stage])
  BY <1>1, <1>2, <1>3, TypesSplit
  DEF Beside, window, history, ThreadTypes, WinTypes, ShownTypes, PollTypes, EventTypes,
      HistoryTypes, TypeOK, ClientTypes
<1>4. CASE \E err \in BOOLEAN : Returns(t, err)
  BY <1>2, <1>4, ReturnsTyped DEF TypeOK, ClientTypes, ThreadTypes, WinTypes, ShownTypes, PollTypes,
                                  EventTypes, HistoryTypes
<1> QED
  <2>1. CASE Enter(t)
    BY <1>3, <1>4, <2>1 DEF Enter, Stages
  <2>2. CASE Restop(t) \/ Connects(t) \/ Disconnects(t)
    BY <1>3, <2>2 DEF Restop, Connects, Disconnects, Stages
  <2>3. CASE Connected(t)
    <3>1. (phase # "probing" \/ phase' = "idle") \in BOOLEAN
      OBVIOUS
    <3> QED
      BY <1>4, <2>3, <3>1 DEF Connected
  <2>4. CASE Disconnected(t)
    <3>1. (sb # "down") \in BOOLEAN
      OBVIOUS
    <3> QED
      BY <1>4, <2>4, <3>1 DEF Disconnected
  <2> QED
    BY <2>1, <2>2, <2>3, <2>4 DEF Runs

\* The watchdog, the adapter and a death of sing-box.
LEMMA AroundTyped ==
  ASSUME TypeOK, DogCalls \/ Opens \/ Crash
  PROVE  TypeOK'
<1>1. ClientTypes /\ ThreadTypes /\ HistoryTypes
  BY TypesSplit
<1>2. CASE DogCalls
  <2>1. ThreadTypes' /\ troubled' \subseteq Threads
    BY <1>1, <1>2, ThreadsDiffer DEF DogCalls, ThreadTypes, Stages, Deeds
  <2> QED
    BY <1>2, <2>1 DEF DogCalls, TypeOK, ThreadTypes, client, window
<1>3. CASE Opens
  BY <1>3 DEF Opens, Beside, TypeOK, window, history
<1>4. CASE Crash
  <2>1. HistoryTypes'
    BY <1>1, <1>4, CountsDown DEF Crash, HistoryTypes
  <2> QED
    BY <1>4, <2>1 DEF Crash, TypeOK, HistoryTypes, window
<1> QED
  BY <1>2, <1>3, <1>4

\* The poll.
LEMMA PollTyped ==
  ASSUME TypeOK, PollTick \/ Read \/ ReadFails
  PROVE  TypeOK'
<1>1. /\ PollTypes /\ EventTypes /\ HistoryTypes /\ ClientTypes
      /\ Status \in Statuses
  BY TypesSplit, StatusTyped
<1>p. [k |-> "polled"] \in Events /\ [k |-> "failed"] \in Events
  BY DEF Events
<1>n. NoStatus \in Statuses
  BY DEF NoStatus, Statuses
<1>2. CASE PollTick
  <2> DEFINE p == [poll EXCEPT !.armed = FALSE]
  <2>1. p \in Polls /\ (p.queued => p.stage # "idle")
    BY <1>1 DEF PollTypes, Polls
  <2>2. poll' = Refresh(p, FALSE)
    BY <1>2 DEF PollTick
  <2> HIDE DEF p
  <2>3. PollTypes'
    BY <2>1, <2>2, RefreshTyped DEF PollTypes
  <2> QED
    BY <1>2, <2>3 DEF PollTick, TypeOK, PollTypes, client, threads, window, history
<1>3. CASE Read
  <2>1. PollTypes' /\ EventTypes'
    <3>1. CASE poll.stage = "safety"
      <4>1. PICK err \in BOOLEAN :
              /\ poll' = [poll EXCEPT !.stage = "process", !.st.applied = applied, !.st.err = err]
              /\ UNCHANGED events
        BY <1>1, <1>3, <3>1 DEF Read, Statuses
      <4>2. [poll.st EXCEPT !.applied = applied, !.err = err] \in Statuses
        BY <1>1 DEF PollTypes, Polls, Statuses, ClientTypes
      <4>3. poll' = [poll EXCEPT !.stage = "process",
                                 !.st = [poll.st EXCEPT !.applied = applied, !.err = err]]
        BY <1>1, <4>1 DEF PollTypes, Polls, Statuses
      <4> QED
        BY <1>1, <4>1, <4>2, <4>3 DEF PollTypes, Polls, EventTypes
    <3>2. CASE poll.stage = "process"
      <4>1. poll' = [poll EXCEPT !.stage = "phase", !.st = [poll.st EXCEPT !.sb = sb]]
        BY <1>1, <1>3, <3>2 DEF Read, PollTypes, Polls, Statuses
      <4>2. [poll.st EXCEPT !.sb = sb] \in Statuses
        BY <1>1 DEF PollTypes, Polls, Statuses, ClientTypes
      <4> QED
        BY <1>1, <1>3, <3>2, <4>1, <4>2 DEF Read, PollTypes, Polls, EventTypes
    <3>3. CASE poll.stage = "phase"
      <4> DEFINE st == [poll.st EXCEPT !.connecting = Status.connecting]
      <4> DEFINE e == [k |-> "status", st |-> st, force |-> poll.force]
      <4>1. st \in Statuses
        BY <1>1 DEF PollTypes, Polls, Statuses
      <4>2. /\ Posts(e)
            /\ poll' = [poll EXCEPT !.stage = "posted", !.st = NoStatus, !.force = FALSE]
        BY <1>3, <3>3 DEF Read
      <4>3. e \in Events
        BY <1>1, <4>1 DEF Events, PollTypes, Polls
      <4> HIDE DEF e
      <4>4. EventTypes'
        BY <1>1, <1>p, <4>2, <4>3, BothHas DEF Posts, EventTypes
      <4>5. PollTypes'
        BY <1>1, <1>n, <4>2 DEF PollTypes, Polls
      <4> QED
        BY <4>4, <4>5
    <3> QED
      BY <1>3, <3>1, <3>2, <3>3 DEF Read
  <2> QED
    BY <1>3, <2>1 DEF Read, TypeOK, PollTypes, EventTypes, client, threads, window, history
<1>4. CASE ReadFails
  <2>1. EventTypes'
    BY <1>1, <1>4, <1>p, BothHas DEF ReadFails, Posts, EventTypes
  <2>2. PollTypes'
    BY <1>1, <1>4, <1>n DEF ReadFails, PollTypes, Polls
  <2>3. HistoryTypes'
    BY <1>1, <1>4, CountsDown DEF ReadFails, HistoryTypes
  <2> QED
    BY <1>4, <2>1, <2>2, <2>3
    DEF ReadFails, TypeOK, PollTypes, EventTypes, HistoryTypes, client, threads, window
<1> QED
  BY <1>2, <1>3, <1>4

\* What the window takes of what was posted.
LEMMA TakenTyped ==
  ASSUME TypeOK, NEW k, Taken(k)
  PROVE  /\ EventTypes' /\ Elems(events') \subseteq Elems(events)
         /\ Head(events) \in Elems(events) /\ Head(events) \in Events /\ Head(events).k = k
  BY TailHas DEF TypeOK, Taken, EventTypes

\* The window's own steps.
LEMMA WindowTyped ==
  ASSUME TypeOK, BgFinished \/ StatusReady \/ StatusFailed \/ Polled \/ ApplyFailed \/ TimesOut
  PROVE  TypeOK'
<1>1. /\ WinTypes /\ ShownTypes /\ PollTypes /\ EventTypes /\ HistoryTypes
  BY TypesSplit
<1>u. /\ Unlocked \in Wins /\ (Unlocked.await <=> Unlocked.intent # "")
      /\ [Unlocked EXCEPT !.applying = FALSE] \in Wins
      /\ ~[Unlocked EXCEPT !.applying = FALSE].await
      /\ [Unlocked EXCEPT !.applying = FALSE].intent = ""
  BY <1>1, UnlockedTyped
<1>r. Refresh(poll, TRUE) \in Polls
      /\ (Refresh(poll, TRUE).queued => Refresh(poll, TRUE).stage # "idle")
  BY <1>1, RefreshTyped DEF PollTypes
<1>2. CASE BgFinished
  <2>1. EventTypes' /\ WinTypes' /\ PollTypes'
    BY <1>1, <1>2, <1>u, <1>r, TakenTyped DEF BgFinished, WinTypes, PollTypes
  <2> QED
    BY <1>2, <2>1
    DEF BgFinished, TypeOK, EventTypes, WinTypes, PollTypes, client, threads, history
<1>3. CASE StatusReady
  <2>1. EventTypes' /\ Head(events) \in Events /\ Head(events).k = "status"
    BY <1>3, TakenTyped DEF StatusReady
  <2>2. Head(events).st \in Statuses
    BY <2>1 DEF Events
  <2>3. WinTypes' /\ ShownTypes'
    BY <1>1, <1>3, <1>u, <2>2, ViewTyped DEF StatusReady, WinTypes, ShownTypes
  <2> QED
    BY <1>3, <2>1, <2>3
    DEF StatusReady, TypeOK, EventTypes, WinTypes, ShownTypes, client, threads, history
<1>4. CASE StatusFailed
  <2>1. EventTypes'
    BY <1>4, TakenTyped DEF StatusFailed
  <2>2. WinTypes' /\ shown' \in Views
    <3>1. shown \in Views /\ "error" \in Titles
      BY <1>1 DEF ShownTypes, Titles
    <3>2. (shown.active \/ shown.ks) \in BOOLEAN
      OBVIOUS
    <3>3. [shown EXCEPT !.title = "error", !.retry = shown.active \/ shown.ks] \in Views
      BY <3>1, <3>2 DEF Views
    <3> QED
      BY <1>1, <1>4, <1>u, <3>1, <3>3 DEF StatusFailed, WinTypes
  <2> QED
    BY <1>4, <2>1, <2>2 DEF StatusFailed, TypeOK, EventTypes, WinTypes, client, threads, history
<1>5. CASE Polled
  <2>1. EventTypes'
    BY <1>5, TakenTyped DEF Polled
  <2> DEFINE p == [poll EXCEPT !.stage = "idle", !.queued = FALSE, !.qforce = FALSE]
  <2>2. p \in Polls /\ ~p.queued /\ [p EXCEPT !.armed = TRUE] \in Polls
        /\ ~[p EXCEPT !.armed = TRUE].queued /\ poll.qforce \in BOOLEAN
    BY <1>1 DEF PollTypes, Polls
  <2>3. poll' \in {p, Refresh(p, poll.qforce), [p EXCEPT !.armed = TRUE]}
    BY <1>5 DEF Polled
  <2> HIDE DEF p
  <2>5. /\ Refresh(p, poll.qforce) \in Polls
        /\ Refresh(p, poll.qforce).queued => Refresh(p, poll.qforce).stage # "idle"
    BY <2>2, RefreshTyped
  <2>4. PollTypes'
    BY <2>2, <2>3, <2>5 DEF PollTypes
  <2> QED
    BY <1>5, <2>1, <2>4 DEF Polled, TypeOK, EventTypes, PollTypes, client, threads, window, history
<1>6. CASE ApplyFailed
  <2>1. EventTypes'
    BY <1>6, TakenTyped DEF ApplyFailed
  <2>2. WinTypes'
    BY <1>1, <1>6 DEF ApplyFailed, WinTypes, Wins
  <2> QED
    BY <1>6, <2>1, <2>2 DEF ApplyFailed, TypeOK, EventTypes, WinTypes, client, threads, history
<1>7. CASE TimesOut
  <2>1. WinTypes' /\ PollTypes'
    BY <1>7, <1>u, <1>r DEF TimesOut, WinTypes, PollTypes
  <2>2. HistoryTypes'
    BY <1>1, <1>7, CountsDown, ThreadsDiffer DEF TimesOut, RunsOut, HistoryTypes, history
  <2> QED
    BY <1>7, <2>1, <2>2
    DEF TimesOut, TypeOK, WinTypes, PollTypes, HistoryTypes, client, threads
<1> QED
  BY <1>2, <1>3, <1>4, <1>5, <1>6, <1>7

\* What the user asks for, and the work of an update.
LEMMA StartsTyped ==
  ASSUME TypeOK, NEW t \in Threads, NEW d \in Deeds, NEW stage \in Stages, Starts(t, d, stage)
  PROVE  /\ ClientTypes' /\ ThreadTypes' /\ troubled' \subseteq Threads
         /\ at' = [at EXCEPT ![t] = stage] /\ does' = [does EXCEPT ![t] = d]
  BY TypesSplit DEF Starts, client, ClientTypes, ThreadTypes, HistoryTypes

LEMMA AskedTyped ==
  ASSUME TypeOK, Press \/ StartUpdate \/ Quit \/ ApplyReady \/ SyncConfig
                   \/ \E w \in Workers : Updates(w)
  PROVE  TypeOK'
<1>1. /\ ClientTypes /\ ThreadTypes /\ WinTypes /\ ShownTypes /\ PollTypes /\ EventTypes
      /\ HistoryTypes
  BY TypesSplit
<1>d. /\ {"on", "off", "reconnect", "update"} \subseteq Deeds /\ ButtonDoes \in Deeds
      /\ {"call", "download", "idle"} \subseteq Stages
      /\ Intent(ButtonDoes) \in {"on", "off"}
  BY DEF Deeds, Stages, ButtonDoes, Intent
<1>2. CASE Press
  <2>1. /\ left' \in [more : 0 .. Budget, faults : SUBSET Faults]
        /\ left.more \in Workers /\ left.more \in Threads
    BY <1>1, <1>2, CountsDown, ThreadsDiffer DEF Press
  <2>2. ClientTypes' /\ ThreadTypes' /\ HistoryTypes'
    BY <1>2, <1>d, <2>1, StartsTyped DEF Press, HistoryTypes
  <2>3. WinTypes'
    <3> DEFINE i == Intent(ButtonDoes)
    <3>1. i \in {"on", "off"} /\ i # ""
      BY <1>d
    <3>2. win' = [win EXCEPT !.busy = TRUE, !.await = TRUE, !.intent = i, !.asked = left.more]
      BY <1>2 DEF Press
    <3> HIDE DEF i
    <3>3. win'.await /\ win'.intent = i
      BY <1>1, <3>2 DEF WinTypes, Wins
    <3>4. win' \in Wins
      BY <1>1, <2>1, <3>1, <3>2 DEF WinTypes, Wins
    <3> QED
      BY <3>1, <3>3, <3>4 DEF WinTypes
  <2> QED
    BY <1>1, <1>2, <2>2, <2>3, TypesSplit DEF Press, TypeOK, ClientTypes, ThreadTypes, WinTypes,
                                              HistoryTypes
<1>3. CASE StartUpdate
  <2>1. /\ left' \in [more : 0 .. Budget, faults : SUBSET Faults]
        /\ left.more \in Workers /\ left.more \in Threads
    BY <1>1, <1>3, CountsDown, ThreadsDiffer DEF StartUpdate
  <2>2. ClientTypes' /\ ThreadTypes' /\ HistoryTypes'
    BY <1>3, <1>d, <2>1, StartsTyped DEF StartUpdate, HistoryTypes
  <2>3. WinTypes'
    BY <1>1, <1>3 DEF StartUpdate, WinTypes, Wins
  <2> QED
    BY <1>1, <1>3, <2>2, <2>3 DEF StartUpdate, TypeOK, ClientTypes, ThreadTypes, WinTypes,
                                  HistoryTypes
<1>4. ASSUME Closes, EventTypes' PROVE TypeOK'
  <2>1. ClientTypes' /\ ThreadTypes' /\ troubled' \subseteq Threads
    BY <1>4, <1>d, StartsTyped, ThreadsDiffer DEF Closes
  <2>2. WinTypes' /\ PollTypes'
    BY <1>1, <1>4 DEF Closes, WinTypes, Wins, PollTypes, Polls
  <2> QED
    BY <1>4, <2>1, <2>2
    DEF Closes, TypeOK, ClientTypes, ThreadTypes, WinTypes, PollTypes, EventTypes
<1>5. CASE Quit
  BY <1>1, <1>4, <1>5 DEF Quit, EventTypes
<1>6. CASE ApplyReady
  <2>1. EventTypes'
    BY <1>6, TakenTyped DEF ApplyReady
  <2>2. WinTypes /\ [win EXCEPT !.applying = FALSE] \in Wins
        /\ [win EXCEPT !.applying = FALSE].await = win.await
        /\ [win EXCEPT !.applying = FALSE].intent = win.intent
    BY <1>1 DEF WinTypes, Wins
  <2> QED
    BY <1>4, <1>6, <2>1, <2>2
    DEF ApplyReady, TypeOK, WinTypes, EventTypes, client, threads, history
<1>7. CASE SyncConfig
  <2>1. HistoryTypes'
    BY <1>1, <1>7, CountsDown DEF SyncConfig, HistoryTypes
  <2>2. ShownTypes'
    BY <1>1, <1>7 DEF SyncConfig, ShownTypes, Views, Titles
  <2> QED
    BY <1>7, <2>1, <2>2 DEF SyncConfig, TypeOK, ShownTypes, HistoryTypes, client, threads
<1>8. ASSUME NEW w \in Workers, Updates(w) PROVE TypeOK'
  <2>1. ThreadTypes'
    BY <1>1, <1>8, ThreadsDiffer DEF Updates, ThreadTypes, Stages
  <2>2. [k |-> "installing"] \in Events /\ [k |-> "notinstalled"] \in Events
    BY DEF Events
  <2>3. events' \in Seq(Events)
    <3>1. /\ events \in Seq(Events)
          /\ Append(events, [k |-> "installing"]) \in Seq(Events)
          /\ Append(events, [k |-> "notinstalled"]) \in Seq(Events)
      BY <1>1, <2>2, AppendHas DEF EventTypes
    <3> QED
      BY <1>8, <3>1 DEF Updates
  <2>4. /\ UNCHANGED <<phase, worker, slot, sb, applied, pending, watch>>
        /\ UNCHANGED <<win, shown, sig, ready, poll, left, troubled>>
    BY <1>8 DEF Updates, client, window, history
  <2>5. ClientTypes' /\ WinTypes' /\ ShownTypes'
    BY <1>1, <2>4 DEF ClientTypes, WinTypes, ShownTypes
  <2>6. PollTypes' /\ HistoryTypes'
    BY <1>1, <2>4 DEF PollTypes, HistoryTypes
  <2> QED
    BY <2>1, <2>3, <2>5, <2>6 DEF TypeOK, ClientTypes, ThreadTypes, WinTypes, ShownTypes, PollTypes,
                            HistoryTypes
<1> QED
  BY <1>2, <1>3, <1>5, <1>6, <1>7, <1>8

\* Every step keeps the types.
LEMMA NextTypes == TypeOK /\ [Next]_vars => TypeOK'
<1> SUFFICES ASSUME TypeOK, [Next]_vars PROVE TypeOK'
  OBVIOUS
<1>1. CASE UNCHANGED vars
  <2>1. /\ UNCHANGED <<phase, worker, slot, sb, applied, pending, watch>>
        /\ UNCHANGED <<at, does, win, shown, sig, ready, poll, events, left, troubled>>
    BY <1>1 DEF vars, client, threads, window, history
  <2>2. /\ ClientTypes /\ ThreadTypes /\ WinTypes /\ ShownTypes /\ PollTypes /\ EventTypes
        /\ HistoryTypes
    BY TypesSplit
  <2>3. ClientTypes' /\ ThreadTypes' /\ WinTypes' /\ ShownTypes'
    BY <2>1, <2>2 DEF ClientTypes, ThreadTypes, WinTypes, ShownTypes
  <2>4. PollTypes' /\ EventTypes' /\ HistoryTypes'
    BY <2>1, <2>2 DEF PollTypes, EventTypes, HistoryTypes
  <2> QED
    BY <2>3, <2>4 DEF TypeOK, ClientTypes, ThreadTypes, WinTypes, ShownTypes, PollTypes, EventTypes,
                      HistoryTypes
<1> QED
  BY <1>1, RunsTyped, AroundTyped, PollTyped, WindowTyped, AskedTyped DEF Next, Window

\* Every variable keeps to its values, for any number of buttons and any faults: an
\* intent goes with each wait, and no poll is remembered when none runs
\* (_run_bg, _finish_await_status, _refresh_status).
THEOREM BridgeTypes == Spec => []TypeOK
  BY InitTypes, NextTypes, PTL DEF Spec

-----------------------------------------------------------------------------
(* Who is in the slot, and what each thread does there *)

SlotFits ==
  /\ slot = None <=> worker = "none"
  /\ \A t \in Threads : at[t] \in {"in", "restop"} <=> slot = t
  /\ slot # None =>
       worker = IF does[slot] \in {"off", "update"} THEN "disconnect" ELSE "connect"

DeedFits(t) ==
  /\ at[t] # "idle" => does[t] \in Deeds /\ (does[t] = "update" => t \in Workers)
  /\ at[t] \in {"download", "install"} => does[t] = "update"
  /\ at[t] = "restop" => does[t] = "reconnect"

\* quitApp disconnects; a wait is for what the last button asked for.
AskFits ==
  /\ does[Quitter] \in {None, "off"} /\ (at[Quitter] # "idle" => does[Quitter] = "off")
  /\ win.asked # None => win.asked > left.more /\ win.intent = Intent(does[win.asked])

Base == TypeOK /\ SlotFits /\ AskFits /\ \A t \in Threads : DeedFits(t)

\* What a step inside the client changes beside the client.
LEMMA RunsMoves ==
  ASSUME Base, NEW t \in Threads, Runs(t)
  PROVE  /\ at[t] \in {"call", "restop", "in"} /\ does[t] \in Deeds
         /\ \A u \in Threads \ {t} : at'[u] = at[u]
         /\ UNCHANGED <<does, poll, left, shown, sig>>
         /\ troubled' \in {troubled, troubled \cup {t}}
         /\ win' = win \/ (t = Quitter /\ win' = [win EXCEPT !.gone = TRUE])
         /\ events' = events \/ (t \in Workers /\ does[t] # "update")
         /\ \A e \in Elems(events') : e \in Elems(events) \/ e.k = "bg"
<1>1. ThreadTypes /\ EventTypes
  BY TypesSplit DEF Base
<1>2. at[t] \in {"call", "restop", "in"} /\ does[t] \in Deeds
  BY DEF Runs, Enter, Restop, Connects, Connected, Disconnects, Disconnected, Base, DeedFits
<1>3. CASE Beside /\ (UNCHANGED at \/ \E stage \in Stages : at' = [at EXCEPT ![t] = stage])
  BY <1>1, <1>2, <1>3 DEF Beside, window, history, ThreadTypes
<1>4. ASSUME NEW err \in BOOLEAN, Returns(t, err)
      PROVE  /\ \A u \in Threads \ {t} : at'[u] = at[u]
             /\ UNCHANGED <<does, poll, left, shown, sig>>
             /\ troubled' \in {troubled, troubled \cup {t}}
             /\ win' = win \/ (t = Quitter /\ win' = [win EXCEPT !.gone = TRUE])
             /\ events' = events \/ (t \in Workers /\ does[t] # "update")
             /\ \A e \in Elems(events') : e \in Elems(events) \/ e.k = "bg"
  <2>1. /\ \A u \in Threads \ {t} : at'[u] = at[u]
        /\ UNCHANGED <<does, poll, left, shown, sig>>
        /\ troubled' \in {troubled, troubled \cup {t}}
        /\ win' = win \/ (t = Quitter /\ win' = [win EXCEPT !.gone = TRUE])
        /\ events' = events \/ (t \in Workers /\ does[t] # "update")
    BY <1>1, <1>4 DEF Returns, ThreadTypes
  <2>2. [k |-> "bg", err |-> err] \in Events /\ events \in Seq(Events)
    BY <1>1 DEF Events, EventTypes
  <2>3. Elems(Append(events, [k |-> "bg", err |-> err]))
          \subseteq Elems(events) \cup {[k |-> "bg", err |-> err]}
    BY <2>2, AppendHas
  <2>4. events' \in {events, Append(events, [k |-> "bg", err |-> err])}
    BY <1>4 DEF Returns
  <2>5. \A e \in Elems(events') : e \in Elems(events) \/ e.k = "bg"
    <3>1. [k |-> "bg", err |-> err].k = "bg"
      OBVIOUS
    <3>2. CASE events' = events
      BY <3>2
    <3>3. CASE events' = Append(events, [k |-> "bg", err |-> err])
      BY <2>3, <3>1, <3>3
    <3> QED
      BY <2>4, <3>2, <3>3
  <2> QED
    BY <2>1, <2>5
<1> QED
  <2>1. CASE Enter(t)
    BY <1>2, <1>3, <1>4, <2>1 DEF Enter, Stages
  <2>2. CASE Restop(t) \/ Connects(t) \/ Disconnects(t)
    BY <1>2, <1>3, <2>2 DEF Restop, Connects, Disconnects, Stages
  <2>3. CASE Connected(t)
    <3>1. (phase # "probing" \/ phase' = "idle") \in BOOLEAN
      OBVIOUS
    <3> QED
      BY <1>2, <1>4, <2>3, <3>1 DEF Connected
  <2>4. CASE Disconnected(t)
    <3>1. (sb # "down") \in BOOLEAN
      OBVIOUS
    <3> QED
      BY <1>2, <1>4, <2>4, <3>1 DEF Disconnected
  <2> QED
    BY <2>1, <2>2, <2>3, <2>4 DEF Runs

\* Who disconnects leaves sing-box down, or says that it is not.
LEMMA RunsStops ==
  ASSUME Base, NEW t \in Threads, does[t] \in {"off", "update"}, Runs(t)
  PROVE  /\ sb = "down" => sb' = "down"
         /\ ~Connects(t) /\ ~Connected(t) /\ ~Restop(t)
         /\ at'[t] \in {"idle", "install"} /\ t \notin troubled' =>
              sb' = "down" /\ ~applied' /\ slot' = None
         /\ at'[t] = "idle" => does[t] # "update"
<1>1. ThreadTypes
  BY TypesSplit DEF Base
<1>2. at[t] = "in" => worker = "disconnect"
  BY ThreadsDiffer DEF Base, SlotFits
<1>3. ~Connects(t) /\ ~Connected(t) /\ ~Restop(t)
  BY <1>2 DEF Connects, Connected, Restop, PhasesSeen!Advance, PhasesSeen!Settle, Base, DeedFits
<1>4. CASE Enter(t) /\ slot = None
  BY <1>1, <1>3, <1>4, ThreadsDiffer DEF Enter, ThreadTypes
<1>5. CASE Enter(t) /\ slot # None
  BY <1>1, <1>3, <1>5 DEF Enter, Returns, ThreadTypes, client
<1>6. CASE Disconnects(t)
  BY <1>1, <1>3, <1>6 DEF Disconnects, ThreadTypes
<1>7. CASE Disconnected(t)
  BY <1>1, <1>3, <1>7 DEF Disconnected, Returns, ThreadTypes
<1> QED
  BY <1>3, <1>4, <1>5, <1>6, <1>7 DEF Runs

LEMMA RunsBase ==
  ASSUME Base, NEW t \in Threads, Runs(t)
  PROVE  SlotFits' /\ AskFits' /\ \A u \in Threads : DeedFits(u)'
<1>1. ThreadTypes /\ ThreadTypes' /\ WinTypes /\ None \notin Threads
  BY TypesSplit, RunsTyped, ThreadsDiffer DEF Base, TypeOK, ThreadTypes
<1>2. /\ at[t] \in {"call", "restop", "in"} /\ does[t] \in Deeds
      /\ \A u \in Threads \ {t} : at'[u] = at[u]
      /\ UNCHANGED <<does, left>>
      /\ win' = win \/ win' = [win EXCEPT !.gone = TRUE]
  BY RunsMoves
<1>3. AskFits'
  <2>1. win'.asked = win.asked /\ win'.intent = win.intent
    BY <1>1, <1>2 DEF WinTypes, Wins
  <2>2. at'[Quitter] # "idle" => at[Quitter] # "idle"
    BY <1>2, ThreadsDiffer
  <2> QED
    BY <1>2, <2>1, <2>2 DEF AskFits, Base
<1>4. at'[t] = "restop" => does[t] = "reconnect"
  BY <1>1, <1>2
  DEF Runs, Enter, Restop, Connects, Connected, Disconnects, Disconnected, Returns, ThreadTypes,
      Base, DeedFits, Beside
<1>5. at'[t] \in {"idle", "call", "restop", "in"} \/ (at'[t] = "install" /\ does[t] = "update")
  BY <1>1, <1>2
  DEF Runs, Enter, Restop, Connects, Connected, Disconnects, Disconnected, Returns, ThreadTypes,
      Beside
<1>6. \A u \in Threads : DeedFits(u)'
  BY <1>2, <1>4, <1>5 DEF Base, DeedFits
<1>7. SlotFits'
  <2>0. SlotFits
    BY DEF Base
  <2>1. CASE Enter(t)
    <3>1. CASE slot = None
      BY <1>1, <1>2, <2>0, <2>1, <3>1 DEF Enter, SlotFits, PhasesSeen!Start, ThreadTypes
    <3>2. CASE slot # None
      BY <1>1, <1>2, <2>0, <2>1, <3>2 DEF Enter, SlotFits, Returns, ThreadTypes, client
    <3> QED
      BY <3>1, <3>2
  <2>2. CASE Restop(t)
    BY <1>1, <1>2, <2>0, <2>2 DEF Restop, SlotFits, ThreadTypes
  <2>3. CASE Connects(t)
    BY <1>1, <1>2, <2>0, <2>3 DEF Connects, PhasesSeen!Advance, SlotFits, ThreadTypes
  <2>4. CASE Connected(t)
    <3>1. slot = t /\ slot' = None /\ worker' = "none" /\ at'[t] \in {"idle", "install"}
      BY <1>1, <2>0, <2>4 DEF Connected, PhasesSeen!Settle, Returns, SlotFits, ThreadTypes
    <3> QED
      BY <1>1, <1>2, <2>0, <3>1 DEF SlotFits
  <2>5. CASE Disconnects(t)
    BY <1>1, <1>2, <2>0, <2>5 DEF Disconnects, PhasesSeen!Stop, SlotFits, ThreadTypes
  <2>6. CASE Disconnected(t)
    <3>1. slot = t /\ slot' = None /\ worker' = "none" /\ at'[t] \in {"idle", "install"}
      BY <1>1, <2>0, <2>6 DEF Disconnected, PhasesSeen!Stopped, Returns, SlotFits, ThreadTypes
    <3> QED
      BY <1>1, <1>2, <2>0, <3>1 DEF SlotFits
  <2> QED
    BY <2>1, <2>2, <2>3, <2>4, <2>5, <2>6 DEF Runs
<1> QED
  BY <1>3, <1>6, <1>7

-----------------------------------------------------------------------------
(* What each thread may count on that met no trouble *)

\* Quitting is done by one thread, beside which nothing runs.
QuitFits ==
  /\ at[Quitter] # "idle" \/ win.gone => win.closing
  /\ win.closing /\ Quitter \notin troubled => \A u \in Threads \ {Quitter} : at[u] = "idle"
  /\ win.gone /\ Quitter \notin troubled => at[Quitter] = "idle" /\ sb = "down" /\ ~applied

OnlyQuitter(w) == \A u \in Threads \ {w} : at[u] # "idle" => u = Quitter

\* An update keeps the buttons locked, and nothing that is posted frees them.
UpdateFits(w) ==
  w \notin troubled /\ does[w] = "update" /\ at[w] # "idle" =>
    /\ OnlyQuitter(w)
    /\ ~win.await /\ (win.busy \/ win.closing)
    /\ \A e \in Elems(events) : e.k \notin {"bg", "notinstalled"}
    /\ at[w] = "install" => sb = "down"

Launched(w) == at[w] = "in" /\ phase \in {"launching", "probing"}

\* A connect that is awaited: a status that has seen sing-box sees the connect too.
OnFits(w) ==
  w \notin troubled /\ win.asked = w /\ does[w] = "on" /\ at[w] # "idle" =>
    /\ OnlyQuitter(w) /\ win.busy
    /\ \A e \in Elems(events) : /\ e.k # "notinstalled"
                                /\ e.k = "status" /\ e.st.sb # "down" => e.st.connecting
    /\ sb # "down" => Launched(w)
    /\ poll.st.sb # "down" => Launched(w)

BridgeInv ==
  /\ Base /\ QuitFits
  /\ \A w \in Workers : UpdateFits(w) /\ OnFits(w)

\* Steps inside the client.
LEMMA RunsQuit ==
  ASSUME BridgeInv, NEW t \in Threads, Runs(t)
  PROVE  QuitFits'
<1>1. Base /\ QuitFits /\ ThreadTypes /\ WinTypes /\ Quitter \in Threads
  BY TypesSplit, ThreadsDiffer DEF BridgeInv, Base
<1>2. /\ at[t] # "idle" /\ \A u \in Threads \ {t} : at'[u] = at[u]
      /\ troubled \subseteq troubled' /\ win'.closing = win.closing
      /\ t # Quitter => win' = win
  BY <1>1, RunsMoves DEF WinTypes, Wins
<1>3. CASE t # Quitter
  BY <1>1, <1>2, <1>3 DEF QuitFits
<1>4. CASE t = Quitter
  <2>1. win.closing /\ does[t] = "off" /\ ~(win.gone /\ Quitter \notin troubled)
    BY <1>1, <1>2, <1>4, RunsMoves DEF QuitFits, Base, AskFits, Deeds
  <2>2. win'.gone /\ ~win.gone => at'[t] = "idle"
    BY <1>1, <1>4, <2>1
    DEF Runs, Enter, Restop, Connects, Connected, Disconnects, Disconnected, Returns, ThreadTypes,
        Beside, window
  <2>3. win'.gone /\ Quitter \notin troubled' => at'[t] = "idle" /\ sb' = "down" /\ ~applied'
    BY <1>1, <1>2, <1>4, <2>1, <2>2, RunsStops
  <2> QED
    BY <1>1, <1>2, <1>4, <2>1, <2>3 DEF QuitFits
<1> QED
  BY <1>3, <1>4

LEMMA RunsUpdate ==
  ASSUME BridgeInv, NEW t \in Threads, Runs(t), NEW w \in Workers
  PROVE  UpdateFits(w)'
<1>1. Base /\ QuitFits /\ ThreadTypes /\ ThreadTypes' /\ WinTypes /\ w \in Threads /\ Quitter # w
  BY TypesSplit, RunsTyped, ThreadsDiffer DEF BridgeInv, Base, TypeOK, ThreadTypes
<1>2. /\ at[t] # "idle" /\ \A u \in Threads \ {t} : at'[u] = at[u]
      /\ does' = does /\ troubled \subseteq troubled'
      /\ win'.closing = win.closing /\ win'.busy = win.busy /\ win'.await = win.await
      /\ events' = events \/ (t \in Workers /\ does[t] # "update")
  BY <1>1, RunsMoves DEF WinTypes, Wins
<1>3. SUFFICES ASSUME w \notin troubled', does[w] = "update", at'[w] # "idle"
               PROVE  /\ OnlyQuitter(w)'
                      /\ ~win'.await /\ (win'.busy \/ win'.closing)
                      /\ \A e \in Elems(events') : e.k \notin {"bg", "notinstalled"}
                      /\ at'[w] = "install" => sb' = "down"
  BY <1>2 DEF UpdateFits
<1>4. /\ OnlyQuitter(w)
      /\ ~win.await /\ (win.busy \/ win.closing)
      /\ \A e \in Elems(events) : e.k \notin {"bg", "notinstalled"}
      /\ at[w] = "install" => sb = "down"
      /\ at[w] # "idle"
  <2>1. w \notin troubled /\ at[w] # "idle" /\ UpdateFits(w)
    BY <1>1, <1>2, <1>3 DEF BridgeInv
  <2> QED
    BY <1>3, <2>1 DEF UpdateFits
<1>5. t = w \/ t = Quitter
  BY <1>2, <1>4 DEF OnlyQuitter
<1>6. OnlyQuitter(w)'
  BY <1>2, <1>4, <1>5 DEF OnlyQuitter
<1>7. does[t] \in {"off", "update"}
  BY <1>1, <1>2, <1>3, <1>5 DEF Base, AskFits
<1>8. events' = events
  BY <1>1, <1>2, <1>3, <1>5, ThreadsDiffer
<1>9. at'[w] = "install" => sb' = "down"
  BY <1>1, <1>2, <1>3, <1>4, <1>5, <1>7, RunsStops
<1> QED
  BY <1>2, <1>4, <1>6, <1>8, <1>9

LEMMA RunsOn ==
  ASSUME BridgeInv, NEW t \in Threads, Runs(t), NEW w \in Workers
  PROVE  OnFits(w)'
<1>1. Base /\ QuitFits /\ ThreadTypes /\ ClientTypes /\ WinTypes /\ w \in Threads /\ Quitter # w
      /\ SlotFits
  BY TypesSplit, ThreadsDiffer DEF BridgeInv, Base
<1>2. /\ at[t] \in {"call", "restop", "in"} /\ \A u \in Threads \ {t} : at'[u] = at[u]
      /\ does' = does /\ poll' = poll /\ troubled \subseteq troubled'
      /\ win'.asked = win.asked /\ win'.busy = win.busy
      /\ \A e \in Elems(events') : e \in Elems(events) \/ e.k = "bg"
  BY <1>1, RunsMoves DEF WinTypes, Wins
<1>3. SUFFICES ASSUME w \notin troubled', win.asked = w, does[w] = "on", at'[w] # "idle"
               PROVE  /\ OnlyQuitter(w)' /\ win'.busy
                      /\ \A e \in Elems(events') :
                           /\ e.k # "notinstalled"
                           /\ e.k = "status" /\ e.st.sb # "down" => e.st.connecting
                      /\ sb' # "down" => Launched(w)'
                      /\ poll.st.sb # "down" => Launched(w)'
  BY <1>2 DEF OnFits
<1>4. /\ OnlyQuitter(w) /\ win.busy
      /\ \A e \in Elems(events) : /\ e.k # "notinstalled"
                                  /\ e.k = "status" /\ e.st.sb # "down" => e.st.connecting
      /\ sb # "down" => Launched(w)
      /\ poll.st.sb # "down" => Launched(w)
      /\ at[w] # "idle"
  <2>1. w \notin troubled /\ at[w] # "idle" /\ OnFits(w)
    BY <1>1, <1>2, <1>3 DEF BridgeInv
  <2> QED
    BY <1>3, <2>1 DEF OnFits
<1>5. t = w \/ t = Quitter
  BY <1>2, <1>4 DEF OnlyQuitter
<1>6. OnlyQuitter(w)' /\ win'.busy
  BY <1>2, <1>4, <1>5 DEF OnlyQuitter
<1>7. \A e \in Elems(events') : /\ e.k # "notinstalled"
                                /\ e.k = "status" /\ e.st.sb # "down" => e.st.connecting
  BY <1>2, <1>4
<1>8. /\ sb' # "down" => Launched(w)'
      /\ poll.st.sb # "down" => Launched(w)'
  <2>1. CASE t = w
    <3>1. at[w] = "in" => worker = "connect"
      BY <1>1, <1>3, ThreadsDiffer DEF SlotFits
    <3>2. at[w] # "restop"
      BY <1>1, <1>3 DEF Base, DeedFits
    <3>3. CASE Enter(t)
      <4>1. sb = "down" /\ poll.st.sb = "down"
        BY <1>4, <2>1, <3>3 DEF Launched, Enter
      <4>2. sb' = sb
        BY <3>3 DEF Enter, client
      <4> QED
        BY <4>1, <4>2
    <3>4. CASE Connects(t)
      BY <1>1, <1>4, <2>1, <3>4
      DEF Connects, PhasesSeen!Advance, Launched, ThreadTypes, Connecting, PhasesSeen!Settled
    <3>5. CASE Connected(t)
      BY <1>1, <1>3, <2>1, <3>5 DEF Connected, Returns, ThreadTypes
    <3>6. ~Restop(t)
      BY <2>1, <3>2 DEF Restop
    <3>7. ~Disconnects(t)
      <4>1. CASE at[w] # "in"
        BY <2>1, <4>1 DEF Disconnects
      <4>2. CASE at[w] = "in"
        <5>1. ~PhasesSeen!Stop
          BY <3>1, <4>2 DEF PhasesSeen!Stop
        <5>2. phase # "stopping" \/ sb = "down"
          BY <1>4 DEF Launched
        <5> QED
          BY <5>1, <5>2 DEF Disconnects
      <4> QED
        BY <4>1, <4>2
    <3>8. ~Disconnected(t)
      BY <2>1, <3>1 DEF Disconnected, PhasesSeen!Stopped
    <3> QED
      BY <3>3, <3>4, <3>5, <3>6, <3>7, <3>8 DEF Runs
  <2>2. CASE t = Quitter
    <3>1. does[t] = "off" /\ t # w
      BY <1>1, <1>2, <2>2 DEF Base, AskFits
    <3>2. CASE Launched(w)
      <4>1. slot = w /\ at[t] = "call"
        BY <1>1, <1>2, <2>2, <3>1, <3>2, ThreadsDiffer DEF Launched, SlotFits
      <4>2. Enter(t) /\ UNCHANGED client
        BY <4>1, ThreadsDiffer
        DEF Runs, Enter, Restop, Connects, Connected, Disconnects, Disconnected
      <4> QED
        BY <1>1, <1>2, <3>1, <3>2, <4>2 DEF Launched, client
    <3>3. CASE ~Launched(w)
      BY <1>1, <1>4, <3>1, <3>3, RunsStops
    <3> QED
      BY <3>2, <3>3
  <2> QED
    BY <1>5, <2>1, <2>2
<1> QED
  BY <1>6, <1>7, <1>8

\* How many are still to be asked, and who was asked last.
LEMMA CountsTyped ==
  ASSUME WinTypes, HistoryTypes
  PROVE  left.more \in Nat /\ (win.asked # None => win.asked \in Nat)
<1>1. left.more \in 0 .. Budget /\ Budget \in Nat
  BY ThreadsDiffer DEF HistoryTypes
<1>2. win.asked \in Workers \cup {None} /\ Workers \subseteq Nat
  BY ThreadsDiffer DEF WinTypes, Wins
<1>3. left.more \in Nat
  BY <1>1
<1>4. ASSUME win.asked # None PROVE win.asked \in Nat
  <2>1. win.asked \in Workers
    BY <1>2, <1>4
  <2> QED
    BY <1>2, <2>1, Zenon
<1> QED
  BY <1>3, <1>4

\* The adapter, a death of sing-box and the watchdog.
LEMMA AroundInv ==
  ASSUME BridgeInv, DogCalls \/ Opens \/ Crash
  PROVE  BridgeInv'
<1>1. Base /\ QuitFits /\ TypeOK' /\ ThreadTypes /\ WinTypes /\ HistoryTypes
  BY TypesSplit, AroundTyped DEF BridgeInv, Base
<1>2. CASE DogCalls
  <2>1. /\ at' = [at EXCEPT ![Dog] = "call"] /\ does' = [does EXCEPT ![Dog] = "reconnect"]
        /\ at[Dog] = "idle" /\ troubled' = Threads
        /\ UNCHANGED <<slot, worker, win, left>>
    BY <1>2 DEF DogCalls, client, window
  <2>2. SlotFits'
    BY <1>1, <2>1, ThreadsDiffer DEF Base, SlotFits, ThreadTypes
  <2>3. \A t \in Threads : DeedFits(t)'
    BY <1>1, <2>1, ThreadsDiffer DEF Base, DeedFits, ThreadTypes, Deeds
  <2>4. AskFits'
    <3>1. win.asked # None => win.asked # Dog
      BY <1>1, ThreadsDiffer DEF WinTypes, Wins
    <3> QED
      BY <1>1, <2>1, <3>1, ThreadsDiffer DEF Base, AskFits, ThreadTypes, WinTypes, Wins
  <2>5. QuitFits'
    BY <1>1, <2>1, ThreadsDiffer DEF QuitFits, ThreadTypes
  <2>6. \A w \in Workers : UpdateFits(w)' /\ OnFits(w)'
    BY <2>1, ThreadsDiffer DEF UpdateFits, OnFits
  <2> QED
    BY <1>1, <2>2, <2>3, <2>4, <2>5, <2>6 DEF BridgeInv, Base
<1>3. CASE Opens \/ Crash
  <2>1. /\ UNCHANGED <<phase, worker, slot, applied, at, does, win, poll, events, troubled>>
        /\ sb = "down" => sb' = "down"
    BY <1>3 DEF Opens, Crash, Beside, window, history
  <2>2. left'.more \in {left.more, left.more - 1}
    BY <1>1, <1>3, CountsDown DEF Opens, Crash, Beside, history
  <2>3. SlotFits' /\ QuitFits' /\ \A t \in Threads : DeedFits(t)'
    BY <1>1, <2>1 DEF Base, SlotFits, DeedFits, QuitFits
  <2>4. AskFits'
    <3>1. left.more \in Nat /\ (win.asked # None => win.asked \in Nat)
      BY <1>1, CountsTyped
    <3> QED
      BY <1>1, <2>1, <2>2, <3>1 DEF Base, AskFits
  <2>5. \A w \in Workers : UpdateFits(w)'
    BY <2>1 DEF BridgeInv, UpdateFits, OnlyQuitter
  <2>6. \A w \in Workers : OnFits(w)'
    BY <2>1 DEF BridgeInv, OnFits, OnlyQuitter, Launched
  <2> QED
    BY <1>1, <2>3, <2>4, <2>5, <2>6 DEF BridgeInv, Base
<1> QED
  BY <1>2, <1>3

-----------------------------------------------------------------------------
(* Steps beside the client and its threads: the poll's and the window's *)

Apart ==
  /\ UNCHANGED <<client, threads>> /\ troubled \subseteq troubled'
  /\ left'.more \in {left.more, left.more - 1}
  /\ win'.closing = win.closing /\ win'.gone = win.gone
  /\ win'.asked = None \/ (win'.asked = win.asked /\ win'.intent = win.intent)

\* What the poll posts: how it failed or ended, or what it has read.
Seen(e) ==
  \/ e.k \in {"failed", "polled"}
  \/ e.k = "status" /\ e.st.sb = poll.st.sb /\ e.st.connecting = Status.connecting

LEMMA ApartBase ==
  ASSUME BridgeInv, Apart
  PROVE  SlotFits' /\ AskFits' /\ QuitFits' /\ \A t \in Threads : DeedFits(t)'
<1>1. Base /\ QuitFits /\ WinTypes /\ HistoryTypes
  BY TypesSplit DEF BridgeInv, Base
<1>2. SlotFits' /\ \A t \in Threads : DeedFits(t)'
  BY <1>1 DEF Base, Apart, client, threads, SlotFits, DeedFits
<1>3. AskFits'
  <2>1. left.more \in Nat /\ (win.asked # None => win.asked \in Nat)
    BY <1>1, CountsTyped
  <2> QED
    BY <1>1, <2>1 DEF Base, Apart, threads, AskFits
<1>4. QuitFits'
  BY <1>1 DEF Apart, client, threads, QuitFits
<1> QED
  BY <1>2, <1>3, <1>4

LEMMA ApartUpdate ==
  ASSUME BridgeInv, Apart, NEW w \in Workers,
         \A e \in Elems(events') : e \in Elems(events) \/ Seen(e),
         w \notin troubled' /\ at[w] # "idle" /\ ~win.await /\ (win.busy \/ win.closing)
           => ~win'.await /\ (win'.busy \/ win.closing)
  PROVE  UpdateFits(w)'
<1>1. UNCHANGED <<at, does, sb>> /\ troubled \subseteq troubled' /\ win'.closing = win.closing
  BY DEF Apart, client, threads
<1>2. SUFFICES ASSUME w \notin troubled', does[w] = "update", at[w] # "idle"
               PROVE  /\ OnlyQuitter(w)'
                      /\ ~win'.await /\ (win'.busy \/ win'.closing)
                      /\ \A e \in Elems(events') : e.k \notin {"bg", "notinstalled"}
                      /\ at'[w] = "install" => sb' = "down"
  BY <1>1 DEF UpdateFits
<1>3. UpdateFits(w) /\ w \notin troubled
  BY <1>1, <1>2 DEF BridgeInv
<1>4. /\ OnlyQuitter(w) /\ ~win.await /\ (win.busy \/ win.closing)
      /\ \A e \in Elems(events) : e.k \notin {"bg", "notinstalled"}
      /\ at[w] = "install" => sb = "down"
  BY <1>2, <1>3 DEF UpdateFits
<1>5. \A e \in Elems(events') : e.k \notin {"bg", "notinstalled"}
  BY <1>4 DEF Seen
<1> QED
  BY <1>1, <1>2, <1>4, <1>5 DEF OnlyQuitter

LEMMA ApartOn ==
  ASSUME BridgeInv, Apart, NEW w \in Workers,
         \A e \in Elems(events') : e \in Elems(events) \/ Seen(e),
         win'.asked = None \/ win'.busy = win.busy,
         poll'.st.sb \in {"down", sb, poll.st.sb}
  PROVE  OnFits(w)'
<1>1. UNCHANGED <<at, does, sb, phase>> /\ troubled \subseteq troubled'
  BY DEF Apart, client, threads
<1>2. SUFFICES ASSUME w \notin troubled', win'.asked = w, does[w] = "on", at[w] # "idle"
               PROVE  /\ OnlyQuitter(w)' /\ win'.busy
                      /\ \A e \in Elems(events') :
                           /\ e.k # "notinstalled"
                           /\ e.k = "status" /\ e.st.sb # "down" => e.st.connecting
                      /\ sb' # "down" => Launched(w)'
                      /\ poll'.st.sb # "down" => Launched(w)'
  BY <1>1 DEF OnFits
<1>3. /\ win.asked = w /\ win'.busy = win.busy
      /\ OnFits(w) /\ w \notin troubled
  BY <1>1, <1>2, ThreadsDiffer DEF BridgeInv, Apart
<1>4. /\ OnlyQuitter(w) /\ win.busy
      /\ \A e \in Elems(events) : /\ e.k # "notinstalled"
                                  /\ e.k = "status" /\ e.st.sb # "down" => e.st.connecting
      /\ sb # "down" => Launched(w)
      /\ poll.st.sb # "down" => Launched(w)
  BY <1>2, <1>3 DEF OnFits
<1>5. Launched(w) => Status.connecting
  BY DEF Launched, Status, Connecting, PhasesSeen!Connecting
<1>6. \A e \in Elems(events') : /\ e.k # "notinstalled"
                                /\ e.k = "status" /\ e.st.sb # "down" => e.st.connecting
  BY <1>4, <1>5 DEF Seen
<1> QED
  BY <1>1, <1>2, <1>3, <1>4, <1>6 DEF OnlyQuitter, Launched

\* The poll's steps, and those that leave what the buttons wait for alone.
LEMMA PollInv ==
  ASSUME BridgeInv, PollTick \/ Read \/ ReadFails \/ Polled \/ SyncConfig
  PROVE  BridgeInv'
<1>1. /\ TypeOK /\ TypeOK' /\ WinTypes /\ PollTypes /\ EventTypes /\ HistoryTypes
      /\ poll \in Polls /\ (poll.queued => poll.stage # "idle")
  BY TypesSplit, PollTyped, WindowTyped, AskedTyped DEF BridgeInv, Base, PollTypes
<1>2. /\ UNCHANGED <<client, threads, win, troubled>>
      /\ left'.more \in {left.more, left.more - 1}
  BY <1>1, CountsDown
  DEF PollTick, Read, ReadFails, Polled, SyncConfig, window, history
<1>3. Apart
  BY <1>2 DEF Apart
<1>4. poll'.st.sb \in {"down", sb, poll.st.sb}
  <2>1. CASE PollTick
    <3> DEFINE p == [poll EXCEPT !.armed = FALSE]
    <3>1. p \in Polls /\ (p.queued => p.stage # "idle") /\ p.st = poll.st
      BY <1>1 DEF Polls
    <3>2. poll' = Refresh(p, FALSE)
      BY <2>1 DEF PollTick
    <3> HIDE DEF p
    <3> QED
      BY <3>1, <3>2, RefreshTyped
  <2>2. CASE Read
    <3>1. poll.st \in Statuses
      BY <1>1 DEF Polls
    <3>2. CASE poll.stage = "safety"
      <4>1. PICK err :
              poll' = [poll EXCEPT !.stage = "process", !.st.applied = applied, !.st.err = err]
        BY <2>2, <3>2 DEF Read
      <4>2. poll'.st = [poll.st EXCEPT !.applied = applied, !.err = err]
        BY <1>1, <4>1 DEF Polls
      <4> QED
        BY <3>1, <4>2 DEF Statuses
    <3>3. CASE poll.stage = "process"
      BY <1>1, <2>2, <3>1, <3>3 DEF Read, Polls, Statuses
    <3>4. CASE poll.stage = "phase"
      <4>1. poll' = [poll EXCEPT !.stage = "posted", !.st = NoStatus, !.force = FALSE]
        BY <2>2, <3>4 DEF Read
      <4> QED
        BY <1>1, <4>1 DEF Polls, NoStatus
    <3> QED
      BY <2>2, <3>2, <3>3, <3>4 DEF Read
  <2>3. CASE ReadFails
    BY <1>1, <2>3 DEF ReadFails, Polls, NoStatus
  <2>4. CASE Polled
    <3> DEFINE p == [poll EXCEPT !.stage = "idle", !.queued = FALSE, !.qforce = FALSE]
    <3>1. p \in Polls /\ ~p.queued /\ p.st = poll.st /\ poll.qforce \in BOOLEAN
      BY <1>1 DEF Polls
    <3>2. poll' \in {p, Refresh(p, poll.qforce), [p EXCEPT !.armed = TRUE]}
      BY <2>4 DEF Polled
    <3>3. [p EXCEPT !.armed = TRUE].st = p.st
      BY <3>1 DEF Polls
    <3> HIDE DEF p
    <3>4. Refresh(p, poll.qforce).st = p.st
      BY <3>1, RefreshTyped
    <3> QED
      BY <3>1, <3>2, <3>3, <3>4
  <2>5. CASE SyncConfig
    BY <2>5 DEF SyncConfig
  <2> QED
    BY <2>1, <2>2, <2>3, <2>4, <2>5
<1>5. \A e \in Elems(events') : e \in Elems(events) \/ Seen(e)
  <2>1. CASE PollTick \/ SyncConfig
    BY <2>1 DEF PollTick, SyncConfig
  <2>2. CASE Polled
    BY <1>1, <2>2, TakenTyped DEF Polled
  <2>3. ASSUME NEW e \in Events, Posts(e), Seen(e)
        PROVE  \A f \in Elems(events') : f \in Elems(events) \/ Seen(f)
    <3>1. [k |-> "polled"] \in Events /\ events \in Seq(Events)
      BY <1>1 DEF Events, EventTypes
    <3>2. Elems(events \o <<e, [k |-> "polled"]>>)
            \subseteq Elems(events) \cup {e, [k |-> "polled"]}
      BY <3>1, BothHas
    <3>3. Seen([k |-> "polled"])
      BY DEF Seen
    <3>4. events' = events \/ events' = events \o <<e, [k |-> "polled"]>>
      BY <2>3 DEF Posts
    <3> QED
      BY <2>3, <3>2, <3>3, <3>4
  <2>4. CASE Read /\ poll.stage # "phase"
    BY <2>4 DEF Read
  <2>5. CASE Read /\ poll.stage = "phase"
    <3> DEFINE st == [poll.st EXCEPT !.connecting = Status.connecting]
    <3> DEFINE e == [k |-> "status", st |-> st, force |-> poll.force]
    <3>1. Posts(e)
      BY <2>5 DEF Read
    <3>2. st \in Statuses /\ st.sb = poll.st.sb /\ st.connecting = Status.connecting
      BY <1>1, StatusTyped, TypesSplit DEF Polls, Statuses
    <3>3. e \in Events
      BY <1>1, <3>2 DEF Events, Polls
    <3>4. Seen(e)
      BY <3>2 DEF Seen
    <3> HIDE DEF e
    <3> QED
      BY <2>3, <3>1, <3>3, <3>4
  <2>6. CASE ReadFails
    <3>1. Posts([k |-> "failed"]) /\ [k |-> "failed"] \in Events
      BY <2>6 DEF ReadFails, Events
    <3>2. Seen([k |-> "failed"])
      BY DEF Seen
    <3> QED
      BY <2>3, <3>1, <3>2
  <2> QED
    BY <2>1, <2>2, <2>4, <2>5, <2>6
<1>6. SlotFits' /\ AskFits' /\ QuitFits' /\ \A t \in Threads : DeedFits(t)'
  BY <1>3, ApartBase
<1>7. \A w \in Workers : UpdateFits(w)' /\ OnFits(w)'
  BY <1>2, <1>3, <1>4, <1>5, ApartUpdate, ApartOn
<1> QED
  BY <1>1, <1>6, <1>7 DEF BridgeInv, Base

\* The window's steps with what was posted, and the timer of the buttons.
LEMMA WindowInv ==
  ASSUME BridgeInv, BgFinished \/ StatusReady \/ StatusFailed \/ ApplyFailed \/ TimesOut
  PROVE  BridgeInv'
<1>1. /\ TypeOK /\ TypeOK' /\ ThreadTypes /\ WinTypes /\ PollTypes /\ HistoryTypes
      /\ poll \in Polls /\ (poll.queued => poll.stage # "idle")
  BY TypesSplit, WindowTyped DEF BridgeInv, Base, PollTypes
<1>2. /\ UNCHANGED <<client, threads>> /\ troubled \subseteq troubled'
      /\ left'.more \in {left.more, left.more - 1}
  BY <1>1, CountsDown
  DEF BgFinished, StatusReady, StatusFailed, ApplyFailed, TimesOut, RunsOut, history
<1>3. /\ Elems(events') \subseteq Elems(events)
      /\ BgFinished => Head(events) \in Elems(events) /\ Head(events).k = "bg"
      /\ ApplyFailed => Head(events) \in Elems(events) /\ Head(events).k = "notinstalled"
  BY <1>1, TakenTyped DEF BgFinished, StatusReady, StatusFailed, ApplyFailed, TimesOut
<1>4. /\ Unlocked.asked = None /\ ~Unlocked.await
      /\ Unlocked.closing = win.closing /\ Unlocked.gone = win.gone
      /\ [Unlocked EXCEPT !.applying = FALSE].asked = None
      /\ [Unlocked EXCEPT !.applying = FALSE].closing = win.closing
      /\ [Unlocked EXCEPT !.applying = FALSE].gone = win.gone
      /\ ApplyFailed => /\ win'.asked = win.asked /\ win'.intent = win.intent
                        /\ win'.closing = win.closing /\ win'.gone = win.gone
  BY <1>1 DEF Unlocked, ApplyFailed, WinTypes, Wins
<1>5. Apart
  BY <1>2, <1>4 DEF Apart, BgFinished, StatusReady, StatusFailed, TimesOut
<1>6. poll'.st = poll.st
  BY <1>1, RefreshTyped DEF BgFinished, StatusReady, StatusFailed, ApplyFailed, TimesOut
<1>7. ASSUME NEW w \in Workers PROVE UpdateFits(w)'
  <2>1. UNCHANGED <<at, does>> /\ UpdateFits(w)
    BY <1>2 DEF threads, BridgeInv
  <2>2. CASE BgFinished \/ ApplyFailed
    BY <1>2, <1>3, <2>1, <2>2 DEF UpdateFits
  <2>3. CASE StatusReady \/ StatusFailed
    BY <1>3, <1>4, <1>5, <2>3, ApartUpdate DEF StatusReady, StatusFailed
  <2>4. CASE TimesOut
    BY <1>1, <2>1, <2>4, ThreadsDiffer DEF TimesOut, RunsOut, Others, UpdateFits
  <2> QED
    BY <2>2, <2>3, <2>4
<1>8. ASSUME NEW w \in Workers PROVE OnFits(w)'
  <2>1. UNCHANGED <<at, does>> /\ OnFits(w)
    BY <1>2 DEF threads, BridgeInv
  <2>2. CASE ApplyFailed
    BY <1>2, <1>3, <1>4, <2>1, <2>2 DEF OnFits
  <2>3. CASE BgFinished \/ StatusReady \/ StatusFailed \/ TimesOut
    <3>1. win'.asked = None \/ win'.busy = win.busy
      BY <1>4, <2>3 DEF BgFinished, StatusReady, StatusFailed, TimesOut
    <3> QED
      BY <1>3, <1>5, <1>6, <3>1, ApartOn
  <2> QED
    BY <2>2, <2>3
<1>9. SlotFits' /\ AskFits' /\ QuitFits' /\ \A t \in Threads : DeedFits(t)'
  BY <1>5, ApartBase
<1> QED
  BY <1>1, <1>7, <1>8, <1>9 DEF BridgeInv, Base

-----------------------------------------------------------------------------
(* What the user asks for *)

LEMMA StartsBase ==
  ASSUME BridgeInv, NEW t \in Threads, NEW d \in Deeds, NEW stage \in {"call", "download"},
         Starts(t, d, stage), d = "update" => t \in Workers, stage = "download" => d = "update"
  PROVE  /\ SlotFits' /\ \A u \in Threads : DeedFits(u)'
         /\ at[t] = "idle" /\ at'[t] = stage /\ does'[t] = d
         /\ \A u \in Threads \ {t} :
              at'[u] = at[u] /\ does'[u] = does[u] /\ (u \in troubled' <=> u \in troubled)
         /\ UNCHANGED <<phase, worker, slot, sb, applied>>
         /\ t \notin troubled' => /\ ~Others(t)
                                  /\ d = "on" => FromScratch
                                  /\ d = "update" => ~win.await
<1>1. Base /\ ThreadTypes
  BY TypesSplit DEF BridgeInv, Base
<1>2. /\ at[t] = "idle" /\ at'[t] = stage /\ does'[t] = d
      /\ \A u \in Threads \ {t} : at'[u] = at[u] /\ does'[u] = does[u]
      /\ UNCHANGED <<phase, worker, slot, sb, applied>>
  BY <1>1 DEF Starts, ThreadTypes, client
<1>3. /\ \A u \in Threads \ {t} : u \in troubled' <=> u \in troubled
      /\ t \notin troubled' => /\ ~Others(t)
                               /\ d = "on" => FromScratch
                               /\ d = "update" => ~win.await
  BY DEF Starts
<1>4. SlotFits'
  <2>1. slot # None => slot \in Threads \ {t}
    BY <1>1, <1>2, TypesSplit DEF Base, SlotFits, ClientTypes
  <2> QED
    BY <1>1, <1>2, <2>1 DEF Base, SlotFits
<1>5. \A u \in Threads : DeedFits(u)'
  BY <1>1, <1>2 DEF Base, DeedFits
<1> QED
  BY <1>2, <1>3, <1>4, <1>5

\* Nobody else is about.
LEMMA Alone ==
  ASSUME NEW t \in Threads, ~Others(t)
  PROVE  /\ \A u \in Threads \ {t} : at[u] = "idle"
         /\ \A e \in Elems(events) : e.k \notin {"bg", "installing", "notinstalled"}
  BY DEF Others, Elems

LEMMA PressInv ==
  ASSUME BridgeInv, Press
  PROVE  BridgeInv'
<1> DEFINE w0 == left.more
<1>1. /\ TypeOK' /\ Base /\ QuitFits /\ WinTypes /\ HistoryTypes
      /\ w0 \in Workers /\ w0 \in Threads /\ w0 # Quitter /\ left'.more = w0 - 1 /\ w0 \in Nat
      /\ ButtonDoes \in Deeds \ {"update"}
  BY TypesSplit, AskedTyped, CountsDown, CountsTyped, ThreadsDiffer
  DEF BridgeInv, Base, Press, ButtonDoes, Deeds
<1>2. /\ Starts(w0, ButtonDoes, "call") /\ ~win.busy /\ ~win.closing
      /\ UNCHANGED <<poll, events>>
      /\ win' = [win EXCEPT !.busy = TRUE, !.await = TRUE, !.intent = Intent(ButtonDoes),
                            !.asked = w0]
  BY DEF Press
<1>3. /\ win'.busy /\ win'.asked = w0 /\ win'.intent = Intent(ButtonDoes)
      /\ win'.closing = win.closing /\ win'.gone = win.gone
  BY <1>1, <1>2 DEF WinTypes, Wins
<1> HIDE DEF w0
<1>4. /\ SlotFits' /\ \A u \in Threads : DeedFits(u)'
      /\ at[w0] = "idle" /\ at'[w0] = "call" /\ does'[w0] = ButtonDoes
      /\ \A u \in Threads \ {w0} :
           at'[u] = at[u] /\ does'[u] = does[u] /\ (u \in troubled' <=> u \in troubled)
      /\ UNCHANGED <<phase, worker, slot, sb, applied>>
      /\ w0 \notin troubled' => ~Others(w0) /\ (ButtonDoes = "on" => FromScratch)
  BY <1>1, <1>2, StartsBase
<1>5. AskFits'
  <2>1. does'[w0] = ButtonDoes /\ w0 > w0 - 1
    BY <1>1, <1>4
  <2>2. does'[Quitter] = does[Quitter] /\ at'[Quitter] = at[Quitter]
    BY <1>1, <1>4, ThreadsDiffer
  <2> QED
    BY <1>1, <1>3, <2>1, <2>2 DEF Base, AskFits
<1>6. QuitFits'
  BY <1>1, <1>2, <1>3, <1>4, ThreadsDiffer DEF QuitFits
<1>7. ASSUME NEW w \in Workers PROVE UpdateFits(w)'
  <2>1. CASE w = w0
    BY <1>1, <1>4, <2>1 DEF UpdateFits
  <2>2. CASE w # w0
    BY <1>2, <1>4, <2>2, ThreadsDiffer DEF UpdateFits, BridgeInv
  <2> QED
    BY <2>1, <2>2
<1>8. ASSUME NEW w \in Workers PROVE OnFits(w)'
  <2>1. SUFFICES ASSUME w = w0, w0 \notin troubled', ButtonDoes = "on"
                 PROVE  OnFits(w)'
    BY <1>3, <1>4 DEF OnFits
  <2>2. ~Others(w0) /\ FromScratch
    BY <1>4, <2>1
  <2>3. /\ \A u \in Threads \ {w0} : at[u] = "idle"
        /\ \A e \in Elems(events) : e.k \notin {"bg", "installing", "notinstalled"}
    BY <1>1, <2>2, Alone
  <2>4. /\ sb = "down" /\ poll.st.sb = "down"
        /\ \A e \in Elems(events) : e.k = "status" => e.st.sb = "down"
    BY <2>2 DEF FromScratch, Elems
  <2>5. OnlyQuitter(w)'
    BY <1>4, <2>1, <2>3 DEF OnlyQuitter
  <2> QED
    BY <1>2, <1>3, <1>4, <2>1, <2>3, <2>4, <2>5 DEF OnFits
<1> QED
  BY <1>1, <1>4, <1>5, <1>6, <1>7, <1>8 DEF BridgeInv, Base

LEMMA StartUpdateInv ==
  ASSUME BridgeInv, StartUpdate
  PROVE  BridgeInv'
<1> DEFINE w0 == left.more
<1>1. /\ TypeOK' /\ Base /\ QuitFits /\ WinTypes /\ HistoryTypes
      /\ w0 \in Workers /\ w0 \in Threads /\ w0 # Quitter /\ left'.more = w0 - 1 /\ w0 \in Nat
      /\ "update" \in Deeds
  BY TypesSplit, AskedTyped, CountsDown, CountsTyped, ThreadsDiffer
  DEF BridgeInv, Base, StartUpdate, Deeds
<1>2. /\ Starts(w0, "update", "download") /\ ~win.busy /\ ~win.closing
      /\ UNCHANGED <<poll, events>>
      /\ win' = [win EXCEPT !.busy = TRUE, !.applying = TRUE]
  BY DEF StartUpdate
<1>3. /\ win'.busy /\ win'.asked = win.asked /\ win'.intent = win.intent /\ win'.await = win.await
      /\ win'.closing = win.closing /\ win'.gone = win.gone
  BY <1>1, <1>2 DEF WinTypes, Wins
<1>9. win.asked # None => win.asked \in Workers /\ win.asked # w0
  <2>1. win.asked # None => win.asked > w0 /\ win.asked \in Nat
    BY <1>1, CountsTyped DEF Base, AskFits
  <2>2. win.asked # None => win.asked # w0
    BY <1>1, <2>1
  <2>3. win.asked \in Workers \cup {None}
    BY <1>1 DEF WinTypes, Wins
  <2> QED
    BY <2>2, <2>3
<1>a. win.asked # None => win.asked > w0 - 1
  BY <1>1, CountsTyped DEF Base, AskFits
<1> HIDE DEF w0
<1>4. /\ SlotFits' /\ \A u \in Threads : DeedFits(u)'
      /\ at[w0] = "idle" /\ at'[w0] = "download" /\ does'[w0] = "update"
      /\ \A u \in Threads \ {w0} :
           at'[u] = at[u] /\ does'[u] = does[u] /\ (u \in troubled' <=> u \in troubled)
      /\ UNCHANGED <<phase, worker, slot, sb, applied>>
      /\ w0 \notin troubled' => ~Others(w0) /\ ~win.await
  BY <1>1, <1>2, StartsBase
<1>5. AskFits'
  <2>1. win.asked # None => does'[win.asked] = does[win.asked]
    BY <1>4, <1>9, ThreadsDiffer
  <2>2. does'[Quitter] = does[Quitter] /\ at'[Quitter] = at[Quitter]
    BY <1>1, <1>4, ThreadsDiffer
  <2> QED
    BY <1>1, <1>3, <1>a, <2>1, <2>2 DEF Base, AskFits
<1>6. QuitFits'
  BY <1>1, <1>2, <1>3, <1>4, ThreadsDiffer DEF QuitFits
<1>7. ASSUME NEW w \in Workers PROVE UpdateFits(w)'
  <2>1. CASE w = w0
    <3>1. SUFFICES ASSUME w0 \notin troubled' PROVE UpdateFits(w)'
      BY <2>1 DEF UpdateFits
    <3>2. /\ \A u \in Threads \ {w0} : at[u] = "idle"
          /\ \A e \in Elems(events) : e.k \notin {"bg", "installing", "notinstalled"}
      BY <1>1, <1>4, <3>1, Alone
    <3>3. OnlyQuitter(w)'
      BY <1>4, <2>1, <3>2 DEF OnlyQuitter
    <3> QED
      BY <1>2, <1>3, <1>4, <2>1, <3>1, <3>2, <3>3 DEF UpdateFits
  <2>2. CASE w # w0
    BY <1>2, <1>4, <2>2, ThreadsDiffer DEF UpdateFits, BridgeInv
  <2> QED
    BY <2>1, <2>2
<1>8. ASSUME NEW w \in Workers PROVE OnFits(w)'
  BY <1>2, <1>3, <1>4, <1>9, ThreadsDiffer DEF OnFits, BridgeInv
<1> QED
  BY <1>1, <1>4, <1>5, <1>6, <1>7, <1>8 DEF BridgeInv, Base

LEMMA ClosesInv ==
  ASSUME BridgeInv, TypeOK', Closes, ~win.closing, Elems(events') \subseteq Elems(events)
  PROVE  BridgeInv'
<1>1. /\ Base /\ QuitFits /\ WinTypes /\ PollTypes /\ "off" \in Deeds
      /\ Quitter \in Threads /\ Quitter \notin Workers /\ Workers \subseteq Threads
  BY TypesSplit, ThreadsDiffer DEF BridgeInv, Base, Deeds
<1>2. /\ win'.closing /\ win'.gone = win.gone /\ win'.asked = win.asked /\ win'.busy = win.busy
      /\ win'.intent = win.intent /\ win'.await = win.await
      /\ poll'.st = poll.st /\ left' = left
  BY <1>1 DEF Closes, WinTypes, Wins, PollTypes, Polls
<1>3. /\ SlotFits' /\ \A u \in Threads : DeedFits(u)'
      /\ at[Quitter] = "idle" /\ at'[Quitter] = "call" /\ does'[Quitter] = "off"
      /\ \A u \in Threads \ {Quitter} :
           at'[u] = at[u] /\ does'[u] = does[u] /\ (u \in troubled' <=> u \in troubled)
      /\ UNCHANGED <<phase, worker, slot, sb, applied>>
      /\ Quitter \notin troubled' => ~Others(Quitter)
  BY <1>1, StartsBase DEF Closes
<1>4. AskFits'
  <2>1. win.asked # None => does'[win.asked] = does[win.asked]
    BY <1>1, <1>3 DEF WinTypes, Wins
  <2> QED
    BY <1>1, <1>2, <1>3, <2>1 DEF Base, AskFits
<1>5. QuitFits'
  <2>1. Quitter \notin troubled' => \A u \in Threads \ {Quitter} : at[u] = "idle"
    BY <1>1, <1>3, Alone
  <2>2. ~win.gone
    BY <1>1 DEF QuitFits
  <2> QED
    BY <1>2, <1>3, <2>1, <2>2 DEF QuitFits
<1>6. ASSUME NEW w \in Workers PROVE UpdateFits(w)'
  <2>1. /\ UpdateFits(w) /\ at'[w] = at[w] /\ does'[w] = does[w]
        /\ w \in troubled' <=> w \in troubled
    BY <1>1, <1>3 DEF BridgeInv
  <2>2. OnlyQuitter(w) => OnlyQuitter(w)'
    BY <1>3 DEF OnlyQuitter
  <2> QED
    BY <1>2, <1>3, <2>1, <2>2 DEF UpdateFits
<1>7. ASSUME NEW w \in Workers PROVE OnFits(w)'
  <2>1. /\ OnFits(w) /\ at'[w] = at[w] /\ does'[w] = does[w]
        /\ w \in troubled' <=> w \in troubled
    BY <1>1, <1>3 DEF BridgeInv
  <2>2. OnlyQuitter(w) => OnlyQuitter(w)'
    BY <1>3 DEF OnlyQuitter
  <2>3. Launched(w) => Launched(w)'
    BY <1>3, <2>1 DEF Launched
  <2> QED
    BY <1>2, <1>3, <2>1, <2>2, <2>3 DEF OnFits
<1> QED
  BY <1>3, <1>4, <1>5, <1>6, <1>7 DEF BridgeInv, Base

LEMMA ApplyReadyInv ==
  ASSUME BridgeInv, ApplyReady
  PROVE  BridgeInv'
<1>1. /\ TypeOK /\ TypeOK' /\ WinTypes /\ Elems(events') \subseteq Elems(events)
  BY TypesSplit, AskedTyped, TakenTyped DEF BridgeInv, Base, ApplyReady
<1>2. CASE ~win.closing
  BY <1>1, <1>2, ClosesInv DEF ApplyReady
<1>3. CASE win.closing
  <2>1. /\ UNCHANGED <<client, threads, poll, left, troubled>>
        /\ win' = [win EXCEPT !.applying = FALSE]
    BY <1>3 DEF ApplyReady, history
  <2>2. /\ win'.closing = win.closing /\ win'.gone = win.gone /\ win'.asked = win.asked
        /\ win'.intent = win.intent /\ win'.busy = win.busy /\ win'.await = win.await
    BY <1>1, <2>1 DEF WinTypes, Wins
  <2>3. Apart
    BY <2>1, <2>2 DEF Apart
  <2>4. SlotFits' /\ AskFits' /\ QuitFits' /\ \A t \in Threads : DeedFits(t)'
    BY <2>3, ApartBase
  <2>5. \A w \in Workers : UpdateFits(w)' /\ OnFits(w)'
    BY <1>1, <2>1, <2>2, <2>3, ApartUpdate, ApartOn
  <2> QED
    BY <1>1, <2>4, <2>5 DEF BridgeInv, Base
<1> QED
  BY <1>2, <1>3

\* The work of an update, beside which no other is without trouble.
LEMMA UpdatesInv ==
  ASSUME BridgeInv, NEW v \in Workers, Updates(v)
  PROVE  BridgeInv'
<1>1. /\ TypeOK' /\ Base /\ QuitFits /\ ThreadTypes
      /\ v \in Threads /\ v # Quitter /\ Workers \subseteq Threads
  BY TypesSplit, AskedTyped, ThreadsDiffer DEF BridgeInv, Base
<1>2. /\ does[v] = "update" /\ at[v] \in {"download", "install"} /\ at'[v] \in {"call", "idle"}
      /\ at'[v] = "call" => events' = events
      /\ \A u \in Threads \ {v} : at'[u] = at[u]
      /\ UNCHANGED <<phase, worker, slot, sb, applied, does, win, poll, left, troubled>>
  BY <1>1 DEF Updates, ThreadTypes, client, window, history
<1>3. SlotFits' /\ AskFits' /\ \A u \in Threads : DeedFits(u)'
  BY <1>1, <1>2, ThreadsDiffer DEF Base, SlotFits, AskFits, DeedFits
<1>4. QuitFits'
  BY <1>1, <1>2, ThreadsDiffer DEF QuitFits
<1>5. ASSUME NEW w \in Workers PROVE UpdateFits(w)'
  <2>1. CASE w = v
    <3>1. OnlyQuitter(w) => OnlyQuitter(w)'
      BY <1>2, <2>1 DEF OnlyQuitter
    <3>2. UpdateFits(w)
      BY DEF BridgeInv
    <3> QED
      BY <1>2, <2>1, <3>1, <3>2 DEF UpdateFits
  <2>2. CASE w # v
    BY <1>1, <1>2, <2>2 DEF UpdateFits, BridgeInv, OnlyQuitter
  <2> QED
    BY <2>1, <2>2
<1>6. ASSUME NEW w \in Workers PROVE OnFits(w)'
  BY <1>1, <1>2 DEF OnFits, BridgeInv, OnlyQuitter
<1> QED
  BY <1>1, <1>3, <1>4, <1>5, <1>6 DEF BridgeInv, Base

-----------------------------------------------------------------------------
(* What follows from it *)

LEMMA InvInit == Init => BridgeInv
<1> SUFFICES ASSUME Init PROVE BridgeInv
  OBVIOUS
<1>1. TypeOK
  BY InitTypes
<1>2. /\ \A t \in Threads : at[t] = "idle" /\ does[t] = None
      /\ slot = None /\ worker = "none" /\ ~win.gone /\ ~win.closing /\ win.asked = None
  BY DEF Init, PhasesSeen!Init
<1>3. Base
  BY <1>1, <1>2, ThreadsDiffer DEF Base, SlotFits, AskFits, DeedFits
<1>4. QuitFits
  BY <1>2, ThreadsDiffer DEF QuitFits
<1>5. \A w \in Workers : UpdateFits(w) /\ OnFits(w)
  BY <1>2, ThreadsDiffer DEF UpdateFits, OnFits
<1> QED
  BY <1>3, <1>4, <1>5 DEF BridgeInv

LEMMA InvNext == BridgeInv /\ [Next]_vars => BridgeInv'
<1> SUFFICES ASSUME BridgeInv, [Next]_vars PROVE BridgeInv'
  OBVIOUS
<1>1. ASSUME NEW t \in Threads, Runs(t) PROVE BridgeInv'
  <2>1. TypeOK'
    BY <1>1, RunsTyped DEF BridgeInv, Base
  <2>2. SlotFits' /\ AskFits' /\ \A u \in Threads : DeedFits(u)'
    BY <1>1, RunsBase DEF BridgeInv
  <2>3. QuitFits' /\ \A w \in Workers : UpdateFits(w)' /\ OnFits(w)'
    BY <1>1, RunsQuit, RunsUpdate, RunsOn
  <2> QED
    BY <2>1, <2>2, <2>3 DEF BridgeInv, Base
<1>2. CASE Quit
  <2>1. TypeOK' /\ Closes /\ ~win.closing /\ events' = events
    BY <1>2, AskedTyped DEF BridgeInv, Base, Quit
  <2> QED
    BY <2>1, ClosesInv
<1>3. CASE UNCHANGED vars
  <2>1. /\ UNCHANGED <<client, threads, win, poll, events, left, troubled>>
    BY <1>3 DEF vars, window, history
  <2>2. TypeOK' /\ Apart
    BY <2>1, NextTypes DEF Apart, BridgeInv, Base
  <2>3. SlotFits' /\ AskFits' /\ QuitFits' /\ \A t \in Threads : DeedFits(t)'
    BY <2>2, ApartBase
  <2>4. \A w \in Workers : UpdateFits(w)' /\ OnFits(w)'
    BY <2>1, <2>2, ApartUpdate, ApartOn
  <2> QED
    BY <2>2, <2>3, <2>4 DEF BridgeInv, Base
<1> QED
  BY <1>1, <1>2, <1>3, AroundInv, PollInv, WindowInv, PressInv, StartUpdateInv, ApplyReadyInv,
     UpdatesInv
  DEF Next, Window

\* Who is in the slot is at work there, and does what the worker is for.
LEMMA InSlot ==
  ASSUME BridgeInv, slot # None
  PROVE  /\ slot \in Threads /\ at[slot] # "idle" /\ at[slot] # "install"
         /\ slot = Quitter => worker = "disconnect"
<1>1. Base /\ slot \in Threads
  BY TypesSplit DEF BridgeInv, Base, ClientTypes
<1>2. at[slot] \in {"in", "restop"}
  BY <1>1 DEF Base, SlotFits
<1> QED
  BY <1>1, <1>2 DEF Base, SlotFits, AskFits

\* An installer of an update finds the VPN down and nobody about to bring it up, for
\* any number of buttons pressed and any faults: the update that it belongs to has
\* kept the buttons locked, unless a wait or the timer of the buttons freed them
\* (startUpdate, _on_update_apply_ready, _busy_timed_out).
THEOREM InstallerAlwaysFindsItDown == Spec => []InstallerFindsItDown
<1>1. BridgeInv => InstallerFindsItDown
  <2> SUFFICES ASSUME BridgeInv, NEW w \in Workers, at[w] = "install", w \notin troubled
               PROVE  sb = "down" /\ worker # "connect"
    BY DEF InstallerFindsItDown
  <2>1. /\ OnlyQuitter(w) /\ sb = "down"
    <3>1. does[w] = "update" /\ UpdateFits(w)
      BY ThreadsDiffer DEF BridgeInv, Base, DeedFits
    <3> QED
      BY <3>1 DEF UpdateFits
  <2>2. CASE slot = None
    BY <2>1, <2>2 DEF BridgeInv, Base, SlotFits
  <2>3. CASE slot # None
    BY <2>1, <2>3, InSlot DEF OnlyQuitter
  <2> QED
    BY <2>1, <2>2, <2>3
<1> QED
  BY <1>1, InvInit, InvNext, PTL DEF Spec

\* When the window is gone nothing of the VPN is left, neither sing-box nor the kill
\* switch nor an operation under way, unless quitting met somebody else at work or was
\* told that sing-box stayed (quitApp, client.shutdown).
THEOREM QuitAlwaysLeavesItOff == Spec => []QuitLeavesItOff
<1>1. BridgeInv => QuitLeavesItOff
  <2> SUFFICES ASSUME BridgeInv, win.gone, Quitter \notin troubled
               PROVE  sb = "down" /\ ~applied /\ slot = None
    BY DEF QuitLeavesItOff
  <2>1. sb = "down" /\ ~applied /\ \A u \in Threads : at[u] = "idle"
    BY ThreadsDiffer DEF BridgeInv, QuitFits
  <2> QED
    BY <2>1, InSlot
<1> QED
  BY <1>1, InvInit, InvNext, PTL DEF Spec

\* No step of the window ends a wait for a connect from scratch before the connect has
\* ended: a status that has seen its sing-box has seen the connect as well, since the
\* poll reads the phase last (OpsClient.status, _apply_status).
THEOREM ConnectAlwaysAwaited == Spec => ConnectIsAwaited
<1>1. ASSUME BridgeInv, [Next]_vars, Taken("status"), win.busy, ~win'.busy,
             NEW w \in Workers, w \notin troubled, win.asked = w, does[w] = "on", at[w] # "idle"
      PROVE  FALSE
  <2>1. /\ TypeOK /\ WinTypes /\ events \in Seq(Events) /\ OnFits(w)
        /\ Head(events) \in Elems(events) /\ Head(events) \in Events /\ Head(events).k = "status"
    BY <1>1, TypesSplit, TakenTyped DEF BridgeInv, Base, EventTypes
  <2>2. events' # events /\ win' # win
    <3>1. events # <<>> /\ events' = Tail(events)
      BY <1>1 DEF Taken
    <3>4. Len(Tail(events)) = Len(events) - 1 /\ Len(events) \in Nat
      BY <2>1, <3>1
    <3>5. Len(Tail(events)) # Len(events)
      BY <3>4
    <3>2. events' # events
      BY <3>1, <3>5, Zenon
    <3>3. win' # win
      BY <1>1
    <3> QED
      BY <3>2, <3>3
  <2>3. StatusReady
    <3>1. ASSUME NEW t \in Threads, Runs(t) PROVE FALSE
      <4>1. win' = win \/ win' = [win EXCEPT !.gone = TRUE]
        BY <1>1, <3>1, RunsMoves DEF BridgeInv
      <4> QED
        BY <1>1, <2>1, <4>1 DEF WinTypes, Wins
    <3>2. /\ ~DogCalls /\ ~Opens /\ ~Crash /\ ~PollTick
          /\ ~Read /\ ~ReadFails /\ ~Polled /\ ~SyncConfig
      BY <2>2 DEF DogCalls, Opens, Crash, PollTick, Read, ReadFails, Polled, SyncConfig, window,
                  Beside
    <3>3. ~BgFinished /\ ~StatusFailed /\ ~ApplyReady /\ ~ApplyFailed
      BY <2>1 DEF BgFinished, StatusFailed, ApplyReady, ApplyFailed, Taken
    <3>4. ~TimesOut /\ ~Press /\ ~StartUpdate /\ ~Quit /\ ~\E v \in Workers : Updates(v)
      BY <1>1, <2>2 DEF TimesOut, Press, StartUpdate, Quit, Updates, window
    <3>5. ~UNCHANGED vars
      BY <2>2 DEF vars
    <3> QED
      BY <1>1, <3>1, <3>2, <3>3, <3>4, <3>5 DEF Next, Window
  <2> DEFINE st == Head(events).st
  <2>4. ~Waits(st) /\ win.await /\ (win.intent = "off" \/ Title(st) # "connecting")
    BY <2>2, <2>3 DEF StatusReady
  <2>5. win.intent = "on"
    BY <1>1, ThreadsDiffer DEF BridgeInv, Base, AskFits, Intent
  <2>6. st.sb # "down"
    BY <2>4, <2>5 DEF Waits
  <2>7. st.connecting
    BY <1>1, <2>1, <2>6 DEF OnFits
  <2>8. Title(st) = "connecting"
    BY <2>7 DEF Title
  <2> QED
    BY <2>4, <2>5, <2>8
<1>2. BridgeInv /\ [Next]_vars
        => [Taken("status") /\ win.busy /\ ~win'.busy
              => \A w \in Workers \ troubled :
                   win.asked = w /\ does[w] = "on" => at[w] = "idle"]_vars
  BY <1>1
<1> QED
  BY <1>2, InvInit, InvNext, PTL DEF Spec, ConnectIsAwaited

================================================================================
