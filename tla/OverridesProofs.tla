--------------------------- MODULE OverridesProofs ---------------------------
(***************************************************************************)
(* What holds of module Overrides for any settings, any configurations and *)
(* deaths at any step: types, and, if only one process works at a time,    *)
(* that a user's setting can always be got back, that an undoing that is   *)
(* through has given all of them back, and that nobody takes what a        *)
(* connection has overridden.                                              *)
(***************************************************************************)
EXTENDS Overrides, TLAPS

\* The place a location is at.
PlaceOf(loc) == Order(loc.job)[loc.i]

\* A job goes to a location, and a step other than the first is never gone to.
LEMMA WalkGoes ==
  ASSUME NEW job \in Walks, NEW i \in 1 .. 5
  PROVE  /\ Walk(job, i) \in Locations
         /\ Walk(job, i).step \in {"none", "save", "put", "take", "give"}
         /\ Walk(job, i).step \in {"put", "take"} => PlaceOf(Walk(job, i)) = "rustdesk"
         /\ Walk(job, i).step \in {"save", "give"} => PlaceOf(Walk(job, i)) # "rustdesk"
<1>1. Len(Order(job)) \in {1, 4}
  BY DEF Order
<1>2. CASE i > Len(Order(job))
  <2>1. Walk(job, i) = After(job)
    BY <1>2 DEF Walk
  <2>2. After(job) \in {Rest} \cup {Job(j) : j \in Jobs}
    BY DEF After, Jobs
  <2>3. After(job).step = "none"
    BY DEF After, Job, Rest
  <2> QED
    BY <2>1, <2>2, <2>3 DEF Locations
<1>3. CASE ~(i > Len(Order(job)))
  <2>4. i \in 1 .. 4
    <3>1. PICK n \in {1, 4} : n = Len(Order(job))
      BY <1>1
    <3> QED
      BY <3>1, <1>3
  <2> DEFINE p == Order(job)[i]
  <2> DEFINE step == CASE Undoes(job, p) /\ p = "rustdesk"  -> "take"
                       [] Undoes(job, p) /\ p # "rustdesk"  -> "give"
                       [] ~Undoes(job, p) /\ p = "rustdesk" -> "put"
                       [] OTHER                             -> "save"
  <2>1. Walk(job, i) = [job |-> job, i |-> i, step |-> step]
    BY <1>3 DEF Walk
  <2>2. Undoes(job, p) \in BOOLEAN
    BY DEF Undoes
  <2>3. /\ step \in {"save", "put", "take", "give"}
        /\ step \in {"put", "take"} => p = "rustdesk"
        /\ step \in {"save", "give"} => p # "rustdesk"
    BY <2>2
  <2> HIDE DEF step, p
  <2>5. [job |-> job, i |-> i, step |-> step] \in Locations
    BY <2>3, <2>4 DEF Locations
  <2>6. PlaceOf(Walk(job, i)) = p
    BY <2>1 DEF PlaceOf, p
  <2> QED
    BY <2>1, <2>3, <2>5, <2>6
<1> QED
  BY <1>2, <1>3

\* The kinds of location, and what is at each.
LEMMA Kinds ==
  /\ Rest \in Locations /\ Rest.step = "none"
  /\ \A j \in Jobs : Job(j) \in Locations /\ Job(j).step = "none"
  /\ \A loc \in Locations :
       /\ loc.step # "none" => /\ loc.job \in Walks /\ loc.i \in 1 .. 4
                               /\ loc.i + 1 \in 1 .. 5
       /\ \A step \in {"save", "put", "take", "give", "drop"} :
            loc.step # "none" => /\ [loc EXCEPT !.step = step] \in Locations
                                 /\ [loc EXCEPT !.step = step].step = step
                                 /\ PlaceOf([loc EXCEPT !.step = step]) = PlaceOf(loc)
<1>1. Rest \in Locations /\ Rest.step = "none"
  BY DEF Rest, Locations
<1>2. ASSUME NEW j \in Jobs PROVE Job(j) \in Locations /\ Job(j).step = "none"
  BY DEF Job, Rest, Locations
<1>3. ASSUME NEW loc \in Locations, loc.step # "none"
      PROVE  /\ loc.job \in Walks /\ loc.i \in 1 .. 4
             /\ loc \in [job : Walks, step : {"save", "put", "take", "give", "drop"}, i : 1 .. 4]
  BY <1>1, <1>2, <1>3 DEF Locations
<1>4. ASSUME NEW loc \in Locations, loc.step # "none",
             NEW step \in {"save", "put", "take", "give", "drop"}
      PROVE  /\ [loc EXCEPT !.step = step] \in Locations
             /\ [loc EXCEPT !.step = step].step = step
             /\ PlaceOf([loc EXCEPT !.step = step]) = PlaceOf(loc)
  BY <1>3, <1>4 DEF Locations, PlaceOf
<1> QED
  BY <1>1, <1>2, <1>3, <1>4

\* What Tidy goes to.
LEMMA TidyGoes ==
  ASSUME NEW t \in Processes, NEW job \in {"tidy", "leave"},
         NEW other \in {Rest} \cup {Job(j) : j \in Jobs},
         TypeOK, Tidy(t, job, other)
  PROVE  /\ at' \in [Processes -> Locations]
         /\ \A u \in Processes \ {t} : at'[u] = at[u]
         /\ at'[t].step \in {"none", "save", "put", "take", "give"}
         /\ at'[t].step \in {"put", "take"} => PlaceOf(at'[t]) = "rustdesk"
         /\ at'[t].step \in {"save", "give"} => PlaceOf(at'[t]) # "rustdesk"
<1>1. PICK loc \in {Walk(job, 1), other} : at' = [at EXCEPT ![t] = loc]
  BY DEF Tidy, GoTo
<1>2. /\ loc \in Locations
      /\ loc.step \in {"none", "save", "put", "take", "give"}
      /\ loc.step \in {"put", "take"} => PlaceOf(loc) = "rustdesk"
      /\ loc.step \in {"save", "give"} => PlaceOf(loc) # "rustdesk"
  BY WalkGoes, Kinds DEF Walks
<1> QED
  BY <1>1, <1>2 DEF TypeOK

\* What NextPlace and Step go to.
LEMMA NextGoes ==
  ASSUME NEW t \in Processes, TypeOK, at[t].step # "none", NextPlace(t)
  PROVE  /\ at' \in [Processes -> Locations]
         /\ \A u \in Processes \ {t} : at'[u] = at[u]
         /\ at'[t].step \in {"none", "save", "put", "take", "give"}
         /\ at'[t].step \in {"put", "take"} => PlaceOf(at'[t]) = "rustdesk"
         /\ at'[t].step \in {"save", "give"} => PlaceOf(at'[t]) # "rustdesk"
<1> DEFINE loc == Walk(at[t].job, at[t].i + 1)
<1>1. at[t] \in Locations
  BY DEF TypeOK
<1>2. at[t].job \in Walks /\ at[t].i + 1 \in 1 .. 5
  BY <1>1, Kinds
<1>3. /\ loc \in Locations
      /\ loc.step \in {"none", "save", "put", "take", "give"}
      /\ loc.step \in {"put", "take"} => PlaceOf(loc) = "rustdesk"
      /\ loc.step \in {"save", "give"} => PlaceOf(loc) # "rustdesk"
  BY <1>2, WalkGoes
<1>4. at' = [at EXCEPT ![t] = loc]
  BY DEF NextPlace, GoTo
<1> HIDE DEF loc
<1> QED
  BY <1>3, <1>4 DEF TypeOK

LEMMA StepGoes ==
  ASSUME NEW t \in Processes, NEW step \in {"save", "put", "take", "give", "drop"},
         TypeOK, at[t].step # "none", Step(t, step)
  PROVE  /\ at' \in [Processes -> Locations]
         /\ \A u \in Processes \ {t} : at'[u] = at[u]
         /\ at'[t].step = step
         /\ PlaceOf(at'[t]) = PlaceOf(at[t])
<1> DEFINE loc == [at[t] EXCEPT !.step = step]
<1>1. at[t] \in Locations
  BY DEF TypeOK
<1>2. loc \in Locations /\ loc.step = step /\ PlaceOf(loc) = PlaceOf(at[t])
  BY <1>1, Kinds
<1>3. at' = [at EXCEPT ![t] = loc]
  BY DEF Step, GoTo
<1> HIDE DEF loc
<1> QED
  BY <1>2, <1>3 DEF TypeOK

\* What a place may be given back is a value of a place.
LEMMA GivenIsValue ==
  ASSUME NEW p \in Places, NEW b \in Files, TypeOK
  PROVE  Given(p, b) \subseteq Values
<1>1. Absent \in Values /\ place[p] \in Values
  BY OverridesAssumption DEF TypeOK, Values
<1> QED
  <2>1. CASE p = "git"
    BY <1>1, <2>1 DEF Given, GivenGit, Values
  <2>2. CASE p = "browser"
    BY <1>1, <2>2 DEF Given, GivenBrowser, Files, Values
  <2>3. CASE p = "docker"
    BY <1>1, <2>3 DEF Given, GivenDocker
  <2>4. CASE p = "rustdesk"
    BY <1>1, <2>4 DEF Given, GivenRustdesk
  <2> QED
    BY <2>1, <2>2, <2>3, <2>4 DEF Places

-----------------------------------------------------------------------------
\* Only RustDesk's steps hold anything in hand.
HandFits(t) ==
  hand[t] # "nofile" => at[t].step \in {"save", "give"} /\ PlaceOf(at[t]) = "rustdesk"

LEMMA HandsFit == TypeOK => \A t \in Processes : HandFits(t)
  BY DEF TypeOK, HandFits, Doing, PlaceOf

\* Types of the files and of what is in hand, and of where the processes are.
FileTypes ==
  /\ place \in [Places -> Values] /\ backup \in [Places -> Files]
  /\ hand \in [Processes -> Files]

LEMMA TypesSplit ==
  TypeOK <=>
    /\ FileTypes
    /\ state \in BOOLEAN /\ up \in BOOLEAN /\ mode \in Modes
    /\ running \in BOOLEAN /\ watched \in BOOLEAN
    /\ at \in [Processes -> Locations]
    /\ \A t \in Processes : HandFits(t)
    /\ wish \in [Places -> Users]
    /\ off \in BOOLEAN /\ linked \in BOOLEAN /\ lost \subseteq Places
  BY DEF TypeOK, FileTypes, Values, Files, HandFits, Doing, PlaceOf

\* The work at one place keeps the types.
LEMMA HandleTypes ==
  ASSUME TypeOK, NEW t \in Processes, Handle(t)
  PROVE  TypeOK'
<1>1. PICK p \in Places :
        Save(t, p) \/ Put(t, p) \/ (Take(t) /\ p = "rustdesk") \/ Give(t, p) \/ Drop(t, p)
  BY DEF Handle, Places
<1>2. /\ state' \in BOOLEAN /\ up' \in BOOLEAN /\ mode' \in Modes
      /\ running' \in BOOLEAN /\ watched' \in BOOLEAN
      /\ wish' \in [Places -> Users]
      /\ off' \in BOOLEAN /\ linked' \in BOOLEAN /\ lost' \subseteq Places
  BY <1>1 DEF Save, Put, Take, Give, Drop, Beside, TypeOK
<1>3. at[t].step # "none" /\ p = PlaceOf(at[t])
  BY <1>1 DEF Save, Put, Take, Give, Drop, Doing, PlaceOf
<1>4. FileTypes /\ \A u \in Processes : HandFits(u)
  BY TypesSplit
<1>5. FileTypes'
  <2>1. CASE Save(t, p)
    BY <2>1, <1>4 DEF Save, FileTypes, Values, Files
  <2>2. CASE Put(t, p)
    <3>1. Own(p) \in Values
      BY OverridesAssumption DEF Own, Values
    <3> QED
      BY <2>2, <3>1, <1>4 DEF Put, FileTypes, Values, Files
  <2>3. CASE Take(t)
    BY <2>3, <1>4 DEF Take, FileTypes, Files, Places
  <2>4. CASE Give(t, p)
    <3>1. \A b \in Files : Given(p, b) \subseteq Values
      BY GivenIsValue
    <3>2. backup[p] \in Files /\ hand[t] \in Files
      BY <1>4 DEF FileTypes
    <3>3. PICK v \in Values : place' = [place EXCEPT ![p] = v]
      BY <2>4, <3>1, <3>2 DEF Give
    <3> QED
      BY <2>4, <3>3, <1>4 DEF Give, FileTypes, Files
  <2>5. CASE Drop(t, p)
    BY <2>5, <1>4 DEF Drop, FileTypes, Values, Files
  <2> QED
    BY <1>1, <2>1, <2>2, <2>3, <2>4, <2>5
<1>6. /\ at' \in [Processes -> Locations]
      /\ \A u \in Processes \ {t} : at'[u] = at[u]
  <2>1. NextPlace(t) \/ \E step \in {"save", "put", "take", "give", "drop"} : Step(t, step)
    BY <1>1 DEF Save, Put, Take, Give, Drop
  <2> QED
    BY <2>1, <1>3, NextGoes, StepGoes
<1>7. \A u \in Processes \ {t} : hand'[u] = hand[u]
  BY <1>1, <1>4 DEF Save, Put, Take, Give, Drop, FileTypes
<1>8. HandFits(t)'
  <2>1. CASE Save(t, p) \/ Give(t, p)
    <3>1. hand'[t] = "nofile"
      BY <2>1, <1>4 DEF Save, Give, FileTypes
    <3> QED
      BY <3>1 DEF HandFits
  <2>2. CASE Put(t, p) /\ p = "rustdesk"
    <3>1. at'[t].step = "save" /\ PlaceOf(at'[t]) = "rustdesk"
      BY <2>2, <1>3, StepGoes DEF Put
    <3> QED
      BY <3>1 DEF HandFits, PlaceOf
  <2>3. CASE Take(t) /\ p = "rustdesk"
    <3>1. at'[t].step = "give" /\ PlaceOf(at'[t]) = "rustdesk"
      BY <2>3, <1>3, StepGoes DEF Take
    <3> QED
      BY <3>1 DEF HandFits, PlaceOf
  <2>4. CASE (Put(t, p) /\ p # "rustdesk") \/ Drop(t, p)
    <3>1. hand[t] = "nofile"
      BY <2>4, <1>4 DEF HandFits, Put, Drop, Doing
    <3>2. hand' = hand
      BY <2>4 DEF Put, Drop
    <3> QED
      BY <3>1, <3>2 DEF HandFits
  <2> QED
    BY <1>1, <2>1, <2>2, <2>3, <2>4
<1>9. \A u \in Processes : HandFits(u)'
  BY <1>4, <1>6, <1>7, <1>8 DEF HandFits, PlaceOf
<1> QED
  BY <1>2, <1>5, <1>6, <1>9
  DEF TypeOK, FileTypes, Values, Files, HandFits, Doing, PlaceOf

\* A location without a step at a place.
LEMMA BesideTypes ==
  ASSUME TypeOK, NEW t \in Processes,
         \A u \in Processes \ {t} : at'[u] = at[u], at' \in [Processes -> Locations],
         hand[t] = "nofile", hand' = hand, UNCHANGED <<place, backup>>,
         state' \in BOOLEAN, up' \in BOOLEAN, mode' \in Modes, running' \in BOOLEAN,
         watched' \in BOOLEAN, wish' = wish, off' \in BOOLEAN, linked' \in BOOLEAN,
         UNCHANGED lost
  PROVE  TypeOK'
  BY DEF TypeOK, Doing

\* RustDesk's files could not be written: the next place, with nothing in hand.
LEMMA RustdeskGoes ==
  ASSUME TypeOK, NEW t \in Processes, RustdeskFails(t)
  PROVE  /\ at[t].step \in {"put", "save", "give"} /\ PlaceOf(at[t]) = "rustdesk"
         /\ NextPlace(t) /\ at' \in [Processes -> Locations]
         /\ \A u \in Processes \ {t} : at'[u] = at[u]
         /\ at'[t].step \in {"none", "save", "put", "take", "give"}
         /\ at'[t].step \in {"put", "take"} => PlaceOf(at'[t]) = "rustdesk"
         /\ at'[t].step \in {"save", "give"} => PlaceOf(at'[t]) # "rustdesk"
         /\ hand' \in [Processes -> Files] /\ hand'[t] = "nofile"
         /\ \A u \in Processes \ {t} : hand'[u] = hand[u]
         /\ UNCHANGED <<place, backup, state, up, mode, wish, off, linked>>
         /\ Safe' \subseteq Safe
<1>1. /\ at[t].step \in {"put", "save", "give"} /\ PlaceOf(at[t]) = "rustdesk"
      /\ at[t].step # "none" /\ NextPlace(t)
  BY DEF RustdeskFails, Doing, PlaceOf
<1>2. /\ hand' \in [Processes -> Files] /\ hand'[t] = "nofile"
      /\ \A u \in Processes \ {t} : hand'[u] = hand[u]
  BY DEF RustdeskFails, TypeOK, Files
<1>3. UNCHANGED <<place, backup, state, up, mode, wish, off, linked>> /\ lost \subseteq lost'
  BY DEF RustdeskFails, files
<1> QED
  BY <1>1, <1>2, <1>3, NextGoes DEF Safe

\* A process that rests, or is between two places, holds nothing.
LEMMA FreeHand ==
  ASSUME TypeOK, NEW t \in Processes, at[t].step = "none"
  PROVE  hand[t] = "nofile"
  BY DEF TypeOK, Doing

\* Every step keeps the types.
LEMMA NextTypes == TypeOK /\ [Next]_vars => TypeOK'
<1> SUFFICES ASSUME TypeOK, [Next]_vars PROVE TypeOK'
  OBVIOUS
<1>g. "gui" \in Processes /\ "cli" \in Processes
  BY DEF Processes
<1>k. /\ Rest \in Locations /\ Rest.step = "none"
      /\ \A j \in Jobs : Job(j) \in Locations /\ Job(j).step = "none"
  BY Kinds
<1>w. \A j \in Walks : Walk(j, 1) \in Locations
  BY WalkGoes
<1>1. CASE Open
  <2>1. at["gui"].step = "none"
    BY <1>1, <1>k DEF Open
  <2>2. hand["gui"] = "nofile"
    BY <1>g, <2>1, FreeHand
  <2>3. /\ at' \in [Processes -> Locations]
        /\ \A u \in Processes \ {"gui"} : at'[u] = at[u]
    BY <1>1, <1>g, TidyGoes DEF Open
  <2> QED
    BY <1>1, <1>g, <2>2, <2>3, BesideTypes DEF Open, files, history, TypeOK
<1>2. CASE Connect \/ Disconnect
  <2>1. at["gui"].step = "none"
    BY <1>2, <1>k DEF Connect, Disconnect
  <2>2. hand["gui"] = "nofile"
    BY <1>g, <2>1, FreeHand
  <2>3. PICK loc \in Locations : at' = [at EXCEPT !["gui"] = loc]
    BY <1>2, <1>k, <1>w DEF Connect, Disconnect, GoTo, Walks, Jobs
  <2> QED
    BY <1>2, <1>g, <2>2, <2>3, BesideTypes DEF Connect, Disconnect, files, TypeOK
<1>3. CASE Launch \/ WriteState \/ Connected \/ Unlink
  <2>1. at["gui"].step = "none"
    BY <1>3, <1>k DEF Launch, WriteState, Connected, Unlink, Jobs
  <2>2. hand["gui"] = "nofile"
    BY <1>g, <2>1, FreeHand
  <2>3. PICK loc \in Locations : at' = [at EXCEPT !["gui"] = loc]
    BY <1>3, <1>k, <1>w DEF Launch, WriteState, Connected, Unlink, GoTo, Walks, Jobs
  <2> QED
    BY <1>3, <1>g, <2>2, <2>3, BesideTypes
    DEF Launch, WriteState, Connected, Unlink, files, history, TypeOK
<1>4. CASE ApplyFails
  <2>1. hand["gui"] = "nofile"
    <3>1. PICK p \in {"git", "browser"}, step \in {"save", "put"} : Doing("gui", step, p)
      BY <1>4 DEF ApplyFails
    <3> QED
      BY <1>g, <3>1 DEF TypeOK, Doing
  <2>2. PICK loc \in Locations : at' = [at EXCEPT !["gui"] = loc]
    BY <1>4, <1>k DEF ApplyFails, GoTo, Jobs
  <2> QED
    BY <1>4, <1>g, <2>1, <2>2, BesideTypes DEF ApplyFails, files, history, TypeOK
<1>5. CASE Close
  <2>1. at["gui"].step = "none"
    BY <1>5, <1>k DEF Close
  <2>2. hand["gui"] = "nofile"
    BY <1>g, <2>1, FreeHand
  <2>3. /\ at' \in [Processes -> Locations]
        /\ \A u \in Processes \ {"gui"} : at'[u] = at[u]
    BY <1>5, <1>g, TidyGoes DEF Close
  <2> QED
    BY <1>5, <1>g, <2>2, <2>3, BesideTypes DEF Close, files, TypeOK
<1>6. CASE Command \/ Exit
  <2>1. at["cli"].step = "none"
    BY <1>6, <1>k DEF Command, Exit, Jobs
  <2>2. hand["cli"] = "nofile"
    BY <1>g, <2>1, FreeHand
  <2>3. /\ at' \in [Processes -> Locations]
        /\ \A u \in Processes \ {"cli"} : at'[u] = at[u]
    BY <1>6, <1>g, TidyGoes DEF Command, Exit, Jobs
  <2> QED
    BY <1>6, <1>g, <2>2, <2>3, BesideTypes DEF Command, Exit, files, history, TypeOK
<1>7. CASE Runs
  <2>1. at["cli"].step = "none"
    BY <1>7, <1>k DEF Runs, Jobs
  <2>2. hand["cli"] = "nofile"
    BY <1>g, <2>1, FreeHand
  <2>3. PICK loc \in Locations : at' = [at EXCEPT !["cli"] = loc]
    BY <1>7, <1>k, <1>w DEF Runs, GoTo, Walks, Jobs
  <2> QED
    BY <1>7, <1>g, <2>2, <2>3, BesideTypes DEF Runs, files, history, TypeOK
<1>8. CASE UserEdits
  BY <1>8 DEF UserEdits, process, TypeOK, Doing, Values
<1>9. CASE SingboxDies
  BY <1>9 DEF SingboxDies, files, process, history, TypeOK, Doing
<1>10. ASSUME NEW t \in Processes, Handle(t) PROVE TypeOK'
  BY <1>10, HandleTypes
<1>11. ASSUME NEW t \in Processes, Tidied(t) PROVE TypeOK'
  <2>1. at[t].step = "none"
    BY <1>11, <1>k DEF Tidied, Jobs
  <2>2. hand[t] = "nofile"
    BY <2>1, FreeHand
  <2>3. PICK loc \in Locations : at' = [at EXCEPT ![t] = loc]
    BY <1>11, <1>k DEF Tidied, GoTo, Jobs
  <2> QED
    BY <1>11, <2>2, <2>3, BesideTypes DEF Tidied, files, TypeOK
<1>12. ASSUME NEW t \in Processes, Crash(t) \/ Tear(t) PROVE TypeOK'
  <2>1. Dies(t) /\ lost' \subseteq Places
    BY <1>12 DEF Crash, Tear, TypeOK, Places
  <2>2. backup' \in [Places -> Files]
    BY <1>12 DEF Crash, Tear, TypeOK, Files
  <2>3. /\ at' = [at EXCEPT ![t] = Rest]
        /\ hand' = [hand EXCEPT ![t] = "nofile"]
    BY <2>1 DEF Dies, GoTo
  <2> QED
    BY <2>1, <2>2, <2>3, <1>k DEF Dies, TypeOK, Files, Doing
<1>13. CASE UNCHANGED vars
  BY <1>13 DEF vars, files, process, history, TypeOK, Doing
<1>14. ASSUME NEW t \in Processes, RustdeskFails(t) PROVE TypeOK'
  <2>1. UNCHANGED <<running, watched>> /\ lost' \subseteq Places
    BY <1>14 DEF RustdeskFails, TypeOK, Places
  <2> QED
    BY <1>14, <2>1, RustdeskGoes DEF TypeOK, Doing
<1> QED
  BY <1>1, <1>2, <1>3, <1>4, <1>5, <1>6, <1>7, <1>8, <1>9, <1>10, <1>11, <1>12, <1>13, <1>14
  DEF Next, Window, CommandLine

LEMMA InitTypes == Init => TypeOK
<1> SUFFICES ASSUME Init PROVE TypeOK
  OBVIOUS
<1>1. Rest \in Locations
  BY Kinds
<1>2. place \in [Places -> Values] /\ wish \in [Places -> Users]
  BY DEF Init, Values
<1>3. \A t \in Processes : hand[t] = "nofile"
  BY DEF Init
<1>4. at \in [Processes -> Locations]
  BY <1>1 DEF Init
<1> QED
  BY <1>2, <1>3, <1>4 DEF Init, TypeOK, Files

\* Every variable keeps to its values, also when commands run beside the window
\* (rustdesk_opt's local variable is set only between its two halves).
THEOREM TypeCorrect == Spec => []TypeOK
  BY InitTypes, NextTypes, PTL DEF Spec

-----------------------------------------------------------------------------
(* A user's setting can be got back, when one process works at a time. *)

\* The user's setting is in the backup, in the place or in hand.
Found(p) ==
  /\ backup[p] \in {wish[p], "nofile"}
  /\ backup[p] = "nofile" =>
       \/ place[p] = wish[p]
       \/ p = "rustdesk" /\ \E t \in Processes : hand[t] = wish[p]

\* What a process counts on in the middle of a place.
Counts(t, p) ==
  /\ Doing(t, "put", p) /\ p # "rustdesk" => backup[p] = wish[p]
  /\ Doing(t, "drop", p) => place[p] = wish[p]
  /\ Doing(t, "save", p) /\ p = "rustdesk" => backup[p] = wish[p] \/ hand[t] = wish[p]
  /\ Doing(t, "give", p) /\ p = "rustdesk" =>
       /\ backup[p] = "nofile"
       /\ hand[t] = wish[p] \/ (hand[t] = "nofile" /\ place[p] = wish[p])

\* One process works at a time.
OneWorks(t) == \A u \in Processes \ {t} : at[u] = Rest

Inv ==
  /\ TypeOK
  /\ \E t \in Processes : OneWorks(t)
  /\ \A p \in Safe : Found(p) /\ \A t \in Processes : Counts(t, p)

\* Steps that touch no place: others rest, and t gets to a first step or to none.
LEMMA BesideKeeps ==
  ASSUME Inv, TypeOK', NEW t \in Processes, OneWorks(t),
         \A u \in Processes \ {t} : at'[u] = at[u],
         UNCHANGED <<place, backup, hand, wish, lost>>,
         at'[t].step \in {"none", "save", "put", "take", "give"},
         at'[t].step \in {"put", "take"} => PlaceOf(at'[t]) = "rustdesk",
         at'[t].step \in {"save", "give"} => PlaceOf(at'[t]) # "rustdesk"
  PROVE  Inv'
<1>1. OneWorks(t)'
  BY DEF OneWorks
<1>2. ASSUME NEW p \in Places, NEW u \in Processes PROVE Counts(u, p)'
  <2>1. CASE u = t
    BY <2>1 DEF Counts, Doing, PlaceOf
  <2>2. CASE u # t
    <3>1. at'[u].step = "none"
      BY <2>2, <1>1, Kinds DEF OneWorks
    <3> QED
      BY <3>1 DEF Counts, Doing
  <2> QED
    BY <2>1, <2>2
<1>3. \A p \in Safe' : Found(p)'
  BY DEF Inv, Found, Safe
<1> QED
  BY <1>1, <1>2, <1>3 DEF Inv, Safe

\* Nobody but t holds anything.
LEMMA OneHolds ==
  ASSUME TypeOK, NEW t \in Processes, OneWorks(t)
  PROVE  \A u \in Processes \ {t} : hand[u] = "nofile"
  BY FreeHand, Kinds DEF OneWorks

\* The user's settings are none of the marks.
LEMMA WishIsUsers ==
  ASSUME TypeOK, NEW p \in Places
  PROVE  wish[p] \in Users /\ wish[p] \notin {"ours", "torn", "nofile"}
  BY OverridesAssumption DEF TypeOK

\* What is given back from the user's setting, or from no backup when the place
\* has it, is the user's setting.
LEMMA GivenIsWish ==
  ASSUME TypeOK, NEW p \in Places, NEW b,
         b = wish[p] \/ (b = "nofile" /\ place[p] = wish[p])
  PROVE  Given(p, b) = {wish[p]}
<1>1. wish[p] \in Users /\ wish[p] \notin {"ours", "torn", "nofile"}
  BY WishIsUsers
<1>2. "nofile" \notin Users
  BY OverridesAssumption
<1> QED
  <2>1. CASE p = "git"
    BY <1>1, <1>2, <2>1 DEF Given, GivenGit
  <2>2. CASE p = "browser"
    BY <1>1, <1>2, <2>2 DEF Given, GivenBrowser
  <2>3. CASE p = "docker"
    BY <1>1, <1>2, <2>3 DEF Given, GivenDocker, Values
  <2>4. CASE p = "rustdesk"
    BY <1>1, <1>2, <2>4 DEF Given, GivenRustdesk, Values
  <2> QED
    BY <2>1, <2>2, <2>3, <2>4 DEF Places

\* The work at one place keeps the invariant.
LEMMA HandleKeeps ==
  ASSUME Inv, TypeOK', NEW t \in Processes, OneWorks(t), Handle(t)
  PROVE  Inv'
<1>1. PICK p \in Places :
        Save(t, p) \/ Put(t, p) \/ (Take(t) /\ p = "rustdesk") \/ Give(t, p) \/ Drop(t, p)
  BY DEF Handle, Places
<1>2. at[t].step # "none" /\ p = PlaceOf(at[t])
  BY <1>1 DEF Save, Put, Take, Give, Drop, Doing, PlaceOf
<1>3. /\ TypeOK
      /\ \A u \in Processes : HandFits(u)
      /\ \A u \in Processes \ {t} : hand[u] = "nofile"
  BY HandsFit, OneHolds DEF Inv
<1>4. wish' = wish /\ lost' = lost /\ Safe' = Safe
  BY <1>1 DEF Save, Put, Take, Give, Drop, Beside, Safe
<1>5. /\ \A u \in Processes \ {t} : at'[u] = at[u]
      /\ \/ /\ at'[t].step \in {"none", "save", "put", "take", "give"}
            /\ at'[t].step \in {"put", "take"} => PlaceOf(at'[t]) = "rustdesk"
            /\ at'[t].step \in {"save", "give"} => PlaceOf(at'[t]) # "rustdesk"
         \/ PlaceOf(at'[t]) = p
  <2>1. NextPlace(t) \/ \E step \in {"save", "put", "take", "give", "drop"} : Step(t, step)
    BY <1>1 DEF Save, Put, Take, Give, Drop
  <2> QED
    BY <2>1, <1>2, <1>3, NextGoes, StepGoes
<1>6. OneWorks(t)'
  BY <1>5 DEF OneWorks
<1>7. ASSUME NEW u \in Processes, u # t, NEW q \in Places PROVE Counts(u, q)'
  <2>1. at'[u].step = "none"
    BY <1>6, <1>7, Kinds DEF OneWorks
  <2> QED
    BY <2>1 DEF Counts, Doing
<1>8. ASSUME NEW q \in Safe, q # p PROVE Found(q)' /\ Counts(t, q)'
  <2>1. q \in Places
    BY DEF Safe
  <2>2. place'[q] = place[q] /\ backup'[q] = backup[q]
    <3>1. place \in [Places -> Values]
          /\ backup \in [Places -> Files]
      BY <1>3 DEF TypeOK
    <3> QED
      BY <1>1, <1>8, <2>1, <3>1 DEF Save, Put, Take, Give, Drop, Places
  <2>3. q = "rustdesk" => hand' = hand
    <3>1. q = "rustdesk" => hand[t] = "nofile"
      BY <1>2, <1>3, <1>8 DEF HandFits
    <3>2. hand \in [Processes -> Files]
      BY <1>3 DEF TypeOK
    <3> QED
      BY <1>1, <1>8, <3>1, <3>2 DEF Save, Put, Take, Give, Drop
  <2>4. Found(q)'
    BY <1>4, <2>2, <2>3 DEF Found, Inv
  <2>5. Counts(t, q)'
    BY <1>5, <1>8 DEF Counts, Doing, PlaceOf
  <2> QED
    BY <2>4, <2>5
<1>9. ASSUME p \in Safe PROVE Found(p)' /\ Counts(t, p)'
  <2>1. Found(p) /\ Counts(t, p)
    BY <1>9 DEF Inv
  <2>2. wish[p] \in Users /\ wish[p] \notin {"ours", "torn", "nofile"}
    BY <1>3, WishIsUsers
  <2>3. /\ place \in [Places -> Values]
        /\ backup \in [Places -> Files]
        /\ hand \in [Processes -> Files]
    BY <1>3 DEF TypeOK
  <2>4. CASE Save(t, p)
    <3>1. backup'[p] = wish[p]
      BY <2>1, <2>2, <2>3, <2>4, <1>3 DEF Save, Found, Counts
    <3>2. \/ at'[t].step = "put" /\ PlaceOf(at'[t]) = p
          \/ /\ at'[t].step # "drop"
             /\ at'[t].step \in {"save", "give"} => PlaceOf(at'[t]) # "rustdesk"
      BY <2>4, <1>2, <1>3, NextGoes, StepGoes DEF Save
    <3> QED
      BY <3>1, <3>2, <2>2, <1>4 DEF Found, Counts, Doing, PlaceOf
  <2>5. CASE Put(t, p) /\ p # "rustdesk"
    <3>1. backup'[p] = wish[p]
      BY <2>1, <2>5 DEF Put, Counts
    <3>2. /\ at'[t].step # "drop"
          /\ at'[t].step \in {"save", "give"} => PlaceOf(at'[t]) # "rustdesk"
      BY <2>5, <1>2, <1>3, NextGoes DEF Put
    <3> QED
      BY <3>1, <3>2, <2>2, <1>4 DEF Found, Counts, Doing, PlaceOf
  <2>6. CASE Put(t, p) /\ p = "rustdesk"
    <3>1. hand[t] = "nofile"
      BY <2>6, <1>3 DEF Put, Doing, HandFits
    <3>2. backup[p] = wish[p] \/ place[p] = wish[p]
      BY <2>1, <2>2, <3>1, <1>3 DEF Found
    <3>3. backup'[p] = backup[p] /\ hand'[t] = place[p]
      BY <2>6, <2>3 DEF Put
    <3>4. at'[t].step = "save" /\ PlaceOf(at'[t]) = p
      BY <2>6, <1>2, <1>3, StepGoes DEF Put
    <3> QED
      BY <3>2, <3>3, <3>4, <2>1, <2>2, <2>6, <1>4 DEF Found, Counts, Doing
  <2>7. CASE Take(t) /\ p = "rustdesk"
    <3>1. hand[t] = "nofile"
      BY <2>7, <1>3 DEF Take, Doing, HandFits
    <3>2. backup[p] = wish[p] \/ (backup[p] = "nofile" /\ place[p] = wish[p])
      BY <2>1, <2>2, <3>1, <1>3 DEF Found
    <3>3. backup'[p] = "nofile" /\ hand'[t] = backup[p] /\ place' = place
      BY <2>7, <2>3 DEF Take
    <3>4. at'[t].step = "give" /\ PlaceOf(at'[t]) = p
      BY <2>7, <1>2, <1>3, StepGoes DEF Take
    <3> QED
      BY <3>2, <3>3, <3>4, <2>2, <2>7, <1>4 DEF Found, Counts, Doing
  <2>8. CASE Give(t, p) /\ p # "rustdesk"
    <3>1. backup[p] = wish[p] \/ (backup[p] = "nofile" /\ place[p] = wish[p])
      BY <2>1, <2>8 DEF Found
    <3>2. Given(p, backup[p]) = {wish[p]}
      BY <3>1, <1>3, GivenIsWish
    <3>3. place'[p] = wish[p] /\ backup' = backup
      BY <2>3, <2>8, <3>2 DEF Give
    <3>4. Step(t, "drop")
      BY <2>2, <2>8, <3>1 DEF Give
    <3>5. at'[t].step = "drop"
      BY <3>4, <1>2, <1>3, StepGoes
    <3> QED
      BY <3>1, <3>3, <3>5, <2>8, <1>4 DEF Found, Counts, Doing
  <2>9. CASE Give(t, p) /\ p = "rustdesk"
    <3>1. /\ backup[p] = "nofile"
          /\ hand[t] = wish[p] \/ (hand[t] = "nofile" /\ place[p] = wish[p])
      BY <2>1, <2>9 DEF Counts, Give
    <3>2. Given(p, hand[t]) = {wish[p]}
      BY <3>1, <1>3, GivenIsWish
    <3>3. place'[p] = wish[p] /\ backup' = backup
      BY <2>3, <2>9, <3>2 DEF Give
    <3>4. /\ at'[t].step # "drop"
          /\ at'[t].step \in {"save", "give"} => PlaceOf(at'[t]) # "rustdesk"
      BY <2>9, <1>2, <1>3, NextGoes DEF Give
    <3> QED
      BY <3>1, <3>3, <3>4, <2>9, <1>4 DEF Found, Counts, Doing, PlaceOf
  <2>10. CASE Drop(t, p)
    <3>1. place[p] = wish[p]
      BY <2>1, <2>10 DEF Drop, Counts
    <3>2. backup'[p] = "nofile" /\ place' = place
      BY <2>3, <2>10 DEF Drop
    <3>3. /\ at'[t].step \in {"none", "save", "put", "take", "give"}
          /\ at'[t].step \in {"put", "take"} => PlaceOf(at'[t]) = "rustdesk"
          /\ at'[t].step \in {"save", "give"} => PlaceOf(at'[t]) # "rustdesk"
      BY <2>10, <1>2, <1>3, NextGoes DEF Drop
    <3> QED
      BY <3>1, <3>2, <3>3, <1>4 DEF Found, Counts, Doing, PlaceOf
  <2> QED
    BY <1>1, <2>4, <2>5, <2>6, <2>7, <2>8, <2>9, <2>10
<1> QED
  BY <1>4, <1>6, <1>7, <1>8, <1>9 DEF Inv, Safe
\* Who is at work is the one who works; with nobody at work anyone may be.
LEMMA Works ==
  ASSUME Inv, NEW t \in Processes,
         at[t] # Rest \/ ("overlap" \notin Faults /\ Alone)
  PROVE  OneWorks(t)
  BY DEF Inv, OneWorks, Alone

\* Steps at no place.
LEMMA OutsideKeeps ==
  ASSUME Inv, TypeOK', "overlap" \notin Faults,
         Open \/ Connect \/ Launch \/ ApplyFails \/ WriteState \/ Connected
           \/ Disconnect \/ Unlink \/ Close \/ Command \/ Runs \/ Exit
           \/ \E t \in Processes : Tidied(t)
  PROVE  Inv'
<1>1. TypeOK
  BY DEF Inv
<1>g. "gui" \in Processes /\ "cli" \in Processes
  BY DEF Processes
<1>k. \A j \in Jobs : Job(j).step = "none" /\ Job(j) # Rest
  BY Kinds DEF Jobs, Job, Rest
<1>w. \A j \in Walks : /\ Walk(j, 1).step \in {"none", "save", "put", "take", "give"}
                       /\ Walk(j, 1).step \in {"put", "take"} => PlaceOf(Walk(j, 1)) = "rustdesk"
                       /\ Walk(j, 1).step \in {"save", "give"} => PlaceOf(Walk(j, 1)) # "rustdesk"
  BY WalkGoes
<1>2. ASSUME NEW t \in Processes, OneWorks(t),
             UNCHANGED <<place, backup, hand, wish, lost>>,
             NEW loc \in {Rest} \cup {Job(j) : j \in Jobs} \cup {Walk(j, 1) : j \in Walks},
             GoTo(t, loc)
      PROVE  Inv'
  <2>1. /\ loc.step \in {"none", "save", "put", "take", "give"}
        /\ loc.step \in {"put", "take"} => PlaceOf(loc) = "rustdesk"
        /\ loc.step \in {"save", "give"} => PlaceOf(loc) # "rustdesk"
    BY <1>k, <1>w, Kinds
  <2>2. at'[t] = loc /\ \A u \in Processes \ {t} : at'[u] = at[u]
    BY <1>1, <1>2 DEF GoTo, TypeOK
  <2> QED
    BY <1>2, <2>1, <2>2, BesideKeeps DEF PlaceOf
<1>3. CASE Open \/ Connect \/ Disconnect \/ Close
  <2>1. OneWorks("gui")
    BY <1>3, <1>g, Works DEF Open, Connect, Disconnect, Close
  <2>2. UNCHANGED <<place, backup, hand, wish, lost>>
    BY <1>3 DEF Open, Connect, Disconnect, Close, files, history
  <2>3. PICK loc \in {Rest} \cup {Job(j) : j \in Jobs} \cup {Walk(j, 1) : j \in Walks} :
          GoTo("gui", loc)
    BY <1>3 DEF Open, Connect, Disconnect, Close, Tidy, Walks, Jobs
  <2> QED
    BY <1>2, <1>g, <2>1, <2>2, <2>3
<1>4. CASE Launch \/ WriteState \/ Connected \/ Unlink
  <2>1. OneWorks("gui")
    BY <1>4, <1>g, <1>k, Works DEF Launch, WriteState, Connected, Unlink, Jobs
  <2>2. UNCHANGED <<place, backup, hand, wish, lost>>
    BY <1>4 DEF Launch, WriteState, Connected, Unlink, files, history
  <2>3. PICK loc \in {Rest} \cup {Job(j) : j \in Jobs} \cup {Walk(j, 1) : j \in Walks} :
          GoTo("gui", loc)
    BY <1>4 DEF Launch, WriteState, Connected, Unlink, Walks, Jobs
  <2> QED
    BY <1>2, <1>g, <2>1, <2>2, <2>3
<1>5. CASE ApplyFails
  <2>1. at["gui"] # Rest
    BY <1>5 DEF ApplyFails, Rest
  <2>2. OneWorks("gui")
    BY <2>1, <1>g, Works
  <2>3. UNCHANGED <<place, backup, hand, wish, lost>>
    BY <1>5 DEF ApplyFails, files, history
  <2>4. PICK loc \in {Rest} \cup {Job(j) : j \in Jobs} : GoTo("gui", loc)
    BY <1>5 DEF ApplyFails, Jobs
  <2> QED
    BY <1>2, <1>g, <2>2, <2>3, <2>4
<1>6. CASE Command \/ Runs \/ Exit
  <2>1. OneWorks("cli")
    BY <1>6, <1>g, <1>k, Works DEF Command, Runs, Exit, Jobs
  <2>2. UNCHANGED <<place, backup, hand, wish, lost>>
    BY <1>6 DEF Command, Runs, Exit, files, history
  <2>3. PICK loc \in {Rest} \cup {Job(j) : j \in Jobs} \cup {Walk(j, 1) : j \in Walks} :
          GoTo("cli", loc)
    BY <1>6 DEF Command, Runs, Exit, Tidy, Walks, Jobs
  <2> QED
    BY <1>2, <1>g, <2>1, <2>2, <2>3
<1>7. ASSUME NEW t \in Processes, Tidied(t) PROVE Inv'
  <2>1. OneWorks(t)
    BY <1>7, <1>k, Works DEF Tidied, Jobs
  <2>2. PICK loc \in {Rest} \cup {Job(j) : j \in Jobs} : GoTo(t, loc)
    BY <1>7 DEF Tidied, Jobs
  <2> QED
    BY <1>2, <1>7, <2>1, <2>2 DEF Tidied, files
<1> QED
  BY <1>3, <1>4, <1>5, <1>6, <1>7

\* A death: what was in hand only, or half written, is lost.
LEMMA DeathKeeps ==
  ASSUME Inv, TypeOK', NEW t \in Processes, Crash(t) \/ Tear(t)
  PROVE  Inv'
<1>1. TypeOK /\ \A u \in Processes : HandFits(u)
  BY HandsFit DEF Inv
<1>2. /\ at' = [at EXCEPT ![t] = Rest] /\ hand' = [hand EXCEPT ![t] = "nofile"]
      /\ place' = place /\ wish' = wish
  BY DEF Crash, Tear, Dies, GoTo
<1>3. \E u \in Processes : OneWorks(u)'
  BY <1>1, <1>2 DEF Inv, OneWorks, TypeOK
<1>4. ASSUME NEW p \in Safe' PROVE /\ p \in Safe /\ backup'[p] = backup[p]
                                   /\ p = "rustdesk" /\ backup[p] = "nofile" => hand[t] = "nofile"
  <2>1. CASE Crash(t)
    BY <1>4, <2>1 DEF Crash, Safe
  <2>2. CASE Tear(t)
    <3>1. PICK q \in Places :
            /\ Doing(t, "save", q)
            /\ backup' = [backup EXCEPT ![q] = "torn"]
            /\ lost' = lost \cup {q}
      BY <2>2 DEF Tear
    <3>2. p # q /\ p \in Safe
      BY <1>4, <3>1 DEF Safe
    <3>3. p = "rustdesk" => hand[t] = "nofile"
      BY <1>1, <3>1, <3>2 DEF HandFits, Doing, PlaceOf
    <3> QED
      BY <3>1, <3>2, <3>3, <1>1 DEF TypeOK
  <2> QED
    BY <2>1, <2>2
<1>5. ASSUME NEW p \in Safe' PROVE Found(p)'
  <2>1. Found(p) /\ p \in Places
    BY <1>4, <1>5 DEF Inv, Safe
  <2>2. wish[p] # "nofile"
    BY <1>1, <2>1, WishIsUsers
  <2>3. hand \in [Processes -> Files]
    BY <1>1 DEF TypeOK
  <2> QED
    BY <1>2, <1>4, <1>5, <2>1, <2>2, <2>3 DEF Found
<1>6. ASSUME NEW p \in Safe', NEW u \in Processes PROVE Counts(u, p)'
  <2>1. CASE u = t
    <3>1. at'[t].step = "none"
      BY <1>1, <1>2, Kinds DEF TypeOK
    <3> QED
      BY <2>1, <3>1 DEF Counts, Doing
  <2>2. CASE u # t
    <3>1. at'[u] = at[u] /\ hand'[u] = hand[u]
      BY <1>1, <1>2, <2>2 DEF TypeOK
    <3>2. Counts(u, p)
      BY <1>4, <1>6 DEF Inv
    <3> QED
      BY <1>2, <1>4, <1>6, <3>1, <3>2 DEF Counts, Doing
  <2> QED
    BY <2>1, <2>2
<1> QED
  BY <1>3, <1>5, <1>6 DEF Inv

\* What RustDesk's failing write takes with it is told; the other places are left alone.
LEMMA RustdeskKeeps ==
  ASSUME Inv, TypeOK', NEW t \in Processes, OneWorks(t), RustdeskFails(t)
  PROVE  Inv'
<1>1. TypeOK /\ \A u \in Processes \ {t} : hand[u] = "nofile"
  BY OneHolds DEF Inv
<1>2. OneWorks(t)'
  BY <1>1, RustdeskGoes DEF OneWorks
<1>3. ASSUME NEW p \in Safe' PROVE Found(p)'
  <2>1. p \in Safe /\ p \in Places /\ Found(p)
    BY <1>1, <1>3, RustdeskGoes DEF Inv, Safe
  <2>2. wish[p] # "nofile"
    BY <1>1, <2>1, WishIsUsers
  <2>3. p = "rustdesk" /\ backup[p] = "nofile" => hand[t] = "nofile"
    BY <1>3 DEF RustdeskFails, Safe
  <2>4. UNCHANGED <<place, backup, wish>>
    BY <1>1, RustdeskGoes
  <2>5. backup[p] = "nofile" => place[p] = wish[p]
    BY <1>1, <2>1, <2>2, <2>3 DEF Found
  <2> QED
    BY <2>1, <2>4, <2>5 DEF Found
<1>4. ASSUME NEW p \in Safe', NEW u \in Processes PROVE Counts(u, p)'
  <2>1. CASE u = t
    BY <1>1, <2>1, RustdeskGoes DEF Counts, Doing, PlaceOf
  <2>2. CASE u # t
    <3>1. at'[u].step = "none"
      BY <1>2, <2>2, Kinds DEF OneWorks
    <3> QED
      BY <3>1 DEF Counts, Doing
  <2> QED
    BY <2>1, <2>2
<1> QED
  BY <1>2, <1>3, <1>4 DEF Inv

\* A user's edit: nobody is at work, and the place has no backup.
LEMMA EditKeeps ==
  ASSUME Inv, TypeOK', UserEdits
  PROVE  Inv'
<1>1. PICK p \in Places, v \in Users :
        /\ backup[p] = "nofile"
        /\ place' = [place EXCEPT ![p] = v] /\ wish' = [wish EXCEPT ![p] = v]
  BY DEF UserEdits
<1>2. /\ UNCHANGED <<backup, at, hand, lost>> /\ \A t \in Processes : at[t] = Rest
  BY DEF UserEdits, process
<1>3. TypeOK /\ \A t \in Processes : hand[t] = "nofile"
  BY <1>2, FreeHand, Kinds DEF Inv
<1>4. \E t \in Processes : OneWorks(t)'
  BY <1>2 DEF OneWorks, Inv
<1>5. ASSUME NEW q \in Safe PROVE Found(q)'
  <2>1. Found(q) /\ q \in Places
    BY DEF Inv, Safe
  <2>2. wish[q] # "nofile"
    BY <1>3, <2>1, WishIsUsers
  <2>3. backup[q] \in {wish[q], "nofile"} /\ (backup[q] = "nofile" => place[q] = wish[q])
    BY <1>3, <2>1, <2>2 DEF Found
  <2>4. /\ q = p => place'[q] = v /\ wish'[q] = v
        /\ q # p => place'[q] = place[q] /\ wish'[q] = wish[q]
    BY <1>1, <1>3, <2>1 DEF TypeOK
  <2> QED
    BY <1>1, <1>2, <2>3, <2>4 DEF Found
<1>6. ASSUME NEW q \in Safe, NEW t \in Processes PROVE Counts(t, q)'
  <2>1. at'[t].step = "none"
    BY <1>2, Kinds
  <2> QED
    BY <2>1 DEF Counts, Doing
<1> QED
  BY <1>2, <1>4, <1>5, <1>6 DEF Inv, Safe

\* At first nothing is overridden.
LEMMA InvInit == Init => Inv
<1> SUFFICES ASSUME Init PROVE Inv
  OBVIOUS
<1>1. TypeOK
  BY InitTypes
<1>2. \A t \in Processes : at[t] = Rest /\ at[t].step = "none"
  BY Kinds DEF Init
<1>3. \A p \in Places : Found(p) /\ \A t \in Processes : Counts(t, p)
  BY <1>2 DEF Init, Found, Counts, Doing
<1> QED
  BY <1>1, <1>2, <1>3 DEF Inv, OneWorks, Safe, Processes

\* Every step keeps the invariant, when one process works at a time.
LEMMA InvNext ==
  ASSUME "overlap" \notin Faults
  PROVE  Inv /\ [Next]_vars => Inv'
<1> SUFFICES ASSUME Inv, [Next]_vars PROVE Inv'
  OBVIOUS
<1>1. TypeOK'
  BY NextTypes DEF Inv
<1>2. CASE Window \/ CommandLine \/ \E t \in Processes : Tidied(t)
  BY <1>1, <1>2, OutsideKeeps DEF Window, CommandLine
<1>3. CASE UserEdits
  BY <1>1, <1>3, EditKeeps
<1>4. ASSUME NEW t \in Processes, Handle(t) PROVE Inv'
  <2>1. at[t] # Rest
    BY <1>4, Kinds DEF Handle, Take, Save, Put, Give, Drop, Doing
  <2> QED
    BY <1>1, <1>4, <2>1, Works, HandleKeeps
<1>7. ASSUME NEW t \in Processes, RustdeskFails(t) PROVE Inv'
  <2>1. TypeOK /\ at[t] # Rest
    BY <1>7, Kinds DEF RustdeskFails, Doing, Inv
  <2> QED
    BY <1>1, <1>7, <2>1, Works, RustdeskKeeps
<1>5. ASSUME NEW t \in Processes, Crash(t) \/ Tear(t) PROVE Inv'
  BY <1>1, <1>5, DeathKeeps
<1>6. CASE SingboxDies \/ UNCHANGED vars
  <2>1. UNCHANGED <<place, backup, at, hand, wish, lost>>
    BY <1>6 DEF SingboxDies, vars, files, process, history
  <2> QED
    BY <1>1, <2>1 DEF Inv, OneWorks, Found, Counts, Doing, Safe
<1> QED
  BY <1>2, <1>3, <1>4, <1>5, <1>6, <1>7 DEF Next

\* For any settings, configurations and deaths: unless a command runs beside an
\* operation of the window, what the user last had in a place that no death tore
\* apart and no write failed in is there, in its backup or in hand
\* (_backup_git_proxy, backup_win_proxy, enable_docker_desktop_proxy,
\* enable_rustdesk_always_relay).
THEOREM SettingsAreRecoverable ==
  ASSUME "overlap" \notin Faults
  PROVE  Spec => []Recoverable
<1>1. Inv => Recoverable
  BY DEF Inv, Recoverable, Found
<1> QED
  BY InvInit, InvNext, <1>1, PTL DEF Spec

-----------------------------------------------------------------------------
(* What is undone is given back. *)

\* The work of a process at a place leaves the other places alone.
LEMMA OnePlace ==
  ASSUME TypeOK, NEW t \in Processes, NEW p \in Places,
         Save(t, p) \/ Put(t, p) \/ (Take(t) /\ p = "rustdesk") \/ Give(t, p) \/ Drop(t, p)
  PROVE  /\ at[t].step # "none" /\ p = PlaceOf(at[t])
         /\ \A q \in Places \ {p} : place'[q] = place[q] /\ backup'[q] = backup[q]
  BY DEF TypeOK, Save, Put, Take, Give, Drop, Doing, PlaceOf

\* Where a walk is after its first i places.
LEMMA WalkIs ==
  ASSUME NEW job \in Walks, NEW i \in 1 .. 5
  PROVE  \/ /\ Walk(job, i).job = job /\ Walk(job, i).i = i
            /\ Len(Order(job)) >= i
            /\ Walk(job, i).step \in {"save", "put", "take", "give"}
            /\ Walk(job, i).step \in {"take", "give"} <=> Undoes(job, Order(job)[i])
         \/ Walk(job, i) = After(job) /\ i > Len(Order(job))
<1>1. Len(Order(job)) \in {1, 4}
  BY DEF Order
<1>2. CASE i > Len(Order(job))
  BY <1>2 DEF Walk
<1>3. CASE ~(i > Len(Order(job)))
  <2> DEFINE p == Order(job)[i]
  <2> DEFINE step == CASE Undoes(job, p) /\ p = "rustdesk"  -> "take"
                       [] Undoes(job, p) /\ p # "rustdesk"  -> "give"
                       [] ~Undoes(job, p) /\ p = "rustdesk" -> "put"
                       [] OTHER                             -> "save"
  <2>1. Walk(job, i) = [job |-> job, i |-> i, step |-> step]
    BY <1>3 DEF Walk
  <2>2. Undoes(job, p) \in BOOLEAN
    BY DEF Undoes
  <2>3. /\ step \in {"save", "put", "take", "give"}
        /\ step \in {"take", "give"} <=> Undoes(job, p)
    BY <2>2
  <2>4. Len(Order(job)) >= i
    <3>1. PICK n \in {1, 4} : n = Len(Order(job))
      BY <1>1
    <3> QED
      BY <3>1, <1>3
  <2> HIDE DEF step
  <2> QED
    BY <2>1, <2>3, <2>4
<1> QED
  BY <1>2, <1>3

\* What a walk ends with.
LEMMA AfterIs ==
  ASSUME NEW job \in Walks
  PROVE  /\ After(job).step = "none" /\ After(job) # Job("launch")
         /\ After(job) = Job("unlink") => job = "teardown"
         /\ After(job) = Job("tidied") => job = "tidy"
         /\ After(job) = Job("state") => job = "apply"
         /\ After(job) = Job("connected") => job = "again"
  BY DEF After, Job, Rest, Walks

\* A full walk comes by every place.
LEMMA OrderIs ==
  ASSUME NEW job \in Walks \ {"docker"}
  PROVE  /\ Len(Order(job)) = 4
         /\ \A j \in 1 .. 4 : Order(job)[j] \in Places
         /\ \A p \in Places : \E j \in 1 .. 4 : Order(job)[j] = p
<1>1. CASE job \in {"apply", "again"}
  <2>1. Order(job) = <<"git", "docker", "browser", "rustdesk">>
    BY <1>1 DEF Order
  <2> QED
    BY <2>1 DEF Places
<1>2. CASE job \notin {"apply", "again"}
  <2>1. Order(job) = <<"browser", "git", "docker", "rustdesk">>
    BY <1>2 DEF Order
  <2> QED
    BY <2>1 DEF Places
<1> QED
  BY <1>1, <1>2

\* The places that have the user's setting and no backup; a place that a death
\* tore apart is not asked for.
Back == {p \in Places : p \in Safe => place[p] = wish[p] /\ backup[p] = "nofile"}

\* Who undoes everything has given back the places it has come by.
UndoFits(loc, back) ==
  /\ loc.step # "none" /\ loc.job \in {"teardown", "tidy"} =>
       /\ loc.step \in {"take", "give", "drop"}
       /\ \A j \in 1 .. 4 : loc.i > j => Order(loc.job)[j] \in back
  /\ loc \in {Job("unlink"), Job("tidied")} => Places \subseteq back

BackInv ==
  /\ Inv
  /\ \A t \in Processes : UndoFits(at[t], Back)
  /\ off => Places \subseteq Back

LEMMA UndoWalk ==
  ASSUME NEW job \in Walks, NEW i \in 1 .. 5, NEW back,
         job \in {"teardown", "tidy"} => \A j \in 1 .. 4 : i > j => Order(job)[j] \in back
  PROVE  UndoFits(Walk(job, i), back)
<1>1. CASE /\ Walk(job, i).job = job /\ Walk(job, i).i = i
           /\ Walk(job, i).step \in {"save", "put", "take", "give"}
           /\ Walk(job, i).step \in {"take", "give"} <=> Undoes(job, Order(job)[i])
  <2>1. job \in {"teardown", "tidy"} => Undoes(job, Order(job)[i])
    BY DEF Undoes
  <2>2. Walk(job, i) \notin {Job("unlink"), Job("tidied")}
    BY <1>1 DEF Job, Rest
  <2> QED
    BY <1>1, <2>1, <2>2 DEF UndoFits
<1>2. CASE Walk(job, i) = After(job) /\ i > Len(Order(job))
  <2>1. job \in {"teardown", "tidy"} => Places \subseteq back
    <3> SUFFICES ASSUME job \in {"teardown", "tidy"}, NEW p \in Places PROVE p \in back
      OBVIOUS
    <3>1. job \in Walks \ {"docker"}
      BY DEF Walks
    <3>2. PICK j \in 1 .. 4 : Order(job)[j] = p
      BY <3>1, OrderIs
    <3>3. i > j
      BY <1>2, <3>1, OrderIs
    <3> QED
      BY <3>2, <3>3
  <2> QED
    BY <1>2, <2>1, AfterIs DEF UndoFits
<1> QED
  BY <1>1, <1>2, WalkIs

\* Who rests, or is at a job that ends nothing, is fine.
LEMMA UndoJob ==
  ASSUME NEW loc \in {Rest} \cup {Job(j) : j \in Jobs \ {"unlink", "tidied"}}, NEW back
  PROVE  UndoFits(loc, back)
<1>1. loc.step = "none" /\ loc \notin {Job("unlink"), Job("tidied")}
  BY DEF Rest, Job, Jobs
<1> QED
  BY <1>1 DEF UndoFits

\* Giving back keeps what is given back, and what is passed is given back.
LEMMA UndoGivesBack ==
  ASSUME Inv, NEW t \in Processes, NEW p \in Places,
         (Take(t) /\ p = "rustdesk") \/ Give(t, p) \/ Drop(t, p)
  PROVE  /\ Back \subseteq Back'
         /\ \/ NextPlace(t) /\ p \in Back'
            \/ \E step \in {"give", "drop"} : Step(t, step)
<1>1. TypeOK /\ Safe' = Safe /\ wish' = wish
  BY DEF Inv, Take, Give, Drop, Beside, Safe
<1>2. Back \ {p} \subseteq Back'
  BY <1>1, OnePlace DEF Back
<1>3. CASE p \notin Safe
  BY <1>1, <1>2, <1>3 DEF Take, Give, Drop, Back
<1>4. CASE p \in Safe
  <2>1. Found(p) /\ Counts(t, p)
    BY <1>4 DEF Inv
  <2>2. wish[p] \in Users /\ wish[p] \notin {"ours", "torn", "nofile"}
    BY <1>1, WishIsUsers
  <2>3. /\ place \in [Places -> Values]
        /\ backup \in [Places -> Files]
    BY <1>1 DEF TypeOK
  <2>4. CASE Take(t) /\ p = "rustdesk"
    <3>1. place' = place /\ backup'[p] = "nofile" /\ Step(t, "give")
      BY <2>3, <2>4 DEF Take
    <3> QED
      BY <1>1, <1>2, <3>1 DEF Back
  <2>5. CASE Give(t, p) /\ p # "rustdesk"
    <3>1. /\ backup[p] = wish[p] \/ (backup[p] = "nofile" /\ place[p] = wish[p])
      BY <2>1, <2>5 DEF Found
    <3>2. Given(p, backup[p]) = {wish[p]}
      BY <3>1, <1>1, GivenIsWish
    <3>3. place'[p] = wish[p] /\ backup' = backup
      BY <2>3, <2>5, <3>2 DEF Give
    <3>4. Step(t, "drop")
      BY <2>2, <2>5, <3>1 DEF Give
    <3> QED
      BY <1>1, <1>2, <3>3, <3>4 DEF Back
  <2>6. CASE Give(t, p) /\ p = "rustdesk"
    <3>1. /\ backup[p] = "nofile"
          /\ hand[t] = wish[p] \/ (hand[t] = "nofile" /\ place[p] = wish[p])
      BY <2>1, <2>6 DEF Counts, Give
    <3>2. Given(p, hand[t]) = {wish[p]}
      BY <3>1, <1>1, GivenIsWish
    <3>3. place'[p] = wish[p] /\ backup' = backup /\ NextPlace(t)
      BY <2>3, <2>6, <3>2 DEF Give
    <3> QED
      BY <1>1, <1>2, <3>1, <3>3 DEF Back
  <2>7. CASE Drop(t, p)
    <3>1. place[p] = wish[p]
      BY <2>1, <2>7 DEF Drop, Counts
    <3>2. backup'[p] = "nofile" /\ place' = place /\ NextPlace(t)
      BY <2>3, <2>7 DEF Drop
    <3> QED
      BY <1>1, <1>2, <3>1, <3>2 DEF Back
  <2> QED
    BY <2>4, <2>5, <2>6, <2>7
<1> QED
  BY <1>3, <1>4

\* The work at one place.
LEMMA BackHandle ==
  ASSUME BackInv, NEW t \in Processes, OneWorks(t), Handle(t)
  PROVE  UndoFits(at[t], Back)' /\ (off' => Places \subseteq Back')
<1>1. PICK p \in Places :
        Save(t, p) \/ Put(t, p) \/ (Take(t) /\ p = "rustdesk") \/ Give(t, p) \/ Drop(t, p)
  BY DEF Handle, Places
<1>2. Inv /\ TypeOK /\ at[t] \in Locations
  BY DEF BackInv, Inv, TypeOK
<1>3. at[t].step # "none" /\ p = PlaceOf(at[t])
  BY <1>1, <1>2, OnePlace
<1>4. /\ at[t].job \in Walks /\ at[t].i \in 1 .. 4
      /\ at[t].i + 1 \in 1 .. 5
  BY <1>2, <1>3, Kinds
<1>5. UndoFits(at[t], Back)
  BY DEF BackInv
<1>6. CASE Save(t, p) \/ Put(t, p)
  <2>1. at[t].job \notin {"teardown", "tidy"}
    BY <1>3, <1>5, <1>6 DEF UndoFits, Save, Put, Doing
  <2>2. off' = FALSE
    BY <1>6 DEF Save, Put
  <2>3. CASE NextPlace(t)
    <3>1. at'[t] = Walk(at[t].job, at[t].i + 1)
      BY <1>2, <2>3 DEF NextPlace, GoTo, TypeOK
    <3>2. UndoFits(Walk(at[t].job, at[t].i + 1), Back')
      BY <1>4, <2>1, UndoWalk
    <3> QED
      BY <2>2, <3>1, <3>2
  <2>4. ASSUME NEW step \in {"save", "put"}, Step(t, step)
        PROVE  UndoFits(at'[t], Back')
    <3>1. at'[t] = [at[t] EXCEPT !.step = step]
      BY <1>2, <2>4 DEF Step, GoTo, TypeOK
    <3>2. at[t] \in [job : Walks, step : {"save", "put", "take", "give", "drop"}, i : 1 .. 4]
      BY <1>2, <1>3 DEF Locations, Rest, Job
    <3>3. at'[t].job = at[t].job /\ at'[t].step = step
      BY <3>1, <3>2
    <3>4. at'[t] \notin {Job("unlink"), Job("tidied")}
      BY <3>3 DEF Job, Rest
    <3> QED
      BY <2>1, <3>3, <3>4 DEF UndoFits
  <2> QED
    BY <1>6, <2>2, <2>3, <2>4 DEF Save, Put
<1>7. CASE (Take(t) /\ p = "rustdesk") \/ Give(t, p) \/ Drop(t, p)
  <2>1. /\ Back \subseteq Back'
        /\ \/ NextPlace(t) /\ p \in Back'
           \/ \E step \in {"give", "drop"} : Step(t, step)
    BY <1>2, <1>7, UndoGivesBack
  <2>2. off' = off
    BY <1>7 DEF Take, Give, Drop
  <2>3. at[t].job \in {"teardown", "tidy"} =>
          \A j \in 1 .. 4 : at[t].i > j => Order(at[t].job)[j] \in Back'
    BY <1>3, <1>5, <2>1 DEF UndoFits
  <2>4. CASE NextPlace(t) /\ p \in Back'
    <3>1. at'[t] = Walk(at[t].job, at[t].i + 1)
      BY <1>2, <2>4 DEF NextPlace, GoTo, TypeOK
    <3>2. at[t].job \in {"teardown", "tidy"} =>
            \A j \in 1 .. 4 : at[t].i + 1 > j => Order(at[t].job)[j] \in Back'
      BY <1>3, <1>4, <2>3, <2>4 DEF PlaceOf
    <3>3. UndoFits(Walk(at[t].job, at[t].i + 1), Back')
      BY <1>4, <3>2, UndoWalk
    <3> QED
      BY <2>1, <2>2, <3>1, <3>3 DEF BackInv
  <2>5. ASSUME NEW step \in {"give", "drop"}, Step(t, step)
        PROVE  UndoFits(at'[t], Back')
    <3>1. at'[t] = [at[t] EXCEPT !.step = step]
      BY <1>2, <2>5 DEF Step, GoTo, TypeOK
    <3>2. at[t] \in [job : Walks, step : {"save", "put", "take", "give", "drop"}, i : 1 .. 4]
      BY <1>2, <1>3 DEF Locations, Rest, Job
    <3>3. at'[t].job = at[t].job /\ at'[t].i = at[t].i /\ at'[t].step = step
      BY <3>1, <3>2
    <3>4. at'[t] \notin {Job("unlink"), Job("tidied")}
      BY <3>3 DEF Job, Rest
    <3> QED
      BY <2>3, <3>3, <3>4 DEF UndoFits
  <2> QED
    BY <2>1, <2>2, <2>4, <2>5 DEF BackInv
<1> QED
  BY <1>1, <1>6, <1>7

\* Where a process goes that is at no place: to a job, or to the first place of one.
Goals == {Rest} \cup {Job(j) : j \in Jobs \ {"unlink", "tidied"}} \cup {Walk(j, 1) : j \in Walks}

\* A step at no place, of t.
LEMMA GoesOutside ==
  ASSUME TypeOK, Window \/ CommandLine \/ \E t \in Processes : Tidied(t)
  PROVE  \E t \in Processes, loc \in Goals :
           /\ at' = [at EXCEPT ![t] = loc]
           /\ at[t] # Rest \/ Alone
           /\ UNCHANGED <<place, backup, hand, wish, lost>>
           /\ off' = off \/ at[t] \in {Job("unlink"), Job("tidied")}
<1>g. "gui" \in Processes /\ "cli" \in Processes
  BY DEF Processes
<1>k. \A j \in Jobs : Job(j) # Rest
  BY DEF Job, Rest, Jobs
<1>1. CASE Open \/ Connect \/ Disconnect \/ Close
  <2>1. \E loc \in Goals : at' = [at EXCEPT !["gui"] = loc]
    BY <1>1 DEF Open, Connect, Disconnect, Close, Tidy, GoTo, Goals, Walks, Jobs
  <2>2. UNCHANGED <<place, backup, hand, wish, lost, off>> /\ Alone
    BY <1>1 DEF Open, Connect, Disconnect, Close, files, history
  <2> QED
    BY <1>g, <2>1, <2>2
<1>2. CASE Launch \/ WriteState \/ Connected \/ Unlink
  <2>1. \E loc \in Goals : at' = [at EXCEPT !["gui"] = loc]
    BY <1>2 DEF Launch, WriteState, Connected, Unlink, GoTo, Goals, Walks, Jobs
  <2>2. /\ UNCHANGED <<place, backup, hand, wish, lost>>
        /\ off' = off \/ at["gui"] = Job("unlink")
    BY <1>2 DEF Launch, WriteState, Connected, Unlink, files, history
  <2>3. at["gui"] # Rest
    BY <1>2, <1>k DEF Launch, WriteState, Connected, Unlink, Jobs
  <2> QED
    BY <1>g, <2>1, <2>2, <2>3
<1>3. CASE ApplyFails
  <2>1. \E loc \in Goals : at' = [at EXCEPT !["gui"] = loc]
    BY <1>3 DEF ApplyFails, GoTo, Goals, Jobs
  <2>2. UNCHANGED <<place, backup, hand, wish, lost, off>> /\ at["gui"] # Rest
    BY <1>3 DEF ApplyFails, files, history, Rest
  <2> QED
    BY <1>g, <2>1, <2>2
<1>4. CASE Command \/ Runs \/ Exit
  <2>1. \E loc \in Goals : at' = [at EXCEPT !["cli"] = loc]
    BY <1>4 DEF Command, Runs, Exit, Tidy, GoTo, Goals, Walks, Jobs
  <2>2. UNCHANGED <<place, backup, hand, wish, lost, off>>
    BY <1>4 DEF Command, Runs, Exit, files, history
  <2>3. at["cli"] # Rest \/ Alone
    BY <1>4, <1>k DEF Command, Runs, Exit, Jobs
  <2> QED
    BY <1>g, <2>1, <2>2, <2>3
<1>5. ASSUME NEW t \in Processes, Tidied(t)
      PROVE  /\ \E loc \in Goals : at' = [at EXCEPT ![t] = loc]
             /\ UNCHANGED <<place, backup, hand, wish, lost>>
             /\ at[t] = Job("tidied") /\ at[t] # Rest
  BY <1>5, <1>k DEF Tidied, GoTo, Goals, Jobs, files
<1> QED
  BY <1>1, <1>2, <1>3, <1>4, <1>5 DEF Window, CommandLine

\* Deaths lose no more than they tell.
LEMMA DeathLoses ==
  ASSUME Inv, NEW t \in Processes, Crash(t) \/ Tear(t)
  PROVE  /\ at' = [at EXCEPT ![t] = Rest]
         /\ place' = place /\ wish' = wish /\ off' = off /\ mode' = mode
         /\ Safe' \subseteq Safe
         /\ \A p \in Safe' : backup'[p] = backup[p]
         /\ \A p \in Places : backup[p] # "nofile" => backup'[p] = backup[p]
         /\ linked' = (linked /\ t # "gui") /\ up' = up
<1>1. backup \in [Places -> Files]
  BY DEF Inv, TypeOK
<1>2. CASE Crash(t)
  BY <1>2 DEF Crash, Dies, GoTo, Safe
<1>3. CASE Tear(t)
  <2>1. PICK q \in Places :
          /\ Doing(t, "save", q) /\ backup[q] = "nofile"
          /\ backup' = [backup EXCEPT ![q] = "torn"]
          /\ lost' = lost \cup {q}
    BY <1>3 DEF Tear
  <2> QED
    BY <1>1, <1>3, <2>1 DEF Tear, Dies, GoTo, Safe
<1> QED
  BY <1>2, <1>3

LEMMA BackInit == Init => BackInv
<1> SUFFICES ASSUME Init PROVE BackInv
  OBVIOUS
<1>1. \A t \in Processes : UndoFits(at[t], Back)
  BY UndoJob DEF Init
<1> QED
  BY InvInit, <1>1 DEF Init, BackInv, Back

\* Every step keeps what is given back.
LEMMA BackNext ==
  ASSUME "overlap" \notin Faults
  PROVE  BackInv /\ [Next]_vars => BackInv'
<1> SUFFICES ASSUME BackInv, [Next]_vars PROVE BackInv'
  OBVIOUS
<1>1. Inv /\ TypeOK
  BY DEF BackInv, Inv
<1>2. Inv'
  BY <1>1, InvNext
<1>3. ASSUME NEW t \in Processes, OneWorks(t), NEW loc, at' = [at EXCEPT ![t] = loc],
             UndoFits(loc, Back'), off' => Places \subseteq Back'
      PROVE  BackInv'
  <2>1. ASSUME NEW u \in Processes \ {t} PROVE UndoFits(at'[u], Back')
    <3>1. at'[u] = Rest
      BY <1>1, <1>3 DEF OneWorks, TypeOK
    <3> QED
      BY <3>1, UndoJob
  <2>2. at'[t] = loc
    BY <1>1, <1>3 DEF TypeOK
  <2> QED
    BY <1>2, <1>3, <2>1, <2>2 DEF BackInv
<1>4. CASE Window \/ CommandLine \/ \E t \in Processes : Tidied(t)
  <2>1. PICK t \in Processes, loc \in Goals :
           /\ at' = [at EXCEPT ![t] = loc]
           /\ at[t] # Rest \/ Alone
           /\ UNCHANGED <<place, backup, hand, wish, lost>>
           /\ off' = off \/ at[t] \in {Job("unlink"), Job("tidied")}
    BY <1>1, <1>4, GoesOutside
  <2>2. OneWorks(t)
    BY <1>1, <2>1, Works
  <2>3. Back' = Back
    BY <2>1 DEF Back, Safe
  <2>4. off' => Places \subseteq Back'
    BY <2>1, <2>3 DEF BackInv, UndoFits
  <2>5. UndoFits(loc, Back')
    <3>1. CASE loc \in {Rest} \cup {Job(j) : j \in Jobs \ {"unlink", "tidied"}}
      BY <3>1, UndoJob
    <3>2. CASE \E j \in Walks : loc = Walk(j, 1)
      BY <3>2, UndoWalk
    <3> QED
      BY <2>1, <3>1, <3>2 DEF Goals
  <2> QED
    BY <1>3, <2>1, <2>2, <2>4, <2>5
<1>5. CASE UserEdits
  <2>1. PICK p \in Places, v \in Users :
          /\ backup[p] = "nofile"
          /\ place' = [place EXCEPT ![p] = v] /\ wish' = [wish EXCEPT ![p] = v]
    BY <1>5 DEF UserEdits
  <2>2. UNCHANGED <<backup, at, hand, lost, off>> /\ \A t \in Processes : at[t] = Rest
    BY <1>5 DEF UserEdits, process
  <2>3. Back \subseteq Back'
    BY <1>1, <2>1, <2>2 DEF Back, Safe, TypeOK
  <2>4. \A t \in Processes : UndoFits(at'[t], Back')
    BY <2>2, UndoJob
  <2> QED
    BY <1>2, <2>2, <2>3, <2>4 DEF BackInv
<1>6. ASSUME NEW t \in Processes, Handle(t) PROVE BackInv'
  <2>1. at[t] # Rest
    BY <1>6, Kinds DEF Handle, Take, Save, Put, Give, Drop, Doing
  <2>2. OneWorks(t)
    BY <1>1, <2>1, Works
  <2>3. UndoFits(at'[t], Back') /\ (off' => Places \subseteq Back')
    BY <1>6, <2>2, BackHandle
  <2>4. ASSUME NEW u \in Processes \ {t} PROVE UndoFits(at'[u], Back')
    <3>1. at'[u] = Rest
      BY <1>1, <1>6, <2>2 DEF OneWorks, TypeOK, Handle, Take, Save, Put, Give, Drop,
                              NextPlace, Step, GoTo
    <3> QED
      BY <3>1, UndoJob
  <2> QED
    BY <1>2, <2>3, <2>4 DEF BackInv
<1>7. ASSUME NEW t \in Processes, Crash(t) \/ Tear(t) PROVE BackInv'
  <2>1. at' = [at EXCEPT ![t] = Rest] /\ off' = off /\ Back \subseteq Back'
    BY <1>1, <1>7, DeathLoses DEF Back
  <2>2. ASSUME NEW u \in Processes PROVE UndoFits(at'[u], Back')
    <3>1. CASE u = t
      <4>1. at'[u] = Rest
        BY <1>1, <2>1, <3>1 DEF TypeOK
      <4> QED
        BY <4>1, UndoJob
    <3>2. CASE u # t
      <4>1. at'[u] = at[u]
        BY <1>1, <2>1, <3>2 DEF TypeOK
      <4> QED
        BY <2>1, <4>1 DEF BackInv, UndoFits
    <3> QED
      BY <3>1, <3>2
  <2> QED
    BY <1>2, <2>1, <2>2 DEF BackInv
<1>9. ASSUME NEW t \in Processes, RustdeskFails(t) PROVE BackInv'
  <2>1. at[t].step \in {"put", "save", "give"} /\ PlaceOf(at[t]) = "rustdesk" /\ NextPlace(t)
    BY <1>1, <1>9, RustdeskGoes
  <2>2. OneWorks(t) /\ at[t] \in Locations
    BY <1>1, <2>1, Works, Kinds DEF TypeOK
  <2>3. /\ at[t].job \in Walks /\ at[t].i \in 1 .. 4
        /\ at[t].i + 1 \in 1 .. 5
    BY <2>1, <2>2, Kinds
  <2>4. Back \subseteq Back' /\ off' = off
    BY <1>1, <1>9, RustdeskGoes DEF Back
  <2>5. UndoFits(at[t], Back)
    BY DEF BackInv
  <2>6. at[t].job \in {"teardown", "tidy"} => "rustdesk" \in Back'
    <3> SUFFICES ASSUME at[t].job \in {"teardown", "tidy"}, "rustdesk" \in Safe'
                 PROVE  (place["rustdesk"] = wish["rustdesk"] /\ backup["rustdesk"] = "nofile")'
      BY DEF Back, Places
    <3>1. at[t].step = "give" /\ "rustdesk" \in Safe
      BY <1>1, <1>9, <2>1, <2>5, RustdeskGoes DEF UndoFits
    <3>2. Counts(t, "rustdesk") /\ Doing(t, "give", "rustdesk")
      BY <1>1, <2>1, <3>1 DEF Inv, Doing, PlaceOf
    <3>3. backup["rustdesk"] = "nofile" => hand[t] = "nofile"
      BY <1>9 DEF RustdeskFails, Safe
    <3>4. "rustdesk" \in Places /\ wish["rustdesk"] # "nofile"
      BY <1>1, WishIsUsers DEF Places
    <3>5. UNCHANGED <<place, backup, wish>>
      BY <1>1, <1>9, RustdeskGoes
    <3> QED
      BY <3>2, <3>3, <3>4, <3>5 DEF Counts
  <2>7. at[t].job \in {"teardown", "tidy"} =>
          \A j \in 1 .. 4 : at[t].i + 1 > j => Order(at[t].job)[j] \in Back'
    BY <2>1, <2>3, <2>4, <2>5, <2>6 DEF UndoFits, PlaceOf
  <2>8. UndoFits(Walk(at[t].job, at[t].i + 1), Back')
    BY <2>3, <2>7, UndoWalk
  <2>9. off' => Places \subseteq Back'
    BY <2>4 DEF BackInv
  <2>10. PICK loc : loc = Walk(at[t].job, at[t].i + 1)
    OBVIOUS
  <2> QED
    BY <1>3, <2>1, <2>2, <2>8, <2>9, <2>10 DEF NextPlace, GoTo
<1>8. CASE SingboxDies \/ UNCHANGED vars
  <2>1. UNCHANGED <<place, backup, at, wish, lost, off>>
    BY <1>8 DEF SingboxDies, vars, files, process, history
  <2>2. Back' = Back
    BY <2>1 DEF Back, Safe
  <2> QED
    BY <1>2, <2>1, <2>2 DEF BackInv
<1> QED
  BY <1>4, <1>5, <1>6, <1>7, <1>8, <1>9 DEF Next

\* For any settings, configurations and deaths: unless a command runs beside an
\* operation of the window, once a disconnect or the tidying at a start is through,
\* every setting that no death tore apart and no write failed in is the user's latest
\* again, and its backup is gone (teardown_overrides, teardown_overrides_if_dirty).
THEOREM UndoingGivesBack ==
  ASSUME "overlap" \notin Faults
  PROVE  Spec => []OffGivesBack
<1>1. BackInv => OffGivesBack
  BY DEF BackInv, OffGivesBack, Back, Safe
<1> QED
  BY BackInit, BackNext, <1>1, PTL DEF Spec

-----------------------------------------------------------------------------
(* What a connect overrides stays overridden. *)

\* The places that are as a connect leaves them: the browser has a backup, the
\* other two are ours if they are asked for, RustDesk's if it could be written.
Overridden(p) ==
  /\ p = "browser" => place[p] = Own(p) /\ backup[p] # "nofile"
  /\ p = "git" /\ mode.tun => place[p] = "ours"
  /\ p = "rustdesk" /\ mode.rustdesk /\ p \in Safe => place[p] = "ours"

Ours == {p \in Places : Overridden(p)}

\* Who connects has overridden the places he has come by.
ConnectFits(loc, ours) ==
  /\ loc.step # "none" /\ loc.job = "apply" =>
       \A j \in 1 .. 4 : loc.i > j => Order(loc.job)[j] \in ours
  /\ loc.step # "none" /\ loc.job = "again" => Places \subseteq ours
  /\ loc \in {Job("state"), Job("connected")} => Places \subseteq ours

\* What he counts on: he is not connected yet, undoes only what is not asked for,
\* and has saved what the browser had; docker-env comes by docker only.
Connects(loc) ==
  /\ loc.step # "none" /\ loc.job \in {"apply", "again"} =>
       /\ ~linked
       /\ loc.step \in {"take", "give", "drop"} => Undoes(loc.job, PlaceOf(loc))
       /\ loc.step = "put" /\ PlaceOf(loc) = "browser" => backup["browser"] # "nofile"
       /\ loc.step = "save" /\ PlaceOf(loc) = "rustdesk" => place["rustdesk"] = "ours"
  /\ loc \in {Job("launch"), Job("state"), Job("connected")} => ~linked
  /\ loc.step # "none" /\ loc.job = "docker" => loc.i = 1

\* Nobody but docker-env is at a place.
OnlyDocker == \A t \in Processes : at[t].step # "none" => at[t].job = "docker"

LinkInv ==
  /\ Inv
  /\ \A t \in Processes : ConnectFits(at[t], Ours) /\ Connects(at[t])
  /\ linked /\ up => Places \subseteq Ours /\ OnlyDocker

\* Where a walk is, and what it ends with.
LEMMA WalkFacts ==
  ASSUME NEW job \in Walks, NEW i \in 1 .. 5
  PROVE  /\ Walk(job, i).step # "none" =>
              /\ Walk(job, i).job = job /\ Walk(job, i).i = i
              /\ PlaceOf(Walk(job, i)) = Order(job)[i]
              /\ job = "docker" => i = 1
              /\ Walk(job, i) \notin {Job(j) : j \in Jobs}
         /\ Walk(job, i).step \in {"take", "give"} => Undoes(job, PlaceOf(Walk(job, i)))
         /\ Walk(job, i).step = "none" => Walk(job, i) = After(job) /\ i > Len(Order(job))
<1>1. CASE /\ Walk(job, i).job = job /\ Walk(job, i).i = i
           /\ Len(Order(job)) >= i
           /\ Walk(job, i).step \in {"save", "put", "take", "give"}
           /\ Walk(job, i).step \in {"take", "give"} <=> Undoes(job, Order(job)[i])
  <2>1. job = "docker" => i = 1
    BY <1>1 DEF Order
  <2>2. Walk(job, i) \notin {Job(j) : j \in Jobs}
    BY <1>1, Kinds
  <2> QED
    BY <1>1, <2>1, <2>2 DEF PlaceOf
<1>2. CASE Walk(job, i) = After(job) /\ i > Len(Order(job))
  BY <1>2, AfterIs
<1> QED
  BY <1>1, <1>2, WalkIs

LEMMA ConnectWalk ==
  ASSUME NEW job \in Walks, NEW i \in 1 .. 5, NEW ours,
         job = "apply" => \A j \in 1 .. 4 : i > j => Order(job)[j] \in ours,
         job = "again" => Places \subseteq ours
  PROVE  ConnectFits(Walk(job, i), ours)
<1>1. CASE Walk(job, i).step # "none"
  BY <1>1, WalkFacts DEF ConnectFits, Jobs
<1>2. CASE Walk(job, i).step = "none"
  <2>1. Walk(job, i) = After(job) /\ i > Len(Order(job))
    BY <1>2, WalkFacts
  <2>2. job = "apply" => Places \subseteq ours
    <3> SUFFICES ASSUME job = "apply", NEW p \in Places PROVE p \in ours
      OBVIOUS
    <3>1. PICK j \in 1 .. 4 : Order(job)[j] = p
      BY OrderIs
    <3>2. i > j
      BY <2>1, OrderIs
    <3> QED
      BY <3>1, <3>2
  <2> QED
    BY <1>2, <2>1, <2>2, AfterIs DEF ConnectFits
<1> QED
  BY <1>1, <1>2

\* Who rests, or is at a job that is no part of a connect, is fine.
LEMMA ConnectJob ==
  ASSUME NEW loc \in {Rest} \cup {Job(j) : j \in Jobs \ {"launch", "state", "connected"}}, NEW ours
  PROVE  /\ loc.step = "none" /\ loc \notin {Job("launch"), Job("state"), Job("connected")}
         /\ ConnectFits(loc, ours)
<1>1. loc.step = "none" /\ loc \notin {Job("launch"), Job("state"), Job("connected")}
  BY DEF Rest, Job, Jobs
<1> QED
  BY <1>1 DEF ConnectFits

\* A connect keeps what is overridden, and what it has passed is; docker-env
\* touches nothing of this.
LEMMA ConnectOverrides ==
  ASSUME LinkInv, NEW t \in Processes, NEW p \in Places, at[t].job \in {"apply", "again", "docker"},
         Save(t, p) \/ Put(t, p) \/ (Take(t) /\ p = "rustdesk") \/ Give(t, p) \/ Drop(t, p)
  PROVE  /\ Ours \subseteq Ours'
         /\ NextPlace(t) => p \in Ours'
<1>1. TypeOK /\ mode' = mode /\ Connects(at[t]) /\ Safe' = Safe
  BY DEF LinkInv, Inv, Save, Put, Take, Give, Drop, Beside, Safe
<1>2. at[t].step # "none" /\ p = PlaceOf(at[t])
  BY <1>1, OnePlace
<1>3. Ours \ {p} \subseteq Ours'
  BY <1>1, OnePlace DEF Ours, Overridden, Own, Safe
<1>4. /\ place \in [Places -> Values]
      /\ backup \in [Places -> Files]
  BY <1>1 DEF TypeOK
<1>5. CASE p = "docker"
  BY <1>3, <1>5 DEF Ours, Overridden
<1>6. CASE p # "docker" /\ Save(t, p)
  <2>1. place'[p] = place[p]
    BY <1>6 DEF Save
  <2>2. p = "browser" => backup'[p] # "nofile"
    BY <1>4, <1>6, OverridesAssumption DEF Save, Values
  <2>3. NextPlace(t) => p = "rustdesk"
    <3> SUFFICES ASSUME p # "rustdesk", NextPlace(t) PROVE FALSE
      OBVIOUS
    <3>1. at'[t].step = "put" /\ PlaceOf(at'[t]) = p
      BY <1>1, <1>2, <1>6, StepGoes DEF Save
    <3> QED
      BY <1>1, <1>2, <3>1, NextGoes
  <2>4. p = "rustdesk" => place[p] = "ours"
    <3>1. at[t].job # "docker" \/ p = "docker"
      BY <1>1, <1>2 DEF Connects, PlaceOf, Order
    <3> QED
      BY <1>1, <1>2, <1>6, <3>1 DEF Connects, Save, Doing
  <2>5. p \in Ours \/ NextPlace(t) => p \in Ours'
    BY <1>1, <2>1, <2>2, <2>3, <2>4 DEF Ours, Overridden, Own, Safe
  <2> QED
    BY <1>3, <2>5
<1>7. CASE p # "docker" /\ Put(t, p)
  <2>1. place'[p] = Own(p) /\ backup' = backup
    BY <1>4, <1>7 DEF Put
  <2>2. p = "browser" => backup[p] # "nofile"
    <3>1. at[t].job # "docker" \/ p = "docker"
      BY <1>1, <1>2 DEF Connects, PlaceOf, Order
    <3> QED
      BY <1>1, <1>2, <1>7, <3>1 DEF Connects, Put, Doing
  <2>3. p \in Ours'
    BY <1>1, <2>1, <2>2 DEF Ours, Overridden, Own, Safe
  <2> QED
    BY <1>3, <2>3
<1>8. CASE p # "docker" /\ ((Take(t) /\ p = "rustdesk") \/ Give(t, p) \/ Drop(t, p))
  <2>1. at[t].step \in {"take", "give", "drop"}
    BY <1>8 DEF Take, Give, Drop, Doing
  <2>2. at[t].job # "docker" \/ p = "docker"
    BY <1>1, <1>2 DEF Connects, PlaceOf, Order
  <2>3. Undoes(at[t].job, p)
    BY <1>1, <1>2, <1>8, <2>1, <2>2 DEF Connects
  <2>4. (p = "git" /\ ~mode.tun) \/ (p = "rustdesk" /\ ~mode.rustdesk)
    BY <1>8, <2>2, <2>3 DEF Undoes
  <2>5. p \in Ours'
    BY <1>1, <2>4 DEF Ours, Overridden
  <2> QED
    BY <1>3, <2>5
<1> QED
  BY <1>5, <1>6, <1>7, <1>8

\* The work at one place.
LEMMA LinkHandle ==
  ASSUME LinkInv, NEW t \in Processes, OneWorks(t), Handle(t)
  PROVE  /\ ConnectFits(at[t], Ours)' /\ Connects(at[t])'
         /\ (linked /\ up)' => Places \subseteq Ours'
             /\ (at'[t].step # "none" => at'[t].job = "docker")
<1>1. PICK p \in Places :
        Save(t, p) \/ Put(t, p) \/ (Take(t) /\ p = "rustdesk") \/ Give(t, p) \/ Drop(t, p)
  BY DEF Handle, Places
<1>2. TypeOK /\ at[t] \in Locations /\ mode' = mode /\ linked' = linked /\ up' = up
  BY <1>1 DEF LinkInv, Inv, TypeOK, Save, Put, Take, Give, Drop, Beside
<1>3. at[t].step # "none" /\ p = PlaceOf(at[t])
  BY <1>1, <1>2, OnePlace
<1>4. /\ at[t].job \in Walks /\ at[t].i \in 1 .. 4
      /\ at[t].i + 1 \in 1 .. 5
  BY <1>2, <1>3, Kinds
<1>5. ConnectFits(at[t], Ours) /\ Connects(at[t])
  BY DEF LinkInv
<1>6. at[t].job \in {"apply", "again", "docker"} =>
        Ours \subseteq Ours' /\ (NextPlace(t) => p \in Ours')
  BY <1>1, ConnectOverrides
<1>7. linked /\ up => Places \subseteq Ours' /\ at[t].job = "docker"
  BY <1>3, <1>6 DEF LinkInv, OnlyDocker
<1>8. CASE NextPlace(t)
  <2>w. PICK loc : loc = Walk(at[t].job, at[t].i + 1)
    OBVIOUS
  <2>1. at'[t] = loc
    BY <1>2, <1>8, <2>w DEF NextPlace, GoTo, TypeOK
  <2>2. /\ at[t].job = "again" => Places \subseteq Ours'
        /\ at[t].job = "apply" =>
             \A j \in 1 .. 4 : at[t].i + 1 > j => Order(at[t].job)[j] \in Ours'
    BY <1>3, <1>4, <1>5, <1>6, <1>8 DEF ConnectFits, PlaceOf
  <2>3. ConnectFits(loc, Ours')
    BY <1>4, <2>2, <2>w, ConnectWalk
  <2>4. /\ loc.step # "none" =>
             /\ loc.job = at[t].job
             /\ loc.job = "docker" => loc.i = 1
             /\ loc \notin {Job(j) : j \in Jobs}
        /\ loc.step \in {"take", "give"} => Undoes(at[t].job, PlaceOf(loc))
        /\ loc.step = "none" => loc = After(at[t].job)
    BY <1>4, <2>w, WalkFacts
  <2>5. /\ loc.step \in {"none", "save", "put", "take", "give"}
        /\ loc.step = "put" => PlaceOf(loc) = "rustdesk"
        /\ loc.step = "save" => PlaceOf(loc) # "rustdesk"
    BY <1>4, <2>w, WalkGoes
  <2>6. at[t].job \in {"apply", "again"} => ~linked
    BY <1>3, <1>5 DEF Connects
  <2>7. loc.step \in {"take", "give"} /\ loc.job \in {"apply", "again"} =>
          Undoes(loc.job, PlaceOf(loc))'
    BY <1>2, <2>4 DEF Undoes
  <2>8. loc \in {Job("launch"), Job("state"), Job("connected")} =>
          at[t].job \in {"apply", "again"}
    <3>1. loc \in {Job("launch"), Job("state"), Job("connected")} => loc \in {Job(j) : j \in Jobs}
      BY DEF Jobs
    <3> QED
      BY <1>4, <2>4, <3>1, AfterIs
  <2>9. Connects(at[t])'
    BY <1>2, <2>1, <2>4, <2>5, <2>6, <2>7, <2>8 DEF Connects
  <2> QED
    BY <1>2, <1>7, <2>1, <2>3, <2>4, <2>9
<1>9. ASSUME NEW step \in {"save", "put", "take", "give", "drop"}, Step(t, step),
             ~NextPlace(t)
      PROVE  /\ ConnectFits(at[t], Ours)' /\ Connects(at[t])'
             /\ at'[t].job = at[t].job
  <2>1. at'[t] = [at[t] EXCEPT !.step = step]
    BY <1>2, <1>9 DEF Step, GoTo, TypeOK
  <2>2. at[t] \in [job : Walks, step : {"save", "put", "take", "give", "drop"}, i : 1 .. 4]
    BY <1>2, <1>3 DEF Locations, Rest, Job
  <2>3. /\ at'[t].job = at[t].job /\ at'[t].i = at[t].i /\ at'[t].step = step
        /\ PlaceOf(at'[t]) = p
    BY <1>3, <2>1, <2>2 DEF PlaceOf
  <2>4. at'[t] \notin {Job("launch"), Job("state"), Job("connected")}
    BY <2>3 DEF Job, Rest
  <2>5. ConnectFits(at'[t], Ours')
    BY <1>3, <1>5, <1>6, <2>3, <2>4 DEF ConnectFits
  <2>6. ASSUME at[t].job \in {"apply", "again"}
        PROVE  /\ ~linked'
               /\ step \in {"take", "give", "drop"} => Undoes(at[t].job, p)'
               /\ step = "put" /\ p = "browser" => backup'["browser"] # "nofile"
               /\ step = "save" /\ p = "rustdesk" => place'["rustdesk"] = "ours"
    <3>1. ~linked'
      BY <1>2, <1>3, <1>5, <2>6 DEF Connects
    <3>2. /\ place \in [Places -> Values]
          /\ backup \in [Places -> Files]
      BY <1>2 DEF TypeOK
    <3>3. /\ Save(t, p) => step = "put"
          /\ Put(t, p) => step = "save" /\ p = "rustdesk"
          /\ Take(t) /\ p = "rustdesk" => step = "give"
          /\ Give(t, p) => step = "drop"
          /\ ~Drop(t, p)
      <4>1. \A s \in {"save", "put", "take", "give", "drop"} : Step(t, s) => step = s
        BY <1>2, <1>3, <2>3, StepGoes
      <4> QED
        BY <1>9, <4>1 DEF Save, Put, Take, Give, Drop
    <3>4. CASE Save(t, p)
      BY <3>1, <3>2, <3>3, <3>4, OverridesAssumption DEF Save, Values
    <3>5. CASE Put(t, p)
      BY <3>1, <3>2, <3>3, <3>5 DEF Put, Own
    <3>6. CASE (Take(t) /\ p = "rustdesk") \/ Give(t, p)
      <4>1. Undoes(at[t].job, p)
        BY <1>3, <1>5, <2>6, <3>6 DEF Connects, Take, Give, Doing
      <4>2. Undoes(at[t].job, p)'
        BY <1>2, <2>3, <2>6, <4>1 DEF Undoes
      <4> QED
        BY <3>1, <3>3, <3>6, <4>2
    <3> QED
      BY <1>1, <3>3, <3>4, <3>5, <3>6
  <2>7. Connects(at[t])'
    BY <1>3, <1>5, <2>3, <2>4, <2>6 DEF Connects
  <2> QED
    BY <2>3, <2>5, <2>7
<1>10. NextPlace(t) \/ \E step \in {"save", "put", "take", "give", "drop"} : Step(t, step)
  BY <1>1 DEF Save, Put, Take, Give, Drop
<1> QED
  BY <1>2, <1>7, <1>8, <1>9, <1>10

LEMMA LinkInit == Init => LinkInv
<1> SUFFICES ASSUME Init PROVE LinkInv
  OBVIOUS
<1>1. \A t \in Processes : ConnectFits(at[t], Ours) /\ Connects(at[t])
  BY ConnectJob DEF Init, Connects
<1> QED
  BY InvInit, <1>1 DEF Init, LinkInv

\* A step of t alone; the others rest.
LEMMA LinkMoves ==
  ASSUME LinkInv, Inv', NEW t \in Processes, OneWorks(t), NEW loc, at' = [at EXCEPT ![t] = loc],
         ConnectFits(loc, Ours'),
         loc.step # "none" \/ loc \in {Job("launch"), Job("state"), Job("connected")} =>
           Connects(at[t])',
         (linked /\ up)' => Places \subseteq Ours' /\ (loc.step # "none" => loc.job = "docker")
  PROVE  LinkInv'
<1>1. TypeOK
  BY DEF LinkInv, Inv
<1>2. at'[t] = loc
  BY <1>1 DEF TypeOK
<1>3. ASSUME NEW u \in Processes \ {t}
      PROVE  ConnectFits(at'[u], Ours') /\ Connects(at[u])' /\ at'[u].step = "none"
  <2>1. at'[u] = Rest
    BY <1>1 DEF OneWorks, TypeOK
  <2> QED
    BY <2>1, ConnectJob DEF Connects
<1>4. Connects(at[t])'
  BY <1>2 DEF Connects
<1> QED
  BY <1>2, <1>3, <1>4 DEF LinkInv, OnlyDocker

\* The first place of a walk.
LEMMA FirstPlace ==
  ASSUME NEW job \in Walks
  PROVE  /\ Walk(job, 1).step # "none" /\ Walk(job, 1).job = job /\ Walk(job, 1).i = 1
         /\ Walk(job, 1) \notin {Job(j) : j \in Jobs}
         /\ Walk(job, 1).step \in {"take", "give"} => Undoes(job, PlaceOf(Walk(job, 1)))
         /\ Walk(job, 1).step # "drop"
         /\ Walk(job, 1).step = "put" => PlaceOf(Walk(job, 1)) = "rustdesk"
         /\ Walk(job, 1).step = "save" => PlaceOf(Walk(job, 1)) # "rustdesk"
<1>1. Len(Order(job)) \in {1, 4}
  BY DEF Order
<1>2. ~(1 > Len(Order(job)))
  BY <1>1
<1> QED
  BY <1>2, WalkFacts, WalkGoes

\* Steps at no place.
LEMMA LinkOutside ==
  ASSUME LinkInv, Inv', "overlap" \notin Faults,
         Window \/ CommandLine \/ \E t \in Processes : Tidied(t)
  PROVE  LinkInv'
<1>1. Inv /\ TypeOK
  BY DEF LinkInv, Inv
<1>g. "gui" \in Processes /\ "cli" \in Processes
  BY DEF Processes
<1>k. \A j \in Jobs : Job(j) # Rest /\ Job(j).step = "none"
  BY DEF Job, Rest, Jobs
<1>2. ASSUME NEW t \in Processes, OneWorks(t), UNCHANGED <<place, backup, mode, linked, up, lost>>,
             NEW job \in {"tidy", "leave"},
             NEW other \in {Rest} \cup {Job(j) : j \in Jobs \ {"launch", "state", "connected"}},
             Tidy(t, job, other)
      PROVE  LinkInv'
  <2>1. Ours' = Ours
    BY <1>2 DEF Ours, Overridden, Own, Safe
  <2>2. CASE at' = [at EXCEPT ![t] = other]
    BY <1>1, <1>2, <2>1, <2>2, ConnectJob, LinkMoves DEF LinkInv
  <2>3. CASE ~up /\ at' = [at EXCEPT ![t] = Walk(job, 1)]
    <3>w. PICK loc : loc = Walk(job, 1)
      OBVIOUS
    <3>1. /\ loc.job = job /\ loc \notin {Job(j) : j \in Jobs}
          /\ ConnectFits(loc, Ours')
      BY <3>w, FirstPlace, ConnectWalk DEF Walks
    <3>2. at'[t] = loc
      BY <1>1, <2>3, <3>w DEF TypeOK
    <3>3. Connects(at[t])'
      BY <3>1, <3>2 DEF Connects, Jobs
    <3> QED
      BY <1>1, <1>2, <2>3, <3>w, <3>1, <3>3, LinkMoves
  <2> QED
    BY <1>2, <2>2, <2>3 DEF Tidy, GoTo
<1>3. CASE Open
  BY <1>1, <1>2, <1>3, <1>g, Works DEF Open, files, history
<1>4. CASE Command \/ Exit
  <2>1. OneWorks("cli")
    BY <1>1, <1>4, <1>g, <1>k, Works DEF Command, Exit, Jobs
  <2> QED
    BY <1>2, <1>4, <1>g, <2>1 DEF Command, Exit, files, history, Jobs
<1>5. CASE Close \/ Disconnect
  <2>1. OneWorks("gui") /\ linked' = FALSE
    BY <1>1, <1>5, <1>g, Works DEF Close, Disconnect
  <2>2. PICK loc \in {Rest, Walk("leave", 1), Walk("teardown", 1)} :
        at' = [at EXCEPT !["gui"] = loc]
    BY <1>5 DEF Close, Disconnect, Tidy, GoTo
  <2>3. ConnectFits(loc, Ours')
    BY ConnectJob, ConnectWalk DEF Walks
  <2>4. loc = Rest \/ (loc.job \in {"leave", "teardown"} /\ loc \notin {Job(j) : j \in Jobs})
    BY FirstPlace DEF Walks
  <2>5. at'["gui"] = loc
    BY <1>1, <1>g, <2>2 DEF TypeOK
  <2>6. Connects(at["gui"])'
    BY <1>k, <2>4, <2>5, Kinds DEF Connects, Jobs
  <2> QED
    BY <1>g, <2>1, <2>2, <2>3, <2>6, LinkMoves
<1>6. CASE Connect
  <2>1. OneWorks("gui") /\ linked' = FALSE /\ at' = [at EXCEPT !["gui"] = Job("launch")]
    BY <1>1, <1>6, <1>g, Works DEF Connect, GoTo
  <2>2. ConnectFits(Job("launch"), Ours') /\ Job("launch").step = "none"
    BY DEF ConnectFits, Job, Rest
  <2>3. at'["gui"] = Job("launch")
    BY <1>1, <1>g, <2>1 DEF TypeOK
  <2>4. Connects(at["gui"])'
    BY <2>1, <2>2, <2>3 DEF Connects
  <2> QED
    BY <1>g, <2>1, <2>2, <2>4, LinkMoves
<1>7. CASE Launch
  <2>1. OneWorks("gui") /\ ~linked
    BY <1>1, <1>7, <1>g, <1>k, Works DEF Launch, Jobs, LinkInv, Connects
  <2>2. UNCHANGED <<place, backup, mode, linked, lost>>
    BY <1>7 DEF Launch, files, history
  <2>3. PICK loc \in {Rest, Walk("apply", 1)} : at' = [at EXCEPT !["gui"] = loc]
    BY <1>7 DEF Launch, GoTo
  <2>4. ConnectFits(loc, Ours')
    BY ConnectJob, ConnectWalk DEF Walks
  <2>5. at'["gui"] = loc
    BY <1>1, <1>g, <2>3 DEF TypeOK
  <2>6. Connects(at["gui"])'
    <3>1. CASE loc = Rest
      BY <2>5, <3>1, ConnectJob DEF Connects
    <3>2. CASE loc = Walk("apply", 1)
      <4>1. /\ loc.job = "apply" /\ loc \notin {Job(j) : j \in Jobs}
            /\ loc.step \in {"take", "give"} => Undoes("apply", PlaceOf(loc))
            /\ loc.step # "drop"
            /\ loc.step = "put" => PlaceOf(loc) = "rustdesk"
            /\ loc.step = "save" => PlaceOf(loc) # "rustdesk"
        BY <3>2, FirstPlace DEF Walks
      <4>2. loc.step \in {"take", "give"} => Undoes("apply", PlaceOf(loc))'
        BY <2>2, <4>1 DEF Undoes
      <4> QED
        BY <2>1, <2>2, <2>5, <4>1, <4>2 DEF Connects, Jobs
    <3> QED
      BY <3>1, <3>2
  <2> QED
    BY <1>g, <2>1, <2>2, <2>3, <2>4, <2>6, LinkMoves
<1>8. CASE ApplyFails
  <2>1. /\ at["gui"].step # "none" /\ at["gui"].job \in {"apply", "again"}
        /\ UNCHANGED <<place, backup, mode, linked, up, lost>>
    BY <1>8 DEF ApplyFails, Doing, files, history
  <2>2. OneWorks("gui") /\ ~linked /\ Ours' = Ours
    <3>1. at["gui"] # Rest
      BY <2>1, Kinds
    <3>2. OneWorks("gui")
      BY <1>1, <1>g, <3>1, Works
    <3>3. ~linked
      BY <1>g, <2>1 DEF LinkInv, Connects
    <3>4. Ours' = Ours
      BY <2>1 DEF Ours, Overridden, Own, Safe
    <3> QED
      BY <3>2, <3>3, <3>4
  <2>3. CASE at' = [at EXCEPT !["gui"] = Rest]
    BY <1>g, <2>1, <2>2, <2>3, ConnectJob, LinkMoves
  <2>4. CASE at["gui"].job = "again" /\ at' = [at EXCEPT !["gui"] = Job("connected")]
    <3>1. ConnectFits(Job("connected"), Ours') /\ Job("connected").step = "none"
      BY <1>g, <1>k, <2>1, <2>2, <2>4 DEF LinkInv, ConnectFits, Jobs
    <3>2. at'["gui"] = Job("connected")
      BY <1>1, <1>g, <2>4 DEF TypeOK
    <3>3. Connects(at["gui"])'
      BY <2>1, <2>2, <3>1, <3>2 DEF Connects
    <3> QED
      BY <1>g, <2>1, <2>2, <2>4, <3>1, <3>3, LinkMoves
  <2> QED
    BY <1>8, <2>1, <2>3, <2>4 DEF ApplyFails, GoTo
<1>9. CASE WriteState
  <2>1. at["gui"] = Job("state") /\ UNCHANGED <<place, backup, mode, linked, up, lost>>
    BY <1>9 DEF WriteState, history
  <2>2. OneWorks("gui") /\ ~linked /\ Ours' = Ours /\ Places \subseteq Ours
    BY <1>1, <1>g, <1>k, <2>1, Works
    DEF LinkInv, Connects, ConnectFits, Ours, Overridden, Own, Safe, Jobs
  <2>3. PICK loc \in {Job("connected"), Walk("again", 1)} : at' = [at EXCEPT !["gui"] = loc]
    BY <1>9 DEF WriteState, GoTo
  <2>4. at'["gui"] = loc
    BY <1>1, <1>g, <2>3 DEF TypeOK
  <2>5. CASE loc = Job("connected")
    <3>1. ConnectFits(loc, Ours') /\ loc.step = "none"
      BY <1>k, <2>2, <2>5 DEF ConnectFits, Jobs
    <3>2. Connects(at["gui"])'
      BY <2>1, <2>2, <2>4, <3>1 DEF Connects
    <3> QED
      BY <1>g, <2>1, <2>2, <2>3, <3>1, <3>2, LinkMoves
  <2>6. CASE loc = Walk("again", 1)
    <3>1. ConnectFits(loc, Ours')
      BY <2>2, <2>6, ConnectWalk DEF Walks
    <3>2. /\ loc.job = "again" /\ loc \notin {Job(j) : j \in Jobs}
          /\ loc.step \in {"take", "give"} => Undoes("again", PlaceOf(loc))
          /\ loc.step # "drop"
          /\ loc.step = "put" => PlaceOf(loc) = "rustdesk"
          /\ loc.step = "save" => PlaceOf(loc) # "rustdesk"
      BY <2>6, FirstPlace DEF Walks
    <3>3. loc.step \in {"take", "give"} => Undoes("again", PlaceOf(loc))'
      BY <2>1, <3>2 DEF Undoes
    <3>4. Connects(at["gui"])'
      BY <2>1, <2>2, <2>4, <3>2, <3>3 DEF Connects, Jobs
    <3> QED
      BY <1>g, <2>1, <2>2, <2>3, <3>1, <3>4, LinkMoves
  <2> QED
    BY <2>5, <2>6
<1>10. CASE Connected
  <2>1. /\ at["gui"] = Job("connected") /\ UNCHANGED <<place, backup, mode, lost>>
        /\ at' = [at EXCEPT !["gui"] = Rest]
    BY <1>10 DEF Connected, files, GoTo
  <2>2. OneWorks("gui") /\ Ours' = Ours /\ Places \subseteq Ours
    BY <1>1, <1>g, <1>k, <2>1, Works DEF LinkInv, ConnectFits, Ours, Overridden, Own, Safe, Jobs
  <2> QED
    BY <1>g, <2>1, <2>2, ConnectJob, LinkMoves
<1>11. CASE Unlink
  <2>1. /\ at["gui"] = Job("unlink") /\ UNCHANGED <<place, backup, mode, linked, up, lost>>
        /\ at' = [at EXCEPT !["gui"] = Rest]
    BY <1>11 DEF Unlink, GoTo
  <2>2. OneWorks("gui") /\ Ours' = Ours
    BY <1>1, <1>g, <1>k, <2>1, Works DEF Ours, Overridden, Own, Safe, Jobs
  <2> QED
    BY <1>g, <2>1, <2>2, ConnectJob, LinkMoves DEF LinkInv
<1>12. CASE Runs
  <2>1. at["cli"] = Job("command") /\ UNCHANGED <<place, backup, mode, linked, up, lost>>
    BY <1>12 DEF Runs, files, history
  <2>2. OneWorks("cli") /\ Ours' = Ours
    BY <1>1, <1>g, <1>k, <2>1, Works DEF Ours, Overridden, Own, Safe, Jobs
  <2>3. CASE at' = [at EXCEPT !["cli"] = Job("exit")]
    BY <1>g, <2>1, <2>2, <2>3, ConnectJob, LinkMoves DEF LinkInv, Jobs
  <2>4. CASE at' = [at EXCEPT !["cli"] = Walk("docker", 1)]
    <3>w. PICK loc : loc = Walk("docker", 1)
      OBVIOUS
    <3>1. /\ loc.job = "docker" /\ loc.i = 1 /\ loc \notin {Job(j) : j \in Jobs}
          /\ ConnectFits(loc, Ours')
      BY <3>w, FirstPlace, ConnectWalk DEF Walks
    <3>2. at'["cli"] = loc
      BY <1>1, <1>g, <2>4, <3>w DEF TypeOK
    <3>3. Connects(at["cli"])'
      BY <3>1, <3>2 DEF Connects, Jobs
    <3> QED
      BY <1>g, <2>1, <2>2, <2>4, <3>w, <3>1, <3>3, LinkMoves DEF LinkInv
  <2> QED
    BY <1>12, <2>3, <2>4 DEF Runs, GoTo
<1>13. ASSUME NEW t \in Processes, Tidied(t) PROVE LinkInv'
  <2>1. /\ at[t] = Job("tidied") /\ UNCHANGED <<place, backup, mode, linked, up, lost>>
        /\ \E loc \in {Rest, Job("command")} : at' = [at EXCEPT ![t] = loc]
    BY <1>13 DEF Tidied, GoTo, files
  <2>2. OneWorks(t) /\ Ours' = Ours
    BY <1>1, <1>k, <2>1, Works DEF Ours, Overridden, Own, Safe, Jobs
  <2>3. PICK loc \in {Rest} \cup {Job(j) : j \in Jobs \ {"launch", "state", "connected"}} :
          at' = [at EXCEPT ![t] = loc]
    BY <2>1 DEF Jobs
  <2> QED
    BY <2>1, <2>2, <2>3, ConnectJob, LinkMoves DEF LinkInv
<1> QED
  BY <1>3, <1>4, <1>5, <1>6, <1>7, <1>8, <1>9, <1>10, <1>11, <1>12, <1>13
  DEF Window, CommandLine

\* Every step keeps what is overridden.
LEMMA LinkNext ==
  ASSUME "overlap" \notin Faults
  PROVE  LinkInv /\ [Next]_vars => LinkInv'
<1> SUFFICES ASSUME LinkInv, [Next]_vars PROVE LinkInv'
  OBVIOUS
<1>1. Inv /\ TypeOK
  BY DEF LinkInv, Inv
<1>2. Inv'
  BY <1>1, InvNext
<1>3. CASE Window \/ CommandLine \/ \E t \in Processes : Tidied(t)
  BY <1>2, <1>3, LinkOutside
<1>4. CASE UserEdits
  <2>1. PICK p \in Places, v \in Users :
          /\ backup[p] = "nofile" /\ place[p] # "ours"
          /\ place' = [place EXCEPT ![p] = v]
    BY <1>4 DEF UserEdits
  <2>2. /\ UNCHANGED <<backup, at, mode, up, linked, lost>>
        /\ \A t \in Processes : at[t] = Rest
    BY <1>4 DEF UserEdits, process
  <2>3. \A t \in Processes : ConnectFits(at'[t], Ours') /\ Connects(at[t])' /\ at'[t].step = "none"
    BY <2>2, ConnectJob DEF Connects
  <2>4. ASSUME NEW q \in Ours, linked /\ up PROVE q \in Ours'
    <3>1. Overridden(q) /\ q \in Places /\ Places \subseteq Ours
      BY <2>4 DEF Ours, LinkInv
    <3>2. q # p => place'[q] = place[q]
      BY <1>1, <2>1, <3>1 DEF TypeOK
    <3>3. /\ p # "browser" /\ (p = "git" => ~mode.tun)
          /\ p = "rustdesk" => ~mode.rustdesk \/ p \notin Safe
      BY <2>1, <3>1 DEF Ours, Overridden
    <3> QED
      BY <2>2, <3>1, <3>2, <3>3 DEF Ours, Overridden, Own, Safe
  <2> QED
    BY <1>2, <2>2, <2>3, <2>4 DEF LinkInv, OnlyDocker
<1>5. ASSUME NEW t \in Processes, Handle(t) PROVE LinkInv'
  <2>1. at[t] # Rest
    BY <1>5, Kinds DEF Handle, Take, Save, Put, Give, Drop, Doing
  <2>2. OneWorks(t)
    BY <1>1, <2>1, Works
  <2>3. PICK loc : at' = [at EXCEPT ![t] = loc]
    BY <1>5 DEF Handle, Take, Save, Put, Give, Drop, NextPlace, Step, GoTo
  <2>4. at'[t] = loc
    BY <1>1, <2>3 DEF TypeOK
  <2>5. /\ ConnectFits(at[t], Ours)' /\ Connects(at[t])'
        /\ (linked /\ up)' => Places \subseteq Ours'
            /\ (at'[t].step # "none" => at'[t].job = "docker")
    BY <1>5, <2>2, LinkHandle
  <2> QED
    BY <1>2, <2>2, <2>3, <2>4, <2>5, LinkMoves
<1>6. ASSUME NEW t \in Processes, Crash(t) \/ Tear(t) PROVE LinkInv'
  <2>1. /\ at' = [at EXCEPT ![t] = Rest] /\ place' = place /\ mode' = mode
        /\ \A p \in Places : backup[p] # "nofile" => backup'[p] = backup[p]
        /\ linked' = (linked /\ t # "gui") /\ up' = up /\ Safe' \subseteq Safe
    BY <1>1, <1>6, DeathLoses
  <2>2. Ours \subseteq Ours'
    BY <2>1 DEF Ours, Overridden, Own
  <2>3. ASSUME NEW u \in Processes
        PROVE  /\ ConnectFits(at'[u], Ours') /\ Connects(at[u])'
               /\ at'[u].step # "none" => at[u].step # "none" /\ at'[u].job = at[u].job
    <3>1. CASE u = t
      <4>1. at'[u] = Rest
        BY <1>1, <2>1, <3>1 DEF TypeOK
      <4> QED
        BY <4>1, ConnectJob DEF Connects
    <3>2. CASE u # t
      <4>1. at'[u] = at[u]
        BY <1>1, <2>1, <3>2 DEF TypeOK
      <4>2. ConnectFits(at[u], Ours) /\ Connects(at[u])
        BY DEF LinkInv
      <4>3. ConnectFits(at'[u], Ours')
        BY <2>2, <4>1, <4>2 DEF ConnectFits
      <4>4. Undoes(at[u].job, PlaceOf(at[u])) /\ at[u].job \in {"apply", "again"} =>
              Undoes(at[u].job, PlaceOf(at[u]))'
        BY <2>1, <4>1 DEF Undoes
      <4> QED
        BY <2>1, <4>1, <4>2, <4>3, <4>4 DEF Connects, Places
    <3> QED
      BY <3>1, <3>2
  <2> QED
    BY <1>2, <2>1, <2>2, <2>3 DEF LinkInv, OnlyDocker
<1>7. CASE SingboxDies \/ UNCHANGED vars
  <2>1. UNCHANGED <<place, backup, at, mode, linked, lost>> /\ (up' => up)
    BY <1>7 DEF SingboxDies, vars, files, process, history
  <2>2. Ours' = Ours
    BY <2>1 DEF Ours, Overridden, Own, Safe
  <2>3. ASSUME NEW u \in Processes PROVE Connects(at[u])'
    <3>1. Connects(at[u])
      BY DEF LinkInv
    <3>2. at[u].job \in {"apply", "again"} =>
            Undoes(at[u].job, PlaceOf(at[u]))' = Undoes(at[u].job, PlaceOf(at[u]))
      BY <2>1 DEF Undoes
    <3> QED
      BY <2>1, <3>1, <3>2 DEF Connects
  <2> QED
    BY <1>2, <2>1, <2>2, <2>3 DEF LinkInv, OnlyDocker
<1>8. ASSUME NEW t \in Processes, RustdeskFails(t) PROVE LinkInv'
  <2>1. /\ at[t].step \in {"put", "save", "give"} /\ PlaceOf(at[t]) = "rustdesk"
        /\ NextPlace(t) /\ UNCHANGED <<place, backup, up, mode, linked>>
        /\ Safe' \subseteq Safe
        /\ Connects(at[t]) /\ ConnectFits(at[t], Ours)
    BY <1>1, <1>8, RustdeskGoes DEF LinkInv
  <2>2. OneWorks(t) /\ at[t] \in Locations
    BY <1>1, <2>1, Works, Kinds DEF TypeOK
  <2>3. /\ at[t].job \in Walks /\ at[t].i \in 1 .. 4
        /\ at[t].i + 1 \in 1 .. 5
    BY <2>1, <2>2, Kinds
  <2>4. at[t].job # "docker" /\ ~(linked /\ up)
    <3>1. at[t].job # "docker"
      BY <2>1 DEF Connects, PlaceOf, Order
    <3> QED
      BY <2>1, <3>1 DEF LinkInv, OnlyDocker
  <2>5. Ours \subseteq Ours'
    BY <2>1 DEF Ours, Overridden, Own
  <2>6. at[t].job \in {"apply", "again"} => "rustdesk" \in Ours'
    <3> SUFFICES ASSUME at[t].job \in {"apply", "again"}, mode.rustdesk,
                        "rustdesk" \in Safe'
                 PROVE  place["rustdesk"] = "ours"
      BY <2>1 DEF Ours, Overridden, Places
    <3>1. at[t].step # "put"
      BY <1>8, <2>1 DEF RustdeskFails, Safe, Doing, PlaceOf
    <3>2. at[t].step # "give"
      BY <2>1 DEF Connects, Undoes
    <3> QED
      BY <2>1, <3>1, <3>2 DEF Connects
  <2>7. PICK loc : loc = Walk(at[t].job, at[t].i + 1)
    OBVIOUS
  <2>8. at' = [at EXCEPT ![t] = loc] /\ at'[t] = loc
    BY <1>1, <2>1, <2>7 DEF NextPlace, GoTo, TypeOK
  <2>9. ConnectFits(loc, Ours')
    <3>1. /\ at[t].job = "again" => Places \subseteq Ours'
          /\ at[t].job = "apply" =>
               \A j \in 1 .. 4 : at[t].i + 1 > j => Order(at[t].job)[j] \in Ours'
      BY <2>1, <2>3, <2>5, <2>6 DEF ConnectFits, PlaceOf
    <3> QED
      BY <2>3, <2>7, <3>1, ConnectWalk
  <2>10. /\ loc.step # "none" => /\ loc.job = at[t].job
                                 /\ loc \notin {Job(j) : j \in Jobs}
         /\ loc.step \in {"take", "give"} => Undoes(at[t].job, PlaceOf(loc))
         /\ loc.step = "none" => loc = After(at[t].job)
         /\ loc.step \in {"none", "save", "put", "take", "give"}
         /\ loc.step = "put" => PlaceOf(loc) = "rustdesk"
         /\ loc.step = "save" => PlaceOf(loc) # "rustdesk"
    BY <2>3, <2>7, WalkFacts, WalkGoes
  <2>11. loc \in {Job("launch"), Job("state"), Job("connected")} =>
           at[t].job \in {"apply", "again"}
    <3>1. loc \in {Job("launch"), Job("state"), Job("connected")} => loc \in {Job(j) : j \in Jobs}
      BY DEF Jobs
    <3> QED
      BY <2>3, <2>10, <3>1, AfterIs
  <2>12. Connects(at[t])'
    <3>1. at[t].job \in {"apply", "again"} => ~linked'
      BY <2>1 DEF Connects
    <3>2. loc.step \in {"take", "give"} /\ loc.job \in {"apply", "again"} =>
            Undoes(loc.job, PlaceOf(loc))'
      BY <2>1, <2>10 DEF Undoes
    <3> QED
      BY <2>4, <2>8, <2>10, <2>11, <3>1, <3>2 DEF Connects
  <2> QED
    BY <1>2, <2>1, <2>2, <2>4, <2>8, <2>9, <2>12, LinkMoves
<1> QED
  BY <1>3, <1>4, <1>5, <1>6, <1>7, <1>8 DEF Next

\* For any settings, configurations and deaths: unless a command runs beside an
\* operation of the window, no other run of the program takes away what a connected
\* window has overridden (teardown_overrides_if_dirty asks _vpn_process_up,
\* docker-env comes by docker only).
THEOREM LinkedStaysOverridden ==
  ASSUME "overlap" \notin Faults
  PROVE  Spec => []LinkedIsOverridden
<1>1. LinkInv => LinkedIsOverridden
  BY DEF LinkInv, LinkedIsOverridden, Ours, Overridden, Places
<1> QED
  BY LinkInit, LinkNext, <1>1, PTL DEF Spec

==============================================================================
