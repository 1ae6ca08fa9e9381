------------------------------ MODULE LeakShield ------------------------------
(***************************************************************************)
(* The registry policies that close DNS and WebRTC leaks, lent to the      *)
(* program while it is connected.  What the user had in them is kept in    *)
(* the dictionary of kill-switch.json, which the routines of killswitch    *)
(* and leak_shield share: each of them loads the whole dictionary, works,  *)
(* and writes the whole of it back, and nothing locks the file.  Only the  *)
(* block "leak_shield" of the dictionary is followed here; to the other    *)
(* routines it is something they carry along from their read to their      *)
(* write.  Windows; the program dies and is started again at any moment.   *)
(***************************************************************************)
CONSTANTS
  Keys,         \* the policies
  UserKeys,     \* those under HKEY_CURRENT_USER, which need no rights
  Theirs,       \* what a user may have in a policy, "absent" being one of them
  Ours,         \* what the program puts there
  NoBackup,     \* no backup
  NoCopy,       \* no block
  ShieldFaults  \* what may go wrong, see ShieldAssumption

ASSUME ShieldAssumption ==
  /\ UserKeys \subseteq Keys
  /\ Ours \notin Theirs /\ NoBackup \notin Theirs \cup {Ours}
  /\ NoCopy \notin [Keys -> Theirs \cup {Ours, NoBackup}]
  \* "torn": death between the registry and the file, or inside a write of the file
  \* "rights": the next start of the program is elevated or is not
  \* "slow": the thread that clears the kill switch outlives its join
  \* "overlap": the watchdog seals while an operation is under way
  /\ ShieldFaults \subseteq {"torn", "rights", "slow", "overlap"}

VARIABLES
  policy,  \* the registry
  wish,    \* what the user last put there
  file,    \* the backups in kill-switch.json
  at,      \* per thread the routine it is in, or about to be
  copy,    \* per thread the block it will write back, inside a routine
  admin,   \* the program runs elevated
  up       \* the last operation was not a disconnect, or did not end

shieldVars == <<policy, wish, file, at, copy, admin, up>>

\* The pipeline, ergoms-kill-switch-clear, the watchdog, the window.
ShieldThreads == {"op", "clear", "dog", "ui"}

\* Routines that leave the block alone: of clear, of arming, and prefer_tun_ipv4
\* or suppress_underlay_ipv6 ("prefer").
Carriers == {"ipv6", "metrics", "plan", "prefer"}

Restorers == {"restore", "unshield"}

Routines == Carriers \cup Restorers \cup {"shield", "unlink", "join", "toast"}

Backups == [Keys -> Theirs \cup {Ours, NoBackup}]

NoBackups == [k \in Keys |-> NoBackup]

\* leak_shield.apply reads this as already applied.
Backed(block) == \E k \in Keys : block[k] # NoBackup

Writable(k) == k \in UserKeys \/ admin

Idle(t) == at[t] = "idle"

ShieldInit ==
  /\ policy \in [Keys -> Theirs]
  /\ wish = policy
  /\ file = NoBackups
  /\ at = [t \in ShieldThreads |-> "idle"]
  /\ copy = [t \in ShieldThreads |-> NoCopy]
  /\ admin \in BOOLEAN
  /\ up = FALSE

-----------------------------------------------------------------------------
(***************************************************************************)
(* What follows what.  An operation may arm the kill switch anew, and      *)
(* arming gives up with a clear when the server stops answering.           *)
(***************************************************************************)
Follows(t, c) ==
  CASE c = "restore" -> {"ipv6"}
    [] c = "ipv6" -> {"metrics"}
    [] c = "metrics" -> {"unlink"}
    [] c = "unlink" -> IF t = "op" THEN {"plan", "prefer", "idle"} ELSE {"idle"}
    [] c = "plan" -> {"shield", "restore", "idle"} \cup (IF t = "op" THEN {"prefer"} ELSE {})
    [] c = "prefer" -> {"prefer", "shield"}
    [] c = "shield" -> IF t = "op" THEN {"plan", "idle"} ELSE {"idle"}
    [] c = "unshield" -> IF up THEN {"plan", "idle"} ELSE {"idle"}
    [] OTHER -> {"idle"}

Goes(t) == \E c \in Follows(t, at[t]) : at' = [at EXCEPT ![t] = c]

Stays == UNCHANGED <<policy, wish, admin, up>>

\* An operation of the slot may start: what is left of the last one has ended.
MayBegin ==
  /\ Idle("op")
  /\ Idle("clear") \/ "slow" \in ShieldFaults
  /\ Idle("dog") \/ "overlap" \in ShieldFaults

\* connect and reconnect, by the user or by the watchdog; some clear what is up first.
Connect ==
  /\ MayBegin
  /\ up' = TRUE
  /\ \E c \in {"plan", "restore"} : at' = [at EXCEPT !["op"] = c]
  /\ UNCHANGED <<policy, wish, file, copy, admin>>

TunOff ==
  /\ MayBegin /\ Idle("ui")
  /\ up' = TRUE
  /\ at' = [at EXCEPT !["op"] = "unshield"]
  /\ UNCHANGED <<policy, wish, file, copy, admin>>

\* Variant of Disconnect for sensitivity: routes alone tell that there is
\* something to clear.
DisconnectByRoutes ==
  /\ MayBegin /\ Idle("ui") /\ Idle("clear")
  /\ up' = FALSE
  /\ \/ at' = [at EXCEPT !["op"] = "join", !["clear"] = "restore"]
     \/ UNCHANGED at
  /\ UNCHANGED <<policy, wish, file, copy, admin>>

\* With the file there, or a route, the clearing is a thread's.
Disconnect ==
  /\ MayBegin /\ Idle("ui") /\ Idle("clear")
  /\ up' = FALSE
  /\ \/ at' = [at EXCEPT !["op"] = "join", !["clear"] = "restore"]
     \/ /\ ~Backed(file)
        /\ at' = [at EXCEPT !["op"] = "unshield"]
  /\ UNCHANGED <<policy, wish, file, copy, admin>>

\* Variant of Join for sensitivity: the thread is started and forgotten.
JoinAtOnce ==
  /\ at["op"] = "join"
  /\ Goes("op")
  /\ UNCHANGED <<file, copy>> /\ Stays

Join ==
  /\ at["op"] = "join"
  /\ Idle("clear") \/ "slow" \in ShieldFaults
  /\ Goes("op")
  /\ UNCHANGED <<file, copy>> /\ Stays

\* A step of connect raises, at the latest after the routine it is in.
Fail ==
  /\ at["op"] \notin {"idle", "join"} /\ copy["op"] = NoCopy
  /\ at' = [at EXCEPT !["op"] = "idle"]
  /\ UNCHANGED <<file, copy>> /\ Stays

\* The watchdog seals: the third tick that finds another VPN in the way.
DogSeals ==
  /\ Idle("dog")
  /\ (up /\ Idle("op")) \/ "overlap" \in ShieldFaults
  /\ at' = [at EXCEPT !["dog"] = "plan"]
  /\ UNCHANGED <<file, copy>> /\ Stays

\* The window heard that a connect has ended.
Toast ==
  /\ up /\ Idle("ui") /\ Idle("op")
  /\ at' = [at EXCEPT !["ui"] = "toast"]
  /\ UNCHANGED <<file, copy>> /\ Stays

-----------------------------------------------------------------------------
(***************************************************************************)
(* The routines: a read of the file with what the routine does to the      *)
(* registry, then the write.                                               *)
(***************************************************************************)
Reading(t) == ~Idle(t) /\ copy[t] = NoCopy

Holds(t, block) == copy' = [copy EXCEPT ![t] = block]

Carry(t) ==
  /\ Reading(t) /\ at[t] \in Carriers
  /\ Holds(t, file)
  /\ UNCHANGED <<file, at>> /\ Stays

\* The backups apply will write: those of the first apply are kept.
Applied(found) == IF Backed(found) THEN found ELSE policy

Apply(t) ==
  /\ Reading(t) /\ at[t] = "shield"
  /\ Holds(t, Applied(file))
  /\ policy' = [k \in Keys |-> IF Writable(k) THEN Ours ELSE policy[k]]
  /\ UNCHANGED <<wish, file, at, admin, up>>

\* A policy that cannot be written is passed over; the block goes all the same.
Restore(t) ==
  /\ Reading(t) /\ at[t] \in Restorers /\ Backed(file)
  /\ Holds(t, NoBackups)
  /\ policy' = [k \in Keys |-> IF Writable(k) /\ file[k] # NoBackup THEN file[k] ELSE policy[k]]
  /\ UNCHANGED <<wish, file, at, admin, up>>

NothingToRestore(t) ==
  /\ Reading(t) /\ at[t] \in Restorers /\ ~Backed(file)
  /\ Goes(t)
  /\ UNCHANGED <<file, copy>> /\ Stays

\* The toast was shown: its flag goes, the rest of the block is written back.
Consume(t) ==
  /\ Reading(t) /\ at[t] = "toast" /\ Backed(file)
  /\ Holds(t, file)
  /\ UNCHANGED <<file, at>> /\ Stays

NothingToShow(t) ==
  /\ Reading(t) /\ at[t] = "toast"
  /\ Goes(t)
  /\ UNCHANGED <<file, copy>> /\ Stays

Write(t) ==
  /\ copy[t] # NoCopy
  /\ file' = copy[t]
  /\ Holds(t, NoCopy)
  /\ Goes(t)
  /\ Stays

Unlink(t) ==
  /\ Reading(t) /\ at[t] = "unlink"
  /\ file' = NoBackups
  /\ Goes(t)
  /\ UNCHANGED copy /\ Stays

-----------------------------------------------------------------------------
\* The user changes a policy, the program being off.
UserEdits ==
  /\ ~up /\ \A t \in ShieldThreads : Idle(t)
  /\ \E k \in Keys, v \in Theirs :
       /\ policy' = [policy EXCEPT ![k] = v]
       /\ wish' = [wish EXCEPT ![k] = v]
  /\ UNCHANGED <<file, at, copy, admin, up>>

Torn == "torn" \in ShieldFaults

\* The program dies, or is quit, and is started again: nothing is restored then.
Restart ==
  /\ Torn \/ \A t \in ShieldThreads : at[t] = "shield" => copy[t] = NoCopy
  /\ at' = [t \in ShieldThreads |-> "idle"]
  /\ copy' = [t \in ShieldThreads |-> NoCopy]
  /\ up' = (up \/ ~Idle("op"))
  /\ IF "rights" \in ShieldFaults THEN admin' \in BOOLEAN ELSE UNCHANGED admin
  /\ file' \in {file} \cup {NoBackups : t \in {u \in ShieldThreads : Torn /\ copy[u] # NoCopy}}
  /\ UNCHANGED <<policy, wish>>

Routine(t) ==
  \/ Carry(t) \/ Apply(t) \/ Restore(t) \/ NothingToRestore(t)
  \/ Consume(t) \/ NothingToShow(t) \/ Write(t) \/ Unlink(t)

ShieldNext ==
  \/ Connect \/ TunOff \/ Disconnect \/ Join \/ Fail \/ DogSeals \/ Toast
  \/ \E t \in ShieldThreads : Routine(t)
  \/ UserEdits
  \/ Restart

ShieldSpec == ShieldInit /\ [][ShieldNext]_shieldVars

-----------------------------------------------------------------------------
\* Values and program counters; a thread holds a block only inside a routine
\* that writes one.
ShieldTypeOK ==
  /\ policy \in [Keys -> Theirs \cup {Ours}]
  /\ wish \in [Keys -> Theirs]
  /\ file \in Backups
  /\ at \in [ShieldThreads -> Routines \cup {"idle"}]
  /\ copy \in [ShieldThreads -> Backups \cup {NoCopy}]
  /\ admin \in BOOLEAN /\ up \in BOOLEAN
  /\ \A t \in ShieldThreads : copy[t] # NoCopy => at[t] \notin {"idle", "join", "unlink"}

\* A policy of the user that the program has replaced is written down: in the
\* file, or by the apply that is about to write the file.  Whoever dies or
\* writes next, the way back is not lost (leak_shield.apply, restore).
BackupKept ==
  \A k \in Keys : policy[k] = Ours =>
    \/ file[k] = wish[k]
    \/ \E t \in ShieldThreads : /\ at[t] = "shield" /\ copy[t] # NoCopy
                                /\ copy[t][k] = wish[k]

\* After a disconnect that ended every policy is as the user had it, and no
\* backup is left that a later apply would take for the user's wish
\* (pipeline.disconnect, killswitch.clear).
PolicyReturned ==
  (~up /\ \A t \in ShieldThreads : Idle(t)) => policy = wish /\ ~Backed(file)

\* The program gives a policy no value but its own and the user's latest: a
\* backup of an earlier session never comes back (leak_shield.restore).
Lent ==
  [][\A k \in Keys : policy'[k] # policy[k] => policy'[k] \in {Ours, wish'[k]}]_shieldVars
===============================================================================
