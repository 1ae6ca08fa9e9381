--------------------------- MODULE LeakShieldProofs ---------------------------
(***************************************************************************)
(* With none of the ShieldFaults, what LeakShield promises holds for any   *)
(* policies and any values: at most one thread besides the window is in a  *)
(* routine at a time, so a block is either empty or the user's wish, and   *)
(* an empty block is only on its way to the file when nothing is lent.     *)
(***************************************************************************)
EXTENDS LeakShield, TLAPS

Clearing == {"ipv6", "metrics", "unlink"}

\* Whose turn it is: the clearing thread works for a disconnect that waits for
\* it, the watchdog and the window only while up.
Turns ==
  /\ at["clear"] # "idle" => at["op"] = "join"
  /\ at["clear"] \in {"idle", "restore"} \cup Clearing
  /\ at["op"] = "join" => ~up
  /\ at["dog"] # "idle" => up /\ at["op"] = "idle"
  /\ at["ui"] \in {"idle", "toast"}
  /\ ~up => at["op"] \in {"idle", "join", "unshield"} /\ at["ui"] = "idle"

Lending(t) == at[t] = "shield" /\ copy[t] # NoCopy

\* A block is empty or whole.
Blocks ==
  /\ file \in {NoBackups, wish}
  /\ \A t \in ShieldThreads :
       /\ copy[t] \in {NoCopy, NoBackups, wish}
       /\ Lending(t) => copy[t] = wish
       /\ at[t] \in Restorers /\ copy[t] # NoCopy => copy[t] = NoBackups
  /\ copy["ui"] # NoBackups

NothingLent == \A k \in Keys : policy[k] # Ours

Registry ==
  /\ \A k \in Keys : policy[k] \in {Ours, wish[k]} /\ (policy[k] = Ours => Writable(k))
  /\ NothingLent \/ file = wish \/ \E t \in ShieldThreads : Lending(t)
  /\ \A t \in ShieldThreads : copy[t] = NoBackups \/ at[t] \in Clearing => NothingLent
  /\ ~up /\ at["clear"] = "idle" =>
       /\ file = NoBackups /\ NothingLent
       /\ \A t \in ShieldThreads : copy[t] = NoCopy

Inv == ShieldTypeOK /\ Turns /\ Blocks /\ Registry

\* Where a thread goes next: never to the front of another operation, and into
\* a clear only through its restore.
LEMMA Where ==
  ASSUME NEW t \in ShieldThreads, Goes(t)
  PROVE  \E c \in {"idle", "plan", "prefer", "shield", "restore", "ipv6", "metrics", "unlink"} :
           /\ at' = [at EXCEPT ![t] = c]
           /\ c \in Clearing <=> at[t] \in {"restore", "ipv6", "metrics"}
           /\ at[t] \in {"join", "toast"} => c = "idle"
           /\ t \notin {"op", "ui"} /\ at[t] = "unlink" => c = "idle"
           /\ at[t] = "unshield" /\ ~up => c = "idle"
  BY DEF Goes, Follows, Clearing

\* An empty block is one with no backup in it, given that blocks are whole.
LEMMA Empty ==
  ASSUME ShieldTypeOK, Blocks
  PROVE  /\ ~Backed(NoBackups)
         /\ ~Backed(file) => file = NoBackups
         /\ Backed(file) => file = wish /\ file # NoBackups
         /\ NoBackups = wish => Keys = {}
<1> USE ShieldAssumption DEF ShieldAssumption
<1>1. ~Backed(NoBackups)
  BY DEF Backed, NoBackups
<1>2. ASSUME NEW k \in Keys, NoBackups = wish PROVE FALSE
  <2>1. NoBackups[k] = NoBackup
    BY DEF NoBackups
  <2> QED
    BY <1>2, <2>1 DEF ShieldTypeOK
<1>3. NoBackups = wish => Keys = {}
  BY <1>2
<1>4. CASE Backed(file)
  BY <1>1, <1>3, <1>4 DEF Blocks
<1>5. CASE ~Backed(file)
  <2>1. file \in Backups /\ \A k \in Keys : file[k] = NoBackup
    BY <1>5 DEF Backed, ShieldTypeOK
  <2>2. file = [k \in Keys |-> file[k]]
    BY <2>1 DEF Backups
  <2> QED
    BY <1>1, <1>3, <1>5, <2>1, <2>2 DEF NoBackups
<1> QED
  BY <1>4, <1>5

\* Of two threads in routines one is the window.
LEMMA OneAtATime ==
  ASSUME Turns, NEW t \in ShieldThreads, NEW u \in ShieldThreads, t # u,
         at[t] \notin {"idle", "join"}, at[u] \notin {"idle", "join"}
  PROVE  t = "ui" \/ u = "ui"
  BY DEF Turns, ShieldThreads, Clearing

\* The program starts with nothing lent and nobody at work.
LEMMA InitInv == ShieldInit => Inv
<1> SUFFICES ASSUME ShieldInit PROVE Inv
  OBVIOUS
<1> USE ShieldAssumption DEF ShieldAssumption, ShieldInit
<1>1. ShieldTypeOK
  <2>1. NoBackups \in Backups
    BY DEF NoBackups, Backups
  <2> QED
    BY <2>1 DEF ShieldTypeOK, ShieldThreads
<1>2. NoBackups # NoCopy
  BY DEF NoBackups, Backups
<1>3. Turns
  BY DEF Turns, ShieldThreads, Clearing
<1>4. Blocks
  BY <1>2 DEF Blocks, Lending, ShieldThreads
<1>5. NothingLent
  BY DEF NothingLent
<1>6. \A k \in Keys : policy[k] \in {Ours, wish[k]} /\ policy[k] # Ours
  OBVIOUS
<1>7. Registry
  BY <1>2, <1>5, <1>6 DEF Registry
<1> QED
  BY <1>1, <1>3, <1>4, <1>7 DEF Inv

\* Beginning an operation, a seal or a toast touches no block and no policy.
LEMMA Beginnings ==
  ASSUME ShieldFaults = {}, Inv, Connect \/ TunOff \/ Disconnect \/ Join \/ Fail \/ DogSeals \/ Toast
  PROVE  Inv'
<1> USE DEF Inv
<1>0. UNCHANGED <<policy, wish, file, copy, admin>>
  BY DEF Connect, TunOff, Disconnect, Join, Fail, DogSeals, Toast, Stays
<1>1. CASE Connect
  <2>1. \E c \in {"plan", "restore"} : at' = [at EXCEPT !["op"] = c]
    BY <1>1 DEF Connect
  <2>2. /\ up' = TRUE /\ at["op"] = "idle" /\ at["clear"] = "idle" /\ at["dog"] = "idle"
        /\ copy["op"] = NoCopy
    BY <1>1 DEF Connect, MayBegin, Idle, ShieldTypeOK, ShieldThreads
  <2>3. ShieldTypeOK'
    BY <1>0, <2>1, <2>2 DEF ShieldTypeOK, ShieldThreads, Routines, Restorers, Carriers, Backups
  <2>4. Turns'
    BY <1>0, <2>1, <2>2 DEF ShieldTypeOK, Turns, ShieldThreads, Clearing
  <2>5. Blocks'
    BY <1>0, <2>1, <2>2 DEF ShieldTypeOK, Blocks, Lending, ShieldThreads, NoBackups
  <2>6. Registry'
    BY <1>0, <2>1, <2>2 DEF ShieldTypeOK, Registry, NothingLent, Lending, Clearing, Writable,
         ShieldThreads, NoBackups
  <2> QED
    BY <2>3, <2>4, <2>5, <2>6
<1>2. CASE TunOff
  <2>1. at' = [at EXCEPT !["op"] = "unshield"]
    BY <1>2 DEF TunOff
  <2>2. /\ up' = TRUE /\ at["op"] = "idle" /\ at["clear"] = "idle" /\ at["dog"] = "idle"
        /\ copy["op"] = NoCopy
    BY <1>2 DEF TunOff, MayBegin, Idle, ShieldTypeOK, ShieldThreads
  <2>3. ShieldTypeOK'
    BY <1>0, <2>1, <2>2 DEF ShieldTypeOK, ShieldThreads, Routines, Restorers, Carriers, Backups
  <2>4. Turns'
    BY <1>0, <2>1, <2>2 DEF ShieldTypeOK, Turns, ShieldThreads, Clearing
  <2>5. Blocks'
    BY <1>0, <2>1, <2>2 DEF ShieldTypeOK, Blocks, Lending, ShieldThreads, NoBackups
  <2>6. Registry'
    BY <1>0, <2>1, <2>2 DEF ShieldTypeOK, Registry, NothingLent, Lending, Clearing, Writable,
         ShieldThreads, NoBackups
  <2> QED
    BY <2>3, <2>4, <2>5, <2>6
<1>3. CASE Disconnect
  <2>1. \/ at' = [at EXCEPT !["op"] = "join", !["clear"] = "restore"]
        \/ file = NoBackups /\ at' = [at EXCEPT !["op"] = "unshield"]
    BY <1>3, Empty DEF Disconnect
  <2>2. /\ up' = FALSE /\ at["op"] = "idle" /\ at["clear"] = "idle" /\ at["dog"] = "idle"
        /\ at["ui"] = "idle"
        /\ \A t \in ShieldThreads : copy[t] = NoCopy
    BY <1>3 DEF Disconnect, MayBegin, Idle, ShieldTypeOK, ShieldThreads
  <2>3. ShieldTypeOK'
    BY <1>0, <2>1, <2>2 DEF ShieldTypeOK, ShieldThreads, Routines, Restorers, Carriers, Backups
  <2>4. Turns'
    BY <1>0, <2>1, <2>2 DEF ShieldTypeOK, Turns, ShieldThreads, Clearing
  <2>5. Blocks'
    BY <1>0, <2>1, <2>2 DEF ShieldTypeOK, Blocks, Lending, ShieldThreads, NoBackups
  <2>6. file = NoBackups => NothingLent
    <3>1. file = NoBackups /\ file = wish => NothingLent
      BY Empty DEF NothingLent
    <3> QED
      BY <2>2, <3>1 DEF Registry, Lending
  <2>7. Registry'
    BY <1>0, <2>1, <2>2, <2>6 DEF ShieldTypeOK, Registry, NothingLent, Lending, Clearing, Writable,
         ShieldThreads, NoBackups
  <2> QED
    BY <2>3, <2>4, <2>5, <2>7
<1>4. CASE Join \/ Fail
  <2>1. /\ at' = [at EXCEPT !["op"] = "idle"]
        /\ up' = up /\ copy["op"] = NoCopy /\ at["clear"] = "idle"
    BY <1>4, Where DEF Join, Fail, Idle, Stays, ShieldTypeOK, Turns, ShieldThreads
  <2>3. ShieldTypeOK'
    BY <1>0, <2>1 DEF ShieldTypeOK, ShieldThreads, Routines, Restorers, Carriers, Backups
  <2>4. Turns'
    BY <1>0, <2>1 DEF ShieldTypeOK, Turns, ShieldThreads, Clearing
  <2>5. Blocks'
    BY <1>0, <2>1 DEF ShieldTypeOK, Blocks, Lending, ShieldThreads, NoBackups
  <2>6. Registry'
    BY <1>0, <2>1 DEF ShieldTypeOK, Registry, NothingLent, Lending, Clearing, Writable,
         ShieldThreads, NoBackups
  <2> QED
    BY <2>3, <2>4, <2>5, <2>6
<1>5. CASE DogSeals \/ Toast
  <2>1. /\ up /\ up' = up /\ at["op"] = "idle"
        /\ \/ /\ at["dog"] = "idle" /\ copy["dog"] = NoCopy
              /\ at' = [at EXCEPT !["dog"] = "plan"]
           \/ /\ at["ui"] = "idle" /\ copy["ui"] = NoCopy
              /\ at' = [at EXCEPT !["ui"] = "toast"]
    BY <1>5 DEF DogSeals, Toast, Idle, Stays, ShieldTypeOK, ShieldThreads
  <2>3. ShieldTypeOK'
    BY <1>0, <2>1 DEF ShieldTypeOK, ShieldThreads, Routines, Restorers, Carriers, Backups
  <2>4. Turns'
    BY <1>0, <2>1 DEF ShieldTypeOK, Turns, ShieldThreads, Clearing
  <2>5. Blocks'
    BY <1>0, <2>1 DEF ShieldTypeOK, Blocks, Lending, Restorers, ShieldThreads, NoBackups
  <2>6. Registry'
    BY <1>0, <2>1 DEF ShieldTypeOK, Registry, NothingLent, Lending, Clearing, Writable,
         ShieldThreads, NoBackups
  <2> QED
    BY <2>3, <2>4, <2>5, <2>6
<1> QED
  BY <1>1, <1>2, <1>3, <1>4, <1>5

\* A read leaves the thread where it is and, of the registry, changes what
\* apply and restore change; nobody but the window can be in a routine too.
LEMMA Reads ==
  ASSUME ShieldFaults = {}, Inv, NEW t \in ShieldThreads,
         Carry(t) \/ Apply(t) \/ Restore(t) \/ Consume(t)
  PROVE  Inv'
<1> USE DEF Inv
<1>0. /\ UNCHANGED <<wish, file, at, admin, up>>
      /\ at[t] \notin {"idle", "join", "unlink"} /\ copy[t] = NoCopy
      /\ copy \in [ShieldThreads -> Backups \cup {NoCopy}]
  BY DEF Carry, Apply, Restore, Consume, Reading, Idle, Stays, Carriers, Restorers, ShieldTypeOK
<1>1. /\ NoBackups \in Backups /\ wish \in Backups
      /\ NoBackups # NoCopy /\ wish # NoCopy
  BY ShieldAssumption DEF ShieldAssumption, NoBackups, Backups, ShieldTypeOK
<1>2. Turns'
  BY <1>0 DEF Turns
<1>3. ~(~up /\ at["clear"] = "idle") \/ (~Carry(t) /\ ~Apply(t) /\ ~Restore(t) /\ ~Consume(t))
  <2>1. ASSUME ~up, at["clear"] = "idle"
        PROVE  at[t] = "unshield" /\ ~Backed(file)
    BY <1>0, <2>1, Empty DEF Turns, Registry, ShieldThreads
  <2> QED
    BY <2>1 DEF Carry, Apply, Restore, Consume, Carriers
<1>4. \A u \in ShieldThreads \ {t} : copy[u] # NoCopy => t = "ui" \/ u = "ui"
  BY <1>0, OneAtATime DEF ShieldTypeOK
<1>5. CASE Carry(t) \/ Consume(t)
  <2>1. /\ policy' = policy /\ copy' = [copy EXCEPT ![t] = file]
        /\ at[t] \notin Restorers \cup {"shield"}
        /\ at[t] = "toast" => Backed(file)
        /\ t = "ui" => at[t] = "toast"
    BY <1>0, <1>5 DEF Carry, Consume, Holds, Stays, Carriers, Restorers, Turns
  <2>2. ShieldTypeOK'
    BY <1>0, <2>1 DEF ShieldTypeOK
  <2>3. Blocks'
    BY <1>0, <2>1, Empty DEF Blocks, Lending
  <2>4. file = NoBackups => NothingLent
    <3>1. file = NoBackups => t # "ui" /\ ~Lending(t)
      BY <2>1, Empty DEF Lending
    <3>2. file = NoBackups => ~\E u \in ShieldThreads : Lending(u)
      BY <1>0, <1>4, <3>1 DEF Lending, Turns
    <3> QED
      BY <3>2, Empty DEF Registry, NothingLent
  <2>5. Registry'
    BY <1>0, <1>3, <1>5, <2>1, <2>4 DEF Registry, NothingLent, Lending, Writable
  <2> QED
    BY <1>2, <2>2, <2>3, <2>5
<1>6. CASE Apply(t)
  <2>1. /\ at[t] = "shield" /\ t # "ui"
        /\ copy' = [copy EXCEPT ![t] = Applied(file)]
        /\ policy' = [k \in Keys |-> IF Writable(k) THEN Ours ELSE policy[k]]
    BY <1>6 DEF Apply, Holds, Turns
  <2>2. Applied(file) = wish
    <3>1. CASE Backed(file)
      BY <3>1, Empty DEF Applied
    <3>2. CASE ~Backed(file)
      <4>1. file = NoBackups /\ ~\E u \in ShieldThreads : Lending(u)
        BY <1>0, <1>4, <2>1, <3>2, Empty DEF Lending, Turns
      <4>2. \A k \in Keys : policy[k] = wish[k]
        BY <4>1, Empty DEF Registry, NothingLent
      <4>3. policy = wish
        BY <4>2 DEF ShieldTypeOK
      <4> QED
        BY <3>2, <4>3 DEF Applied
    <3> QED
      BY <3>1, <3>2
  <2>3. ShieldTypeOK'
    BY <1>0, <1>1, <2>1, <2>2 DEF ShieldTypeOK, Writable
  <2>4. Blocks'
    BY <1>0, <2>1, <2>2 DEF Blocks, Lending, Restorers
  <2>5. Registry'
    <3>1. /\ \A k \in Keys : policy'[k] \in {Ours, wish[k]} /\ (policy'[k] = Ours => Writable(k))
      BY <2>1 DEF Registry
    <3>2. Lending(t)'
      BY <1>0, <1>1, <2>1, <2>2 DEF Lending
    <3>3. \A u \in ShieldThreads \ {t} : copy'[u] # NoBackups /\ at[u] \notin Clearing
      <4> SUFFICES ASSUME NEW u \in ShieldThreads \ {t} PROVE copy[u] # NoBackups /\ at[u] \notin Clearing
        BY <2>1
      <4>1. CASE u = "ui"
        BY <4>1 DEF Blocks, Turns, Clearing
      <4>2. CASE u # "ui"
        BY <1>0, <1>1, <1>4, <2>1, <4>2, OneAtATime DEF Clearing
      <4> QED
        BY <4>1, <4>2
    <3>4. copy'[t] = NoBackups => NothingLent'
      BY <1>0, <2>1, <2>2, Empty DEF NothingLent
    <3>5. at[t] \notin Clearing
      BY <2>1 DEF Clearing
    <3>6. /\ UNCHANGED <<wish, file, at, admin, up>> /\ ~(~up /\ at["clear"] = "idle")
      BY <1>0, <1>3, <1>6
    <3> QED
      BY <3>1, <3>2, <3>3, <3>4, <3>5, <3>6 DEF Registry, Writable
  <2> QED
    BY <1>2, <2>3, <2>4, <2>5
<1>7. CASE Restore(t)
  <2>1. /\ at[t] \in Restorers /\ t # "ui"
        /\ file = wish
        /\ copy' = [copy EXCEPT ![t] = NoBackups]
        /\ policy' = [k \in Keys |-> IF Writable(k) /\ file[k] # NoBackup THEN file[k] ELSE policy[k]]
    BY <1>7, Empty DEF Restore, Holds, Turns, Restorers
  <2>2. \A k \in Keys : policy'[k] = wish[k]
    BY <2>1, ShieldAssumption DEF ShieldAssumption, Registry, ShieldTypeOK
  <2>3. ShieldTypeOK'
    BY <1>0, <1>1, <2>1, <2>2 DEF ShieldTypeOK
  <2>4. Blocks'
    BY <1>0, <2>1 DEF Blocks, Lending, Restorers
  <2>5. NothingLent'
    BY <2>2, ShieldAssumption DEF ShieldAssumption, NothingLent, ShieldTypeOK
  <2>6. Registry'
    BY <1>0, <1>3, <1>7, <2>1, <2>2, <2>5, ShieldAssumption
       DEF ShieldAssumption, Registry, Writable, ShieldTypeOK
  <2> QED
    BY <1>2, <2>3, <2>4, <2>6
<1> QED
  BY <1>5, <1>6, <1>7

\* A write puts the wish back into the file, or an empty block when nothing is
\* lent; then, as after a routine with nothing to do, the thread goes on.
LEMMA Ends ==
  ASSUME ShieldFaults = {}, Inv, NEW t \in ShieldThreads,
         NothingToRestore(t) \/ NothingToShow(t) \/ Write(t) \/ Unlink(t)
  PROVE  Inv'
<1> USE DEF Inv
<1>0. /\ UNCHANGED <<policy, wish, admin, up>>
      /\ at[t] \notin {"idle", "join"} /\ Goes(t)
      /\ copy' = [copy EXCEPT ![t] = NoCopy]
      /\ copy \in [ShieldThreads -> Backups \cup {NoCopy}]
      /\ at \in [ShieldThreads -> Routines \cup {"idle"}]
  <2>1. at[t] \notin {"idle", "join"}
    BY DEF NothingToRestore, NothingToShow, Write, Unlink, Reading, Idle, Restorers, ShieldTypeOK
  <2>2. copy' = [copy EXCEPT ![t] = NoCopy]
    BY DEF NothingToRestore, NothingToShow, Write, Unlink, Reading, Holds, ShieldTypeOK
  <2> QED
    BY <2>1, <2>2 DEF NothingToRestore, NothingToShow, Write, Unlink, Stays, ShieldTypeOK
<1>1. PICK c \in {"idle", "plan", "prefer", "shield", "restore", "ipv6", "metrics", "unlink"} :
        /\ at' = [at EXCEPT ![t] = c]
        /\ c \in Clearing <=> at[t] \in {"restore", "ipv6", "metrics"}
        /\ at[t] \in {"join", "toast"} => c = "idle"
        /\ t \notin {"op", "ui"} /\ at[t] = "unlink" => c = "idle"
        /\ at[t] = "unshield" /\ ~up => c = "idle"
  BY <1>0, Where
<1>2. NoBackups \in Backups /\ wish \in Backups /\ NoBackups # NoCopy /\ wish # NoCopy
  BY ShieldAssumption DEF ShieldAssumption, NoBackups, Backups, ShieldTypeOK
<1>3. /\ file' \in {file, copy[t], NoBackups}
      /\ file' = NoBackups \/ file' = wish
      /\ copy[t] = NoCopy => file' \in {file, NoBackups}
      /\ Lending(t) => file' = wish
      /\ file' = NoBackups => NothingLent \/ (file = NoBackups /\ file' = file)
  <2>1. CASE Write(t)
    BY <2>1 DEF Write, Blocks, Registry, Lending
  <2>2. CASE Unlink(t)
    BY <2>2 DEF Unlink, Reading, Registry, Lending, Clearing
  <2>3. CASE NothingToRestore(t) \/ NothingToShow(t)
    BY <2>3 DEF NothingToRestore, NothingToShow, Reading, Blocks, Lending
  <2> QED
    BY <2>1, <2>2, <2>3
<1>4. \A u \in ShieldThreads \ {t} : copy[u] # NoCopy => t = "ui" \/ u = "ui"
  BY <1>0, OneAtATime DEF ShieldTypeOK
<1>5. ShieldTypeOK'
  BY <1>0, <1>1, <1>2, <1>3 DEF ShieldTypeOK, Routines, Restorers, Carriers
<1>6. Turns'
  BY <1>0, <1>1 DEF Turns, ShieldThreads, ShieldTypeOK, Clearing
<1>7. Blocks'
  BY <1>0, <1>1, <1>2, <1>3 DEF Blocks, Lending
<1>8. Registry'
  <2>1. /\ \A k \in Keys : policy'[k] \in {Ours, wish'[k]} /\ (policy'[k] = Ours => Writable(k)')
        /\ NothingLent' <=> NothingLent
    BY <1>0 DEF Registry, NothingLent, Writable
  <2>2. NothingLent' \/ file' = wish' \/ \E u \in ShieldThreads : Lending(u)'
    <3>1. ASSUME file = NoBackups, file' = file, ~NothingLent, file # wish
          PROVE  \E u \in ShieldThreads : Lending(u)'
      <4>1. PICK u \in ShieldThreads : Lending(u)
        BY <3>1 DEF Registry
      <4>2. u # t
        BY <1>3, <3>1, <4>1
      <4> QED
        BY <1>0, <1>1, <4>1, <4>2 DEF Lending
    <3> QED
      BY <1>0, <1>3, <2>1, <3>1
  <2>3. ASSUME NEW u \in ShieldThreads, copy'[u] = NoBackups \/ at'[u] \in Clearing
        PROVE  NothingLent'
    <3>1. CASE u # t
      BY <1>0, <1>1, <2>1, <2>3, <3>1 DEF Registry
    <3>2. CASE u = t
      <4>1. at[t] \in {"restore", "ipv6", "metrics"}
        BY <1>0, <1>1, <1>2, <2>3, <3>2
      <4>2. CASE at[t] \in Clearing
        BY <2>1, <4>2 DEF Registry
      <4>3. CASE at[t] = "restore" /\ copy[t] # NoCopy
        BY <2>1, <4>3 DEF Registry, Blocks, Restorers
      <4>4. CASE at[t] = "restore" /\ copy[t] = NoCopy
        <5>1. file = NoBackups
          BY <4>4, Empty DEF NothingToRestore, NothingToShow, Write, Unlink
        <5>2. ~\E v \in ShieldThreads : Lending(v)
          BY <1>4, <4>4 DEF Lending, Turns
        <5> QED
          BY <2>1, <5>1, <5>2, Empty DEF Registry, NothingLent
      <4> QED
        BY <4>1, <4>2, <4>3, <4>4 DEF Clearing
    <3> QED
      BY <3>1, <3>2
  <2>4. ASSUME ~up', at'["clear"] = "idle"
        PROVE  /\ file' = NoBackups /\ NothingLent'
               /\ \A u \in ShieldThreads : copy'[u] = NoCopy
    <3>1. CASE at["clear"] = "idle"
      BY <1>0, <1>3, <2>1, <2>4, <3>1 DEF Registry
    <3>2. CASE at["clear"] # "idle"
      <4>1. t = "clear" /\ at[t] = "unlink" /\ at["op"] = "join"
        BY <1>0, <1>1, <2>4, <3>2 DEF Turns, ShieldThreads, Clearing
      <4>2. file' = NoBackups /\ NothingLent'
        BY <2>1, <4>1 DEF NothingToRestore, NothingToShow, Write, Unlink, Restorers,
                          ShieldTypeOK, Registry, Clearing
      <4>3. \A u \in ShieldThreads \ {t} : at[u] \in {"idle", "join"}
        BY <1>0, <2>4, <4>1 DEF Turns, ShieldThreads
      <4>4. \A u \in ShieldThreads : copy'[u] = NoCopy
        BY <1>0, <4>3 DEF ShieldTypeOK
      <4> QED
        BY <4>2, <4>4
    <3> QED
      BY <3>1, <3>2
  <2> QED
    BY <2>1, <2>2, <2>3, <2>4 DEF Registry
<1> QED
  BY <1>5, <1>6, <1>7, <1>8

\* The user edits while nothing is lent; a restart forgets the threads, never a
\* block that only a thread holds.
LEMMA Outside ==
  ASSUME ShieldFaults = {}, Inv, UserEdits \/ Restart
  PROVE  Inv'
<1> USE DEF Inv
<1>1. CASE UserEdits
  <2>1. PICK k \in Keys, v \in Theirs :
          /\ policy' = [policy EXCEPT ![k] = v]
          /\ wish' = [wish EXCEPT ![k] = v]
    BY <1>1 DEF UserEdits
  <2>2. /\ UNCHANGED <<file, at, copy, admin, up>>
        /\ ~up /\ \A t \in ShieldThreads : at[t] = "idle" /\ copy[t] = NoCopy
        /\ file = NoBackups /\ NothingLent
    BY <1>1 DEF UserEdits, Idle, ShieldTypeOK, Registry, ShieldThreads
  <2>3. ShieldTypeOK'
    BY <2>1, <2>2 DEF ShieldTypeOK
  <2>4. Turns'
    BY <2>2 DEF Turns, ShieldThreads
  <2>5. Blocks'
    <3>1. NoBackups # NoCopy
      BY ShieldAssumption DEF ShieldAssumption, NoBackups
    <3> QED
      BY <2>2, <3>1 DEF Blocks, Lending, Restorers, ShieldThreads
  <2>6. NothingLent' /\ \A j \in Keys : policy'[j] = wish'[j]
    BY <2>1, <2>2, ShieldAssumption DEF ShieldAssumption, Registry, NothingLent, ShieldTypeOK
  <2>7. Registry'
    BY <2>2, <2>6 DEF Registry, NothingLent
  <2> QED
    BY <2>3, <2>4, <2>5, <2>7
<1>2. CASE Restart
  <2>1. /\ UNCHANGED <<policy, wish, file, admin>>
        /\ \A t \in ShieldThreads : at'[t] = "idle" /\ copy'[t] = NoCopy
        /\ \A t \in ShieldThreads : ~Lending(t)
        /\ up' = (up \/ at["op"] # "idle")
    BY <1>2 DEF Restart, Torn, Idle, Lending
  <2>2. ShieldTypeOK'
    BY <1>2, <2>1 DEF Restart, ShieldTypeOK
  <2>3. Turns'
    BY <2>1 DEF Turns, ShieldThreads
  <2>4. Blocks'
    <3>1. NoBackups # NoCopy
      BY ShieldAssumption DEF ShieldAssumption, NoBackups
    <3> QED
      BY <2>1, <3>1 DEF Blocks, Lending, Restorers, ShieldThreads
  <2>5. NoBackups # NoCopy /\ (~up' => file = NoBackups /\ NothingLent)
    BY <2>1, ShieldAssumption DEF ShieldAssumption, NoBackups, Registry, Turns
  <2>6. Registry'
    BY <2>1, <2>5 DEF Registry, NothingLent, Lending, Writable, Clearing
  <2> QED
    BY <2>2, <2>3, <2>4, <2>6
<1> QED
  BY <1>1, <1>2

LEMMA StepInv == ShieldFaults = {} /\ Inv /\ [ShieldNext]_shieldVars => Inv'
<1> SUFFICES ASSUME ShieldFaults = {}, Inv, [ShieldNext]_shieldVars PROVE Inv'
  OBVIOUS
<1>1. CASE UNCHANGED shieldVars
  BY <1>1 DEF shieldVars, Inv, ShieldTypeOK, Turns, Blocks, Registry, NothingLent, Lending, Writable
<1>2. ASSUME NEW t \in ShieldThreads, Routine(t) PROVE Inv'
  BY <1>2, Reads, Ends DEF Routine
<1> QED
  BY <1>1, <1>2, Beginnings, Outside DEF ShieldNext

\* Types need none of the assumptions on what may go wrong.
LEMMA StepTypes == ShieldTypeOK /\ [ShieldNext]_shieldVars => ShieldTypeOK'
<1> SUFFICES ASSUME ShieldTypeOK, [ShieldNext]_shieldVars PROVE ShieldTypeOK'
  OBVIOUS
<1>1. CASE UNCHANGED shieldVars
  BY <1>1 DEF shieldVars, ShieldTypeOK
<1>2. ASSUME NEW t \in ShieldThreads, Routine(t) PROVE ShieldTypeOK'
  <2>1. CASE Carry(t) \/ Apply(t) \/ Restore(t) \/ Consume(t)
    <3>1. /\ UNCHANGED <<wish, file, at, admin, up>>
          /\ at[t] \notin {"idle", "join", "unlink"}
          /\ \E block \in Backups : copy' = [copy EXCEPT ![t] = block]
          /\ policy' \in [Keys -> Theirs \cup {Ours}]
      <4>1. NoBackups \in Backups /\ Applied(file) \in Backups
        BY DEF NoBackups, Applied, Backups, ShieldTypeOK
      <4>2. Restore(t) => policy' \in [Keys -> Theirs \cup {Ours}]
        BY DEF Restore, Backups, ShieldTypeOK
      <4> QED
        BY <2>1, <4>1, <4>2 DEF Carry, Apply, Restore, Consume, Holds, Stays, Reading, Idle,
                               Carriers, Restorers, ShieldTypeOK
    <3> QED
      BY <3>1 DEF ShieldTypeOK
  <2>2. CASE NothingToRestore(t) \/ NothingToShow(t) \/ Write(t) \/ Unlink(t)
    <3>1. /\ Stays /\ Goes(t)
          /\ copy' = [copy EXCEPT ![t] = NoCopy]
          /\ file' \in Backups
      <4>1. NoBackups \in Backups
        BY DEF NoBackups, Backups
      <4> QED
        BY <2>2, <4>1 DEF NothingToRestore, NothingToShow, Write, Unlink, Reading, Holds, ShieldTypeOK
    <3> QED
      BY <3>1, Where DEF Stays, ShieldTypeOK, Routines, Carriers, Restorers
  <2> QED
    BY <1>2, <2>1, <2>2 DEF Routine
<1>3. CASE Connect \/ TunOff \/ Disconnect
  <2>1. /\ UNCHANGED <<policy, wish, file, copy, admin>> /\ up' \in BOOLEAN
        /\ copy["op"] = NoCopy
    BY <1>3 DEF Connect, TunOff, Disconnect, MayBegin, Idle, ShieldTypeOK, ShieldThreads
  <2>2. \/ \E c \in {"plan", "restore", "unshield"} : at' = [at EXCEPT !["op"] = c]
        \/ copy["clear"] = NoCopy /\ at' = [at EXCEPT !["op"] = "join", !["clear"] = "restore"]
    BY <1>3 DEF Connect, TunOff, Disconnect, Idle, ShieldTypeOK, ShieldThreads
  <2> QED
    BY <2>1, <2>2 DEF ShieldTypeOK, ShieldThreads, Routines, Carriers, Restorers
<1>4. CASE Join \/ Fail
  BY <1>4, Where DEF Join, Fail, Stays, ShieldTypeOK, ShieldThreads, Routines, Carriers, Restorers
<1>5. CASE DogSeals \/ Toast
  BY <1>5 DEF DogSeals, Toast, Stays, Idle, ShieldTypeOK, ShieldThreads, Routines, Carriers, Restorers
<1>6. CASE UserEdits
  BY <1>6 DEF UserEdits, ShieldTypeOK
<1>7. CASE Restart
  <2>1. NoBackups \in Backups
    BY DEF NoBackups, Backups
  <2> QED
    BY <1>7, <2>1 DEF Restart, ShieldTypeOK
<1> QED
  BY <1>1, <1>2, <1>3, <1>4, <1>5, <1>6, <1>7 DEF ShieldNext

\* What the invariant says is what the runs check.
LEMMA InvImplies == Inv => ShieldTypeOK /\ BackupKept /\ PolicyReturned
<1> SUFFICES ASSUME Inv PROVE ShieldTypeOK /\ BackupKept /\ PolicyReturned
  OBVIOUS
<1> USE DEF Inv
<1>1. BackupKept
  BY DEF BackupKept, Registry, NothingLent, Lending, Blocks
<1>2. PolicyReturned
  <2> SUFFICES ASSUME ~up, \A t \in ShieldThreads : at[t] = "idle"
               PROVE  policy = wish /\ ~Backed(file)
    BY DEF PolicyReturned, Idle
  <2>1. file = NoBackups /\ \A k \in Keys : policy[k] = wish[k]
    BY DEF Registry, NothingLent, ShieldThreads
  <2>2. policy = wish
    BY <2>1 DEF ShieldTypeOK
  <2> QED
    BY <2>1, <2>2, Empty
<1> QED
  BY <1>1, <1>2

\* Every step gives a policy the program's value or the user's latest.
LEMMA StepLent ==
  ASSUME Inv, [ShieldNext]_shieldVars
  PROVE  \A k \in Keys : policy'[k] # policy[k] => policy'[k] \in {Ours, wish'[k]}
<1> USE DEF Inv
<1>1. ASSUME NEW t \in ShieldThreads, Apply(t) PROVE \A k \in Keys : policy'[k] \in {Ours, policy[k]}
  BY <1>1 DEF Apply
<1>2. ASSUME NEW t \in ShieldThreads, Restore(t) PROVE \A k \in Keys : policy'[k] \in {wish'[k], policy[k]}
  BY <1>2, Empty DEF Restore
<1>3. CASE UserEdits
  BY <1>3 DEF UserEdits, ShieldTypeOK
<1>4. CASE \E t \in ShieldThreads : Routine(t)
  <2>1. PICK t \in ShieldThreads : Routine(t)
    BY <1>4
  <2>2. CASE Apply(t)
    BY <1>1, <2>2
  <2>3. CASE Restore(t)
    BY <1>2, <2>3
  <2>4. CASE ~Apply(t) /\ ~Restore(t)
    BY <2>1, <2>4 DEF Routine, Carry, NothingToRestore, Consume, NothingToShow, Write, Unlink, Stays
  <2> QED
    BY <2>2, <2>3, <2>4
<1>5. CASE Connect \/ TunOff \/ Disconnect \/ Join \/ Fail \/ DogSeals \/ Toast \/ Restart \/ UNCHANGED shieldVars
  BY <1>5 DEF Connect, TunOff, Disconnect, Join, Fail, DogSeals, Toast, Restart, Stays, shieldVars
<1> QED
  BY <1>3, <1>4, <1>5 DEF ShieldNext

\* Policies, blocks and threads have their types, whatever the policies are
\* (leak_shield.apply, restore).
THEOREM ShieldTypes == ShieldSpec => []ShieldTypeOK
<1> QED
  BY InitInv, StepTypes, PTL DEF ShieldSpec, Inv

\* No policy of the user is ever replaced without a backup that survives
\* whoever dies or writes next (leak_shield.apply, killswitch.clear).
THEOREM BackupIsKept ==
  ASSUME ShieldFaults = {}
  PROVE  ShieldSpec => []BackupKept
<1>1. Inv /\ [ShieldNext]_shieldVars => Inv'
  BY StepInv
<1> QED
  BY <1>1, InitInv, InvImplies, PTL DEF ShieldSpec

\* A disconnect that ended has given every policy back (pipeline.disconnect).
THEOREM PolicyIsReturned ==
  ASSUME ShieldFaults = {}
  PROVE  ShieldSpec => []PolicyReturned
<1>1. Inv /\ [ShieldNext]_shieldVars => Inv'
  BY StepInv
<1> QED
  BY <1>1, InitInv, InvImplies, PTL DEF ShieldSpec

\* What the program gives back is the user's latest (leak_shield.restore).
THEOREM PolicyIsLent ==
  ASSUME ShieldFaults = {}
  PROVE  ShieldSpec => Lent
<1>1. Inv /\ [ShieldNext]_shieldVars => Inv'
  BY StepInv
<1>2. Inv /\ [ShieldNext]_shieldVars =>
        [\A k \in Keys : policy'[k] # policy[k] => policy'[k] \in {Ours, wish'[k]}]_shieldVars
  BY StepLent
<1> QED
  BY <1>1, <1>2, InitInv, PTL DEF ShieldSpec, Lent
===============================================================================
