--------------------------------- MODULE FilesProofs ---------------------------------
(***************************************************************************)
(* Proofs about the three stores of files, each for itself: config.json and *)
(* amneziawg.conf, the programs beside the program, and the AmneziaWG      *)
(* clients of a server.                                                    *)
(***************************************************************************)
EXTENDS ConfigFiles, Programs, AwgClients, WellFoundedInduction, TLAPS

(***************************************************************************)
(* config.json and amneziawg.conf for any threads, servers, keys, options  *)
(* and any number of edits and deaths.  That the user's keys survive rests *)
(* on what a save knows between its migration and its write: the second    *)
(* file is there, and a file that is there has the keys.                   *)
(***************************************************************************)

\* Where the keys are, and what a thread that is about to strip them counts on.
KeysPlaced ==
  /\ keys # No /\ conf.data # No => conf.data.awg = keys
  /\ keys # No /\ conf.data = No => json.data # No /\ json.data.awg = keys
  /\ \A t \in Threads : pc[t] = "write" /\ keys # No => conf.data # No

ConfigIInv == ConfigTypeOK /\ KeysPlaced

Stamped == [data : Conf \cup {No}, stamp : Nat]

-----------------------------------------------------------------------------
\* The functions of config_io.

LEMMA OverlayIsSettings ==
  ASSUME NEW cfg \in Settings, NEW c \in Conf \cup {No}
  PROVE  Overlay(cfg, c) \in Settings
BY DEF Overlay, Ready, HasKeys, Settings, Conf

LEMMA MergedIsSettings ==
  ASSUME NEW base \in Settings, NEW new, new.host \in Servers \cup {No}, new.opt \in Options
  PROVE  Merged(base, new) \in Settings /\ Merged(base, new).awg = base.awg
BY DEF Merged, Settings

\* A migration makes a conf of the keys it is given, where there is none.
LEMMA MigratedIsConf ==
  ASSUME NEW cfg, cfg.host \in Servers \cup {No}, cfg.awg \in Keys \cup {No}, NEW c \in Stamped
  PROVE  /\ Migrated(cfg, c) \in Stamped
         /\ c.data # No => Migrated(cfg, c) = c
         /\ c.data = No /\ cfg.awg # No =>
              Migrated(cfg, c).data # No /\ Migrated(cfg, c).data.awg = cfg.awg
         /\ Migrated(cfg, c).data = No => c.data = No /\ cfg.awg = No
         /\ Migrated(cfg, c) # c => Migrated(cfg, c).data # No /\ Migrated(cfg, c).data.awg = cfg.awg
<1>1. Rendered(cfg) \in Conf /\ Rendered(cfg).awg = cfg.awg
  BY DEF Rendered, Conf
<1>2. Rendered(cfg) # No
  BY <1>1, ConfigAssumption
<1>3. Written(Rendered(cfg), c) \in Stamped /\ Written(Rendered(cfg), c).data = Rendered(cfg)
  BY <1>1 DEF Written, Stamped
<1> QED
  BY <1>1, <1>2, <1>3 DEF Migrated, HasKeys

LEMMA TornIsConf == Torn \in Conf /\ NoJob \in Jobs /\ NoJob.intent = "load"
BY DEF Torn, Conf, NoJob, Jobs, Intents

LEMMA PersistableIsSettings ==
  ASSUME NEW cfg \in Settings PROVE Persistable(cfg) \in Settings
BY DEF Persistable, Settings

LEMMA WantedIsSettings ==
  ASSUME NEW j \in Jobs, j.cfg \in Settings, j.intent \in {"opt", "json"} => j.opt \in Options
  PROVE  Wanted(j) \in Settings
<1>1. j.give.host \in Servers \cup {No}
  BY DEF Jobs, Conf
<1>2. CASE j.intent = "json"
  BY <1>1, <1>2, MergedIsSettings DEF Wanted
<1>3. CASE j.intent # "json"
  BY <1>3 DEF Wanted, Settings
<1> QED
  BY <1>2, <1>3

-----------------------------------------------------------------------------
\* Steps.

\* Any job begins typed, in the cache's settings or before the read.
LEMMA BeginsTyped ==
  ASSUME ConfigTypeOK, NEW t \in Threads, NEW j \in Jobs,
         j.intent \in {"opt", "json"} => j.opt \in Options, Begins(t, j)
  PROVE  /\ job' \in [Threads -> Jobs] /\ pc' \in [Threads -> Steps]
         /\ \A u \in Threads :
              /\ pc'[u] \in {"overlay", "store", "take", "save", "write"} => job'[u].cfg \in Settings
              /\ job'[u].intent \in {"opt", "json"} => job'[u].opt \in Options
              /\ pc'[u] = "write" => pc[u] = "write"
<1>1. CASE Hit /\ ~j.force
  <2>1. cache.cfg \in Settings
    BY <1>1 DEF Hit, ConfigTypeOK
  <2>2. [j EXCEPT !.cfg = cache.cfg] \in Jobs
    BY <2>1 DEF Jobs
  <2>3. AfterLoad(j.intent) \in {"idle", "take", "save"}
    BY DEF AfterLoad, Jobs, Intents
  <2>4. job' = [job EXCEPT ![t] = [j EXCEPT !.cfg = cache.cfg]]
        /\ pc' = [pc EXCEPT ![t] = AfterLoad(j.intent)]
    BY <1>1 DEF Begins, Go
  <2>5. [j EXCEPT !.cfg = cache.cfg].cfg = cache.cfg
        /\ [j EXCEPT !.cfg = cache.cfg].opt = j.opt /\ [j EXCEPT !.cfg = cache.cfg].intent = j.intent
    BY DEF Jobs
  <2> QED
    BY <2>1, <2>2, <2>3, <2>4, <2>5 DEF ConfigTypeOK, Steps
<1>2. CASE ~(Hit /\ ~j.force)
  <2>1. [j EXCEPT !.js = json.stamp] \in Jobs
    BY DEF Jobs, ConfigTypeOK
  <2>2. job' = [job EXCEPT ![t] = [j EXCEPT !.js = json.stamp]] /\ pc' = [pc EXCEPT ![t] = "read"]
    BY <1>2 DEF Begins, Go
  <2>3. [j EXCEPT !.js = json.stamp].opt = j.opt /\ [j EXCEPT !.js = json.stamp].intent = j.intent
    BY DEF Jobs
  <2> QED
    BY <2>1, <2>2, <2>3 DEF ConfigTypeOK, Steps
<1> QED
  BY <1>1, <1>2

LEMMA ConfigInitIInv == ConfigInit => ConfigIInv
<1> SUFFICES ASSUME ConfigInit PROVE ConfigIInv
  OBVIOUS
<1>1. PICK h \in Servers, o \in Options, k \in Keys \cup {No} :
        json = [data |-> [host |-> h, opt |-> o, awg |-> k], stamp |-> 1] /\ keys = k
  BY DEF ConfigInit
<1>2. [host |-> h, opt |-> o, awg |-> k] \in Settings
  BY DEF Settings
<1>3. [host |-> h, opt |-> o, awg |-> k] # No
  BY <1>2, ConfigAssumption
<1>a. json \in [data : Settings \cup {No}, stamp : Nat] /\ conf \in [data : Conf \cup {No}, stamp : Nat]
  BY <1>1, <1>2 DEF ConfigInit
<1>b. pc \in [Threads -> Steps] /\ job \in [Threads -> Jobs]
      /\ \A t \in Threads : pc[t] = "idle" /\ job[t].intent = "load"
  BY TornIsConf DEF ConfigInit, Steps
<1>c. cache = No /\ keys \in Keys \cup {No} /\ raced \in BOOLEAN
  BY <1>1 DEF ConfigInit
<1>d. edits \in 0..MaxEdits
  <2>1. edits = 0
    BY DEF ConfigInit
  <2>2. MaxEdits \in Nat
    BY ConfigAssumption
  <2> QED
    BY <2>1, <2>2
<1>4. ConfigTypeOK
  BY <1>a, <1>b, <1>c, <1>d DEF ConfigTypeOK
<1>5. KeysPlaced
  BY <1>1, <1>3 DEF ConfigInit, KeysPlaced
<1> QED
  BY <1>4, <1>5 DEF ConfigIInv

\* Edits and deaths are counted.
LEMMA EditsTyped == edits \in 0..MaxEdits /\ (Edit \/ NoEdit) => edits' \in 0..MaxEdits
BY ConfigAssumption DEF Edit, NoEdit

\* A thread's step keeps the types and the places of the keys.
LEMMA StepKeeps ==
  ASSUME ConfigIInv, NEW t \in Threads, Step(t)
  PROVE  ConfigIInv'
<1> USE DEF ConfigIInv
<1>0. json.data \in Settings \cup {No} /\ json.stamp \in Nat
      /\ conf \in Stamped /\ conf.data \in Conf \cup {No} /\ conf.stamp \in Nat
      /\ job[t] \in Jobs /\ job[t].give \in Conf /\ pc[t] \in Steps
  BY DEF ConfigTypeOK, Stamped, Jobs
<1>1. CASE Reload(t)
  <2>1. [NoJob EXCEPT !.force = TRUE] \in Jobs /\ [NoJob EXCEPT !.force = TRUE].intent = "load"
    BY TornIsConf DEF NoJob, Jobs
  <2> QED
    BY <1>1, <2>1, BeginsTyped DEF Reload, NoEdit, ConfigTypeOK, KeysPlaced
<1>2. CASE UpdateKey(t)
  <2>1. PICK o \in Options : Begins(t, [NoJob EXCEPT !.intent = "opt", !.opt = o])
    BY <1>2 DEF UpdateKey
  <2>2. [NoJob EXCEPT !.intent = "opt", !.opt = o] \in Jobs
        /\ [NoJob EXCEPT !.intent = "opt", !.opt = o].opt = o
    BY TornIsConf DEF NoJob, Jobs, Intents
  <2> QED
    BY <1>2, <2>1, <2>2, BeginsTyped, EditsTyped DEF UpdateKey, ConfigTypeOK, KeysPlaced
<1>3. CASE ImportJson(t)
  <2>1. PICK o \in Options, new \in Conf :
          Begins(t, [NoJob EXCEPT !.intent = "json", !.opt = o, !.give = new])
    BY <1>3 DEF ImportJson
  <2>2. [NoJob EXCEPT !.intent = "json", !.opt = o, !.give = new] \in Jobs
        /\ [NoJob EXCEPT !.intent = "json", !.opt = o, !.give = new].opt = o
    BY TornIsConf DEF NoJob, Jobs, Intents
  <2> QED
    BY <1>3, <2>1, <2>2, BeginsTyped, EditsTyped DEF ImportJson, ConfigTypeOK, KeysPlaced
<1>4. CASE TakeImport(t)
  <2> DEFINE give == job[t].give
  <2>1. give.host \in Servers \cup {No} /\ give.awg \in Keys \cup {No}
    BY <1>0 DEF Conf
  <2>2. conf' = Migrated(give, conf) /\ pc' = [pc EXCEPT ![t] = "save"]
        /\ cache' = (IF conf' = conf THEN cache ELSE No)
        /\ keys' = (IF conf' = conf THEN keys ELSE give.awg)
        /\ job' = job /\ json' = json /\ raced' = raced /\ edits' = edits /\ pc[t] = "take"
    BY <1>4 DEF TakeImport, Go, NoEdit
  <2>3. conf' \in Stamped
    BY <1>0, <2>1, <2>2, MigratedIsConf
  <2>4. conf' # conf => conf'.data # No /\ conf'.data.awg = give.awg
    BY <1>0, <2>1, <2>2, MigratedIsConf
  <2>5. ConfigTypeOK'
    BY <2>1, <2>2, <2>3 DEF ConfigTypeOK, Steps, Stamped
  <2>6. KeysPlaced'
    BY <2>2, <2>4 DEF KeysPlaced, ConfigTypeOK
  <2> QED
    BY <2>5, <2>6
<1>5. CASE ImportConf(t)
  <2>1. PICK h \in Servers, k \in Keys :
          conf' = Written([host |-> h, awg |-> k], conf) /\ keys' = k
    BY <1>5 DEF ImportConf
  <2> DEFINE c == [host |-> h, awg |-> k]
  <2>2. c \in Conf /\ c # No
    BY ConfigAssumption DEF Conf
  <2>3. conf' \in Stamped /\ conf'.data = c
    BY <1>0, <2>1, <2>2 DEF Written, Stamped
  <2>4. [NoJob EXCEPT !.intent = "conf", !.force = TRUE] \in Jobs
        /\ [NoJob EXCEPT !.intent = "conf", !.force = TRUE].intent = "conf"
    BY TornIsConf DEF NoJob, Jobs, Intents
  <2>5. Begins(t, [NoJob EXCEPT !.intent = "conf", !.force = TRUE])
    BY <1>5 DEF ImportConf
  <2>6. ConfigTypeOK'
    BY <1>5, <2>1, <2>3, <2>4, <2>5, BeginsTyped, EditsTyped DEF ImportConf, ConfigTypeOK, Stamped
  <2>7. KeysPlaced'
    BY <2>1, <2>2, <2>3 DEF KeysPlaced
  <2> QED
    BY <2>6, <2>7
<1>6. CASE Read(t)
  <2>1. CASE json.data = No
    <3>1. pc' = [pc EXCEPT ![t] = "idle"] /\ job' = [job EXCEPT ![t] = NoJob]
          /\ UNCHANGED <<conf, cache, json, keys, raced, edits>>
      BY <1>6, <2>1 DEF Read, Go, NoEdit
    <3> QED
      BY <3>1, TornIsConf DEF ConfigTypeOK, KeysPlaced, Steps
  <2>2. CASE json.data # No
    <3>1. json.data \in Settings /\ json.data.host \in Servers \cup {No} /\ json.data.awg \in Keys \cup {No}
      BY <1>0, <2>2 DEF Settings
    <3>2. conf' = Migrated(json.data, conf) /\ pc' = [pc EXCEPT ![t] = "overlay"]
          /\ job' = [job EXCEPT ![t].cfg = json.data]
          /\ cache' = (IF conf' = conf THEN cache ELSE No)
          /\ UNCHANGED <<json, keys, raced, edits>>
      BY <1>6, <2>2 DEF Read, Go, NoEdit
    <3>3. conf' \in Stamped
      BY <1>0, <3>1, <3>2, MigratedIsConf
    <3>4. job' \in [Threads -> Jobs] /\ job'[t].cfg = json.data
          /\ job'[t].intent = job[t].intent /\ job'[t].opt = job[t].opt
          /\ \A u \in Threads \ {t} : job'[u] = job[u]
      BY <3>1, <3>2 DEF ConfigTypeOK, Jobs
    <3>5. ConfigTypeOK'
      BY <3>1, <3>2, <3>3, <3>4 DEF ConfigTypeOK, Steps, Stamped
    <3>6. KeysPlaced'
      BY <1>0, <3>1, <3>2, MigratedIsConf DEF KeysPlaced, ConfigTypeOK
    <3> QED
      BY <3>5, <3>6
  <2> QED
    BY <2>1, <2>2
<1>7. CASE Overlays(t)
  <2>1. pc' = [pc EXCEPT ![t] = "store"] /\ pc[t] = "overlay"
        /\ job' = [job EXCEPT ![t].cfg = Overlay(@, conf.data)]
        /\ UNCHANGED <<json, conf, cache, keys, raced, edits>>
    BY <1>7 DEF Overlays, Go, NoEdit
  <2>2. Overlay(job[t].cfg, conf.data) \in Settings
    BY <1>0, <2>1, OverlayIsSettings DEF ConfigTypeOK
  <2>3. job' \in [Threads -> Jobs] /\ job'[t].cfg \in Settings
        /\ job'[t].intent = job[t].intent /\ job'[t].opt = job[t].opt
        /\ \A u \in Threads \ {t} : job'[u] = job[u]
    BY <2>1, <2>2 DEF ConfigTypeOK, Jobs
  <2> QED
    BY <2>1, <2>3 DEF ConfigTypeOK, KeysPlaced, Steps
<1>8. CASE Store(t)
  <2>1. pc' = [pc EXCEPT ![t] = AfterLoad(job[t].intent)] /\ pc[t] = "store"
        /\ cache' = [js |-> job[t].js, cs |-> conf.stamp, cfg |-> job[t].cfg]
        /\ job' = [job EXCEPT ![t] = IF @.intent = "load" THEN NoJob ELSE @]
        /\ UNCHANGED <<json, conf, keys, raced, edits>>
    BY <1>8 DEF Store, Go, NoEdit
  <2>2. AfterLoad(job[t].intent) \in {"idle", "take", "save"}
        /\ (job[t].intent = "load" => AfterLoad(job[t].intent) = "idle")
    BY <1>0 DEF AfterLoad, Jobs, Intents
  <2>3. cache' \in [js : Nat, cs : Nat, cfg : Settings]
    BY <1>0, <2>1 DEF ConfigTypeOK, Jobs
  <2>4. job'[t] = (IF job[t].intent = "load" THEN NoJob ELSE job[t])
        /\ job' \in [Threads -> Jobs] /\ \A u \in Threads \ {t} : job'[u] = job[u]
    BY <2>1, TornIsConf DEF ConfigTypeOK
  <2>5. ConfigTypeOK'
    BY <2>1, <2>2, <2>3, <2>4, TornIsConf DEF ConfigTypeOK, Steps
  <2>6. KeysPlaced'
    BY <2>1, <2>2 DEF KeysPlaced, ConfigTypeOK
  <2> QED
    BY <2>5, <2>6
<1>9. CASE Save(t)
  <2> DEFINE want == Wanted(job[t])
             payload == IF json.data = No THEN want ELSE Merged(json.data, want)
  <2>1. pc' = [pc EXCEPT ![t] = "write"] /\ pc[t] = "save"
        /\ conf' = Migrated(payload, conf)
        /\ cache' = (IF conf' = conf THEN cache ELSE No)
        /\ job' = [job EXCEPT ![t].cfg = Persistable(payload)]
        /\ UNCHANGED <<json, keys, raced, edits>>
    BY <1>9 DEF Save, Go, NoEdit
  <2>2. want \in Settings
    BY <1>0, <2>1, WantedIsSettings DEF ConfigTypeOK
  <2>3. payload \in Settings /\ (json.data # No => payload.awg = json.data.awg)
    <3>1. want.host \in Servers \cup {No} /\ want.opt \in Options
      BY <2>2 DEF Settings
    <3> HIDE DEF want
    <3> QED
      BY <1>0, <2>2, <3>1, MergedIsSettings
  <2> HIDE DEF payload
  <2>4. payload.host \in Servers \cup {No} /\ payload.awg \in Keys \cup {No}
        /\ Persistable(payload) \in Settings
    BY <2>3, PersistableIsSettings DEF Settings
  <2>5. conf' \in Stamped
    BY <1>0, <2>1, <2>4, MigratedIsConf
  <2>6. job' \in [Threads -> Jobs] /\ job'[t].cfg \in Settings
        /\ job'[t].intent = job[t].intent /\ job'[t].opt = job[t].opt
        /\ \A u \in Threads \ {t} : job'[u] = job[u]
    BY <2>1, <2>4 DEF ConfigTypeOK, Jobs
  <2>7. ConfigTypeOK'
    BY <2>1, <2>5, <2>6 DEF ConfigTypeOK, Steps, Stamped
  <2>8. keys # No => conf'.data # No /\ conf'.data.awg = keys
    BY <1>0, <2>1, <2>3, <2>4, MigratedIsConf DEF KeysPlaced
  <2>9. KeysPlaced'
    BY <2>1, <2>8 DEF KeysPlaced
  <2> QED
    BY <2>7, <2>9
<1>10. CASE Write(t)
  <2>1. pc' = [pc EXCEPT ![t] = "forget"] /\ pc[t] = "write"
        /\ json' = [data |-> job[t].cfg, stamp |-> json.stamp + 1]
        /\ UNCHANGED <<conf, cache, job, keys, raced, edits>>
    BY <1>10 DEF Write, Go, NoEdit
  <2>2. json' \in [data : Settings \cup {No}, stamp : Nat]
    BY <1>0, <2>1 DEF ConfigTypeOK
  <2> QED
    BY <2>1, <2>2 DEF ConfigTypeOK, KeysPlaced, Steps
<1>11. CASE Invalidate(t)
  <2>1. pc' = [pc EXCEPT ![t] = "read"] /\ cache' = No
        /\ job' = [job EXCEPT ![t] = [NoJob EXCEPT !.force = TRUE, !.js = json.stamp]]
        /\ UNCHANGED <<json, conf, keys, raced, edits>>
    BY <1>11 DEF Invalidate, Go, NoEdit
  <2>2. [NoJob EXCEPT !.force = TRUE, !.js = json.stamp] \in Jobs
        /\ [NoJob EXCEPT !.force = TRUE, !.js = json.stamp].intent = "load"
    BY <1>0, TornIsConf DEF NoJob, Jobs
  <2> QED
    BY <2>1, <2>2 DEF ConfigTypeOK, KeysPlaced, Steps
<1> QED
  BY <1>1, <1>2, <1>3, <1>4, <1>5, <1>6, <1>7, <1>8, <1>9, <1>10, <1>11 DEF Step

\* What the user and a death do to the files.
LEMMA OutsideKeeps ==
  ASSUME ConfigIInv, UserEditsConf \/ UserEditsJson \/ Die \/ DieWriting \/ DieMigrating
  PROVE  ConfigIInv'
<1> USE DEF ConfigIInv
<1>e. Edit /\ edits \in 0..MaxEdits
  BY DEF ConfigTypeOK, UserEditsConf, UserEditsJson, Die, DieWriting, DieMigrating, Restarted
<1>s. json.stamp \in Nat /\ conf.stamp \in Nat
  BY DEF ConfigTypeOK
<1>0. edits' \in 0..MaxEdits /\ json.stamp + 1 \in Nat /\ conf.stamp + 1 \in Nat
  BY <1>e, <1>s, EditsTyped
<1>r. ASSUME Restarted
      PROVE  /\ cache' = No /\ raced' = raced /\ pc' \in [Threads -> Steps] /\ job' \in [Threads -> Jobs]
             /\ \A t \in Threads : pc'[t] = "idle" /\ job'[t] = NoJob
  BY <1>r, TornIsConf DEF Restarted, Steps
<1>1. CASE UserEditsConf
  <2>1. PICK c \in Conf \cup {No} :
          conf' = [data |-> c, stamp |-> conf.stamp + 1] /\ keys' = IF c = No THEN No ELSE c.awg
    BY <1>1 DEF UserEditsConf
  <2>2. keys' \in Keys \cup {No} /\ raced' \in BOOLEAN
    BY <1>1, <2>1 DEF UserEditsConf, Conf, ConfigTypeOK
  <2> QED
    BY <1>0, <1>1, <2>1, <2>2 DEF UserEditsConf, ConfigTypeOK, KeysPlaced
<1>2. CASE UserEditsJson
  <2>1. PICK h \in Servers, o \in Options :
          json' = [data |-> [json.data EXCEPT !.host = h, !.opt = o], stamp |-> json.stamp + 1]
    BY <1>2 DEF UserEditsJson
  <2>2. json.data \in Settings
    BY <1>2 DEF UserEditsJson, ConfigTypeOK
  <2>3. [json.data EXCEPT !.host = h, !.opt = o] \in Settings
        /\ [json.data EXCEPT !.host = h, !.opt = o].awg = json.data.awg
    BY <2>2 DEF Settings
  <2>4. [json.data EXCEPT !.host = h, !.opt = o] # No
    BY <2>3, ConfigAssumption
  <2>5. json' \in [data : Settings \cup {No}, stamp : Nat] /\ json'.data # No
        /\ json'.data.awg = json.data.awg
    BY <1>0, <2>1, <2>3, <2>4
  <2>6. UNCHANGED <<conf, cache, pc, job, keys, raced>>
    BY <1>2 DEF UserEditsJson
  <2> QED
    BY <1>0, <2>5, <2>6 DEF ConfigTypeOK, KeysPlaced
<1>3. CASE Die
  BY <1>0, <1>r, <1>3, TornIsConf DEF Die, ConfigTypeOK, KeysPlaced
<1>4. CASE DieWriting
  <2>1. keys # No => conf.data # No /\ conf.data.awg = keys
    BY <1>4 DEF DieWriting, KeysPlaced
  <2>2. Restarted /\ conf' = conf /\ keys' = keys /\ json' = [data |-> No, stamp |-> json.stamp + 1]
    BY <1>4 DEF DieWriting
  <2> QED
    BY <1>0, <1>r, <2>1, <2>2, TornIsConf DEF ConfigTypeOK, KeysPlaced
<1>5. CASE DieMigrating
  <2>1. Restarted /\ json' = json /\ keys' = No /\ conf' = [data |-> Torn, stamp |-> conf.stamp + 1]
    BY <1>5 DEF DieMigrating
  <2> QED
    BY <1>0, <1>r, <2>1, TornIsConf DEF ConfigTypeOK, KeysPlaced
<1> QED
  BY <1>1, <1>2, <1>3, <1>4, <1>5

LEMMA ConfigNextKeeps == ConfigIInv /\ [ConfigNext]_configVars => ConfigIInv'
<1> SUFFICES ASSUME ConfigIInv, [ConfigNext]_configVars PROVE ConfigIInv'
  OBVIOUS
<1>1. CASE UNCHANGED configVars
  BY <1>1 DEF configVars, ConfigIInv, ConfigTypeOK, KeysPlaced
<1>2. CASE ConfigNext
  BY <1>2, StepKeeps, OutsideKeeps DEF ConfigNext
<1> QED
  BY <1>1, <1>2

-----------------------------------------------------------------------------
\* The two files, the cache and the threads are typed, and the keys are where a
\* save counts on them (load_config, save_config, migrate_legacy_awg_json).
THEOREM ConfigInductive == ConfigSpec => []ConfigIInv
<1> QED
  BY ConfigInitIInv, ConfigNextKeeps, PTL DEF ConfigSpec

\* The keys the user gave last are in one of the two files at every moment, for
\* any threads that load, save and import and any deaths (KeysSurvive).
THEOREM KeysAlwaysSurvive == ConfigSpec => []KeysSurvive
<1>1. ConfigIInv => KeysSurvive
  BY DEF ConfigIInv, KeysPlaced, KeysSurvive, Ready, HasKeys
<1> QED
  BY <1>1, ConfigInductive, PTL
-----------------------------------------------------------------------------
\* The cache.  What a load has in hand is outdated by a write of config.json,
\* by its stamp; a change of the conf under it is either the user's (raced) or
\* that of an import, which still has its write before it.

ImportUnderWay ==
  \E u \in Threads :
    /\ job[u].intent \in {"json", "conf"}
    /\ pc[u] \in {"read", "overlay", "store", "take", "save", "write"}

\* Stamps grow.
StampsPast ==
  /\ \A t \in Threads : job[t].js <= json.stamp
  /\ cache # No => cache.js <= json.stamp /\ cache.cs <= conf.stamp

TornIsUnread == json.data = No => cache = No /\ \A t \in Threads : pc[t] \in {"idle", "read"}

TakesJson == \A t \in Threads : pc[t] = "take" => job[t].intent = "json"

\* What a load that nothing outdated has in hand, and has migrated
HasRead ==
  \A t \in Threads : job[t].js = json.stamp =>
    /\ pc[t] = "overlay" => job[t].cfg = json.data
    /\ pc[t] \in {"overlay", "store"} /\ ~raced => conf.data # No \/ json.data.awg = No

Truth == Overlay(json.data, conf.data)

HasTruth ==
  ~raced /\ ~ImportUnderWay =>
    /\ \A t \in Threads : job[t].js = json.stamp /\ pc[t] = "store" => job[t].cfg = Truth
    /\ Hit => cache.cfg = Truth

CacheInv == StampsPast /\ TornIsUnread /\ TakesJson /\ HasRead /\ HasTruth

LEMMA CacheInit == ConfigInit => CacheInv
<1> SUFFICES ASSUME ConfigInit PROVE CacheInv
  OBVIOUS
<1>1. /\ json.stamp = 1 /\ cache = No
      /\ \A t \in Threads : pc[t] = "idle" /\ job[t].js = 0 /\ job[t].intent = "load"
  BY DEF ConfigInit, NoJob
<1> QED
  BY <1>1 DEF CacheInv, StampsPast, TornIsUnread, TakesJson, HasRead, HasTruth, Hit

\* After a write of config.json everything in hand and in the cache is outdated.
LEMMA WrittenOutdates ==
  ASSUME ConfigIInv, CacheInv, json'.stamp = json.stamp + 1, json'.data # No, conf' = conf,
         cache' = cache, job' = job,
         \A t \in Threads : pc'[t] = "take" => pc[t] = "take"
  PROVE  CacheInv'
<1>1. json.stamp \in Nat /\ \A t \in Threads : job[t].js \in Nat
  BY DEF ConfigIInv, ConfigTypeOK, Jobs
<1>2. cache # No => cache.js \in Nat
  BY DEF ConfigIInv, ConfigTypeOK
<1>3. \A t \in Threads : job'[t].js <= json'.stamp /\ job'[t].js # json'.stamp
  BY <1>1 DEF CacheInv, StampsPast
<1>4. cache' # No => cache'.js <= json'.stamp /\ cache'.js # json'.stamp /\ cache'.cs <= conf'.stamp
  BY <1>1, <1>2 DEF CacheInv, StampsPast
<1> QED
  BY <1>3, <1>4 DEF CacheInv, StampsPast, TornIsUnread, TakesJson, HasRead, HasTruth, Hit

\* A migration finds nothing to do while a load that nothing outdated is on.
LEMMA MigratesAlone ==
  ASSUME CacheInv, ~raced, NEW t \in Threads, pc[t] \in {"overlay", "store"},
         job[t].js = json.stamp, NEW cfg, cfg.awg = json.data.awg
  PROVE  Migrated(cfg, conf) = conf
BY DEF CacheInv, HasRead, Migrated, HasKeys

\* A job that begins has nothing in hand yet.
LEMMA BeginsKeepsCache ==
  ASSUME ConfigIInv, CacheInv, NEW t \in Threads, NEW j \in Jobs, j.js = 0, Begins(t, j),
         json' = json, raced' = raced,
         \/ conf' = conf /\ cache' = cache
         \/ conf'.stamp = conf.stamp + 1 /\ cache' = No /\ conf'.data # No /\ j.intent = "conf" /\ j.force
  PROVE  CacheInv'
<1>0. json.stamp \in Nat /\ job \in [Threads -> Jobs] /\ pc \in [Threads -> Steps] /\ pc[t] = "idle"
  BY DEF ConfigIInv, ConfigTypeOK, Begins
<1>1. CASE Hit /\ ~j.force
  <2>1. /\ job' = [job EXCEPT ![t] = [j EXCEPT !.cfg = cache.cfg]]
        /\ pc' = [pc EXCEPT ![t] = AfterLoad(j.intent)]
        /\ conf' = conf /\ cache' = cache
    BY <1>1 DEF Begins, Go
  <2>2. AfterLoad(j.intent) \in {"idle", "take", "save"}
        /\ (AfterLoad(j.intent) = "take" => j.intent = "json")
    BY DEF AfterLoad, Jobs, Intents
  <2>3. [j EXCEPT !.cfg = cache.cfg].js = 0 /\ [j EXCEPT !.cfg = cache.cfg].intent = j.intent
    BY DEF Jobs
  <2>4. job'[t].js = 0 /\ job'[t].intent = j.intent /\ pc'[t] = AfterLoad(j.intent)
        /\ \A u \in Threads : u # t => job'[u] = job[u] /\ pc'[u] = pc[u]
    BY <1>0, <2>1, <2>3
  <2>5. ImportUnderWay => ImportUnderWay'
    BY <1>0, <2>4 DEF ImportUnderWay
  <2>6. Hit' = Hit /\ Truth' = Truth /\ json.data # No
    BY <1>1, <2>1 DEF Hit, Truth, CacheInv, TornIsUnread
  <2> QED
    BY <1>0, <2>1, <2>2, <2>4, <2>5, <2>6
    DEF CacheInv, StampsPast, TornIsUnread, TakesJson, HasRead, HasTruth
<1>2. CASE ~(Hit /\ ~j.force)
  <2>1. job' = [job EXCEPT ![t] = [j EXCEPT !.js = json.stamp]] /\ pc' = [pc EXCEPT ![t] = "read"]
    BY <1>2 DEF Begins, Go
  <2>2. [j EXCEPT !.js = json.stamp].js = json.stamp /\ [j EXCEPT !.js = json.stamp].intent = j.intent
    BY DEF Jobs
  <2>3. job'[t].js = json.stamp /\ job'[t].intent = j.intent /\ pc'[t] = "read"
        /\ \A u \in Threads : u # t => job'[u] = job[u] /\ pc'[u] = pc[u]
    BY <1>0, <2>1, <2>2
  <2>4. ImportUnderWay => ImportUnderWay'
    BY <1>0, <2>3 DEF ImportUnderWay
  <2>5. CASE conf' = conf /\ cache' = cache
    <3>1. Hit' = Hit /\ Truth' = Truth
      BY <2>5 DEF Hit, Truth
    <3> QED
      BY <1>0, <2>3, <2>4, <2>5, <3>1
      DEF CacheInv, StampsPast, TornIsUnread, TakesJson, HasRead, HasTruth
  <2>6. CASE cache' = No /\ conf'.data # No /\ j.intent = "conf"
    <3>1. ImportUnderWay'
      BY <2>3, <2>6 DEF ImportUnderWay
    <3> QED
      BY <1>0, <2>3, <2>6, <3>1
      DEF CacheInv, StampsPast, TornIsUnread, TakesJson, HasRead, HasTruth
  <2> QED
    BY <2>5, <2>6
<1> QED
  BY <1>1, <1>2

\* A thread's step keeps what the cache is trusted for.
LEMMA StepKeepsCache ==
  ASSUME ConfigIInv, CacheInv, NEW t \in Threads, Step(t)
  PROVE  CacheInv'
<1>0. /\ json.stamp \in Nat /\ conf.stamp \in Nat /\ job \in [Threads -> Jobs] /\ pc \in [Threads -> Steps]
      /\ conf \in Stamped /\ job[t].js \in Nat /\ job[t].js <= json.stamp /\ job[t] \in Jobs
  BY DEF ConfigIInv, ConfigTypeOK, Stamped, Jobs, CacheInv, StampsPast
<1>n. NoJob.js = 0 /\ NoJob \in Jobs
  BY TornIsConf DEF NoJob
<1>1. CASE Reload(t)
  <2>1. [NoJob EXCEPT !.force = TRUE] \in Jobs /\ [NoJob EXCEPT !.force = TRUE].js = 0
    BY <1>n DEF Jobs
  <2> QED
    BY <1>1, <2>1, BeginsKeepsCache DEF Reload
<1>2. CASE UpdateKey(t)
  <2>1. PICK o \in Options : Begins(t, [NoJob EXCEPT !.intent = "opt", !.opt = o])
    BY <1>2 DEF UpdateKey
  <2>2. [NoJob EXCEPT !.intent = "opt", !.opt = o] \in Jobs
        /\ [NoJob EXCEPT !.intent = "opt", !.opt = o].js = 0
    BY <1>n DEF Jobs, Intents
  <2>3. UNCHANGED <<json, conf, cache, raced>>
    BY <1>2 DEF UpdateKey
  <2> QED
    BY <2>1, <2>2, <2>3, BeginsKeepsCache
<1>3. CASE ImportJson(t)
  <2>1. PICK o \in Options, new \in Conf :
          Begins(t, [NoJob EXCEPT !.intent = "json", !.opt = o, !.give = new])
    BY <1>3 DEF ImportJson
  <2>2. [NoJob EXCEPT !.intent = "json", !.opt = o, !.give = new] \in Jobs
        /\ [NoJob EXCEPT !.intent = "json", !.opt = o, !.give = new].js = 0
    BY <1>n DEF Jobs, Intents
  <2>3. UNCHANGED <<json, conf, cache, raced>>
    BY <1>3 DEF ImportJson
  <2> QED
    BY <2>1, <2>2, <2>3, BeginsKeepsCache
<1>4. CASE ImportConf(t)
  <2>1. PICK h \in Servers, k \in Keys : conf' = Written([host |-> h, awg |-> k], conf)
    BY <1>4 DEF ImportConf
  <2>2. [host |-> h, awg |-> k] \in Conf
    BY DEF Conf
  <2>3. conf'.stamp = conf.stamp + 1 /\ conf'.data # No
    BY <2>1, <2>2, ConfigAssumption DEF Written
  <2>4. /\ Begins(t, [NoJob EXCEPT !.intent = "conf", !.force = TRUE])
        /\ cache' = No /\ UNCHANGED <<json, raced>>
    BY <1>4 DEF ImportConf
  <2>5. /\ [NoJob EXCEPT !.intent = "conf", !.force = TRUE] \in Jobs
        /\ [NoJob EXCEPT !.intent = "conf", !.force = TRUE].js = 0
        /\ [NoJob EXCEPT !.intent = "conf", !.force = TRUE].intent = "conf"
        /\ [NoJob EXCEPT !.intent = "conf", !.force = TRUE].force
    BY <1>n DEF Jobs, Intents
  <2> QED
    BY <2>3, <2>4, <2>5, BeginsKeepsCache
<1>5. CASE TakeImport(t)
  <2>1. /\ pc[t] = "take" /\ job[t].intent = "json" /\ pc' = [pc EXCEPT ![t] = "save"] /\ job' = job
        /\ conf' = Migrated(job[t].give, conf) /\ UNCHANGED <<json, raced>>
        /\ cache' = IF conf' = conf THEN cache ELSE No
    BY <1>5 DEF TakeImport, Go, CacheInv, TakesJson
  <2>2. job[t].give.host \in Servers \cup {No} /\ job[t].give.awg \in Keys \cup {No}
    BY <1>0 DEF Jobs, Conf
  <2>3. conf.data # No => conf' = conf
    BY <1>0, <2>1, <2>2, MigratedIsConf
  <2>4. ImportUnderWay'
    BY <1>0, <2>1 DEF ImportUnderWay
  <2>5. pc'[t] = "save" /\ \A u \in Threads : u # t => pc'[u] = pc[u]
    BY <1>0, <2>1
  <2> QED
    BY <2>1, <2>3, <2>4, <2>5 DEF CacheInv, StampsPast, TornIsUnread, TakesJson, HasRead, HasTruth
<1>6. CASE Read(t)
  <2>1. CASE json.data = No
    <3>1. /\ pc' = [pc EXCEPT ![t] = "idle"] /\ job' = [job EXCEPT ![t] = NoJob]
          /\ UNCHANGED <<json, conf, cache, raced>>
      BY <1>6, <2>1 DEF Read, Go
    <3>2. /\ pc'[t] = "idle" /\ job'[t] = NoJob
          /\ \A u \in Threads : u # t => pc'[u] = pc[u] /\ job'[u] = job[u]
      BY <1>0, <3>1
    <3>3. cache = No /\ \A u \in Threads : pc'[u] \in {"idle", "read"}
      BY <2>1, <3>2 DEF CacheInv, TornIsUnread
    <3> QED
      BY <1>0, <1>n, <3>1, <3>2, <3>3
      DEF CacheInv, StampsPast, TornIsUnread, TakesJson, HasRead, HasTruth, Hit
  <2>2. CASE json.data # No
    <3>1. /\ pc[t] = "read" /\ pc' = [pc EXCEPT ![t] = "overlay"] /\ job' = [job EXCEPT ![t].cfg = json.data]
          /\ conf' = Migrated(json.data, conf) /\ UNCHANGED <<json, raced>>
          /\ cache' = IF conf' = conf THEN cache ELSE No
      BY <1>6, <2>2 DEF Read, Go
    <3>2. /\ pc'[t] = "overlay" /\ job'[t].cfg = json.data
          /\ job'[t].js = job[t].js /\ job'[t].intent = job[t].intent
          /\ \A u \in Threads : u # t => pc'[u] = pc[u] /\ job'[u] = job[u]
      BY <1>0, <3>1 DEF Jobs
    <3>3. json.data \in Settings
      BY <2>2 DEF ConfigIInv, ConfigTypeOK
    <3>4. /\ conf.data # No => conf' = conf
          /\ conf'.data # No \/ json.data.awg = No
          /\ conf'.data = No => conf' = conf
      BY <1>0, <3>1, <3>3, MigratedIsConf DEF Settings
    <3>5. ImportUnderWay => ImportUnderWay'
      BY <3>1, <3>2 DEF ImportUnderWay
    <3>6. ASSUME NEW u \in Threads, ~raced, job[u].js = json.stamp, pc[u] \in {"overlay", "store"}
          PROVE  conf' = conf
      BY <3>1, <3>6, MigratesAlone
    <3>7. CASE conf' = conf
      <4>1. Hit' = Hit /\ Truth' = Truth
        BY <3>1, <3>7 DEF Hit, Truth
      <4> QED
        BY <2>2, <3>1, <3>2, <3>4, <3>5, <3>7, <4>1
        DEF CacheInv, StampsPast, TornIsUnread, TakesJson, HasRead, HasTruth
    <3>8. CASE conf' # conf
      <4>1. ~Hit' /\ cache' = No
        BY <3>1, <3>8 DEF Hit
      <4> QED
        BY <2>2, <3>1, <3>2, <3>4, <3>5, <3>6, <3>8, <4>1
        DEF CacheInv, StampsPast, TornIsUnread, TakesJson, HasRead, HasTruth
    <3> QED
      BY <3>7, <3>8
  <2> QED
    BY <2>1, <2>2
<1>7. CASE Overlays(t)
  <2>1. /\ pc[t] = "overlay" /\ pc' = [pc EXCEPT ![t] = "store"]
        /\ job' = [job EXCEPT ![t].cfg = Overlay(@, conf.data)]
        /\ UNCHANGED <<json, conf, cache, raced>>
    BY <1>7 DEF Overlays, Go
  <2>2. /\ pc'[t] = "store" /\ job'[t].cfg = Overlay(job[t].cfg, conf.data)
        /\ job'[t].js = job[t].js /\ job'[t].intent = job[t].intent
        /\ \A u \in Threads : u # t => pc'[u] = pc[u] /\ job'[u] = job[u]
    BY <1>0, <2>1 DEF Jobs
  <2>3. job[t].js = json.stamp => job'[t].cfg = Truth
    BY <2>1, <2>2 DEF Truth, CacheInv, HasRead
  <2>4. ImportUnderWay => ImportUnderWay'
    BY <2>1, <2>2 DEF ImportUnderWay
  <2>5. Hit' = Hit /\ Truth' = Truth /\ json.data # No
    BY <2>1 DEF Hit, Truth, CacheInv, TornIsUnread
  <2> QED
    BY <2>1, <2>2, <2>3, <2>4, <2>5
    DEF CacheInv, StampsPast, TornIsUnread, TakesJson, HasRead, HasTruth
<1>8. CASE Store(t)
  <2>1. /\ pc[t] = "store" /\ pc' = [pc EXCEPT ![t] = AfterLoad(job[t].intent)]
        /\ job' = [job EXCEPT ![t] = IF @.intent = "load" THEN NoJob ELSE @]
        /\ cache' = [js |-> job[t].js, cs |-> conf.stamp, cfg |-> job[t].cfg]
        /\ UNCHANGED <<json, conf, raced>>
    BY <1>8 DEF Store, Go
  <2>2. /\ AfterLoad(job[t].intent) \in {"idle", "take", "save"}
        /\ AfterLoad(job[t].intent) = "take" => job[t].intent = "json"
        /\ AfterLoad(job[t].intent) = "idle" => job[t].intent = "load"
    BY <1>0 DEF AfterLoad, Jobs, Intents
  <2>3. /\ pc'[t] = AfterLoad(job[t].intent)
        /\ job'[t] = IF job[t].intent = "load" THEN NoJob ELSE job[t]
        /\ \A u \in Threads : u # t => pc'[u] = pc[u] /\ job'[u] = job[u]
    BY <1>0, <2>1
  <2>4. ImportUnderWay => ImportUnderWay'
    BY <2>2, <2>3 DEF ImportUnderWay
  <2>5. Truth' = Truth /\ json.data # No
    BY <2>1 DEF Truth, CacheInv, TornIsUnread
  <2>6. ~raced /\ ~ImportUnderWay' /\ Hit' => cache'.cfg = Truth
    <3>1. cache' # No => cache'.js = job[t].js /\ cache'.cfg = job[t].cfg
      BY <2>1
    <3>2. Hit' => job[t].js = json.stamp
      BY <2>1, <3>1 DEF Hit
    <3> QED
      BY <2>1, <2>4, <3>2 DEF CacheInv, HasTruth
  <2>7. cache'.js <= json.stamp /\ cache'.cs <= conf.stamp
    BY <1>0, <2>1
  <2> QED
    BY <1>0, <1>n, <2>1, <2>2, <2>3, <2>4, <2>5, <2>6, <2>7
    DEF CacheInv, StampsPast, TornIsUnread, TakesJson, HasRead, HasTruth
<1>9. CASE Save(t)
  <2> DEFINE want == Wanted(job[t])
             payload == IF json.data = No THEN want ELSE Merged(json.data, want)
  <2>0. pc[t] = "save" /\ json.data # No
    BY <1>9 DEF Save, CacheInv, TornIsUnread
  <2>1. /\ pc' = [pc EXCEPT ![t] = "write"] /\ job' = [job EXCEPT ![t].cfg = Persistable(payload)]
        /\ conf' = Migrated(payload, conf) /\ UNCHANGED <<json, raced>>
        /\ cache' = IF conf' = conf THEN cache ELSE No
    BY <1>9 DEF Save, Go
  <2>2. /\ pc'[t] = "write" /\ job'[t].js = job[t].js /\ job'[t].intent = job[t].intent
        /\ \A u \in Threads : u # t => pc'[u] = pc[u] /\ job'[u] = job[u]
    BY <1>0, <2>1 DEF Jobs
  <2>3. job[t].cfg \in Settings /\ json.data \in Settings
        /\ (job[t].intent \in {"opt", "json"} => job[t].opt \in Options)
    BY <2>0 DEF ConfigIInv, ConfigTypeOK
  <2>4. want \in Settings
    BY <1>0, <2>3, WantedIsSettings
  <2>5. payload \in Settings /\ payload.awg = json.data.awg
    BY <2>0, <2>3, <2>4, MergedIsSettings DEF Settings
  <2>6. conf.data # No => conf' = conf
    BY <1>0, <2>1, <2>5, MigratedIsConf DEF Settings
  <2>7. ImportUnderWay => ImportUnderWay'
    BY <2>0, <2>2 DEF ImportUnderWay
  <2>8. ASSUME NEW u \in Threads, ~raced, job[u].js = json.stamp, pc[u] \in {"overlay", "store"}
        PROVE  conf' = conf
    BY <2>1, <2>5, <2>8, MigratesAlone
  <2>9. CASE conf' = conf
    <3>1. Hit' = Hit /\ Truth' = Truth
      BY <2>1, <2>9 DEF Hit, Truth
    <3> QED
      BY <2>0, <2>1, <2>2, <2>7, <2>9, <3>1
      DEF CacheInv, StampsPast, TornIsUnread, TakesJson, HasRead, HasTruth
  <2>10. CASE conf' # conf
    <3>1. ~Hit' /\ cache' = No
      BY <2>1, <2>10 DEF Hit
    <3> QED
      BY <2>0, <2>1, <2>2, <2>6, <2>7, <2>8, <2>10, <3>1
      DEF CacheInv, StampsPast, TornIsUnread, TakesJson, HasRead, HasTruth
  <2> QED
    BY <2>9, <2>10
<1>10. CASE Write(t)
  <2>1. /\ json' = [data |-> job[t].cfg, stamp |-> json.stamp + 1] /\ pc[t] = "write"
        /\ pc' = [pc EXCEPT ![t] = "forget"] /\ UNCHANGED <<conf, cache, job>>
    BY <1>10 DEF Write, Go
  <2>2. job[t].cfg \in Settings
    BY <2>1 DEF ConfigIInv, ConfigTypeOK
  <2>3. json'.data # No /\ json'.stamp = json.stamp + 1
    BY <2>1, <2>2, ConfigAssumption
  <2>4. \A u \in Threads : pc'[u] = "take" => pc[u] = "take"
    BY <1>0, <2>1
  <2> QED
    BY <2>1, <2>3, <2>4, WrittenOutdates
<1>11. CASE Invalidate(t)
  <2>1. /\ pc[t] = "forget" /\ pc' = [pc EXCEPT ![t] = "read"] /\ cache' = No
        /\ job' = [job EXCEPT ![t] = [NoJob EXCEPT !.force = TRUE, !.js = json.stamp]]
        /\ UNCHANGED <<json, conf, raced>>
    BY <1>11 DEF Invalidate, Go
  <2>2. /\ pc'[t] = "read" /\ job'[t].js = json.stamp
        /\ \A u \in Threads : u # t => pc'[u] = pc[u] /\ job'[u] = job[u]
    BY <1>0, <1>n, <2>1 DEF NoJob
  <2>3. ImportUnderWay => ImportUnderWay'
    BY <2>1, <2>2 DEF ImportUnderWay
  <2>4. Truth' = Truth /\ ~Hit' /\ json.data # No
    BY <2>1 DEF Truth, Hit, CacheInv, TornIsUnread
  <2> QED
    BY <1>0, <2>1, <2>2, <2>3, <2>4
    DEF CacheInv, StampsPast, TornIsUnread, TakesJson, HasRead, HasTruth
<1> QED
  BY <1>1, <1>2, <1>3, <1>4, <1>5, <1>6, <1>7, <1>8, <1>9, <1>10, <1>11 DEF Step

LEMMA OutsideKeepsCache ==
  ASSUME ConfigIInv, CacheInv, UserEditsConf \/ UserEditsJson \/ Die \/ DieWriting \/ DieMigrating
  PROVE  CacheInv'
<1>0. json.stamp \in Nat /\ conf.stamp \in Nat /\ cache \in [js : Nat, cs : Nat, cfg : Settings] \cup {No}
  BY DEF ConfigIInv, ConfigTypeOK
<1>1. CASE UserEditsConf
  <2>1. /\ conf'.stamp = conf.stamp + 1 /\ UNCHANGED <<json, cache, pc, job>>
        /\ raced' = (raced \/ \E t \in Threads : pc[t] \in {"overlay", "store"})
    BY <1>1 DEF UserEditsConf
  <2>2. cache # No => cache.cs <= conf'.stamp /\ cache.cs # conf'.stamp
    BY <1>0, <2>1 DEF CacheInv, StampsPast
  <2>3. ~Hit'
    BY <2>1, <2>2 DEF Hit
  <2>4. ImportUnderWay' <=> ImportUnderWay
    BY <2>1 DEF ImportUnderWay
  <2> QED
    BY <2>1, <2>2, <2>3, <2>4 DEF CacheInv, StampsPast, TornIsUnread, TakesJson, HasRead, HasTruth
<1>2. CASE UserEditsJson
  <2>1. PICK h \in Servers, o \in Options :
          json' = [data |-> [json.data EXCEPT !.host = h, !.opt = o], stamp |-> json.stamp + 1]
    BY <1>2 DEF UserEditsJson
  <2>2. json.data \in Settings /\ UNCHANGED <<conf, cache, pc, job>>
    BY <1>2 DEF UserEditsJson, ConfigIInv, ConfigTypeOK
  <2>3. [json.data EXCEPT !.host = h, !.opt = o] # No
    BY <2>2, ConfigAssumption DEF Settings
  <2> QED
    BY <2>1, <2>2, <2>3, WrittenOutdates
<1>3. CASE Die \/ DieWriting \/ DieMigrating
  <2>1. /\ cache' = No /\ json'.stamp \in Nat
        /\ \A t \in Threads : pc'[t] = "idle" /\ job'[t] = NoJob
    BY <1>0, <1>3 DEF Die, DieWriting, DieMigrating, Restarted
  <2>2. NoJob.js = 0
    BY DEF NoJob
  <2> QED
    BY <2>1, <2>2 DEF CacheInv, StampsPast, TornIsUnread, TakesJson, HasRead, HasTruth, Hit
<1> QED
  BY <1>1, <1>2, <1>3

LEMMA NextKeepsCache == ConfigIInv /\ CacheInv /\ [ConfigNext]_configVars => CacheInv'
<1> SUFFICES ASSUME ConfigIInv, CacheInv, [ConfigNext]_configVars PROVE CacheInv'
  OBVIOUS
<1>1. CASE UNCHANGED configVars
  BY <1>1 DEF configVars, CacheInv, StampsPast, TornIsUnread, TakesJson, HasRead, HasTruth, Hit,
              Truth, ImportUnderWay
<1>2. CASE ConfigNext
  BY <1>2, StepKeepsCache, OutsideKeepsCache DEF ConfigNext
<1> QED
  BY <1>1, <1>2

\* What the stamps of the cache declare current is what the files say, for any
\* threads that load, save and import, but for what the user replaced under a
\* load (load_config, invalidate_config_cache).
THEOREM CacheStaysTrue == ConfigSpec => []CacheIsTrue
<1>1. CacheInv => CacheIsTrue
  BY DEF CacheInv, HasTruth, Truth, CacheIsTrue, ImportUnderWay
<1> QED
  BY <1>1, CacheInit, NextKeepsCache, ConfigInductive, PTL DEF ConfigSpec

-----------------------------------------------------------------------------

(***************************************************************************)
(* The release that is offered, for lists and versions of any length.      *)
(* newest_release_payload goes along the list: what it keeps is shown to   *)
(* be the newest of what it has passed by induction over its length, which *)
(* rests on is_newer being transitive for versions of different lengths.   *)
(***************************************************************************)

\* A set of numbers that is not empty has a least one.
LEMMA LeastOfNats ==
  ASSUME NEW T \in SUBSET Nat, T # {}
  PROVE  \E x \in T : \A y \in T : ~(y < x)
<1> DEFINE R == OpToRel(<, Nat)
<1>1. IsWellFoundedOn(R, Nat)
  BY NatLessThanWellFounded
<1>2. \E x \in T : \A y \in T : ~(<<y, x>> \in R)
  <2> HIDE DEF R
  <2> QED BY <1>1, WFMin
<1>3. \A x, y \in Nat : y < x => <<y, x>> \in R
  BY DEF OpToRel
<1> QED
  BY <1>2, <1>3

\* Induction, of a set in place of a predicate.
LEMMA InductionOverNats ==
  ASSUME NEW S \in SUBSET Nat, 0 \in S, \A n \in S : n + 1 \in S
  PROVE  S = Nat
<1>1. SUFFICES ASSUME Nat \ S # {} PROVE FALSE
  OBVIOUS
<1>2. PICK x \in Nat \ S : \A y \in Nat \ S : ~(y < x)
  <2>1. (Nat \ S) \in SUBSET Nat
    OBVIOUS
  <2> QED BY <1>1, <2>1, LeastOfNats
<1>3. x # 0 /\ x - 1 \in Nat
  BY <1>2
<1>4. x - 1 \in S
  BY <1>2, <1>3
<1>5. (x - 1) + 1 = x
  BY <1>2
<1> QED BY <1>2, <1>4, <1>5

\* A version is a list of numbers, each of them a part.
LEMMA PartIsNat ==
  ASSUME NEW v \in Seq(Nat), NEW i \in Nat
  PROVE  Part(v, i) \in Nat /\ (Part(v, i) > 0 => i \in DOMAIN v)
BY DEF Part

\* No version is newer than itself.
LEMMA NothingIsNewerThanItself ==
  ASSUME NEW v \in Seq(Nat)
  PROVE  ~IsNewer(v, v)
<1> SUFFICES ASSUME NEW i \in DOMAIN v, Part(v, i) > Part(v, i) PROVE FALSE
  BY DEF IsNewer
<1>1. i \in Nat
  OBVIOUS
<1> QED
  BY <1>1, PartIsNat

\* What is newer than the newer of two is newer than the other: the first parts
\* that differ decide, and of two such places the first.
LEMMA NewerIsTransitive ==
  ASSUME NEW a \in Seq(Nat), NEW b \in Seq(Nat), NEW c \in Seq(Nat),
         IsNewer(a, b), IsNewer(b, c)
  PROVE  IsNewer(a, c)
<1>1. PICK i \in DOMAIN a \cup DOMAIN b :
        Part(a, i) > Part(b, i) /\ \A j \in 1..(i - 1) : Part(a, j) = Part(b, j)
  BY DEF IsNewer
<1>2. PICK k \in DOMAIN b \cup DOMAIN c :
        Part(b, k) > Part(c, k) /\ \A j \in 1..(k - 1) : Part(b, j) = Part(c, j)
  BY DEF IsNewer
<1>3. i \in Nat \ {0} /\ k \in Nat \ {0}
  OBVIOUS
<1>4. \A j \in Nat : Part(a, j) \in Nat /\ Part(b, j) \in Nat /\ Part(c, j) \in Nat
  BY PartIsNat
<1> HIDE DEF Part
<1>5. CASE i <= k
  <2>1. Part(a, i) > Part(c, i)
    <3>1. CASE i = k
      BY <1>1, <1>2, <1>3, <1>4, <3>1
    <3>2. CASE i < k
      BY <1>1, <1>2, <1>3, <1>4, <3>2
    <3> QED
      BY <1>3, <1>5, <3>1, <3>2
  <2>2. \A j \in 1..(i - 1) : Part(a, j) = Part(c, j)
    BY <1>1, <1>2, <1>3, <1>5
  <2>3. i \in DOMAIN a
    <3>1. Part(a, i) > 0
      BY <2>1, <1>3, <1>4
    <3> QED
      BY <3>1, <1>3, PartIsNat
  <2> QED
    BY <2>1, <2>2, <2>3 DEF IsNewer
<1>6. CASE k < i
  <2>1. Part(a, k) > Part(c, k)
    BY <1>1, <1>2, <1>3, <1>4, <1>6
  <2>2. \A j \in 1..(k - 1) : Part(a, j) = Part(c, j)
    BY <1>1, <1>2, <1>3, <1>6
  <2>3. k \in DOMAIN a
    <3>1. Part(a, k) > 0
      BY <2>1, <1>3, <1>4
    <3> QED
      BY <3>1, <1>3, PartIsNat
  <2> QED
    BY <2>1, <2>2, <2>3 DEF IsNewer
<1> QED
  BY <1>3, <1>5, <1>6

\* The equation that Newest is defined by, and that a function solves it.
Bests(list, n, best) ==
  best = [i \in 0..n |->
            IF i = 0 THEN Nothing
            ELSE IF Takes(list[i], best[i - 1]) THEN list[i] ELSE best[i - 1]]

LEMMA BestsExist ==
  ASSUME NEW list, NEW m \in Nat
  PROVE  \E best : Bests(list, m, best)
<1> DEFINE S == {n \in Nat : \E best : Bests(list, n, best)}
<1>1. 0 \in S
  <2> DEFINE b == [i \in 0..0 |-> Nothing]
  <2>1. Bests(list, 0, b)
    BY DEF Bests
  <2> QED
    BY <2>1
<1>2. ASSUME NEW n \in S PROVE n + 1 \in S
  <2>1. PICK best : Bests(list, n, best)
    OBVIOUS
  <2> DEFINE next == [i \in 0..(n + 1) |->
                        IF i <= n THEN best[i]
                        ELSE IF Takes(list[i], best[i - 1]) THEN list[i] ELSE best[i - 1]]
  <2>2. \A i \in 0..n : best[i] = IF i = 0 THEN Nothing
            ELSE IF Takes(list[i], best[i - 1]) THEN list[i] ELSE best[i - 1]
    BY <2>1, Zenon DEF Bests
  <2>3. \A i \in 0..n : next[i] = best[i]
    OBVIOUS
  <2>4. \A i \in 0..(n + 1) : next[i] = IF i = 0 THEN Nothing
            ELSE IF Takes(list[i], next[i - 1]) THEN list[i] ELSE next[i - 1]
    <3> SUFFICES ASSUME NEW i \in 0..(n + 1)
                 PROVE  next[i] = IF i = 0 THEN Nothing
                   ELSE IF Takes(list[i], next[i - 1]) THEN list[i] ELSE next[i - 1]
      OBVIOUS
    <3>1. CASE i = 0
      BY <2>2, <2>3, <3>1
    <3>2. CASE i \in 1..n
      <4>1. i - 1 \in 0..n /\ i \in 0..n /\ i # 0
        BY <3>2
      <4>2. next[i - 1] = best[i - 1] /\ next[i] = best[i]
        BY <4>1, <2>3
      <4> HIDE DEF next
      <4> QED
        BY <2>2, <4>1, <4>2
    <3>3. CASE i = n + 1
      <4>1. i - 1 \in 0..n /\ ~(i <= n) /\ i # 0
        BY <3>3
      <4>2. next[i - 1] = best[i - 1]
        BY <4>1, <2>3
      <4>3. next[i] = IF Takes(list[i], best[i - 1]) THEN list[i] ELSE best[i - 1]
        BY <4>1
      <4> HIDE DEF next
      <4> QED
        BY <4>1, <4>2, <4>3
    <3> QED
      BY <3>1, <3>2, <3>3
  <2>5. Bests(list, n + 1, next)
    BY <2>4, Zenon DEF Bests
  <2> QED
    BY <2>5
<1> HIDE DEF S
<1>3. S = Nat
  <2>1. S \in SUBSET Nat
    BY DEF S
  <2> QED
    BY <1>1, <1>2, <2>1, InductionOverNats
<1> QED
  BY <1>3 DEF S

LEMMA NewestIsBest ==
  ASSUME NEW list \in Seq(Releases)
  PROVE  \E best : Bests(list, Len(list), best) /\ Newest(list) = best[Len(list)]
<1> DEFINE m == CHOOSE best : Bests(list, Len(list), best)
<1>1. Bests(list, Len(list), m)
  <2>1. Len(list) \in Nat
    OBVIOUS
  <2> QED
    BY <2>1, BestsExist
<1>2. Newest(list) = m[Len(list)]
  BY DEF Newest, Bests
<1> QED
  BY <1>1, <1>2

\* Of the first i releases of a list, b is the newest final one, or none is final.
NewestOf(b, list, i) ==
  IF b = Nothing THEN \A j \in 1..i : ~list[j].final
  ELSE /\ b \in Releases /\ b.final
       /\ \A j \in 1..i : list[j].final => ~IsNewer(list[j].ver, b.ver)

\* The entries of a list are releases with versions to compare.
LEMMA ListedTyped ==
  ASSUME NEW list \in Seq(Releases), NEW j \in 1..Len(list)
  PROVE  /\ list[j] \in Releases /\ list[j] # Nothing
         /\ list[j].ver \in Seq(Nat) /\ list[j].final \in BOOLEAN
<1>1. list[j] \in Releases
  OBVIOUS
<1> QED
  BY <1>1, ProgramsAssumption DEF Releases

\* One release more.
LEMMA TakingKeepsNewest ==
  ASSUME NEW list \in Seq(Releases), NEW i \in Nat, i + 1 \in 1..Len(list),
         NEW b, NewestOf(b, list, i)
  PROVE  NewestOf(IF Takes(list[i + 1], b) THEN list[i + 1] ELSE b, list, i + 1)
<1> DEFINE r == list[i + 1]
<1>1. /\ r \in Releases /\ r # Nothing
      /\ r.ver \in Seq(Nat) /\ r.final \in BOOLEAN
  BY ListedTyped
<1>2. \A j \in 1..(i + 1) : j \in 1..i \/ list[j] = r
  <2> SUFFICES ASSUME NEW j \in 1..(i + 1), j \notin 1..i PROVE j = i + 1
    OBVIOUS
  <2> QED
    OBVIOUS
<1>3. \A j \in 1..(i + 1) : list[j].ver \in Seq(Nat)
  <2>1. \A j \in 1..(i + 1) : j \in 1..Len(list)
    OBVIOUS
  <2> QED
    BY <2>1, ListedTyped
<1> HIDE DEF r
<1>4. CASE Takes(r, b)
  <2>1. r.final
    BY <1>4 DEF Takes
  <2>2. ASSUME NEW j \in 1..(i + 1), list[j].final, IsNewer(list[j].ver, r.ver) PROVE FALSE
    <3>1. CASE list[j] = r
      BY <3>1, <2>2, <1>1, NothingIsNewerThanItself
    <3>2. CASE j \in 1..i
      <4>1. b # Nothing
        BY <2>2, <3>2 DEF NewestOf
      <4>2. b \in Releases /\ b.ver \in Seq(Nat) /\ ~IsNewer(list[j].ver, b.ver)
        BY <2>2, <3>2, <4>1, ProgramsAssumption DEF NewestOf, Releases
      <4>3. IsNewer(r.ver, b.ver)
        BY <1>4, <4>1 DEF Takes
      <4> QED
        BY <1>1, <1>3, <2>2, <4>2, <4>3, NewerIsTransitive
    <3> QED
      BY <1>2, <3>1, <3>2
  <2>3. NewestOf(r, list, i + 1)
    BY <1>1, <2>1, <2>2 DEF NewestOf
  <2> QED
    BY <1>4, <2>3 DEF r
<1>5. CASE ~Takes(r, b)
  <2>1. NewestOf(b, list, i + 1)
    <3>1. CASE b = Nothing
      <4>1. ~r.final
        BY <1>1, <1>5, <3>1 DEF Takes
      <4> QED
        BY <1>2, <3>1, <4>1 DEF NewestOf
    <3>2. CASE b # Nothing
      <4>1. r.final => ~IsNewer(r.ver, b.ver)
        BY <1>5, <3>2 DEF Takes
      <4>2. b \in Releases /\ b.final /\ \A j \in 1..i : list[j].final => ~IsNewer(list[j].ver, b.ver)
        BY <3>2 DEF NewestOf
      <4>3. \A j \in 1..(i + 1) : list[j].final => ~IsNewer(list[j].ver, b.ver)
        BY <1>2, <4>1, <4>2
      <4> QED
        BY <3>2, <4>2, <4>3 DEF NewestOf
    <3> QED
      BY <3>1, <3>2
  <2> QED
    BY <1>5, <2>1 DEF r
<1> QED
  BY <1>4, <1>5

\* The release that newest_release_payload returns, for a list of any length.
LEMMA NewestIsNewest ==
  ASSUME NEW list \in Seq(Releases)
  PROVE  NewestOf(Newest(list), list, Len(list))
<1>1. PICK best : Bests(list, Len(list), best) /\ Newest(list) = best[Len(list)]
  BY NewestIsBest
<1>2. \A i \in 0..Len(list) : best[i] = IF i = 0 THEN Nothing
        ELSE IF Takes(list[i], best[i - 1]) THEN list[i] ELSE best[i - 1]
  BY <1>1, Zenon DEF Bests
<1>3. Len(list) \in Nat
  OBVIOUS
<1> DEFINE S == {i \in Nat : i <= Len(list) => NewestOf(best[i], list, i)}
<1>4. 0 \in S
  <2>1. best[0] = Nothing
    BY <1>2, <1>3
  <2> QED
    BY <2>1 DEF NewestOf
<1>5. ASSUME NEW i \in S PROVE i + 1 \in S
  <2> SUFFICES ASSUME i + 1 <= Len(list) PROVE NewestOf(best[i + 1], list, i + 1)
    OBVIOUS
  <2>1. i \in Nat /\ i + 1 \in 1..Len(list) /\ i <= Len(list) /\ i + 1 \in 0..Len(list)
    BY <1>3
  <2>2. NewestOf(best[i], list, i)
    BY <2>1
  <2>3. best[i + 1] = IF Takes(list[i + 1], best[i]) THEN list[i + 1] ELSE best[i]
    <3>1. (i + 1) - 1 = i /\ i + 1 # 0
      BY <2>1
    <3> QED
      BY <1>2, <2>1, <3>1
  <2> QED
    BY <2>1, <2>2, <2>3, TakingKeepsNewest
<1>6. S = Nat
  <2>1. S \in SUBSET Nat
    OBVIOUS
  <2> HIDE DEF S
  <2> QED
    BY <1>4, <1>5, <2>1, InductionOverNats
<1>7. NewestOf(best[Len(list)], list, Len(list))
  BY <1>3, <1>6
<1> QED
  BY <1>1, <1>7

-----------------------------------------------------------------------------
\* The offer is a release; the program it is newer than changes only as the
\* offer is dropped.
OfferKnown ==
  /\ offer # Nothing => offer \in Releases
  /\ OfferIsNewest

\* fetch_latest: what an answer leads to is the newest final release in it.
LEMMA AnswersAreNewest ==
  ASSUME NEW a \in Answers, a.best # Nothing
  PROVE  a.best \in Releases /\ a.best.final /\ \A v \in a.final : ~IsNewer(v, a.best.ver)
<1>1. CASE a \in Named
  <2>1. PICK r \in Releases : r.final /\ a.best = r /\ a.final = {r.ver}
    BY <1>1 DEF Named
  <2>2. r.ver \in Seq(Nat)
    BY <2>1, ProgramsAssumption DEF Releases
  <2> QED
    BY <2>1, <2>2, NothingIsNewerThanItself
<1>2. CASE a \in OfLists
  <2>1. PICK l \in Lists :
          /\ a.best = Newest(l)
          /\ a.final = {l[i].ver : i \in {j \in DOMAIN l : l[j].final}}
    BY <1>2 DEF OfLists
  <2>2. l \in Seq(Releases) /\ DOMAIN l = 1..Len(l)
    BY <2>1, ProgramsAssumption DEF Lists
  <2>3. NewestOf(a.best, l, Len(l))
    BY <2>1, <2>2, NewestIsNewest
  <2>4. a.best \in Releases /\ a.best.final
        /\ \A j \in 1..Len(l) : l[j].final => ~IsNewer(l[j].ver, a.best.ver)
    BY <2>3 DEF NewestOf
  <2> QED
    BY <2>1, <2>2, <2>4
<1> QED
  BY <1>1, <1>2 DEF Answers

\* A check offers the newest of the answer it was given, or leaves the offer.
LEMMA CheckOffersNewest ==
  ASSUME OfferKnown, Check
  PROVE  OfferKnown'
<1>1. PICK a \in Answers :
        \/ UNCHANGED <<offer, seen>>
        \/ /\ a.best # Nothing
           /\ offer' = IF Latest(a.best) THEN a.best ELSE Nothing
           /\ seen' = IF Latest(a.best) THEN a.final ELSE {}
  BY DEF Check
<1>2. program' = program
  BY DEF Check
<1>3. ASSUME offer' # Nothing, ~UNCHANGED <<offer, seen>>
      PROVE  /\ offer' \in Releases /\ offer'.final /\ IsNewer(offer'.ver, program')
             /\ \A v \in seen' : ~IsNewer(v, offer'.ver)
  <2>1. a.best # Nothing /\ offer' = a.best /\ Latest(a.best) /\ seen' = a.final
    BY <1>1, <1>3
  <2> QED
    BY <1>2, <2>1, AnswersAreNewest DEF Latest
<1> QED
  BY <1>2, <1>3 DEF OfferKnown, OfferIsNewest

\* The release that the window offers is final, newer than the program, and no
\* final release of the answer is newer (OfferIsNewest), for a list of any length
\* and versions of any length: newest_release_payload compares each release
\* with one, the best so far, and a program that changes has no offer left.
THEOREM AlwaysOffersTheNewest == ProgramsSpec => []OfferIsNewest
<1>1. ProgramsInit => OfferKnown
  BY DEF ProgramsInit, OfferKnown, OfferIsNewest
<1>2. OfferKnown /\ [ProgramsNext]_programVars => OfferKnown'
  <2> SUFFICES ASSUME OfferKnown, [ProgramsNext]_programVars PROVE OfferKnown'
    OBVIOUS
  <2>1. CASE Check
    BY <2>1, CheckOffersNewest
  <2>2. CASE UNCHANGED <<offer, seen, program>>
    BY <2>2 DEF OfferKnown, OfferIsNewest
  <2>3. CASE offer' = Nothing
    BY <2>3 DEF OfferKnown, OfferIsNewest
  <2>4. DownloadSetup \/ Copied \/ Download \/ Unpack \/ Unpacked \/ Stamp \/ Ends \/ Quarantine
          \/ (\E k \in Kinds : Ensure(k)) => UNCHANGED <<offer, seen, program>>
    BY DEF DownloadSetup, Ensure, Copied, Download, Unpack, Unpacked, Stamp, Ends, Quarantine,
           updateVars
  <2>5. Install \/ Checkout \/ Dies => offer' = Nothing
    BY DEF Install, Checkout, Dies
  <2>6. UNCHANGED programVars => UNCHANGED <<offer, seen, program>>
    BY DEF programVars, updateVars
  <2> QED
    BY <2>1, <2>2, <2>3, <2>4, <2>5, <2>6 DEF ProgramsNext
<1>3. OfferKnown => OfferIsNewest
  BY DEF OfferKnown
<1> QED
  BY <1>1, <1>2, <1>3, PTL DEF ProgramsSpec

-----------------------------------------------------------------------------

(***************************************************************************)
(* The sing-box that a connect starts, for any versions of the program and *)
(* of the list of releases, and any number of deaths, failures and deleted *)
(* files.  That it is the right and whole build rests on what is known at  *)
(* each step between a missing file and the start.                         *)
(***************************************************************************)

\* The program changes only while no connect is at its binary.
ProgramTypeOK ==
  /\ program \in Versions
  /\ frozen \in BOOLEAN
  /\ offer # Nothing => offer \in Releases
  /\ setup # Nothing => setup.ver \in Versions /\ step = Idle
  /\ DOMAIN tool = Kinds /\ DOMAIN started = Kinds /\ DOMAIN cut = Kinds
  /\ step.kind \in Kinds

\* What has been downloaded, and what lies unpacked.
InHand ==
  /\ step.at = "check" => archive = [build |-> Pinned, whole |-> archive.whole]
  /\ step.at = "unpack" => archive = Whole
  /\ step.at = "stamp" => tool["awg"] = Whole

\* In the sources the version file tells the truth, except while the file is
\* replaced and after a death then.
VersionTold ==
  ~frozen /\ tool["awg"] # Nothing /\ ~cut["awg"]
    /\ ~(step.kind = "awg" /\ step.at \in {"unpack", "stamp"})
    => ver # Nothing /\ tool["awg"] = [build |-> ver, whole |-> TRUE]

\* A copy is made only in an installed program, a download only in the sources.
WhereAt ==
  /\ step.at = "copy" => frozen
  /\ step.at \in {"download", "check", "unpack", "stamp"} => ~frozen
  /\ step.at = "stamp" => step.kind = "awg"

ProgramsIInv == ProgramTypeOK /\ InHand /\ VersionTold /\ WhereAt /\ StartsPinned

-----------------------------------------------------------------------------
LEMMA PinnedIsBuild == ProgramTypeOK => Pinned # Nothing
BY ProgramsAssumption DEF ProgramTypeOK, Pinned, Builds

\* What is started is noted as it was, and the other kind's note stays.
LEMMA StartsNoted ==
  ASSUME ProgramsIInv, NEW k \in Kinds, NEW f, NEW old, Starts(f, k, old), old \/ f = Whole
  PROVE  StartsPinned' /\ DOMAIN started' = Kinds /\ step' = Idle
<1>1. started' = [started EXCEPT ![k] = [file |-> f, due |-> Pinned, excused |-> old]] /\ step' = Idle
  BY DEF Starts
<1>2. DOMAIN started = Kinds /\ StartsPinned
  BY DEF ProgramsIInv, ProgramTypeOK
<1>3. DOMAIN started' = Kinds
  BY <1>1, <1>2
<1>4. ASSUME NEW j \in Kinds, started'[j] # Nothing, ~started'[j].excused
      PROVE  started'[j].file = [build |-> started'[j].due, whole |-> TRUE]
  <2>1. CASE j = k
    BY <1>1, <1>2, <1>4, <2>1 DEF Whole
  <2>2. CASE j # k
    BY <1>1, <1>2, <1>4, <2>2 DEF StartsPinned
  <2> QED
    BY <2>1, <2>2
<1> QED
  BY <1>1, <1>3, <1>4 DEF StartsPinned

LEMMA ProgramsInitIInv == ProgramsInit => ProgramsIInv
BY DEF ProgramsInit, ProgramsIInv, ProgramTypeOK, InHand, VersionTold, WhereAt, StartsPinned, Idle, Kinds

\* The update, and another version of the sources.
LEMMA UpdateKeeps ==
  ASSUME ProgramsIInv, Check \/ DownloadSetup \/ Install \/ Checkout
  PROVE  ProgramsIInv'
<1> USE DEF ProgramsIInv
<1>1. CASE Check
  <2>1. offer' # Nothing => offer' \in Releases
    BY <1>1, AnswersAreNewest DEF Check, ProgramTypeOK
  <2> QED
    BY <1>1, <2>1 DEF Check, ProgramTypeOK, InHand, VersionTold, WhereAt, StartsPinned,
                      toolVars, Pinned, Whole
<1>2. CASE DownloadSetup
  <2>1. PICK whole \in BOOLEAN : setup' = [ver |-> offer.ver, whole |-> whole]
    BY <1>2 DEF DownloadSetup
  <2>2. offer.ver \in Versions /\ step = Idle
    BY <1>2 DEF DownloadSetup, ProgramTypeOK, Releases
  <2> QED
    BY <1>2, <2>1, <2>2 DEF DownloadSetup, ProgramTypeOK, InHand, VersionTold, WhereAt, StartsPinned,
                      toolVars, Pinned, Whole
<1>3. CASE Install
  <2>1. program' \in Versions /\ step = Idle /\ step' = step
    BY <1>3 DEF Install, ProgramTypeOK
  <2> QED
    BY <1>3, <2>1 DEF Install, ProgramTypeOK, InHand, VersionTold, WhereAt, StartsPinned, Idle
<1>4. CASE Checkout
  <2>1. program' \in Versions /\ step = Idle /\ step' = step
    BY <1>4 DEF Checkout, toolVars
  <2> QED
    BY <1>4, <2>1 DEF Checkout, toolVars, ProgramTypeOK, InHand, VersionTold, WhereAt, StartsPinned, Idle
<1> QED
  BY <1>1, <1>2, <1>3, <1>4

LEMMA EnsureKeeps ==
  ASSUME ProgramsIInv, NEW k \in Kinds, Ensure(k)
  PROVE  ProgramsIInv'
<1>0. /\ step = Idle /\ setup = Nothing /\ Pinned # Nothing
      /\ ver' = IF StampsVersion(k) THEN Pinned ELSE ver
      /\ UNCHANGED <<program, frozen, archive, cut, offer, setup>>
  BY PinnedIsBuild DEF Ensure, updateVars, ProgramsIInv
<1>v. k = "awg" /\ ver' # ver => ~frozen /\ tool["awg"] # Nothing /\ ver = Nothing
  BY <1>0 DEF StampsVersion, Found
<1>w. ver' # ver => k = "awg"
  BY <1>0 DEF StampsVersion
<1>t. ~frozen /\ tool["awg"] # Nothing /\ ~cut["awg"] =>
        ver # Nothing /\ tool["awg"] = [build |-> ver, whole |-> TRUE] /\ ver' = ver
  BY <1>0, <1>v, <1>w DEF ProgramsIInv, VersionTold, Idle
<1>s. ASSUME NEW f, NEW old, Starts(f, k, old), old \/ f = Whole, tool' = tool
      PROVE  ProgramsIInv'
  <2>1. StartsPinned' /\ DOMAIN started' = Kinds /\ step' = Idle
    BY <1>s, StartsNoted
  <2> QED
    BY <1>0, <1>t, <1>s, <2>1 DEF ProgramsIInv, ProgramTypeOK, InHand, VersionTold, WhereAt, Idle, Kinds
<1>1. CASE frozen /\ PackedIsCopied(k) /\ Starts(tool[k], k, FALSE) /\ tool' = tool
  BY <1>1, <1>s DEF PackedIsCopied
<1>2. CASE /\ frozen /\ tool' = [tool EXCEPT ![k] = [Whole EXCEPT !.whole = FALSE]]
           /\ At("copy", k) /\ UNCHANGED <<started, running>>
  BY <1>0, <1>2 DEF ProgramsIInv, ProgramTypeOK, InHand, VersionTold, WhereAt, StartsPinned, At
<1>3. CASE /\ frozen /\ tool' = tool
           /\ IF k = "awg" THEN Starts(tool[k], k, TRUE) ELSE Starts(Whole, k, FALSE)
  BY <1>3, <1>s
<1>4. CASE /\ ~frozen /\ Found(k) /\ (k = "awg" => ver' = Pinned)
           /\ Starts(tool[k], k, k = "official" \/ cut[k]) /\ tool' = tool
  <2>1. (k = "official" \/ cut[k]) \/ tool[k] = Whole
    BY <1>4, <1>t DEF Kinds, Whole, Found
  <2> QED
    BY <1>4, <1>s, <2>1
<1>5. CASE ~frozen /\ At("download", k) /\ UNCHANGED <<tool, started, running>>
  BY <1>0, <1>t, <1>5 DEF ProgramsIInv, ProgramTypeOK, InHand, VersionTold, WhereAt, StartsPinned, At
<1> QED
  BY <1>1, <1>2, <1>3, <1>4, <1>5 DEF Ensure

\* From the copy or the download to the start.
LEMMA FetchKeeps ==
  ASSUME ProgramsIInv, Copied \/ Download \/ Unpack \/ Unpacked \/ Stamp
  PROVE  ProgramsIInv'
<1>0. step # Idle /\ setup = Nothing /\ step.kind \in Kinds
  <2>1. step.at \in {"copy", "download", "check", "unpack", "stamp"}
    BY DEF Copied, Download, Unpack, Unpacked, Stamp
  <2>2. step # Idle
    BY <2>1 DEF Idle
  <2> QED
    BY <2>2 DEF ProgramsIInv, ProgramTypeOK
<1>1. CASE Copied
  <2>1. /\ frozen /\ Starts(Whole, step.kind, FALSE)
        /\ tool' = [tool EXCEPT ![step.kind] = Whole]
        /\ UNCHANGED <<program, frozen, ver, archive, cut, offer, setup>>
    BY <1>1 DEF Copied, updateVars, ProgramsIInv, WhereAt
  <2>2. StartsPinned' /\ DOMAIN started' = Kinds /\ step' = Idle
    BY <1>0, <2>1, StartsNoted
  <2> QED
    BY <1>0, <2>1, <2>2 DEF ProgramsIInv, ProgramTypeOK, InHand, VersionTold, WhereAt, Idle, Kinds
<1>2. CASE Download
  <2>1. /\ ~frozen /\ archive' = [build |-> Pinned, whole |-> archive'.whole]
        /\ step' = Idle \/ step' = [at |-> "check", kind |-> step.kind]
        /\ UNCHANGED <<program, frozen, tool, ver, started, running, cut, offer, setup>>
    BY <1>2 DEF Download, updateVars, ProgramsIInv, WhereAt, Whole, At
  <2>2. step.at = "download"
    BY <1>2 DEF Download
  <2> QED
    BY <1>0, <2>1, <2>2 DEF ProgramsIInv, ProgramTypeOK, InHand, VersionTold, WhereAt, StartsPinned, Idle, Kinds, Pinned
<1>3. CASE Unpack
  <2>0. step.at = "check" /\ ~frozen /\ UNCHANGED <<program, frozen, ver, started, running, cut, offer, setup>>
    BY <1>3 DEF Unpack, updateVars, ProgramsIInv, WhereAt
  <2>1. CASE Trusted(step.kind) /\ ~InUse(step.kind)
    <3>1. /\ tool' = [tool EXCEPT ![step.kind] = [archive EXCEPT !.whole = FALSE]]
          /\ step' = [at |-> "unpack", kind |-> step.kind] /\ archive' = archive
      BY <1>3, <2>1 DEF Unpack, At
    <3>2. archive = Whole
      BY <2>0, <2>1 DEF ProgramsIInv, InHand, Trusted, Whole
    <3> QED
      BY <1>0, <2>0, <3>1, <3>2
      DEF ProgramsIInv, ProgramTypeOK, InHand, VersionTold, WhereAt, StartsPinned, Kinds, Pinned, Whole
  <2>2. CASE ~(Trusted(step.kind) /\ ~InUse(step.kind))
    <3>1. step' = Idle /\ tool' = tool
      BY <1>3, <2>2 DEF Unpack
    <3> QED
      BY <1>0, <2>0, <3>1
      DEF ProgramsIInv, ProgramTypeOK, InHand, VersionTold, WhereAt, StartsPinned, Kinds, Idle
  <2> QED
    BY <2>1, <2>2
<1>4. CASE Unpacked
  <2>0. /\ ~frozen /\ archive = Whole /\ step.at = "unpack"
        /\ tool' = [tool EXCEPT ![step.kind] = archive]
        /\ cut' = [cut EXCEPT ![step.kind] = FALSE]
        /\ UNCHANGED <<program, frozen, ver, offer, setup>>
    BY <1>4 DEF Unpacked, updateVars, ProgramsIInv, WhereAt, InHand
  <2>1. CASE step.kind = "awg"
    <3>1. step' = [at |-> "stamp", kind |-> "awg"] /\ UNCHANGED started
      BY <1>4, <2>1 DEF Unpacked, At
    <3> QED
      BY <1>0, <2>0, <2>1, <3>1
      DEF ProgramsIInv, ProgramTypeOK, InHand, VersionTold, WhereAt, StartsPinned, Kinds, Pinned, Whole
  <2>2. CASE step.kind # "awg"
    <3>1. Starts(archive, step.kind, FALSE)
      BY <1>4, <2>2 DEF Unpacked
    <3>2. StartsPinned' /\ DOMAIN started' = Kinds /\ step' = Idle
      BY <1>0, <2>0, <3>1, StartsNoted
    <3> QED
      BY <1>0, <2>0, <2>2, <3>2 DEF ProgramsIInv, ProgramTypeOK, InHand, VersionTold, WhereAt, Idle, Kinds
  <2> QED
    BY <2>1, <2>2
<1>5. CASE Stamp
  <2>1. /\ tool["awg"] = Whole /\ Starts(tool["awg"], "awg", FALSE) /\ ver' = Pinned
        /\ UNCHANGED <<program, frozen, tool, archive, cut, offer, setup>>
    BY <1>5 DEF Stamp, updateVars, ProgramsIInv, InHand
  <2>2. StartsPinned' /\ DOMAIN started' = Kinds /\ step' = Idle
    BY <2>1, StartsNoted DEF Kinds
  <2>3. Pinned # Nothing
    BY PinnedIsBuild DEF ProgramsIInv
  <2> QED
    BY <1>0, <2>1, <2>2, <2>3 DEF ProgramsIInv, ProgramTypeOK, InHand, VersionTold, WhereAt, Idle, Kinds, Whole
<1> QED
  BY <1>1, <1>2, <1>3, <1>4, <1>5

\* The end of the VPN, a death, and a file that is taken away.
LEMMA SurroundingsKeep ==
  ASSUME ProgramsIInv, Ends \/ Dies \/ Quarantine
  PROVE  ProgramsIInv'
<1>1. CASE Ends
  BY <1>1 DEF Ends, updateVars, ProgramsIInv, ProgramTypeOK, InHand, VersionTold, WhereAt, StartsPinned,
              Pinned, Whole
<1>2. CASE Dies
  <2>1. DOMAIN cut' = Kinds
    BY <1>2 DEF Dies
  <2>2. ~cut'["awg"] => ~cut["awg"] /\ ~(step.kind = "awg" /\ step.at \in {"unpack", "stamp"})
    BY <1>2 DEF Dies, Kinds
  <2> QED
    BY <1>2, <2>1, <2>2
    DEF Dies, ProgramsIInv, ProgramTypeOK, InHand, VersionTold, WhereAt, StartsPinned, Idle, Kinds
<1>3. CASE Quarantine
  <2>1. PICK k \in Kinds : tool' = [tool EXCEPT ![k] = Nothing]
    BY <1>3 DEF Quarantine
  <2>2. step = Idle /\ UNCHANGED <<program, frozen, ver, archive, step, started, cut, offer, setup>>
    BY <1>3 DEF Quarantine, updateVars
  <2> QED
    BY <2>1, <2>2 DEF ProgramsIInv, ProgramTypeOK, InHand, VersionTold, WhereAt, StartsPinned, Idle, Kinds
<1> QED
  BY <1>1, <1>2, <1>3

LEMMA ProgramsNextKeeps == ProgramsIInv /\ [ProgramsNext]_programVars => ProgramsIInv'
<1> SUFFICES ASSUME ProgramsIInv, [ProgramsNext]_programVars PROVE ProgramsIInv'
  OBVIOUS
<1>1. CASE UNCHANGED programVars
  BY <1>1 DEF programVars, toolVars, updateVars, ProgramsIInv, ProgramTypeOK, InHand, VersionTold, WhereAt,
              StartsPinned, Pinned, Whole
<1>2. CASE ProgramsNext
  BY <1>2, UpdateKeeps, EnsureKeeps, FetchKeeps, SurroundingsKeep DEF ProgramsNext
<1> QED
  BY <1>1, <1>2

-----------------------------------------------------------------------------
\* What a connect starts is whole and the build its program is made for
\* (StartsPinned), whatever is updated, checked out, cut short or taken away:
\* _ensure_binary compares, checks or has unpacked what it hands on.
THEOREM OnlyPinnedStarts == ProgramsSpec => []StartsPinned
<1>1. ProgramsIInv => StartsPinned
  BY DEF ProgramsIInv
<1> QED
  BY <1>1, ProgramsInitIInv, ProgramsNextKeeps, PTL DEF ProgramsSpec

-----------------------------------------------------------------------------

(***************************************************************************)
(* The AmneziaWG clients of a server for any names, addresses and keys.    *)
(* That no two .conf files meet and nobody is cut off rests on what the    *)
(* confs and the server's peers have in common: while nothing was lost,    *)
(* all of them are in peers.json, whose clients are distinct and whose     *)
(* keys are no newer than the last one made.                               *)
(***************************************************************************)

Distinct(peers) ==
  \A p, q \in peers : p # q => p.name # q.name /\ p.host # q.host /\ p.key # q.key

Dated(peers) == \A p \in peers : p.key <= made

\* What a command has in hand, and what is in the file, can be told apart.
ListsDistinct ==
  /\ Distinct(current) /\ Dated(current)
  /\ peersFile # Void => Distinct(peersFile) /\ Dated(peersFile)
  /\ legacy # Void => legacy.key <= made

\* The file during a command
FileInHand ==
  /\ at = "confs" => peersFile = current /\ current # {}
  /\ at = "add" /\ ~lost =>
       /\ peersFile # Void /\ peersFile \subseteq current
       /\ peersFile # {} \/ legacy = Void

ConfsListed == \A n \in Names : confs[n] # Void => confs[n] \in peersFile /\ confs[n].name = n

ServedListed ==
  served \subseteq peersFile \/ (peersFile = {} /\ legacy # Void /\ served = {legacy})

Listed == ~lost /\ (peersFile # Void \/ at = "confs") => ConfsListed /\ ServedListed

ClientsIInv == ClientsTypeOK /\ ListsDistinct /\ FileInHand /\ Listed /\ AddressesApart

\* A new client meets none of those in hand.
LEMMA NewIsApart ==
  ASSUME NEW n, NEW peers, peers \subseteq Peers, made \in Nat, Distinct(peers), Dated(peers),
         n \in Names, n \notin NamesOf(peers), NEW p \in NewClient(n, peers)
  PROVE  /\ peers \cup {p} \subseteq Peers
         /\ Distinct(peers \cup {p})
         /\ \A q \in peers \cup {p} : q.key <= made + 1
<1>1. PICK h \in Hosts : IsNext(h, peers) /\ p = [name |-> n, key |-> made + 1, host |-> h]
  BY DEF NewClient
<1>2. p \in Peers /\ p.name = n /\ p.key = made + 1 /\ p.host = h
  BY <1>1 DEF Peers
<1>3. \A q \in peers : q.name # n /\ q.host # h /\ q.key \in Nat /\ q.key <= made
  BY <1>1 DEF IsNext, FreeHosts, HostsOf, NamesOf, Dated, Peers
<1>4. \A q \in peers : q.key # made + 1 /\ q.key <= made + 1
  BY <1>3
<1> QED
  BY <1>2, <1>3, <1>4 DEF Distinct

LEMMA ClientsInitIInv == ClientsInit => ClientsIInv
<1> SUFFICES ASSUME ClientsInit PROVE ClientsIInv
  OBVIOUS
<1>1. PICK h \in Hosts : legacy \in {Void, [name |-> Pc, key |-> 0, host |-> h]}
  BY DEF ClientsInit
<1>2. legacy # Void => legacy \in Peers /\ legacy.key = 0
  BY <1>1, ClientsAssumption DEF ClientsAssumption, Peers
<1>3. ClientsTypeOK
  BY <1>2 DEF ClientsInit, ClientsTypeOK
<1> QED
  BY <1>2, <1>3 DEF ClientsInit, ClientsIInv, ListsDistinct, Distinct, Dated, FileInHand, Listed,
     ConfsListed, ServedListed, AddressesApart

LEMMA ClientsStepIInv == ClientsIInv /\ [ClientsNext]_clientVars => ClientsIInv'
<1> SUFFICES ASSUME ClientsIInv, [ClientsNext]_clientVars PROVE ClientsIInv'
  OBVIOUS
<1> USE DEF ClientsTypeOK
<1>0. /\ ClientsTypeOK /\ ListsDistinct /\ FileInHand /\ Listed /\ AddressesApart
      /\ Loaded \subseteq Peers /\ Distinct(Loaded) /\ Dated(Loaded)
  BY DEF ClientsIInv, Loaded, ListsDistinct, Distinct, Dated
<1>1. CASE Add
  <2>1. ClientsTypeOK'
    BY <1>0, <1>1 DEF Add
  <2>2. ListsDistinct'
    BY <1>0, <1>1 DEF Add, ListsDistinct, Distinct, Dated
  <2>3. FileInHand' /\ Listed'
    BY <1>0, <1>1 DEF Add, FileInHand, Listed, Loaded, ConfsListed, ServedListed
  <2>4. AddressesApart'
    BY <1>0, <1>1 DEF Add, AddressesApart
  <2> QED
    BY <2>1, <2>2, <2>3, <2>4 DEF ClientsIInv
<1>2. ASSUME NEW n \in Names, AddOne(n) PROVE ClientsIInv'
  <2>1. PICK p \in NewClient(n, current) : current' = current \cup {p}
    BY <1>2 DEF AddOne
  <2>2. /\ current' \subseteq Peers /\ Distinct(current')
        /\ \A q \in current' : q.key <= made + 1
    BY <1>0, <1>2, <2>1, NewIsApart DEF AddOne, ListsDistinct
  <2>3. ClientsTypeOK'
    BY <1>0, <1>2, <2>2 DEF AddOne
  <2>4. peersFile # Void => \A q \in peersFile : q.key <= made + 1
    BY <1>0 DEF ListsDistinct, Dated, Peers
  <2>5. legacy # Void => legacy.key <= made + 1
    BY <1>0 DEF ListsDistinct, Peers
  <2>6. ListsDistinct'
    BY <1>0, <1>2, <2>2, <2>4, <2>5 DEF AddOne, ListsDistinct, Distinct, Dated
  <2>7. FileInHand' /\ Listed'
    BY <1>0, <1>2, <2>1 DEF AddOne, FileInHand, Listed, ConfsListed, ServedListed
  <2>8. AddressesApart'
    BY <1>0, <1>2 DEF AddOne, AddressesApart
  <2> QED
    BY <2>3, <2>6, <2>7, <2>8 DEF ClientsIInv
<1>3. CASE SaveAdded
  <2>1. ClientsTypeOK'
    BY <1>0, <1>3 DEF SaveAdded
  <2>2. ListsDistinct' /\ FileInHand'
    BY <1>0, <1>3 DEF SaveAdded, ListsDistinct, Distinct, Dated, FileInHand
  <2>3. ~lost => ConfsListed /\ ServedListed /\ peersFile \subseteq current
    BY <1>0, <1>3 DEF SaveAdded, FileInHand, Listed
  <2>4. ~lost => ConfsListed'
    BY <1>3, <2>3 DEF SaveAdded, ConfsListed
  <2>5. ~lost => ServedListed'
    BY <1>0, <1>3, <2>3 DEF SaveAdded, ServedListed, FileInHand
  <2>6. Listed'
    BY <1>3, <2>4, <2>5 DEF SaveAdded, Listed
  <2>7. AddressesApart'
    BY <1>0, <1>3 DEF SaveAdded, AddressesApart
  <2> QED
    BY <2>1, <2>2, <2>6, <2>7 DEF ClientsIInv
<1>4. CASE AddRefused
  <2>1. ClientsTypeOK'
    BY <1>0, <1>4 DEF AddRefused, GivesUp, Rest
  <2> QED
    BY <1>0, <1>4, <2>1 DEF AddRefused, GivesUp, Rest, ClientsIInv, ListsDistinct, Distinct, Dated,
       FileInHand, Listed, ConfsListed, ServedListed, AddressesApart
<1>5. CASE Emit
  <2>1. ClientsTypeOK'
    BY <1>0, <1>5 DEF Emit
  <2> QED
    BY <1>0, <1>5, <2>1 DEF Emit, ClientsIInv, ListsDistinct, Distinct, Dated, FileInHand, Listed,
       ConfsListed, ServedListed, AddressesApart
<1>6. CASE EnsureFirst
  <2>1. current' # {} /\ current' \subseteq Peers /\ made' \in Nat /\ made <= made'
    <3>1. CASE Loaded # {} /\ current' = Loaded /\ UNCHANGED made
      BY <1>0, <3>1
    <3>2. CASE Loaded = {} /\ legacy # Void /\ current' = {legacy} /\ UNCHANGED made
      BY <1>0, <3>2
    <3>3. CASE made' = made + 1 /\ \E p \in NewClient(Pc, {}) : current' = {p}
      BY <1>0, <3>3, ClientsAssumption DEF ClientsAssumption, NewClient, Peers
    <3> QED
      BY <1>6, <3>1, <3>2, <3>3 DEF EnsureFirst
  <2>2. Distinct(current') /\ \A q \in current' : q.key <= made'
    <3>1. CASE Loaded # {} /\ current' = Loaded /\ UNCHANGED made
      BY <1>0, <3>1 DEF Dated
    <3>2. CASE Loaded = {} /\ legacy # Void /\ current' = {legacy} /\ UNCHANGED made
      BY <1>0, <3>2 DEF ListsDistinct, Distinct
    <3>3. CASE made' = made + 1 /\ \E p \in NewClient(Pc, {}) : current' = {p}
      BY <1>0, <3>3 DEF NewClient, Distinct
    <3> QED
      BY <1>6, <3>1, <3>2, <3>3 DEF EnsureFirst
  <2>3. legacy # Void => legacy.key <= made'
    BY <1>0, <2>1 DEF ListsDistinct, Peers
  <2>4. ClientsTypeOK'
    <3>1. NamesOf(current') \subseteq Names
      BY <2>1 DEF NamesOf, Peers
    <3> QED
      BY <1>0, <1>6, <2>1, <3>1 DEF EnsureFirst
  <2>5. ListsDistinct' /\ FileInHand'
    BY <1>0, <1>6, <2>1, <2>2, <2>3 DEF EnsureFirst, ListsDistinct, Distinct, Dated, FileInHand
  <2>6. ~lost' => ConfsListed' /\ ServedListed'
    <3> SUFFICES ASSUME ~lost' PROVE ConfsListed' /\ ServedListed'
      OBVIOUS
    <3>1. ~lost /\ peersFile # Void /\ Loaded = peersFile /\ peersFile' = current'
      BY <1>0, <1>6 DEF EnsureFirst, Loaded
    <3>2. ConfsListed /\ ServedListed
      BY <1>0, <3>1 DEF Listed
    <3>3. CASE Loaded # {} /\ current' = Loaded
      BY <1>6, <3>1, <3>2, <3>3 DEF EnsureFirst, ConfsListed, ServedListed
    <3>4. CASE Loaded = {} /\ legacy # Void /\ current' = {legacy}
      BY <1>6, <3>1, <3>2, <3>4 DEF EnsureFirst, ConfsListed, ServedListed
    <3>5. CASE Loaded = {} /\ legacy = Void
      BY <1>6, <3>1, <3>2, <3>5 DEF EnsureFirst, ConfsListed, ServedListed
    <3> QED
      BY <1>6, <3>3, <3>4, <3>5 DEF EnsureFirst
  <2>7. Listed'
    BY <2>6 DEF Listed
  <2>8. AddressesApart'
    BY <1>0, <1>6 DEF EnsureFirst, AddressesApart
  <2> QED
    BY <2>4, <2>5, <2>7, <2>8 DEF ClientsIInv
<1>7. ASSUME NEW n \in Names, WriteConf(n) PROVE ClientsIInv'
  <2>1. PICK p \in current : p.name = n /\ confs' = [confs EXCEPT ![n] = p]
    BY <1>7 DEF WriteConf
  <2>2. ClientsTypeOK'
    BY <1>0, <1>7, <2>1 DEF WriteConf
  <2>3. ListsDistinct' /\ FileInHand'
    BY <1>0, <1>7 DEF WriteConf, ListsDistinct, Distinct, Dated, FileInHand
  <2>4. peersFile = current /\ Distinct(current)
    BY <1>0, <1>7 DEF WriteConf, FileInHand, ListsDistinct
  <2>5. ~lost => ConfsListed /\ ServedListed
    BY <1>0, <1>7 DEF WriteConf, Listed
  <2>6. ~lost => ConfsListed'
    BY <1>0, <1>7, <2>1, <2>4, <2>5 DEF WriteConf, ConfsListed
  <2>7. Listed'
    BY <1>7, <2>5, <2>6 DEF WriteConf, Listed, ServedListed
  <2>8. AddressesApart'
    <3> SUFFICES ASSUME ~lost', NEW m \in Names, NEW k \in Names, m # k,
                        confs'[m] # Void, confs'[k] # Void
                 PROVE  confs'[m].host # confs'[k].host /\ confs'[m].key # confs'[k].key
      BY DEF AddressesApart
    <3>1. /\ confs'[m] \in current /\ confs'[m].name = m
          /\ confs'[k] \in current /\ confs'[k].name = k
      BY <1>7, <2>4, <2>6 DEF WriteConf, ConfsListed
    <3> QED
      BY <2>4, <3>1 DEF Distinct
  <2> QED
    BY <2>2, <2>3, <2>7, <2>8 DEF ClientsIInv
<1>8. CASE WriteServer
  <2>1. ClientsTypeOK'
    BY <1>0, <1>8 DEF WriteServer, Rest
  <2>2. ListsDistinct' /\ FileInHand' /\ AddressesApart'
    BY <1>0, <1>8 DEF WriteServer, Rest, ListsDistinct, Distinct, Dated, FileInHand,
       AddressesApart
  <2>3. ~lost => ConfsListed /\ peersFile = current
    BY <1>0, <1>8 DEF WriteServer, FileInHand, Listed
  <2>4. Listed'
    BY <1>8, <2>3 DEF WriteServer, Rest, Listed, ConfsListed, ServedListed
  <2> QED
    BY <2>1, <2>2, <2>4 DEF ClientsIInv
<1>9. CASE CommandDies
  <2>1. ClientsTypeOK'
    BY <1>0, <1>9 DEF CommandDies, GivesUp, Rest
  <2> QED
    BY <1>0, <1>9, <2>1 DEF CommandDies, GivesUp, Rest, ClientsIInv, ListsDistinct, Distinct, Dated,
       FileInHand, Listed, ConfsListed, ServedListed, AddressesApart
<1>10. CASE DiesSaving
  <2>1. ClientsTypeOK'
    BY <1>0, <1>10 DEF DiesSaving, GivesUp, Rest
  <2> QED
    BY <1>0, <1>10, <2>1 DEF DiesSaving, GivesUp, Rest, ClientsIInv, ListsDistinct, Distinct, Dated,
       FileInHand, Listed, AddressesApart
<1>11. CASE UNCHANGED clientVars
  BY <1>0, <1>11 DEF clientVars, ClientsIInv, ListsDistinct, Distinct, Dated, FileInHand, Listed,
     ConfsListed, ServedListed, AddressesApart
<1> QED
  BY <1>1, <1>2, <1>3, <1>4, <1>5, <1>6, <1>7, <1>8, <1>9, <1>10, <1>11 DEF ClientsNext

\* The file, the confs and the server's peers stay in step whichever command
\* dies (load_peers, save_peers, ensure_first_client, write_client_confs).
THEOREM ClientsInductive == ClientsSpec => []ClientsIInv
  BY ClientsInitIInv, ClientsStepIInv, PTL DEF ClientsSpec

\* No two .conf files share an address or a key (next_address, add_clients,
\* write_client_confs) until a torn or missing peers.json was taken for an
\* empty one.
THEOREM ClientsApart == ClientsSpec => []AddressesApart
<1>1. ClientsIInv => AddressesApart
  BY DEF ClientsIInv
<1> QED
  BY <1>1, ClientsInductive, PTL

\* The server's conf is written from the whole list (render_server_conf), so
\* no command takes out a client that was served.
THEOREM ClientsNotCutOff == ClientsSpec => NobodyIsCutOff
<1>1. ClientsIInv /\ [ClientsNext]_clientVars => [~lost' => served \subseteq served']_clientVars
  <2> SUFFICES ASSUME ClientsIInv, ClientsNext, ~lost' PROVE served \subseteq served'
    OBVIOUS
  <2>1. CASE WriteServer
    <3>1. ~lost /\ peersFile = current /\ current # {} /\ served' = current
      BY <2>1 DEF WriteServer, ClientsIInv, FileInHand
    <3>2. served \subseteq peersFile
      BY <2>1, <3>1 DEF WriteServer, ClientsIInv, Listed, ServedListed
    <3> QED
      BY <3>1, <3>2
  <2>2. CASE ~WriteServer
    BY <2>2 DEF ClientsNext, Add, SaveAdded, AddRefused, Emit, EnsureFirst, AddOne, WriteConf,
       CommandDies, DiesSaving, GivesUp
  <2> QED
    BY <2>1, <2>2
<1> QED
  BY <1>1, ClientsInductive, PTL DEF ClientsSpec, NobodyIsCutOff
======================================================================================
