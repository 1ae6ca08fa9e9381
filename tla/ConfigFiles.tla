----------------------------- MODULE ConfigFiles -----------------------------
(***************************************************************************)
(* config.json and amneziawg.conf beside it (desktop/config_io,            *)
(* desktop/services/settings): loads through a cache that is keyed by the  *)
(* stamps of both files, saves that merge, imports, and the migration of   *)
(* keys from the first file to the second.  Threads of one process load    *)
(* and save with no lock; the user edits the files; the process dies.      *)
(* The migration inside a load or a save is one step.                      *)
(***************************************************************************)
EXTENDS Naturals

CONSTANTS
  Threads,   \* threads that load and save
  Servers,   \* values of server.host
  Keys,      \* pairs of AmneziaWG keys
  Options,   \* values of any other key
  No,        \* an empty value, no file, no cache
  MaxEdits   \* files the user replaces or hands to an import, deaths

Settings == [host : Servers \cup {No}, opt : Options, awg : Keys \cup {No}]

\* What parse_amnezia_conf gives: the host of the Endpoint, and a pair of keys.
Conf == [host : Servers \cup {No}, awg : Keys \cup {No}]

ASSUME ConfigAssumption ==
  /\ No \notin Servers \cup Keys \cup Options \cup Settings \cup Conf
  /\ Options # {}
  /\ MaxEdits \in Nat

VARIABLES
  json,    \* config.json and its stamp; content No: torn
  conf,    \* amneziawg.conf and its stamp; content No: no file
  cache,   \* _config_cache
  pc,      \* what each thread does next
  job,     \* what it is at: its intent, whether forced, its stamps and settings
  keys,    \* the keys the user gave last, No when they were given up or torn
  raced,   \* the user replaced the conf under a load
  edits

configVars == <<json, conf, cache, pc, job, keys, raced, edits>>

\* A conf whose writer died
Torn == [host |-> No, awg |-> No]

Intents == {"load", "opt", "json", "conf"}

NoJob == [intent |-> "load", force |-> FALSE, js |-> 0, give |-> Torn, opt |-> No, cfg |-> Torn]

Jobs == [intent : Intents, force : BOOLEAN, js : Nat, give : Conf, opt : Options \cup {No},
         cfg : Settings \cup {Torn}]

Steps == {"idle", "read", "overlay", "store", "take", "save", "write", "forget"}

\* Values; whoever is past the read has settings in hand.
ConfigTypeOK ==
  /\ json \in [data : Settings \cup {No}, stamp : Nat]
  /\ conf \in [data : Conf \cup {No}, stamp : Nat]
  /\ cache \in [js : Nat, cs : Nat, cfg : Settings] \cup {No}
  /\ pc \in [Threads -> Steps]
  /\ job \in [Threads -> Jobs]
  /\ \A t \in Threads :
       /\ pc[t] \in {"overlay", "store", "take", "save", "write"} => job[t].cfg \in Settings
       /\ job[t].intent \in {"opt", "json"} => job[t].opt \in Options
  /\ keys \in Keys \cup {No}
  /\ raced \in BOOLEAN
  /\ edits \in 0..MaxEdits

\* An older build kept the keys in config.json.
ConfigInit ==
  /\ \E h \in Servers, o \in Options, k \in Keys \cup {No} :
       /\ json = [data |-> [host |-> h, opt |-> o, awg |-> k], stamp |-> 1]
       /\ keys = k
  /\ conf = [data |-> No, stamp |-> 0]
  /\ cache = No
  /\ pc = [t \in Threads |-> "idle"]
  /\ job = [t \in Threads |-> NoJob]
  /\ raced = FALSE
  /\ edits = 0

-----------------------------------------------------------------------------
\* The functions of config_io.

\* validate_amnezia_conf
HasKeys(c) == c.awg # No

\* amnezia_keys_ready of a file that is there
Ready(c) == c # No /\ HasKeys(c)

\* overlay_amnezia_conf: an invalid conf is passed over.
Overlay(cfg, c) ==
  IF ~Ready(c) THEN cfg
  ELSE [cfg EXCEPT !.awg = c.awg, !.host = IF c.host = No THEN @ ELSE c.host]

\* render_amnezia_conf: a conf that parses to the keys and the server again.
Rendered(cfg) == [host |-> cfg.host, awg |-> cfg.awg]

\* _write_awg_conf
Written(data, c) == [data |-> data, stamp |-> c.stamp + 1]

\* Variant of Migrated for sensitivity: a conf that is there is written over.
MigratedAnyway(cfg, c) == IF ~HasKeys(cfg) THEN c ELSE Written(Rendered(cfg), c)

\* migrate_legacy_awg_json: only where there is no conf.
Migrated(cfg, c) == IF c.data # No \/ ~HasKeys(cfg) THEN c ELSE Written(Rendered(cfg), c)

\* merge_imported_config onto the file: empty values wipe nothing, keys of an
\* import are not taken.
Merged(base, new) ==
  [host |-> IF new.host = No THEN base.host ELSE new.host, opt |-> new.opt, awg |-> base.awg]

\* persistable_config
Persistable(cfg) == [cfg EXCEPT !.awg = No]

-----------------------------------------------------------------------------
\* Steps of a thread.

Edit == edits < MaxEdits /\ edits' = edits + 1
NoEdit == UNCHANGED edits

Go(t, to) == pc' = [pc EXCEPT ![t] = to]

\* load_config answers from the cache while neither stamp has changed.
Hit == IF cache = No THEN FALSE ELSE cache.js = json.stamp /\ cache.cs = conf.stamp

\* What a thread does with the settings it has loaded.
AfterLoad(intent) ==
  CASE intent = "load" -> "idle" [] intent = "json" -> "take" [] OTHER -> "save"

\* Every job begins with a load: of the cached settings, or of the files.
Begins(t, j) ==
  /\ pc[t] = "idle"
  /\ IF Hit /\ ~j.force
       THEN /\ job' = [job EXCEPT ![t] = [j EXCEPT !.cfg = cache.cfg]]
            /\ Go(t, AfterLoad(j.intent))
       ELSE /\ job' = [job EXCEPT ![t] = [j EXCEPT !.js = json.stamp]]
            /\ Go(t, "read")

\* reload_env, which always reads.  Any other load that saves nothing is this
\* one too where the cache has no answer, and changes nothing where it has.
Reload(t) ==
  /\ Begins(t, [NoJob EXCEPT !.force = TRUE])
  /\ NoEdit
  /\ UNCHANGED <<json, conf, cache, keys, raced>>

\* update_config_key, write_from_map
UpdateKey(t) ==
  /\ Edit
  /\ \E o \in Options : Begins(t, [NoJob EXCEPT !.intent = "opt", !.opt = o])
  /\ UNCHANGED <<json, conf, cache, keys, raced>>

\* import_path of a JSON file, with its own server and keys or without
ImportJson(t) ==
  /\ Edit
  /\ \E o \in Options, new \in Conf :
       Begins(t, [NoJob EXCEPT !.intent = "json", !.opt = o, !.give = new])
  /\ UNCHANGED <<json, conf, cache, keys, raced>>

\* The keys of the imported file become the conf where there is none.
TakeImport(t) ==
  /\ pc[t] = "take"
  /\ conf' = Migrated(job[t].give, conf)
  /\ cache' = IF conf' = conf THEN cache ELSE No
  /\ keys' = IF conf' = conf THEN keys ELSE job[t].give.awg
  /\ Go(t, "save")
  /\ NoEdit
  /\ UNCHANGED <<json, job, raced>>

\* install_amnezia_conf writes the conf before it loads.
ImportConf(t) ==
  /\ Edit
  /\ \E h \in Servers, k \in Keys :
       /\ conf' = Written([host |-> h, awg |-> k], conf)
       /\ keys' = k
  /\ cache' = No
  /\ Begins(t, [NoJob EXCEPT !.intent = "conf", !.force = TRUE])
  /\ UNCHANGED <<json, raced>>

\* load_config reads the file whose stamp it has taken; a torn one raises.
Read(t) ==
  /\ pc[t] = "read"
  /\ IF json.data = No
       THEN /\ Go(t, "idle")
            /\ job' = [job EXCEPT ![t] = NoJob]
            /\ UNCHANGED <<conf, cache>>
       ELSE /\ Go(t, "overlay")
            /\ job' = [job EXCEPT ![t].cfg = json.data]
            /\ conf' = Migrated(json.data, conf)
            /\ cache' = IF conf' = conf THEN cache ELSE No
  /\ NoEdit
  /\ UNCHANGED <<json, keys, raced>>

Overlays(t) ==
  /\ pc[t] = "overlay"
  /\ job' = [job EXCEPT ![t].cfg = Overlay(@, conf.data)]
  /\ Go(t, "store")
  /\ NoEdit
  /\ UNCHANGED <<json, conf, cache, keys, raced>>

\* Variant of Store for sensitivity: both stamps are those of now.
StoreAnew(t) ==
  /\ pc[t] = "store"
  /\ cache' = [js |-> json.stamp, cs |-> conf.stamp, cfg |-> job[t].cfg]
  /\ job' = [job EXCEPT ![t] = IF @.intent = "load" THEN NoJob ELSE @]
  /\ Go(t, AfterLoad(job[t].intent))
  /\ NoEdit
  /\ UNCHANGED <<json, conf, keys, raced>>

\* The cache gets the stamp of the first file from before the read, that of
\* the second from now.
Store(t) ==
  /\ pc[t] = "store"
  /\ cache' = [js |-> job[t].js, cs |-> conf.stamp, cfg |-> job[t].cfg]
  /\ job' = [job EXCEPT ![t] = IF @.intent = "load" THEN NoJob ELSE @]
  /\ Go(t, AfterLoad(job[t].intent))
  /\ NoEdit
  /\ UNCHANGED <<json, conf, keys, raced>>

\* What the caller of save_config made of the settings it loaded.
Wanted(j) ==
  CASE j.intent = "opt" -> [j.cfg EXCEPT !.opt = j.opt]
    [] j.intent = "json" -> Merged(j.cfg, [host |-> j.give.host, opt |-> j.opt])
    [] OTHER -> j.cfg

\* save_config merges into what the file holds by now, or starts anew from a
\* torn one, and migrates before it strips.
Save(t) ==
  /\ pc[t] = "save"
  /\ LET want == Wanted(job[t])
         payload == IF json.data = No THEN want ELSE Merged(json.data, want)
     IN /\ conf' = Migrated(payload, conf)
        /\ cache' = IF conf' = conf THEN cache ELSE No
        /\ job' = [job EXCEPT ![t].cfg = Persistable(payload)]
  /\ Go(t, "write")
  /\ NoEdit
  /\ UNCHANGED <<json, keys, raced>>

Write(t) ==
  /\ pc[t] = "write"
  /\ json' = [data |-> job[t].cfg, stamp |-> json.stamp + 1]
  /\ Go(t, "forget")
  /\ NoEdit
  /\ UNCHANGED <<conf, cache, job, keys, raced>>

\* invalidate_config_cache, then apply_config(force=True)
Invalidate(t) ==
  /\ pc[t] = "forget"
  /\ cache' = No
  /\ job' = [job EXCEPT ![t] = [NoJob EXCEPT !.force = TRUE, !.js = json.stamp]]
  /\ Go(t, "read")
  /\ NoEdit
  /\ UNCHANGED <<json, conf, keys, raced>>

-----------------------------------------------------------------------------
\* The user, and death.

UserEditsConf ==
  /\ Edit
  /\ \E c \in Conf \cup {No} :
       /\ c # conf.data
       /\ conf' = [data |-> c, stamp |-> conf.stamp + 1]
       /\ keys' = IF c = No THEN No ELSE c.awg
  /\ raced' = (raced \/ \E t \in Threads : pc[t] \in {"overlay", "store"})
  /\ UNCHANGED <<json, cache, pc, job>>

\* The user's editor saves other choices and servers; the keys stay.
UserEditsJson ==
  /\ Edit
  /\ json.data # No
  /\ \E h \in Servers, o \in Options :
       json' = [data |-> [json.data EXCEPT !.host = h, !.opt = o], stamp |-> json.stamp + 1]
  /\ UNCHANGED <<conf, cache, pc, job, keys, raced>>

Restarted ==
  /\ Edit
  /\ cache' = No
  /\ pc' = [t \in Threads |-> "idle"]
  /\ job' = [t \in Threads |-> NoJob]
  /\ UNCHANGED raced

Die == Restarted /\ UNCHANGED <<json, conf, keys>>

\* write_text empties the file before it fills it.
DieWriting ==
  /\ \E t \in Threads : pc[t] = "write"
  /\ json' = [data |-> No, stamp |-> json.stamp + 1]
  /\ Restarted
  /\ UNCHANGED <<conf, keys>>

\* A migration or an import of a conf is cut short: the next save takes the
\* keys out of config.json although the conf has none.
DieMigrating ==
  /\ \/ \E t \in Threads :
          \/ pc[t] = "read" /\ json.data # No /\ Migrated(json.data, conf) # conf
          \/ pc[t] = "take" /\ Migrated(job[t].give, conf) # conf
     \/ \E t \in Threads : pc[t] = "idle"
  /\ conf' = [data |-> Torn, stamp |-> conf.stamp + 1]
  /\ keys' = No
  /\ Restarted
  /\ UNCHANGED json

Step(t) ==
  \/ Reload(t) \/ UpdateKey(t) \/ ImportJson(t) \/ TakeImport(t) \/ ImportConf(t)
  \/ Read(t) \/ Overlays(t) \/ Store(t) \/ Save(t) \/ Write(t) \/ Invalidate(t)

ConfigNext == (\E t \in Threads : Step(t)) \/ UserEditsConf \/ UserEditsJson
        \/ Die \/ DieWriting \/ DieMigrating

ConfigSpec == ConfigInit /\ [][ConfigNext]_configVars

-----------------------------------------------------------------------------
\* Properties.

\* The keys the user gave last are in one of the two files at every moment,
\* whoever loads, saves, imports or dies: a migration writes the second file
\* before a save strips the first.
KeysSurvive ==
  keys # No => (Ready(conf.data) /\ conf.data.awg = keys)
               \/ (json.data # No /\ json.data.awg = keys)

\* Settings that the stamps of the cache declare current are those of the
\* files, unless the user replaced the conf under a load or an import is under
\* way: no load that was overtaken by a save leaves its older settings behind.
CacheIsTrue ==
  Hit /\ json.data # No /\ ~raced /\ (\A t \in Threads : job[t].intent \notin {"json", "conf"})
    => cache.cfg = Overlay(json.data, conf.data)
==============================================================================
