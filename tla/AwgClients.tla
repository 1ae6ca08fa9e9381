----------------------------- MODULE AwgClients -----------------------------
(***************************************************************************)
(* The AmneziaWG clients of a server (modes/vps/awg_clients): peers.json   *)
(* that the commands load and save, one .conf per client, the list of      *)
(* peers in the conf of the server.  One command runs at a time and may    *)
(* die at any step.  A client is a name, a key and the last number of its  *)
(* address; the order of the clients is left out.                          *)
(***************************************************************************)
EXTENDS Naturals

CONSTANTS
  Names,    \* of clients
  Pc,       \* the name of the first one
  MaxHost,  \* the last address that is given out
  MaxKeys,  \* keys that are ever made
  Void      \* no conf, a torn file, no legacy client

ASSUME ClientsAssumption == Pc \in Names /\ MaxHost \in Nat /\ MaxKeys \in Nat

ServerHost == 1
Hosts == 2..MaxHost
Peers == [name : Names, key : Nat, host : Hosts]

VARIABLES
  peersFile,  \* the clients in peers.json; Void: torn
  current,    \* the list a command works on
  confs,      \* of each name, the client its .conf is for
  served,     \* the peers of the server's conf
  legacy,     \* the client of a server set up by an older script
  at,         \* the step of the command
  toWrite,    \* names whose .conf is still to be written
  made,       \* keys made so far
  lost        \* a command took a torn or a missing list for an empty one

clientVars == <<peersFile, current, confs, served, legacy, at, toWrite, made, lost>>

ClientsTypeOK ==
  /\ peersFile = Void \/ peersFile \subseteq Peers
  /\ current \subseteq Peers
  /\ confs \in [Names -> Peers \cup {Void}]
  /\ served \subseteq Peers
  /\ legacy \in Peers \cup {Void}
  /\ at \in {"rest", "add", "load", "confs"}
  /\ toWrite \subseteq Names
  /\ made \in Nat
  /\ lost \in BOOLEAN

NamesOf(peers) == {p.name : p \in peers}
HostsOf(peers) == {p.host : p \in peers}

\* The key and the address of the legacy client are in credentials.env.
ClientsInit ==
  /\ \E h \in Hosts : legacy \in {Void, [name |-> Pc, key |-> 0, host |-> h]}
  /\ peersFile = {}
  /\ current = {}
  /\ confs = [n \in Names |-> Void]
  /\ served = IF legacy = Void THEN {} ELSE {legacy}
  /\ at = "rest"
  /\ toWrite = {}
  /\ made = 0
  /\ lost = FALSE

-----------------------------------------------------------------------------
\* load_peers: a file that cannot be read is an empty list.
Loaded == IF peersFile = Void THEN {} ELSE peersFile

\* used_host_ids
FreeHosts(peers) == Hosts \ HostsOf(peers)

\* next_address
IsNext(h, peers) == h \in FreeHosts(peers) /\ \A g \in FreeHosts(peers) : h <= g

\* Variant of NewClient for sensitivity: only the addresses in the file count.
NewClientOfFile(n, peers) ==
  {[name |-> n, key |-> made + 1, host |-> h] : h \in {g \in Hosts : IsNext(g, Loaded)}}

\* A client with a new key; none where the addresses are used up.
NewClient(n, peers) ==
  {[name |-> n, key |-> made + 1, host |-> h] : h \in {g \in Hosts : IsNext(g, peers)}}

\* add_clients starts from the file: the legacy client is not looked for.
Add ==
  /\ at = "rest"
  /\ current' = Loaded
  /\ lost' = (lost \/ peersFile = Void \/ (Loaded = {} /\ legacy # Void))
  /\ at' = "add"
  /\ UNCHANGED <<peersFile, confs, served, legacy, toWrite, made>>

\* One new client of the command; names that are taken are refused.
AddOne(n) ==
  /\ at = "add"
  /\ n \notin NamesOf(current)
  /\ made < MaxKeys
  /\ \E p \in NewClient(n, current) : current' = current \cup {p}
  /\ made' = made + 1
  /\ UNCHANGED <<peersFile, confs, served, legacy, at, toWrite, lost>>

\* Variant of SaveAdded for sensitivity: only the new clients are saved.
SaveCreated ==
  /\ at = "add"
  /\ peersFile' = current \ Loaded
  /\ at' = "load"
  /\ UNCHANGED <<current, confs, served, legacy, toWrite, made, lost>>

\* save_peers, after which the command goes on to emit.
SaveAdded ==
  /\ at = "add"
  /\ peersFile' = current
  /\ at' = "load"
  /\ UNCHANGED <<current, confs, served, legacy, toWrite, made, lost>>

\* A command that ends, and one that ends before its confs are written.
Rest == at' = "rest" /\ current' = {} /\ toWrite' = {}
GivesUp == Rest /\ UNCHANGED <<confs, served, legacy, made, lost>>

\* A taken name, no address left
AddRefused ==
  /\ at = "add"
  /\ GivesUp
  /\ UNCHANGED peersFile

Emit ==
  /\ at = "rest"
  /\ at' = "load"
  /\ UNCHANGED <<peersFile, current, confs, served, legacy, toWrite, made, lost>>

\* ensure_first_client: an empty list gets the legacy client (migrate_legacy),
\* or a first one, and is saved.
EnsureFirst ==
  /\ at = "load"
  /\ \/ /\ Loaded # {}
        /\ current' = Loaded
        /\ UNCHANGED made
     \/ /\ Loaded = {} /\ legacy # Void
        /\ current' = {legacy}
        /\ UNCHANGED made
     \/ /\ Loaded = {} /\ legacy = Void
        /\ made < MaxKeys
        /\ \E p \in NewClient(Pc, {}) : current' = {p}
        /\ made' = made + 1
  /\ peersFile' = current'
  /\ lost' = (lost \/ peersFile = Void)
  /\ at' = "confs"
  /\ toWrite' = NamesOf(current')
  /\ UNCHANGED <<confs, served, legacy>>

\* write_client_confs
WriteConf(n) ==
  /\ at = "confs" /\ n \in toWrite
  /\ \E p \in current : p.name = n /\ confs' = [confs EXCEPT ![n] = p]
  /\ toWrite' = toWrite \ {n}
  /\ UNCHANGED <<peersFile, current, served, legacy, at, made, lost>>

\* render_server_conf, and the restart of the service
WriteServer ==
  /\ at = "confs" /\ toWrite = {}
  /\ served' = current
  /\ Rest
  /\ UNCHANGED <<peersFile, confs, legacy, made, lost>>

CommandDies ==
  /\ at # "rest"
  /\ GivesUp
  /\ UNCHANGED peersFile

\* peers.json is emptied before it is filled.
DiesSaving ==
  /\ at = "add" \/ (at = "load" /\ Loaded = {})
  /\ peersFile' = Void
  /\ GivesUp

ClientsNext ==
  \/ Add \/ SaveAdded \/ AddRefused \/ Emit \/ EnsureFirst \/ WriteServer
  \/ \E n \in Names : AddOne(n) \/ WriteConf(n)
  \/ CommandDies \/ DiesSaving

ClientsSpec == ClientsInit /\ [][ClientsNext]_clientVars

-----------------------------------------------------------------------------
\* Properties.

\* No two .conf files share an address or a key, whatever was added in one
\* command and whichever died, until a command took a torn or a missing
\* peers.json for an empty one.
AddressesApart ==
  ~lost => \A n, m \in Names :
    n # m /\ confs[n] # Void /\ confs[m] # Void
      => confs[n].host # confs[m].host /\ confs[n].key # confs[m].key

\* Under the same condition no command takes a client that is served, or its
\* address or key, out of the server's conf: emit writes the whole list anew.
NobodyIsCutOff == [][~lost' => served \subseteq served']_clientVars
==============================================================================
