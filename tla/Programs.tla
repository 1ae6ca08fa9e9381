------------------------------ MODULE Programs ------------------------------
(***************************************************************************)
(* Which program runs (desktop/update, the update of ui/bridge) and which  *)
(* sing-box it starts (net/_impl TunManager, lifecycle/pipeline            *)
(* _ensure_binary): the check for releases, the download, the hand-over to *)
(* the installer; the copy of the packed binaries to tools/, or their      *)
(* download where nothing is packed, each of which may be cut short by a   *)
(* death.  The files packed into the program are taken to be intact.       *)
(***************************************************************************)
EXTENDS Integers, Sequences, SequencesExt

CONSTANTS
  Versions,   \* versions of the program, as parse_version gives them
  PinAt(_),   \* the sing-box a version is made for
  MaxListed,  \* releases in a list
  MaxFaults,  \* deaths, failures of a download, deleted files
  Nothing     \* no file, no release

Kinds == {"official", "awg"}

\* A file: its build, and whether it is all there.  Builds differ in size, and
\* so do a whole file and a part of it.
Builds == {PinAt(v) : v \in Versions}
Files == [build : Builds, whole : BOOLEAN]

VARIABLES
  program,  \* the version that is installed and runs
  frozen,   \* installed with packed binaries, or run from the sources
  tool,     \* the file in tools/ of each kind
  ver,      \* sing-box-awg.ver
  archive,  \* a downloaded archive of sing-box
  step,     \* what the connect is at, and for which kind
  started,  \* of each kind the file that was started last, the build that was due,
            \* and whether the old copy had to do
  running,  \* the kinds whose file a running sing-box holds open
  cut,      \* of each kind: a death left a download half done
  offer,    \* the release offered to the user
  seen,     \* the final versions of the answer it was chosen from
  setup,    \* the downloaded installer
  faults

toolVars == <<tool, ver, archive, step, started, running, cut>>
updateVars == <<offer, seen, setup>>
programVars == <<program, frozen, toolVars, updateVars, faults>>

Releases == [ver : Versions, final : BOOLEAN, asset : BOOLEAN]

\* parse_version: a tuple of the numbers between the dots.
ASSUME ProgramsAssumption ==
  /\ Versions \subseteq Seq(Nat)
  /\ MaxListed \in Nat
  /\ Nothing \notin Builds \cup Releases

Idle == [at |-> "idle", kind |-> "awg"]

ProgramsInit ==
  /\ program \in Versions
  /\ frozen \in BOOLEAN
  /\ tool = [k \in Kinds |-> Nothing]
  /\ ver = Nothing
  /\ archive = Nothing
  /\ step = Idle
  /\ started = [k \in Kinds |-> Nothing]
  /\ running = {}
  /\ cut = [k \in Kinds |-> FALSE]
  /\ offer = Nothing
  /\ seen = {}
  /\ setup = Nothing
  /\ faults = 0

Fault == faults < MaxFaults /\ faults' = faults + 1
NoFault == UNCHANGED faults

-----------------------------------------------------------------------------
\* Versions.

\* A part that is missing counts as 0.
Part(v, i) == IF i \in DOMAIN v THEN v[i] ELSE 0

\* is_newer
IsNewer(a, b) ==
  \E i \in DOMAIN a \cup DOMAIN b :
    Part(a, i) > Part(b, i) /\ \A j \in 1..(i - 1) : Part(a, j) = Part(b, j)

\* Variant of Newest for sensitivity: the last final release of the list.
NewestListed(list) ==
  FoldLeft(LAMBDA best, r : IF r.final THEN r ELSE best, Nothing, list)

\* Drafts and prereleases are passed over.
Takes(r, best) == r.final /\ (IF best = Nothing THEN TRUE ELSE IsNewer(r.ver, best.ver))

\* newest_release_payload of a list: the best of its first i releases.
Newest(list) ==
  LET best[i \in 0..Len(list)] ==
        IF i = 0 THEN Nothing
        ELSE IF Takes(list[i], best[i - 1]) THEN list[i] ELSE best[i - 1]
  IN best[Len(list)]

-----------------------------------------------------------------------------
\* The update.

Lists == UNION {[1..n -> Releases] : n \in 1..MaxListed}

\* The release each list leads to, with the final versions of the list.
OfLists ==
  {[best |-> Newest(l), final |-> {l[i].ver : i \in {j \in DOMAIN l : l[j].final}}] : l \in Lists}

\* The release that GitHub names as the latest is asked for first, and taken as
\* it is; it is any final one.
Named == {[best |-> r, final |-> {r.ver}] : r \in {x \in Releases : x.final}}

\* _load_release_payload: the list where none is named.  A failure to
\* get either ends as a list without a final release does, with an error.
Answers == Named \cup OfLists

\* parse_release: what has no file for this system is not offered.
Offered(r) == r.asset /\ IsNewer(r.ver, program)

\* fetch_latest: an offer, or the message that this version is the last.
Latest(r) == IsNewer(r.ver, program) /\ Offered(r)

\* The window's check, and what it makes of the answer: an error leaves an
\* earlier offer standing.
Check ==
  /\ setup = Nothing /\ step = Idle
  /\ \E a \in Answers :
       \/ a.best = Nothing /\ UNCHANGED <<offer, seen>>
       \/ /\ a.best # Nothing
          /\ offer' = IF Latest(a.best) THEN a.best ELSE Nothing
          /\ seen' = IF Latest(a.best) THEN a.final ELSE {}
  /\ NoFault
  /\ UNCHANGED <<program, frozen, setup, toolVars>>

\* http_get: a file that was cut off may be taken for whole.
Got(v, file) ==
  \/ NoFault /\ file = [ver |-> v, whole |-> TRUE]
  \/ Fault /\ file = [ver |-> v, whole |-> FALSE]

\* download_asset, or nothing when it raises.  A program run from its sources
\* opens the page of the release instead.
DownloadSetup ==
  /\ offer # Nothing /\ setup = Nothing /\ frozen /\ step = Idle
  /\ \E whole \in BOOLEAN :
       setup' = [ver |-> offer.ver, whole |-> whole] /\ Got(offer.ver, setup')
  /\ UNCHANGED <<program, frozen, offer, seen, toolVars>>

\* apply_downloaded: the installer, which refuses a file that is not whole,
\* replaces the program; a disconnect before it may have failed, and sing-box
\* then goes on running.
Install ==
  /\ setup # Nothing
  /\ program' = IF setup.whole THEN setup.ver ELSE program
  /\ setup' = Nothing
  /\ offer' = Nothing
  /\ seen' = {}
  /\ running' \in {{}, running}
  /\ NoFault
  /\ UNCHANGED <<frozen, tool, ver, archive, step, started, cut>>

\* The user of the sources checks out another version.
Checkout ==
  /\ ~frozen /\ step = Idle
  /\ program' \in Versions \ {program}
  /\ offer' = Nothing /\ seen' = {}
  /\ Fault
  /\ UNCHANGED <<frozen, setup, toolVars>>

-----------------------------------------------------------------------------
\* Finding the binary.

Pinned == PinAt(program)
Whole == [build |-> Pinned, whole |-> TRUE]

\* _is_native_sing_box: the first bytes are there.
Found(k) == tool[k] # Nothing

At(where, k) == step' = [at |-> where, kind |-> k]

\* The rest of the connect that the binary is for.
Starts(f, k, old) ==
  /\ started' = [started EXCEPT ![k] = [file |-> f, due |-> Pinned, excused |-> old]]
  /\ running' = running \cup {k}
  /\ step' = Idle

\* Variant of PackedIsCopied for sensitivity: a copy that is there is kept.
PackedIsCopiedOnce(k) == tool[k] # Nothing

\* _materialize_bundled and its twin compare the sizes.
PackedIsCopied(k) == tool[k] = Whole

\* A file in use cannot be replaced.
InUse(k) == k \in running /\ Found(k)

\* Where nothing is packed, an AWG build without a version file is given one.
StampsVersion(k) == k = "awg" /\ ~frozen /\ Found(k) /\ ver = Nothing

\* _ensure_binary up to its first copy or download.  In an installed program
\* the packed file is copied; in use, the file in tools/ cannot be replaced:
\* the packed one is then started, or, of the AWG kind, the old copy.
Ensure(k) ==
  /\ step = Idle /\ setup = Nothing
  /\ NoFault
  /\ ver' = IF StampsVersion(k) THEN Pinned ELSE ver
  /\ \/ /\ frozen /\ PackedIsCopied(k)
        /\ Starts(tool[k], k, FALSE)
        /\ UNCHANGED tool
     \/ /\ frozen /\ ~PackedIsCopied(k) /\ ~InUse(k)
        /\ tool' = [tool EXCEPT ![k] = [Whole EXCEPT !.whole = FALSE]]
        /\ At("copy", k)
        /\ UNCHANGED <<started, running>>
     \/ /\ frozen /\ ~PackedIsCopied(k) /\ InUse(k)
        /\ IF k = "awg" THEN Starts(tool[k], k, TRUE) ELSE Starts(Whole, k, FALSE)
        /\ UNCHANGED tool
     \/ /\ ~frozen /\ Found(k) /\ (k = "awg" => ver' = Pinned)
        /\ Starts(tool[k], k, k = "official" \/ cut[k])
        /\ UNCHANGED tool
     \/ /\ ~frozen /\ (~Found(k) \/ (k = "awg" /\ ver' # Pinned))
        /\ At("download", k)
        /\ UNCHANGED <<tool, started, running>>
  /\ UNCHANGED <<program, frozen, archive, cut, updateVars>>

Copied ==
  /\ step.at = "copy"
  /\ tool' = [tool EXCEPT ![step.kind] = Whole]
  /\ Starts(Whole, step.kind, FALSE)
  /\ NoFault
  /\ UNCHANGED <<program, frozen, ver, archive, cut, updateVars>>

\* _download_file raises, or leaves a file that may be a part.
Download ==
  /\ step.at = "download"
  /\ \/ /\ NoFault
        /\ archive' = Whole
        /\ At("check", step.kind)
     \/ /\ Fault
        /\ archive' = [Whole EXCEPT !.whole = FALSE]
        /\ \/ At("check", step.kind) \/ step' = Idle
  /\ UNCHANGED <<program, frozen, tool, ver, started, running, cut, updateVars>>

\* The digest of an AWG archive is compared; one of the official build that is
\* not whole cannot be unpacked to its end.
Trusted(k) == archive.whole

Unpack ==
  /\ step.at = "check"
  /\ IF Trusted(step.kind) /\ ~InUse(step.kind)
       THEN /\ tool' = [tool EXCEPT ![step.kind] = [archive EXCEPT !.whole = FALSE]]
            /\ At("unpack", step.kind)
            /\ UNCHANGED archive
       ELSE /\ archive' = Nothing
            /\ step' = Idle
            /\ UNCHANGED tool
  /\ NoFault
  /\ UNCHANGED <<program, frozen, ver, started, running, cut, updateVars>>

Unpacked ==
  /\ step.at = "unpack"
  /\ tool' = [tool EXCEPT ![step.kind] = archive]
  /\ archive' = Nothing
  /\ cut' = [cut EXCEPT ![step.kind] = FALSE]
  /\ IF step.kind = "awg"
       THEN At("stamp", "awg") /\ UNCHANGED <<started, running>>
       ELSE Starts(archive, step.kind, FALSE)
  /\ NoFault
  /\ UNCHANGED <<program, frozen, ver, updateVars>>

Stamp ==
  /\ step.at = "stamp"
  /\ ver' = Pinned
  /\ Starts(tool["awg"], "awg", FALSE)
  /\ NoFault
  /\ UNCHANGED <<program, frozen, tool, archive, cut, updateVars>>

-----------------------------------------------------------------------------
\* The surroundings.

\* The VPN ends, and with it the hold on the file.
Ends ==
  /\ running # {}
  /\ running' = {}
  /\ NoFault
  /\ UNCHANGED <<program, frozen, tool, ver, archive, step, started, cut, updateVars>>

\* The program dies in whatever it is at.
Dies ==
  /\ step # Idle \/ setup # Nothing
  /\ step' = Idle
  /\ cut' = [k \in Kinds |-> cut[k] \/ (step.kind = k /\ step.at \in {"unpack", "stamp"})]
  /\ offer' = Nothing /\ seen' = {} /\ setup' = Nothing
  /\ Fault
  /\ UNCHANGED <<program, frozen, tool, ver, archive, started, running>>

\* A virus scanner takes a file away.
Quarantine ==
  /\ Fault
  /\ step = Idle
  /\ \E k \in Kinds \ running : tool[k] # Nothing /\ tool' = [tool EXCEPT ![k] = Nothing]
  /\ UNCHANGED <<program, frozen, ver, archive, step, started, running, cut, updateVars>>

ProgramsNext ==
  \/ Check \/ DownloadSetup \/ Install \/ Checkout
  \/ \E k \in Kinds : Ensure(k)
  \/ Copied \/ Download \/ Unpack \/ Unpacked \/ Stamp
  \/ Ends \/ Dies \/ Quarantine

ProgramsSpec == ProgramsInit /\ [][ProgramsNext]_programVars

-----------------------------------------------------------------------------
\* Properties.

\* What a connect starts is all there and is the build that this version of
\* the program is made for: of either kind in an installed program, where
\* every copy is compared with the packed file, and of the AWG kind in the
\* sources, where a digest and a version file are.  Exempt are an old copy
\* that was in use, and what a death left of a download before its version
\* file was written: the next connect writes that file without a look.
StartsPinned ==
  \A k \in Kinds :
    IF started[k] = Nothing THEN TRUE
    ELSE ~started[k].excused => started[k].file = [build |-> started[k].due, whole |-> TRUE]

\* An offered release is newer than the program, is final, and no final release
\* of the answer is newer than it, the list where GitHub names no latest one;
\* versions with fewer parts included (newest_release_payload).
OfferIsNewest ==
  offer # Nothing =>
    /\ offer.final /\ IsNewer(offer.ver, program)
    /\ \A v \in seen : ~IsNewer(v, offer.ver)
==============================================================================
