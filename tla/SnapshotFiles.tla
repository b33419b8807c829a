---------------------------- MODULE SnapshotFiles ----------------------------
(******************************************************************************)
(* The maintenance commands of chromium-crs (update, generate, check,         *)
(* check-latest) over the three files of a snapshot: crs.pb, SOURCE.toml      *)
(* and generated.rs.                                                          *)
(*                                                                            *)
(* Each command is a process; one step is one file-system call (a read, the   *)
(* truncating open or the write of std::fs::write) or one download.  A        *)
(* command can be killed between two calls and a write can fail, so every     *)
(* prefix of the three writes can be what the next command finds.             *)
(*                                                                            *)
(* Abstractions.  SHA-256 is injective, so the digest of a payload is the     *)
(* payload itself; a package (one CRX3 file) is a number in publication       *)
(* order and stands for its component version and its digest; parsing and     *)
(* validating a payload is the predicate Publishable (module                  *)
(* AnchorSelection opens it up); code generation is deterministic, so         *)
(* generated.rs is the pair of its inputs.                                    *)
(******************************************************************************)
EXTENDS Integers

CONSTANTS
  Procs,         \* concurrently running maintenance commands
  Payloads,      \* serialized root stores
  Publishable,   \* those that parse_root_store and validate_anchors accept
  VersionOf,     \* version_major inside a payload
  LastPackage,   \* bound: the packages are 1 .. LastPackage
  PayloadOf,     \* the crs.pb inside each package
  Browsers,      \* Chrome Stable versions
  StaleServers,  \* may the component service still serve an older package?
  MaxFaults,     \* bound on killed commands and failed writes
  Missing,       \* the file does not exist
  Empty,         \* the file has been truncated and not yet written
  Garbled        \* the file holds bytes no command meant to write

Packages  == 1 .. LastPackage
Source    == [crx : Packages, browser : Browsers, crs : Payloads]
Locks     == [source : Source, version : Int]
Libraries == [source : Source, payload : Payloads]
Unusable  == {Missing, Empty, Garbled}

Commands == {"update", "generate", "check", "check-latest"}
Labels   == {"idle", "download", "compare", "rewrite", "truncate", "fill",
             "read_lock", "read_crs", "compare_generated", "compare_latest"}
Results  == {"none", "unchanged", "written", "generated", "checked", "current",
             "disagrees", "error", "killed"}

Trees == [crs       : Payloads \cup Unusable,
          lock      : Locks \cup Unusable,
          generated : Libraries \cup Unusable]
Files == {"crs", "lock", "generated"}

ASSUME ConstantsAssumption ==
  /\ Publishable \subseteq Payloads
  /\ VersionOf \in [Payloads -> Int]
  /\ LastPackage \in Nat \ {0}
  /\ PayloadOf \in [Packages -> Payloads]
  /\ StaleServers \in BOOLEAN
  /\ MaxFaults \in Nat

ASSUME UnusableAssumption ==
  /\ Unusable \cap Payloads = {}
  /\ Unusable \cap Locks = {}
  /\ Unusable \cap Libraries = {}
  /\ Missing # Empty /\ Missing # Garbled /\ Empty # Garbled

VARIABLES
  upstream,   \* the newest package the component service has published
  tree,       \* the three files of the working tree
  faults,     \* kills and failed writes so far
  cmd,        \* the command each process runs
  at,         \* its program counter, "idle" before and after a run
  file,       \* the file it is rewriting, "none" when it has done them all
  held,       \* the payload, lock and generated source it holds in memory
  candidate,  \* the payload check-latest has downloaded
  result,     \* how its latest run ended
  disturbed   \* has another process touched the tree since that run began?

vars == <<upstream, tree, faults, cmd, at, file, held, candidate, result, disturbed>>

-----------------------------------------------------------------------------
(* Data *)

SourceMetadata(pkg, b) == [crx |-> pkg, browser |-> b, crs |-> PayloadOf[pkg]]

(* verify_payload compares the digest of the payload with the recorded one.   *)
AnyPayload(source, crs) == crs \in Payloads
PayloadVerified(source, crs) == crs = source.crs

(* generate_component succeeds. *)
VerifiedOnly(source, crs) == PayloadVerified(source, crs)
ComponentAccepted(source, crs) ==
  /\ PayloadVerified(source, crs)
  /\ crs \in Publishable

SourceLock(source) == [source |-> source, version |-> VersionOf[source.crs]]
PayloadOnly(source, crs) == crs
GeneratedSource(source, crs) == [source |-> source, payload |-> crs]

LockParses(contents) == contents \in Locks

(* generate compares the version in SOURCE.toml with the one in the payload.  *)
VersionMatches(lock, crs) == VersionOf[crs] = lock.version

SameVersion(checkedIn, downloaded) ==
  checkedIn \in Payloads /\ VersionOf[checkedIn] = VersionOf[downloaded]
NeverCurrent(checkedIn, downloaded) == FALSE
PayloadIsCurrent(checkedIn, downloaded) == checkedIn = downloaded

AlwaysCurrent(checkedIn, source) == TRUE
GeneratedSourceCurrent(checkedIn, source) == checkedIn = source

(* The order in which update rewrites the files; generate starts at the last. *)
SkipGenerated(f) == IF f = "crs" THEN "lock" ELSE "none"
NextFile(f) == CASE f = "crs"  -> "lock"
                 [] f = "lock" -> "generated"
                 [] OTHER      -> "none"

Snapshot(source, crs) ==
  [crs |-> crs, lock |-> SourceLock(source), generated |-> GeneratedSource(source, crs)]

Nothing == [crs |-> Missing, lock |-> Missing, generated |-> Missing]

PairedTree(t) == t.lock \in Locks /\ t.crs = t.lock.source.crs

ConsistentTree(t) ==
  /\ PairedTree(t)
  /\ t.lock.version = VersionOf[t.crs]
  /\ t.generated = GeneratedSource(t.lock.source, t.crs)

(* The packages a download may return.  The service serves the newest one,    *)
(* unless one of its servers or a staged rollout still offers an older one.   *)
Served == IF StaleServers THEN 1 .. upstream ELSE {upstream}

-----------------------------------------------------------------------------
(* A repository before its first snapshot, or with a consistent one. *)
Init ==
  /\ upstream = 1
  /\ tree \in {Nothing} \cup
       {Snapshot(SourceMetadata(1, b), PayloadOf[1]) :
          b \in {x \in Browsers : PayloadOf[1] \in Publishable}}
  /\ faults = 0
  /\ cmd = [p \in Procs |-> "update"]
  /\ at = [p \in Procs |-> "idle"]
  /\ file = [p \in Procs |-> "none"]
  /\ held = [p \in Procs |-> Nothing]
  /\ candidate = [p \in Procs |-> Missing]
  /\ result = [p \in Procs |-> "none"]
  /\ disturbed = [p \in Procs |-> FALSE]

Goto(p, label) == at' = [at EXCEPT ![p] = label]

(* The command returns or dies; its memory is gone. *)
End(p, outcome) ==
  /\ Goto(p, "idle")
  /\ result' = [result EXCEPT ![p] = outcome]
  /\ held' = [held EXCEPT ![p] = Nothing]
  /\ file' = [file EXCEPT ![p] = "none"]

(* p puts contents into its current file; every other run now shares the tree *)
(* with a writer.                                                             *)
Overwrite(p, contents) ==
  /\ tree' = [tree EXCEPT ![file[p]] = contents]
  /\ disturbed' = [q \in Procs |-> disturbed[q] \/ q # p]

Publish ==
  /\ upstream < LastPackage
  /\ upstream' = upstream + 1
  /\ UNCHANGED <<tree, faults, cmd, at, file, held, candidate, result, disturbed>>

Begin(p, c) ==
  /\ at[p] = "idle"
  /\ cmd' = [cmd EXCEPT ![p] = c]
  /\ Goto(p, IF c = "update" THEN "download" ELSE "read_lock")
  /\ result' = [result EXCEPT ![p] = "none"]
  /\ disturbed' = [disturbed EXCEPT ![p] = FALSE]
  /\ candidate' = [candidate EXCEPT ![p] = Missing]
  /\ UNCHANGED <<upstream, tree, faults, file, held>>

(* download_latest, source_metadata and generate_component on its result.     *)
DownloadAccepted(p, pkg, b) ==
  LET source == SourceMetadata(pkg, b)
      crs    == PayloadOf[pkg]
  IN /\ at[p] = "download"
     /\ pkg \in Served
     /\ ComponentAccepted(source, crs)
     /\ candidate' = [candidate EXCEPT ![p] = crs]
     /\ IF cmd[p] = "update"
        THEN held' = [held EXCEPT ![p] = Snapshot(source, crs)] /\ Goto(p, "compare")
        ELSE UNCHANGED held /\ Goto(p, "compare_latest")
     /\ UNCHANGED <<upstream, tree, faults, cmd, file, result, disturbed>>

DownloadRejected(p, pkg, b) ==
  /\ at[p] = "download"
  /\ pkg \in Served
  /\ ~ComponentAccepted(SourceMetadata(pkg, b), PayloadOf[pkg])
  /\ End(p, "error")
  /\ UNCHANGED <<upstream, tree, faults, cmd, candidate, disturbed>>

DownloadFails(p) ==
  /\ at[p] = "download"
  /\ End(p, "error")
  /\ UNCHANGED <<upstream, tree, faults, cmd, candidate, disturbed>>

(* update: fs::read(crs.pb) and payload_is_current. *)
CompareCheckedIn(p) ==
  /\ at[p] = "compare"
  /\ IF PayloadIsCurrent(tree.crs, held[p].crs)
     THEN End(p, "unchanged")
     ELSE /\ file' = [file EXCEPT ![p] = "crs"]
          /\ Goto(p, "rewrite")
          /\ UNCHANGED <<held, result>>
  /\ UNCHANGED <<upstream, tree, faults, cmd, candidate, disturbed>>

(* write_if_changed and write_generated_source read the file once more.       *)
ReRead(p) ==
  LET f == file[p]
  IN /\ at[p] = "rewrite"
     /\ f # "none"
     /\ \/ /\ tree[f] # held[p][f]
           /\ Goto(p, "truncate")
           /\ UNCHANGED <<file, held, result>>
        \/ /\ tree[f] = held[p][f]
           /\ f = "crs"
           /\ End(p, "disagrees")
        \/ /\ tree[f] = held[p][f]
           /\ f # "crs"
           /\ file' = [file EXCEPT ![p] = NextFile(f)]
           /\ UNCHANGED <<at, held, result>>
     /\ UNCHANGED <<upstream, tree, faults, cmd, candidate, disturbed>>

(* std::fs::write opens the file with O_TRUNC ...                             *)
Truncate(p) ==
  /\ at[p] = "truncate"
  /\ Overwrite(p, Empty)
  /\ Goto(p, "fill")
  /\ UNCHANGED <<upstream, faults, cmd, file, held, candidate, result>>

(* ... and writes from offset 0.  If another writer has filled the file in    *)
(* between, a tail of its longer contents may stay.                           *)
Fill(p) ==
  LET mine == held[p][file[p]]
  IN /\ at[p] = "fill"
     /\ \E contents \in {mine} \cup
                        (IF tree[file[p]] \in {Empty, mine} THEN {} ELSE {Garbled}) :
          Overwrite(p, contents)
     /\ file' = [file EXCEPT ![p] = NextFile(file[p])]
     /\ Goto(p, "rewrite")
     /\ UNCHANGED <<upstream, faults, cmd, held, candidate, result>>

(* The open fails and nothing changed, or the write stops part of the way.    *)
WriteFails(p) ==
  /\ at[p] \in {"truncate", "fill"}
  /\ faults < MaxFaults
  /\ faults' = faults + 1
  /\ \/ UNCHANGED <<tree, disturbed>>
     \/ at[p] = "fill" /\ Overwrite(p, Garbled)
  /\ End(p, "error")
  /\ UNCHANGED <<upstream, cmd, candidate>>

Kill(p) ==
  /\ at[p] # "idle"
  /\ faults < MaxFaults
  /\ faults' = faults + 1
  /\ End(p, "killed")
  /\ UNCHANGED <<upstream, tree, cmd, candidate, disturbed>>

Finish(p) ==
  /\ at[p] = "rewrite"
  /\ file[p] = "none"
  /\ End(p, IF cmd[p] = "update" THEN "written" ELSE "generated")
  /\ UNCHANGED <<upstream, tree, faults, cmd, candidate, disturbed>>

(* generator::generate: read_source_lock, ...                                 *)
ReadLock(p) ==
  /\ at[p] = "read_lock"
  /\ IF LockParses(tree.lock)
     THEN /\ held' = [held EXCEPT ![p].lock = tree.lock]
          /\ Goto(p, "read_crs")
          /\ UNCHANGED <<file, result>>
     ELSE End(p, "error")
  /\ UNCHANGED <<upstream, tree, faults, cmd, candidate, disturbed>>

(* ... read crs.pb, generate_component, compare the version.                  *)
ReadCrs(p) ==
  LET lock == held[p].lock
      crs  == tree.crs
  IN /\ at[p] = "read_crs"
     /\ IF ComponentAccepted(lock.source, crs) /\ VersionMatches(lock, crs)
        THEN /\ held' = [held EXCEPT ![p].crs = crs,
                                     ![p].generated = GeneratedSource(lock.source, crs)]
             /\ IF cmd[p] = "generate"
                THEN Goto(p, "rewrite") /\ file' = [file EXCEPT ![p] = "generated"]
                ELSE Goto(p, "compare_generated") /\ UNCHANGED file
             /\ UNCHANGED result
        ELSE End(p, "error")
     /\ UNCHANGED <<upstream, tree, faults, cmd, candidate, disturbed>>

(* ensure_generated_source_current *)
CompareGenerated(p) ==
  /\ at[p] = "compare_generated"
  /\ \/ /\ ~GeneratedSourceCurrent(tree.generated, held[p].generated)
        /\ End(p, "error")
     \/ /\ GeneratedSourceCurrent(tree.generated, held[p].generated)
        /\ cmd[p] = "check"
        /\ End(p, "checked")
     \/ /\ GeneratedSourceCurrent(tree.generated, held[p].generated)
        /\ cmd[p] = "check-latest"
        /\ Goto(p, "download")
        /\ UNCHANGED <<file, held, result>>
  /\ UNCHANGED <<upstream, tree, faults, cmd, candidate, disturbed>>

(* check_latest reads crs.pb again and compares it with the candidate.        *)
CompareLatest(p) ==
  /\ at[p] = "compare_latest"
  /\ End(p, IF /\ VersionOf[candidate[p]] >= VersionOf[held[p].crs]
               /\ tree.crs = candidate[p]
            THEN "current" ELSE "error")
  /\ UNCHANGED <<upstream, tree, faults, cmd, candidate, disturbed>>

Step(p) ==
  \/ CompareCheckedIn(p) \/ ReRead(p) \/ Truncate(p) \/ Fill(p) \/ Finish(p)
  \/ ReadLock(p) \/ ReadCrs(p) \/ CompareGenerated(p) \/ CompareLatest(p)

Download(p) ==
  \E pkg \in Packages, b \in Browsers :
    DownloadAccepted(p, pkg, b) \/ DownloadRejected(p, pkg, b)

Fault(p) == DownloadFails(p) \/ WriteFails(p) \/ Kill(p)

Next ==
  \/ Publish
  \/ \E p \in Procs : \/ \E c \in Commands : Begin(p, c)
                      \/ Download(p)
                      \/ Step(p)
                      \/ Fault(p)

Spec == Init /\ [][Next]_vars

-----------------------------------------------------------------------------
(* Properties *)

TypeOK ==
  /\ upstream \in Packages
  /\ tree \in Trees
  /\ faults \in 0 .. MaxFaults
  /\ cmd \in [Procs -> Commands]
  /\ at \in [Procs -> Labels]
  /\ file \in [Procs -> Files \cup {"none"}]
  /\ held \in [Procs -> Trees]
  /\ candidate \in [Procs -> Payloads \cup {Missing}]
  /\ result \in [Procs -> Results]
  /\ disturbed \in [Procs -> BOOLEAN]

Succeeded(p) == result[p] \in {"written", "generated", "checked", "current"}

(* A command that reports success, and that no other command has interfered    *)
(* with, leaves the three files telling one story, whatever the earlier        *)
(* commands left behind when they were killed: crs.pb is the payload           *)
(* SOURCE.toml names, its version is the locked one, and generated.rs is       *)
(* what the generator makes of the two (component.rs:14-89, main.rs:47-56).    *)
(* check-latest reports success only if crs.pb is the payload it downloaded.   *)
OkMeansConsistent ==
  \A p \in Procs :
    Succeeded(p) /\ ~disturbed[p] =>
      /\ ConsistentTree(tree)
      /\ result[p] = "current" => tree.crs = candidate[p]

(* update's "snapshot change detection disagrees with file update"              *)
(* (component.rs:31-34) can only be reported when another command has written   *)
(* to the tree between the two reads of crs.pb.                                 *)
ChangeDetectionAgrees ==
  \A p \in Procs : result[p] = "disagrees" => disturbed[p]

(* generated.rs only ever holds a library made of one published package, its   *)
(* provenance and a valid payload, however the commands interleave and         *)
(* wherever they are killed.                                                   *)
Release == INSTANCE AuthenticatedRelease WITH offered <- upstream,
                                              shipped <- tree.generated
ShipsOnlyAuthentic == Release!Spec

(* The comment at component.rs:21, "Keep provenance paired with the payload   *)
(* that is actually checked in", said of the early return below it: an update *)
(* that reports an unchanged store does not leave behind a SOURCE.toml that   *)
(* names another payload than the one in crs.pb.                              *)
UnchangedMeansPaired ==
  \A p \in Procs :
    result[p] = "unchanged" /\ ~disturbed[p] /\ tree.lock \in Locks => PairedTree(tree)

(* RootStore::version is documented as monotonically increasing               *)
(* (chromium-crs/src/lib.rs:136) and check-latest refuses a component older   *)
(* than the one checked in (component.rs:70-75): update does not go back.     *)
NoRollback ==
  \A p \in Procs :
    at[p] = "truncate" /\ file[p] = "crs" /\ tree.crs \in Payloads =>
      VersionOf[held[p].crs] >= VersionOf[tree.crs]

-----------------------------------------------------------------------------
(* Liveness.  A command that runs goes on running; the scheduled workflow     *)
(* starts update again and again (update-check.yml), and its downloads do not *)
(* fail for ever.                                                             *)
Fairness ==
  \A p \in Procs :
    /\ WF_vars(Step(p) \/ Download(p))
    /\ SF_vars(Begin(p, "update"))
    /\ SF_vars(/\ cmd[p] = "update"
               /\ \E pkg \in Packages, b \in Browsers : DownloadAccepted(p, pkg, b))

FairSpec == Spec /\ Fairness

(* Whatever kills and failed writes did before, the checked-in payload        *)
(* becomes the one in the newest package and stays that once publication      *)
(* stops, even if that package keeps the root store version.                  *)
EventuallyCurrent ==
  [](upstream = LastPackage => <>[](tree.crs = PayloadOf[LastPackage]))
=============================================================================
