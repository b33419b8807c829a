------------------------ MODULE SnapshotFiles_proofs ------------------------
(*****************************************************************************)
(* Proofs about SnapshotFiles: types, the consistency of every reported      *)
(* success, and that the commands implement AuthenticatedRelease.            *)
(*****************************************************************************)
EXTENDS SnapshotFiles, TLAPS

Writing == {"rewrite", "truncate", "fill"}

(* Which command can be at which label, and with which file. *)
Control(p) ==
  /\ at[p] # "idle" => result[p] = "none"
  /\ at[p] = "download" => cmd[p] \in {"update", "check-latest"}
  /\ at[p] = "compare" => cmd[p] = "update"
  /\ at[p] = "read_crs" => held[p].lock \in Locks
  /\ at[p] \in {"truncate", "fill"} => file[p] # "none"
  /\ at[p] = "compare_latest" => cmd[p] = "check-latest" /\ candidate[p] \in Payloads

(* The process has a whole snapshot in memory. *)
Loaded(p) ==
  \/ at[p] \in Writing \cup {"compare", "compare_generated", "compare_latest"}
  \/ at[p] = "download" /\ cmd[p] = "check-latest"

AuthenticLock(lock, upTo) ==
  \E pkg \in 1 .. upTo, b \in Browsers :
    /\ PayloadOf[pkg] \in Publishable
    /\ lock = SourceLock(SourceMetadata(pkg, b))

(* Every lock and library, on disk or in memory, stems from an offered package. *)
AuthenticState ==
  /\ tree.lock \in Locks => AuthenticLock(tree.lock, upstream)
  /\ tree.generated \in Libraries => tree.generated \in Release!Authentic(upstream)
  /\ \A p \in Procs :
       /\ at[p] = "read_crs" => AuthenticLock(held[p].lock, upstream)
       /\ Loaded(p) => AuthenticLock(held[p].lock, upstream) /\ ConsistentTree(held[p])

(* The files a rewriting process has already dealt with. *)
Done(f) == CASE f = "crs"       -> {}
             [] f = "lock"      -> {"crs"}
             [] f = "generated" -> {"crs", "lock"}
             [] OTHER           -> Files

Agree(p, files) == \A f \in files : tree[f] = held[p][f]

(* What a process knows of the tree as long as it is the only writer. *)
Alone(p) ==
  /\ at[p] \in Writing => Agree(p, Done(file[p]))
  /\ at[p] = "rewrite" /\ file[p] = "crs" => tree.crs # held[p].crs
  /\ at[p] = "fill" => tree[file[p]] = Empty
  /\ at[p] = "read_crs" => Agree(p, {"lock"})
  /\ at[p] = "compare_generated" => Agree(p, {"crs", "lock"})
  /\ at[p] \in {"download", "compare_latest"} /\ cmd[p] = "check-latest" => Agree(p, Files)

TypeInv == TypeOK /\ \A p \in Procs : Control(p)

Reliable(p) ==
  /\ ~disturbed[p] => Alone(p)
  /\ Succeeded(p) /\ ~disturbed[p] =>
       ConsistentTree(tree) /\ (result[p] = "current" => tree.crs = candidate[p])
  /\ result[p] = "disagrees" => disturbed[p]

ConsistencyInv == \A p \in Procs : Reliable(p)

IInv == TypeInv /\ AuthenticState /\ ConsistencyInv

-----------------------------------------------------------------------------
(* Types *)

USE DEF Commands, Labels, Results, Files

(* The snapshot made of a package with an acceptable payload is well formed. *)
LEMMA SnapshotType ==
  ASSUME NEW pkg \in Packages, NEW b \in Browsers
  PROVE  /\ SourceMetadata(pkg, b) \in Source
         /\ SourceLock(SourceMetadata(pkg, b)) \in Locks
         /\ GeneratedSource(SourceMetadata(pkg, b), PayloadOf[pkg]) \in Libraries
         /\ Snapshot(SourceMetadata(pkg, b), PayloadOf[pkg]) \in Trees
  BY ConstantsAssumption
  DEF SourceMetadata, SourceLock, GeneratedSource, Snapshot, Source, Locks, Libraries,
      Trees

LEMMA NothingType == Nothing \in Trees
  BY DEF Nothing, Trees, Unusable

(* Writing a value of the right kind into the current file keeps the tree     *)
(* well formed.                                                               *)
LEMMA OverwriteType ==
  ASSUME TypeOK, NEW p \in Procs, file[p] # "none",
         NEW contents,
         contents \in {Empty, Garbled, held[p][file[p]]},
         Overwrite(p, contents)
  PROVE  tree' \in Trees /\ disturbed' \in [Procs -> BOOLEAN]
<1>1. disturbed' \in [Procs -> BOOLEAN]
  BY DEF Overwrite, TypeOK
<1>2. tree \in Trees /\ held[p] \in Trees /\ file[p] \in Files
  BY DEF TypeOK
<1>3. tree' = [tree EXCEPT ![file[p]] = contents]
  BY DEF Overwrite
<1>4. CASE file[p] = "crs"
  BY <1>1, <1>2, <1>3, <1>4 DEF Trees, Unusable
<1>5. CASE file[p] = "lock"
  BY <1>1, <1>2, <1>3, <1>5 DEF Trees, Unusable
<1>6. CASE file[p] = "generated"
  BY <1>1, <1>2, <1>3, <1>6 DEF Trees, Unusable
<1> QED
  BY <1>1, <1>2, <1>4, <1>5, <1>6

LEMMA InitTypeInv == Init => TypeInv
<1> SUFFICES ASSUME Init PROVE TypeInv
  OBVIOUS
<1>1. 1 \in Packages
  BY ConstantsAssumption DEF Packages
<1>2. tree \in Trees
  BY <1>1, SnapshotType, NothingType DEF Init
<1>3. \A p \in Procs : at[p] = "idle"
  BY DEF Init
<1>4. TypeOK
  BY <1>1, <1>2, NothingType, ConstantsAssumption DEF Init, TypeOK
<1> QED
  BY <1>3, <1>4 DEF TypeInv, Control

LEMMA NextTypeInv == TypeInv /\ [Next]_vars => TypeInv'
<1> SUFFICES ASSUME TypeInv, [Next]_vars PROVE TypeInv'
  OBVIOUS
<1> USE DEF TypeInv, TypeOK, Control
<1>1. ASSUME Publish PROVE TypeInv'
  BY <1>1, ConstantsAssumption DEF Publish, Packages
<1>2. ASSUME NEW p \in Procs, NEW c \in Commands, Begin(p, c) PROVE TypeInv'
  BY <1>2 DEF Begin, Goto
<1>3. ASSUME NEW p \in Procs, NEW pkg \in Packages, NEW b \in Browsers,
             DownloadAccepted(p, pkg, b)
      PROVE  TypeInv'
  <2>1. PayloadOf[pkg] \in Payloads
    BY ConstantsAssumption
  <2>2. Snapshot(SourceMetadata(pkg, b), PayloadOf[pkg]) \in Trees
    BY SnapshotType
  <2> QED
    BY <1>3, <2>1, <2>2 DEF DownloadAccepted, Goto
<1>4. ASSUME NEW p \in Procs, NEW pkg \in Packages, NEW b \in Browsers,
             DownloadRejected(p, pkg, b)
      PROVE  TypeInv'
  BY <1>4, NothingType DEF DownloadRejected, End, Goto
<1>5. ASSUME NEW p \in Procs, CompareCheckedIn(p) PROVE TypeInv'
  BY <1>5, NothingType DEF CompareCheckedIn, End, Goto
<1>6. ASSUME NEW p \in Procs, ReRead(p) PROVE TypeInv'
  BY <1>6, NothingType DEF ReRead, End, Goto, NextFile
<1>7. ASSUME NEW p \in Procs, Truncate(p) PROVE TypeInv'
  <2>1. tree' \in Trees /\ disturbed' \in [Procs -> BOOLEAN]
    BY <1>7, OverwriteType DEF Truncate
  <2> QED
    BY <1>7, <2>1 DEF Truncate, Goto
<1>8. ASSUME NEW p \in Procs, Fill(p) PROVE TypeInv'
  <2>1. tree' \in Trees /\ disturbed' \in [Procs -> BOOLEAN]
    BY <1>8, OverwriteType DEF Fill
  <2> QED
    BY <1>8, <2>1 DEF Fill, Goto, NextFile
<1>9. ASSUME NEW p \in Procs, Finish(p) PROVE TypeInv'
  BY <1>9, NothingType DEF Finish, End, Goto
<1>10. ASSUME NEW p \in Procs, ReadLock(p) PROVE TypeInv'
  <2>1. CASE tree.lock \in Locks
    <3>1. held' = [held EXCEPT ![p] = [held[p] EXCEPT !.lock = tree.lock]]
      BY <1>10, <2>1 DEF ReadLock, LockParses
    <3>2. [held[p] EXCEPT !.lock = tree.lock] \in Trees
      BY <2>1 DEF Trees
    <3>3. held' \in [Procs -> Trees] /\ held'[p].lock \in Locks
      BY <2>1, <3>1, <3>2 DEF Trees
    <3> QED
      BY <1>10, <2>1, <3>3 DEF ReadLock, LockParses, Goto
  <2>2. CASE tree.lock \notin Locks
    BY <1>10, <2>2, NothingType DEF ReadLock, LockParses, End, Goto
  <2> QED
    BY <2>1, <2>2
<1>11. ASSUME NEW p \in Procs, ReadCrs(p) PROVE TypeInv'
  <2> DEFINE lock == held[p].lock
  <2> DEFINE accepted == /\ ComponentAccepted(lock.source, tree.crs)
                         /\ VersionMatches(lock, tree.crs)
  <2>1. CASE accepted
    <3>1. GeneratedSource(lock.source, tree.crs) \in Libraries
      BY <1>11, <2>1, ConstantsAssumption
      DEF ReadCrs, ComponentAccepted, GeneratedSource, Locks, Libraries
    <3>2. held' \in [Procs -> Trees]
      BY <1>11, <2>1, <3>1 DEF ReadCrs, Trees
    <3> QED
      BY <1>11, <2>1, <3>2 DEF ReadCrs, Goto
  <2>2. CASE ~accepted
    BY <1>11, <2>2, NothingType DEF ReadCrs, End, Goto
  <2> QED
    BY <2>1, <2>2
<1>12. ASSUME NEW p \in Procs, CompareGenerated(p) PROVE TypeInv'
  BY <1>12, NothingType DEF CompareGenerated, End, Goto
<1>13. ASSUME NEW p \in Procs, CompareLatest(p) PROVE TypeInv'
  BY <1>13, NothingType DEF CompareLatest, End, Goto
<1>14. ASSUME NEW p \in Procs, DownloadFails(p) PROVE TypeInv'
  BY <1>14, NothingType DEF DownloadFails, End, Goto
<1>15. ASSUME NEW p \in Procs, WriteFails(p) PROVE TypeInv'
  <2>1. tree' \in Trees /\ disturbed' \in [Procs -> BOOLEAN]
    <3>1. CASE UNCHANGED <<tree, disturbed>>
      BY <3>1
    <3>2. CASE Overwrite(p, Garbled)
      BY <1>15, <3>2, OverwriteType DEF WriteFails
    <3> QED
      BY <1>15, <3>1, <3>2 DEF WriteFails
  <2>2. faults' \in 0 .. MaxFaults
    BY <1>15, ConstantsAssumption DEF WriteFails
  <2>3. End(p, "error") /\ UNCHANGED <<upstream, cmd, candidate>>
    BY <1>15 DEF WriteFails
  <2> QED
    BY <2>1, <2>2, <2>3, NothingType DEF End, Goto
<1>16. ASSUME NEW p \in Procs, Kill(p) PROVE TypeInv'
  BY <1>16, NothingType, ConstantsAssumption DEF Kill, End, Goto
<1>17. CASE UNCHANGED vars
  BY <1>17 DEF vars
<1> QED
  BY <1>1, <1>2, <1>3, <1>4, <1>5, <1>6, <1>7, <1>8, <1>9, <1>10, <1>11, <1>12,
     <1>13, <1>14, <1>15, <1>16, <1>17
  DEF Next, Step, Download, Fault

(* Every variable keeps its type, for any number of commands and any payloads *)
(* (the whole of component.rs and main.rs:47-56).                             *)
THEOREM TypeCorrect == Spec => []TypeOK
<1>1. TypeInv => TypeOK
  BY DEF TypeInv
<1> QED
  BY <1>1, InitTypeInv, NextTypeInv, PTL DEF Spec

-----------------------------------------------------------------------------
(* Provenance *)

LEMMA UnusableContents ==
  /\ Missing \notin Payloads /\ Empty \notin Payloads /\ Garbled \notin Payloads
  /\ Missing \notin Locks /\ Empty \notin Locks /\ Garbled \notin Locks
  /\ Missing \notin Libraries /\ Empty \notin Libraries /\ Garbled \notin Libraries
  BY UnusableAssumption DEF Unusable

(* A consistent snapshot with an authentic lock has an authentic library. *)
LEMMA CoherentLibrary ==
  ASSUME NEW upTo, NEW h, AuthenticLock(h.lock, upTo), ConsistentTree(h)
  PROVE  h.generated \in Release!Authentic(upTo)
<1>1. PICK pkg \in 1 .. upTo, b \in Browsers :
        PayloadOf[pkg] \in Publishable /\ h.lock = SourceLock(SourceMetadata(pkg, b))
  BY DEF AuthenticLock
<1>2. h.lock.source = [crx |-> pkg, browser |-> b, crs |-> PayloadOf[pkg]]
  BY <1>1 DEF SourceLock, SourceMetadata
<1>3. h.generated = [source |-> h.lock.source, payload |-> h.lock.source.crs]
  BY DEF ConsistentTree, PairedTree, GeneratedSource
<1>4. h.generated = Release!LibraryOf(pkg, b)
  BY <1>2, <1>3 DEF Release!LibraryOf
<1> QED
  BY <1>1, <1>4 DEF Release!Authentic

LEMMA SnapshotCoherent ==
  ASSUME NEW pkg \in Packages, NEW b \in Browsers
  PROVE  ConsistentTree(Snapshot(SourceMetadata(pkg, b), PayloadOf[pkg]))
  BY SnapshotType
  DEF ConsistentTree, PairedTree, Snapshot, SourceLock, SourceMetadata, GeneratedSource

LEMMA InitAuthentic == Init => AuthenticState
<1> SUFFICES ASSUME Init PROVE AuthenticState
  OBVIOUS
<1>1. \A p \in Procs : at[p] = "idle" /\ ~Loaded(p)
  BY DEF Init, Loaded, Writing
<1>2. CASE tree = Nothing
  BY <1>1, <1>2, UnusableContents DEF AuthenticState, Nothing
<1>3. CASE tree # Nothing
  <2>1. PICK b \in Browsers : /\ PayloadOf[1] \in Publishable
                              /\ tree = Snapshot(SourceMetadata(1, b), PayloadOf[1])
    BY <1>3 DEF Init
  <2>2. upstream = 1 /\ 1 \in Packages
    BY ConstantsAssumption DEF Init, Packages
  <2>3. AuthenticLock(tree.lock, upstream)
    BY <2>1, <2>2 DEF AuthenticLock, Snapshot
  <2>4. tree.generated \in Release!Authentic(upstream)
    BY <2>1, <2>2, <2>3, SnapshotCoherent, CoherentLibrary
  <2> QED
    BY <1>1, <2>3, <2>4 DEF AuthenticState
<1> QED
  BY <1>2, <1>3

(* What a step has to show for the process that takes it. *)
AuthenticMemory(p) ==
  /\ at[p] = "read_crs" => AuthenticLock(held[p].lock, upstream)
  /\ Loaded(p) => AuthenticLock(held[p].lock, upstream) /\ ConsistentTree(held[p])

OthersKept(p) ==
  \A q \in Procs \ {p} :
    /\ at'[q] = at[q] /\ file'[q] = file[q] /\ held'[q] = held[q]
    /\ cmd'[q] = cmd[q] /\ candidate'[q] = candidate[q] /\ result'[q] = result[q]

LEMMA AuthenticStep ==
  ASSUME AuthenticState, NEW p \in Procs, OthersKept(p), upstream' = upstream,
         tree'.lock \in {tree.lock, held[p].lock, Empty, Garbled},
         tree'.generated \in {tree.generated, held[p].generated, Empty, Garbled},
         tree'.lock = held[p].lock => Loaded(p) \/ tree'.lock = tree.lock,
         tree'.generated = held[p].generated => Loaded(p) \/ tree'.generated = tree.generated,
         AuthenticMemory(p)'
  PROVE  AuthenticState'
<1>1. Loaded(p) => /\ AuthenticLock(held[p].lock, upstream)
                   /\ held[p].generated \in Release!Authentic(upstream)
  BY CoherentLibrary DEF AuthenticState
<1>2. tree'.lock \in Locks => AuthenticLock(tree'.lock, upstream)
  BY <1>1, UnusableContents DEF AuthenticState
<1>3. tree'.generated \in Libraries => tree'.generated \in Release!Authentic(upstream)
  BY <1>1, UnusableContents DEF AuthenticState
<1>4. ASSUME NEW q \in Procs, q # p PROVE AuthenticMemory(q)'
  BY <1>4 DEF AuthenticState, AuthenticMemory, OthersKept, Loaded
<1> QED
  BY <1>2, <1>3, <1>4 DEF AuthenticState, AuthenticMemory

(* A command that ends forgets what it held. *)
LEMMA EndForgets ==
  ASSUME TypeInv, NEW p \in Procs, NEW outcome, End(p, outcome)
  PROVE  AuthenticMemory(p)'
  BY DEF TypeInv, TypeOK, End, Goto, AuthenticMemory, Loaded, Writing

LEMMA NextAuthentic == TypeInv /\ AuthenticState /\ [Next]_vars => AuthenticState'
<1> SUFFICES ASSUME TypeInv, AuthenticState, [Next]_vars PROVE AuthenticState'
  OBVIOUS
<1> USE DEF TypeInv, TypeOK
<1>0. \A p \in Procs : AuthenticMemory(p)
  BY DEF AuthenticState, AuthenticMemory
<1>1. ASSUME Publish PROVE AuthenticState'
  <2>1. upstream \in Nat /\ upstream' = upstream + 1
    BY <1>1, ConstantsAssumption DEF Publish, Packages
  <2>2. 1 .. upstream \subseteq 1 .. upstream'
    BY <2>1
  <2>3. ASSUME NEW lock, AuthenticLock(lock, upstream)
        PROVE  AuthenticLock(lock, upstream')
    BY <2>2, <2>3 DEF AuthenticLock
  <2>4. Release!Authentic(upstream) \subseteq Release!Authentic(upstream')
    BY <2>2 DEF Release!Authentic
  <2>5. UNCHANGED <<tree, cmd, at, held>>
    BY <1>1 DEF Publish
  <2> QED
    BY <2>3, <2>4, <2>5 DEF AuthenticState, Loaded
<1>2. ASSUME NEW p \in Procs, NEW c \in Commands, Begin(p, c) PROVE AuthenticState'
  <2>1. AuthenticMemory(p)'
    BY <1>2 DEF Begin, Goto, AuthenticMemory, Loaded, Writing
  <2>2. OthersKept(p) /\ UNCHANGED <<tree, upstream>>
    BY <1>2 DEF Begin, Goto, OthersKept
  <2>3. tree'.lock = tree.lock /\ tree'.generated = tree.generated
    BY <2>2
  <2> QED
    BY <2>1, <2>2, <2>3, AuthenticStep
<1>3. ASSUME NEW p \in Procs, NEW pkg \in Packages, NEW b \in Browsers,
             DownloadAccepted(p, pkg, b)
      PROVE  AuthenticState'
  <2>1. pkg \in 1 .. upstream /\ PayloadOf[pkg] \in Publishable
    BY <1>3 DEF DownloadAccepted, Served, Packages, ComponentAccepted
  <2>2. ASSUME cmd[p] = "update" PROVE AuthenticMemory(p)'
    <3>1. held'[p] = Snapshot(SourceMetadata(pkg, b), PayloadOf[pkg]) /\ at'[p] = "compare"
      BY <1>3, <2>2 DEF DownloadAccepted, Goto
    <3>2. AuthenticLock(held'[p].lock, upstream)
      BY <2>1, <3>1 DEF AuthenticLock, Snapshot
    <3>3. ConsistentTree(held'[p])
      BY <3>1, SnapshotCoherent
    <3>4. upstream' = upstream
      BY <1>3 DEF DownloadAccepted
    <3> QED
      BY <3>1, <3>2, <3>3, <3>4 DEF AuthenticMemory
  <2>3. ASSUME cmd[p] # "update" PROVE AuthenticMemory(p)'
    <3>1. Loaded(p) /\ held'[p] = held[p] /\ at'[p] = "compare_latest"
      BY <1>3, <2>3 DEF DownloadAccepted, Goto, Loaded, Control
    <3>2. upstream' = upstream
      BY <1>3 DEF DownloadAccepted
    <3> QED
      BY <1>0, <3>1, <3>2 DEF AuthenticMemory
  <2>4. OthersKept(p) /\ UNCHANGED <<tree, upstream>>
    BY <1>3 DEF DownloadAccepted, Goto, OthersKept
  <2>5. tree'.lock = tree.lock /\ tree'.generated = tree.generated
    BY <2>4
  <2> QED
    BY <2>2, <2>3, <2>4, <2>5, AuthenticStep
<1>4. ASSUME NEW p \in Procs, NEW outcome, End(p, outcome),
             UNCHANGED <<tree, upstream, cmd, candidate>>
      PROVE  AuthenticState'
  <2>1. AuthenticMemory(p)'
    BY <1>4, EndForgets
  <2>2. OthersKept(p)
    BY <1>4 DEF End, Goto, OthersKept
  <2>3. tree'.lock = tree.lock /\ tree'.generated = tree.generated
    BY <1>4
  <2> QED
    BY <1>4, <2>1, <2>2, <2>3, AuthenticStep
<1>5. ASSUME NEW p \in Procs, Loaded(p), Loaded(p)', held'[p] = held[p],
             at'[p] # "read_crs", OthersKept(p), UNCHANGED <<tree, upstream>>
      PROVE  AuthenticState'
  <2>1. AuthenticMemory(p)'
    BY <1>0, <1>5 DEF AuthenticMemory
  <2>2. tree'.lock = tree.lock /\ tree'.generated = tree.generated
    BY <1>5
  <2> QED
    BY <1>5, <2>1, <2>2, AuthenticStep
<1>6. ASSUME NEW p \in Procs, CompareCheckedIn(p) PROVE AuthenticState'
  <2>1. CASE PayloadIsCurrent(tree.crs, held[p].crs)
    BY <1>4, <1>6, <2>1 DEF CompareCheckedIn
  <2>2. CASE ~PayloadIsCurrent(tree.crs, held[p].crs)
    BY <1>5, <1>6, <2>2 DEF CompareCheckedIn, Goto, Loaded, Writing, OthersKept
  <2> QED
    BY <2>1, <2>2
<1>7. ASSUME NEW p \in Procs, ReRead(p) PROVE AuthenticState'
  <2>1. CASE End(p, "disagrees")
    BY <1>4, <1>7, <2>1 DEF ReRead
  <2>2. CASE ~End(p, "disagrees")
    BY <1>5, <1>7, <2>2 DEF ReRead, Goto, Loaded, Writing, OthersKept
  <2> QED
    BY <2>1, <2>2
<1>8. ASSUME NEW p \in Procs, NEW contents, Loaded(p), file[p] # "none",
             contents \in {Empty, Garbled, held[p][file[p]]},
             Overwrite(p, contents), OthersKept(p), upstream' = upstream,
             AuthenticMemory(p)'
      PROVE  AuthenticState'
  <2>1. tree \in Trees /\ file[p] \in Files
    BY <1>8
  <2>2. tree' = [tree EXCEPT ![file[p]] = contents]
    BY <1>8 DEF Overwrite
  <2>3. tree'.lock \in {tree.lock, held[p].lock, Empty, Garbled}
    BY <1>8, <2>1, <2>2 DEF Trees
  <2>4. tree'.generated \in {tree.generated, held[p].generated, Empty, Garbled}
    BY <1>8, <2>1, <2>2 DEF Trees
  <2> QED
    BY <1>8, <2>3, <2>4, AuthenticStep
<1>9. ASSUME NEW p \in Procs, at[p] \in {"truncate", "fill"} 
      PROVE  Loaded(p) /\ file[p] # "none"
  BY <1>9 DEF Loaded, Writing, Control
<1>10. ASSUME NEW p \in Procs, Truncate(p) PROVE AuthenticState'
  <2>1. AuthenticMemory(p)'
    BY <1>0, <1>9, <1>10 DEF Truncate, Goto, AuthenticMemory, Loaded, Writing
  <2>2. OthersKept(p)
    BY <1>10 DEF Truncate, Goto, OthersKept
  <2> QED
    BY <1>8, <1>9, <1>10, <2>1, <2>2 DEF Truncate
<1>11. ASSUME NEW p \in Procs, Fill(p) PROVE AuthenticState'
  <2>1. AuthenticMemory(p)'
    BY <1>0, <1>9, <1>11 DEF Fill, Goto, AuthenticMemory, Loaded, Writing
  <2>2. OthersKept(p)
    BY <1>11 DEF Fill, Goto, OthersKept
  <2>3. PICK contents \in {Garbled, held[p][file[p]]} : Overwrite(p, contents)
    BY <1>11 DEF Fill
  <2> QED
    BY <1>8, <1>9, <1>11, <2>1, <2>2, <2>3 DEF Fill
<1>12. ASSUME NEW p \in Procs, WriteFails(p) PROVE AuthenticState'
  <2>1. CASE UNCHANGED <<tree, disturbed>>
    BY <1>4, <1>12, <2>1 DEF WriteFails
  <2>2. CASE Overwrite(p, Garbled)
    <3>1. End(p, "error") /\ UNCHANGED <<upstream, cmd, candidate>>
      BY <1>12 DEF WriteFails
    <3>2. AuthenticMemory(p)'
      BY <3>1, EndForgets
    <3>3. OthersKept(p)
      BY <3>1 DEF End, Goto, OthersKept
    <3> QED
      BY <1>8, <1>9, <1>12, <2>2, <3>1, <3>2, <3>3 DEF WriteFails
  <2> QED
    BY <1>12, <2>1, <2>2 DEF WriteFails
<1>13. ASSUME NEW p \in Procs, ReadLock(p) PROVE AuthenticState'
  <2>1. CASE tree.lock \in Locks
    <3>1. /\ at'[p] = "read_crs" /\ held'[p].lock = tree.lock
          /\ OthersKept(p) /\ UNCHANGED <<tree, upstream>>
      BY <1>13, <2>1 DEF ReadLock, LockParses, Goto, OthersKept, Trees
    <3>2. AuthenticMemory(p)'
      BY <2>1, <3>1 DEF AuthenticState, AuthenticMemory, Loaded, Writing
    <3>3. tree'.lock = tree.lock /\ tree'.generated = tree.generated
      BY <3>1
    <3> QED
      BY <3>1, <3>2, <3>3, AuthenticStep
  <2>2. CASE tree.lock \notin Locks
    BY <1>4, <1>13, <2>2 DEF ReadLock, LockParses
  <2> QED
    BY <2>1, <2>2
<1>14. ASSUME NEW p \in Procs, ReadCrs(p) PROVE AuthenticState'
  <2> DEFINE lock == held[p].lock
  <2> DEFINE accepted == /\ ComponentAccepted(lock.source, tree.crs)
                         /\ VersionMatches(lock, tree.crs)
  <2>1. CASE accepted
    <3>1. held'[p] = [held[p] EXCEPT !.crs = tree.crs,
                                     !.generated = GeneratedSource(lock.source, tree.crs)]
      BY <1>14, <2>1 DEF ReadCrs
    <3>2. /\ held'[p].lock = lock /\ held'[p].crs = tree.crs
          /\ held'[p].generated = GeneratedSource(lock.source, tree.crs)
      BY <3>1 DEF Trees
    <3>3. AuthenticLock(lock, upstream) /\ lock \in Locks
      BY <1>0, <1>14 DEF ReadCrs, AuthenticMemory, Control
    <3>4. tree.crs = lock.source.crs /\ lock.version = VersionOf[tree.crs]
      BY <2>1 DEF ComponentAccepted, PayloadVerified, VersionMatches
    <3>5. ConsistentTree(held'[p])
      BY <3>2, <3>3, <3>4 DEF ConsistentTree, PairedTree
    <3>6. /\ at'[p] # "read_crs" /\ OthersKept(p) /\ UNCHANGED <<tree, upstream>>
      BY <1>14, <2>1 DEF ReadCrs, Goto, OthersKept
    <3>7. AuthenticMemory(p)'
      BY <3>2, <3>3, <3>5, <3>6 DEF AuthenticMemory
    <3>8. tree'.lock = tree.lock /\ tree'.generated = tree.generated
      BY <3>6
    <3> QED
      BY <3>6, <3>7, <3>8, AuthenticStep
  <2>2. CASE ~accepted
    BY <1>4, <1>14, <2>2 DEF ReadCrs
  <2> QED
    BY <2>1, <2>2
<1>15. ASSUME NEW p \in Procs, CompareGenerated(p) PROVE AuthenticState'
  <2>1. CASE \E outcome : End(p, outcome)
    BY <1>4, <1>15, <2>1 DEF CompareGenerated
  <2>2. CASE ~\E outcome : End(p, outcome)
    BY <1>5, <1>15, <2>2 DEF CompareGenerated, Goto, Loaded, Writing, OthersKept
  <2> QED
    BY <2>1, <2>2
<1>16. CASE UNCHANGED vars
  BY <1>16 DEF vars, AuthenticState, Loaded
<1> QED
  <2>1. ASSUME NEW p \in Procs,
               \/ DownloadFails(p) \/ Kill(p) \/ Finish(p) \/ CompareLatest(p)
               \/ \E pkg \in Packages, b \in Browsers : DownloadRejected(p, pkg, b)
        PROVE  AuthenticState'
    BY <1>4, <2>1 DEF DownloadFails, Kill, Finish, CompareLatest, DownloadRejected
  <2> QED
    BY <1>1, <1>2, <1>3, <1>6, <1>7, <1>10, <1>11, <1>12, <1>13, <1>14, <1>15, <1>16,
       <2>1
    DEF Next, Step, Download, Fault

THEOREM Provenance == Spec => [](TypeInv /\ AuthenticState)
  BY InitTypeInv, NextTypeInv, InitAuthentic, NextAuthentic, PTL DEF Spec

-----------------------------------------------------------------------------
(* Refinement *)

LEMMA InitRefines == Init => Release!Init
<1> SUFFICES ASSUME Init PROVE Release!Init
  OBVIOUS
<1>1. upstream \in 1 .. LastPackage
  BY ConstantsAssumption DEF Init
<1>2. CASE tree = Nothing
  BY <1>1, <1>2 DEF Release!Init, Nothing, Unusable
<1>3. CASE tree # Nothing
  <2>1. TypeInv /\ AuthenticState
    BY InitTypeInv, InitAuthentic
  <2>2. tree.generated \in Libraries
    <3>1. PICK b \in Browsers : tree = Snapshot(SourceMetadata(1, b), PayloadOf[1])
      BY <1>3 DEF Init
    <3> QED
      BY <1>1, <3>1, SnapshotType, ConstantsAssumption DEF Init, Snapshot, Packages
  <2> QED
    BY <1>1, <2>1, <2>2 DEF Release!Init, AuthenticState
<1> QED
  BY <1>2, <1>3

LEMMA OverwriteRefines ==
  ASSUME TypeInv, AuthenticState, NEW p \in Procs, at[p] \in {"truncate", "fill"},
         upstream' = upstream,
         NEW contents, contents \in {Empty, Garbled, held[p][file[p]]},
         Overwrite(p, contents)
  PROVE  [Release!Next]_(Release!vars)
<1>1. Loaded(p) /\ file[p] \in Files /\ tree \in Trees
  BY DEF TypeInv, TypeOK, Control, Loaded, Writing
<1>2. held[p].generated \in Release!Authentic(upstream)
  BY <1>1, CoherentLibrary DEF AuthenticState
<1>3. tree' = [tree EXCEPT ![file[p]] = contents]
  BY DEF Overwrite
<1>4. CASE file[p] = "generated"
  <2>1. tree'.generated = contents
    BY <1>1, <1>3, <1>4 DEF Trees
  <2>2. CASE contents \in {Empty, Garbled}
    BY <2>1, <2>2 DEF Release!Next, Release!Damage, Unusable
  <2>3. CASE contents = held[p][file[p]]
    BY <1>2, <1>4, <2>1, <2>3 DEF Release!Next, Release!Ship
  <2> QED
    BY <2>2, <2>3
<1>5. CASE file[p] # "generated"
  BY <1>1, <1>3, <1>5 DEF Trees, Release!vars
<1> QED
  BY <1>4, <1>5

LEMMA StepRefines ==
  TypeInv /\ AuthenticState /\ [Next]_vars => [Release!Next]_(Release!vars)
<1> SUFFICES ASSUME TypeInv, AuthenticState, [Next]_vars
             PROVE  [Release!Next]_(Release!vars)
  OBVIOUS
<1>1. CASE UNCHANGED <<upstream, tree>>
  BY <1>1 DEF Release!vars
<1>2. CASE Publish
  BY <1>2 DEF Publish, Release!Next, Release!Offer
<1>3. ASSUME NEW p \in Procs, Truncate(p) PROVE [Release!Next]_(Release!vars)
  BY <1>3, OverwriteRefines DEF Truncate
<1>4. ASSUME NEW p \in Procs, Fill(p) PROVE [Release!Next]_(Release!vars)
  BY <1>4, OverwriteRefines DEF Fill
<1>5. ASSUME NEW p \in Procs, WriteFails(p) PROVE [Release!Next]_(Release!vars)
  <2>1. CASE Overwrite(p, Garbled)
    BY <1>5, <2>1, OverwriteRefines DEF WriteFails
  <2>2. CASE UNCHANGED <<tree, disturbed>>
    BY <1>1, <1>5, <2>2 DEF WriteFails
  <2> QED
    BY <1>5, <2>1, <2>2 DEF WriteFails
<1>6. ASSUME NEW p \in Procs,
             \/ \E c \in Commands : Begin(p, c)
             \/ \E pkg \in Packages, b \in Browsers :
                  DownloadAccepted(p, pkg, b) \/ DownloadRejected(p, pkg, b)
             \/ CompareCheckedIn(p) \/ ReRead(p) \/ Finish(p) \/ ReadLock(p) \/ ReadCrs(p)
             \/ CompareGenerated(p) \/ CompareLatest(p) \/ DownloadFails(p) \/ Kill(p)
      PROVE  UNCHANGED <<upstream, tree>>
  BY <1>6 DEF Begin, DownloadAccepted, DownloadRejected, CompareCheckedIn, ReRead, Finish,
     ReadLock, ReadCrs, CompareGenerated, CompareLatest, DownloadFails, Kill
<1>7. CASE UNCHANGED vars
  BY <1>1, <1>7 DEF vars
<1> QED
  BY <1>1, <1>2, <1>3, <1>4, <1>5, <1>6, <1>7 DEF Next, Step, Download, Fault

(* However many commands run, and wherever they are killed, generated.rs is   *)
(* only ever the library of one offered package with its own provenance and a *)
(* valid payload, or no library at all: the commands implement                *)
(* AuthenticatedRelease (component.rs:14-130, generator.rs:42-157).           *)
THEOREM ShipsAuthentic == Spec => ShipsOnlyAuthentic
<1>1. Spec => Release!Init /\ [][Release!Next]_(Release!vars)
  BY InitRefines, StepRefines, Provenance, PTL DEF Spec
<1> QED
  BY <1>1 DEF ShipsOnlyAuthentic, Release!Spec

-----------------------------------------------------------------------------
(* Consistency of reported success *)

LEMMA ReliableImplies == ConsistencyInv => OkMeansConsistent /\ ChangeDetectionAgrees
  BY DEF ConsistencyInv, Reliable, OkMeansConsistent, ChangeDetectionAgrees

(* A step that leaves the tree alone disturbs nobody. *)
LEMMA QuietStep ==
  ASSUME ConsistencyInv, NEW p \in Procs, OthersKept(p), tree' = tree,
         \A q \in Procs \ {p} : disturbed'[q] = disturbed[q],
         Reliable(p)'
  PROVE  ConsistencyInv'
<1>1. ASSUME NEW q \in Procs, q # p PROVE Reliable(q)'
  <2>1. /\ at'[q] = at[q] /\ file'[q] = file[q] /\ held'[q] = held[q]
        /\ cmd'[q] = cmd[q] /\ candidate'[q] = candidate[q] /\ result'[q] = result[q]
        /\ disturbed'[q] = disturbed[q] /\ tree' = tree
    BY <1>1 DEF OthersKept
  <2>2. Reliable(q)
    BY DEF ConsistencyInv
  <2>3. Alone(q) => Alone(q)'
    BY <2>1 DEF Alone, Agree
  <2> QED
    BY <2>1, <2>2, <2>3 DEF Reliable, Succeeded
<1> QED
  BY <1>1 DEF ConsistencyInv

(* A step that writes ends the privacy of all others. *)
LEMMA WriteStep ==
  ASSUME NEW p \in Procs, NEW contents, Overwrite(p, contents), Reliable(p)'
  PROVE  ConsistencyInv'
<1>1. ASSUME NEW q \in Procs, q # p PROVE Reliable(q)'
  BY <1>1 DEF Overwrite, Reliable, Succeeded
<1> QED
  BY <1>1 DEF ConsistencyInv

(* Any end but a success or a disagreement is reliable. *)
LEMMA EndReliable ==
  ASSUME TypeInv, NEW p \in Procs, NEW outcome, End(p, outcome),
         outcome \notin {"written", "generated", "checked", "current", "disagrees"}
  PROVE  Reliable(p)'
  BY DEF TypeInv, TypeOK, End, Goto, Reliable, Succeeded, Alone, Writing

LEMMA InitConsistency == Init => ConsistencyInv
  BY DEF Init, ConsistencyInv, Reliable, Succeeded, Alone, Writing

(* While it runs, a command has reported nothing. *)
LEMMA RunningReliable ==
  ASSUME NEW p \in Procs, result[p] = "none", ~disturbed[p] => Alone(p)
  PROVE  Reliable(p)
  BY DEF Reliable, Succeeded

(* Rewriting goes from one file to the next and never back. *)
LEMMA DoneNext ==
  ASSUME NEW f \in Files
  PROVE  Done(NextFile(f)) = Done(f) \cup {f} /\ f \notin Done(f) /\ Done(f) \subseteq Files
  BY DEF Done, NextFile

LEMMA NextConsistency ==
  TypeInv /\ AuthenticState /\ ConsistencyInv /\ [Next]_vars => ConsistencyInv'
<1> SUFFICES ASSUME TypeInv, AuthenticState, ConsistencyInv, [Next]_vars PROVE ConsistencyInv'
  OBVIOUS
<1> USE DEF TypeInv, TypeOK
<1>0. ASSUME NEW p \in Procs
      PROVE  /\ ~disturbed[p] => Alone(p)
             /\ at[p] # "idle" => result[p] = "none"
  BY DEF ConsistencyInv, Reliable, Control
<1>1. ASSUME Publish PROVE ConsistencyInv'
  BY <1>1 DEF Publish, ConsistencyInv, Reliable, Succeeded, Alone, Agree
<1>2. ASSUME NEW p \in Procs, NEW c \in Commands, Begin(p, c) PROVE ConsistencyInv'
  <2>1. Reliable(p)'
    BY <1>2 DEF Begin, Goto, Reliable, Succeeded, Alone, Writing
  <2> QED
    BY <1>2, <2>1, QuietStep DEF Begin, Goto, OthersKept
<1>3. ASSUME NEW p \in Procs, NEW pkg \in Packages, NEW b \in Browsers,
             DownloadAccepted(p, pkg, b)
      PROVE  ConsistencyInv'
  <2>1. Reliable(p)'
    <3>1. result'[p] = "none" /\ disturbed' = disturbed /\ tree' = tree /\ cmd' = cmd
      BY <1>0, <1>3 DEF DownloadAccepted
    <3>2. CASE cmd[p] = "update"
      <4>1. at'[p] = "compare"
        BY <1>3, <3>2 DEF DownloadAccepted, Goto
      <4> QED
        BY <3>1, <4>1 DEF Reliable, Succeeded, Alone, Writing
    <3>3. CASE cmd[p] # "update"
      <4>1. at'[p] = "compare_latest" /\ at[p] = "download" /\ cmd[p] = "check-latest"
            /\ held' = held
        BY <1>3, <3>3 DEF DownloadAccepted, Goto, Control
      <4>2. ~disturbed[p] => Agree(p, Files)'
        BY <1>0, <3>1, <4>1 DEF Alone, Agree
      <4> QED
        BY <3>1, <4>1, <4>2 DEF Reliable, Succeeded, Alone, Writing
    <3> QED
      BY <3>2, <3>3
  <2> QED
    BY <1>3, <2>1, QuietStep DEF DownloadAccepted, Goto, OthersKept
<1>4. ASSUME NEW p \in Procs, NEW outcome, End(p, outcome),
             UNCHANGED <<tree, cmd, candidate, disturbed>>, Reliable(p)'
      PROVE  ConsistencyInv'
  BY <1>4, QuietStep DEF End, Goto, OthersKept
<1>5. ASSUME NEW p \in Procs, NEW outcome, End(p, outcome),
             UNCHANGED <<tree, cmd, candidate, disturbed>>,
             outcome \in {"unchanged", "error", "killed"}
      PROVE  ConsistencyInv'
  BY <1>4, <1>5, EndReliable
<1>6. ASSUME NEW p \in Procs, CompareCheckedIn(p) PROVE ConsistencyInv'
  <2>1. CASE PayloadIsCurrent(tree.crs, held[p].crs)
    BY <1>5, <1>6, <2>1 DEF CompareCheckedIn
  <2>2. CASE ~PayloadIsCurrent(tree.crs, held[p].crs)
    <3>1. /\ at'[p] = "rewrite" /\ file'[p] = "crs" /\ result'[p] = "none"
          /\ held' = held /\ tree' = tree /\ tree.crs # held[p].crs
      BY <1>0, <1>6, <2>2 DEF CompareCheckedIn, Goto, PayloadIsCurrent
    <3>2. Alone(p)'
      BY <3>1 DEF Alone, Agree, Done
    <3>3. Reliable(p)'
      BY <3>1, <3>2 DEF Reliable, Succeeded
    <3> QED
      BY <1>6, <2>2, <3>3, QuietStep DEF CompareCheckedIn, Goto, OthersKept
  <2> QED
    BY <2>1, <2>2
<1>7. ASSUME NEW p \in Procs, ReRead(p) PROVE ConsistencyInv'
  <2> DEFINE f == file[p]
  <2>1. /\ at[p] = "rewrite" /\ f \in Files /\ UNCHANGED <<tree, cmd, candidate, disturbed>>
        /\ result[p] = "none"
    BY <1>0, <1>7 DEF ReRead
  <2>2. CASE tree[f] # held[p][f]
    <3>1. at'[p] = "truncate" /\ UNCHANGED <<file, held, result>>
      BY <1>7, <2>2 DEF ReRead, Goto
    <3>2. ~disturbed[p] => Alone(p)'
      BY <1>0, <2>1, <3>1 DEF Alone, Agree, Writing
    <3>3. Reliable(p)'
      BY <2>1, <3>1, <3>2 DEF Reliable, Succeeded
    <3> QED
      BY <1>7, <2>2, <3>3, QuietStep DEF ReRead, Goto, OthersKept
  <2>3. CASE tree[f] = held[p][f] /\ f = "crs"
    <3>1. End(p, "disagrees")
      BY <1>7, <2>3 DEF ReRead
    <3>2. disturbed[p]
      BY <1>0, <2>1, <2>3 DEF Alone
    <3>3. Reliable(p)'
      BY <2>1, <3>1, <3>2 DEF Reliable, End
    <3> QED
      BY <1>4, <2>1, <3>1, <3>3
  <2>4. CASE tree[f] = held[p][f] /\ f # "crs"
    <3>1. file'[p] = NextFile(f) /\ UNCHANGED <<at, held, result>>
      BY <1>7, <2>4 DEF ReRead
    <3>2. ~disturbed[p] => Agree(p, Done(NextFile(f)))
      BY <1>0, <2>1, <2>4, DoneNext DEF Alone, Agree, Writing
    <3>3. ~disturbed[p] => Alone(p)'
      BY <2>1, <2>4, <3>1, <3>2 DEF Alone, Agree, Writing, NextFile
    <3>4. Reliable(p)'
      BY <2>1, <3>1, <3>3 DEF Reliable, Succeeded
    <3> QED
      BY <1>7, <2>4, <3>4, QuietStep DEF ReRead, Goto, OthersKept
  <2> QED
    BY <2>2, <2>3, <2>4
<1>8. ASSUME NEW p \in Procs, NEW contents, Overwrite(p, contents), file[p] \in Files
      PROVE  /\ tree'[file[p]] = contents
             /\ \A g \in Files \ {file[p]} : tree'[g] = tree[g]
             /\ disturbed'[p] = disturbed[p]
  BY <1>8 DEF Overwrite, Trees
<1>9. ASSUME NEW p \in Procs, Truncate(p) PROVE ConsistencyInv'
  <2>1. /\ at[p] = "truncate" /\ at'[p] = "fill" /\ Overwrite(p, Empty)
        /\ UNCHANGED <<cmd, file, held, candidate, result>>
    BY <1>9 DEF Truncate, Goto
  <2>2. file[p] \in Files /\ result[p] = "none"
    BY <1>0, <2>1 DEF Control
  <2>3. ~disturbed[p] => Agree(p, Done(file[p]))
    BY <1>0, <2>1 DEF Alone, Writing
  <2>4. /\ tree'[file[p]] = Empty
        /\ \A g \in Done(file[p]) : tree'[g] = tree[g]
        /\ disturbed'[p] = disturbed[p]
    BY <1>8, <2>1, <2>2, DoneNext
  <2>5. ~disturbed[p] => Alone(p)'
    BY <2>1, <2>3, <2>4 DEF Alone, Agree
  <2> QED
    BY <2>1, <2>2, <2>4, <2>5, RunningReliable, WriteStep DEF Reliable, Succeeded
<1>10. ASSUME NEW p \in Procs, Fill(p) PROVE ConsistencyInv'
  <2> DEFINE f == file[p]
  <2> DEFINE mine == held[p][f]
  <2>1. /\ at[p] = "fill" /\ at'[p] = "rewrite" /\ file'[p] = NextFile(f)
        /\ UNCHANGED <<cmd, held, candidate, result>>
    BY <1>10 DEF Fill, Goto
  <2>2. f \in Files /\ result[p] = "none"
    BY <1>0, <2>1 DEF Control
  <2>3. PICK contents : /\ Overwrite(p, contents)
                        /\ tree[f] = Empty => contents = mine
    BY <1>10 DEF Fill
  <2>4. /\ tree'[f] = contents
        /\ \A g \in Done(f) : tree'[g] = tree[g]
        /\ disturbed'[p] = disturbed[p]
    BY <1>8, <2>2, <2>3, DoneNext
  <2>5. ~disturbed[p] => contents = mine /\ Agree(p, Done(f))
    BY <1>0, <2>1, <2>3 DEF Alone, Writing
  <2>6. ~disturbed[p] => \A g \in Done(NextFile(f)) : tree'[g] = held[p][g]
    BY <2>2, <2>4, <2>5, DoneNext DEF Agree
  <2>7. ~disturbed[p] => Alone(p)'
    BY <2>1, <2>6 DEF Alone, Agree, NextFile
  <2>8. Reliable(p)'
    BY <2>1, <2>2, <2>4, <2>7 DEF Reliable, Succeeded
  <2> QED
    BY <2>3, <2>8, WriteStep
<1>11. ASSUME NEW p \in Procs, WriteFails(p) PROVE ConsistencyInv'
  <2>1. CASE UNCHANGED <<tree, disturbed>>
    BY <1>5, <1>11, <2>1 DEF WriteFails
  <2>2. CASE Overwrite(p, Garbled)
    BY <1>11, <2>2, EndReliable, WriteStep DEF WriteFails
  <2> QED
    BY <1>11, <2>1, <2>2 DEF WriteFails
<1>12. ASSUME NEW p \in Procs, Loaded(p), Agree(p, Files) PROVE ConsistentTree(tree)
  <2>1. ConsistentTree(held[p])
    BY <1>12 DEF AuthenticState
  <2>2. /\ tree.crs = held[p].crs /\ tree.lock = held[p].lock
        /\ tree.generated = held[p].generated
    BY <1>12 DEF Agree
  <2> QED
    BY <2>1, <2>2 DEF ConsistentTree, PairedTree
<1>13. ASSUME NEW p \in Procs, NEW outcome, End(p, outcome),
              UNCHANGED <<tree, cmd, candidate, disturbed>>,
              outcome \in {"written", "generated", "checked", "current"},
              ~disturbed[p] => ConsistentTree(tree),
              outcome = "current" => tree.crs = candidate[p]
       PROVE  ConsistencyInv'
  <2>1. at'[p] = "idle" /\ result'[p] = outcome
    BY <1>13 DEF End, Goto
  <2>2. ConsistentTree(tree)' <=> ConsistentTree(tree)
    BY <1>13 DEF ConsistentTree, PairedTree
  <2>3. Reliable(p)'
    BY <1>13, <2>1, <2>2 DEF Reliable, Alone, Writing
  <2> QED
    BY <1>4, <1>13, <2>3
<1>14. ASSUME NEW p \in Procs, Finish(p) PROVE ConsistencyInv'
  <2>1. ~disturbed[p] => Agree(p, Files)
    BY <1>0, <1>14 DEF Finish, Alone, Writing, Done
  <2>2. ~disturbed[p] => ConsistentTree(tree)
    BY <1>12, <1>14, <2>1 DEF Finish, Loaded, Writing
  <2> QED
    BY <1>13, <1>14, <2>2 DEF Finish
<1>15. ASSUME NEW p \in Procs, ReadLock(p) PROVE ConsistencyInv'
  <2>1. CASE tree.lock \in Locks
    <3>1. /\ at'[p] = "read_crs" /\ held'[p].lock = tree.lock /\ result'[p] = "none"
          /\ tree' = tree
      BY <1>0, <1>15, <2>1 DEF ReadLock, LockParses, Goto, Trees
    <3>2. Reliable(p)'
      BY <3>1 DEF Reliable, Succeeded, Alone, Agree, Writing
    <3> QED
      BY <1>15, <2>1, <3>2, QuietStep DEF ReadLock, LockParses, Goto, OthersKept
  <2>2. CASE tree.lock \notin Locks
    BY <1>5, <1>15, <2>2 DEF ReadLock, LockParses
  <2> QED
    BY <2>1, <2>2
<1>16. ASSUME NEW p \in Procs, ReadCrs(p) PROVE ConsistencyInv'
  <2> DEFINE lock == held[p].lock
  <2> DEFINE accepted == /\ ComponentAccepted(lock.source, tree.crs)
                         /\ VersionMatches(lock, tree.crs)
  <2>1. CASE accepted
    <3>1. held'[p] = [held[p] EXCEPT !.crs = tree.crs,
                                     !.generated = GeneratedSource(lock.source, tree.crs)]
      BY <1>16, <2>1 DEF ReadCrs
    <3>2. held'[p].lock = lock /\ held'[p].crs = tree.crs
      BY <3>1 DEF Trees
    <3>3. /\ at[p] = "read_crs" /\ tree' = tree /\ disturbed' = disturbed /\ result' = result
          /\ result[p] = "none"
          /\ \/ at'[p] = "rewrite" /\ file'[p] = "generated"
             \/ at'[p] = "compare_generated"
      BY <1>0, <1>16, <2>1 DEF ReadCrs, Goto
    <3>4. ~disturbed[p] => tree.lock = lock
      BY <1>0, <3>3 DEF Alone, Agree
    <3>5. ~disturbed[p] => Agree(p, {"crs", "lock"})'
      BY <3>2, <3>3, <3>4 DEF Agree
    <3>6. ~disturbed[p] => Alone(p)'
      BY <3>3, <3>5 DEF Alone, Done, Writing
    <3>7. Reliable(p)'
      BY <3>3, <3>6 DEF Reliable, Succeeded
    <3> QED
      BY <1>16, <2>1, <3>7, QuietStep DEF ReadCrs, Goto, OthersKept
  <2>2. CASE ~accepted
    BY <1>5, <1>16, <2>2 DEF ReadCrs
  <2> QED
    BY <2>1, <2>2
<1>17. ASSUME NEW p \in Procs, CompareGenerated(p) PROVE ConsistencyInv'
  <2>1. /\ at[p] = "compare_generated" /\ UNCHANGED <<tree, cmd, candidate, disturbed>>
        /\ Loaded(p)
    BY <1>17 DEF CompareGenerated, Loaded, Writing
  <2>2. CASE End(p, "error")
    BY <1>5, <2>1, <2>2
  <2>3. CASE GeneratedSourceCurrent(tree.generated, held[p].generated)
    <3>1. ~disturbed[p] => Agree(p, Files)
      BY <1>0, <2>1, <2>3 DEF Alone, Agree, GeneratedSourceCurrent
    <3>2. CASE End(p, "checked")
      BY <1>12, <1>13, <2>1, <3>1, <3>2
    <3>3. CASE Goto(p, "download") /\ UNCHANGED <<file, held, result>>
      <4>1. at'[p] = "download" /\ result'[p] = "none"
        BY <1>0, <2>1, <3>3 DEF Goto
      <4>2. ~disturbed[p] => Alone(p)'
        BY <2>1, <3>1, <3>3, <4>1 DEF Alone, Agree, Writing
      <4>3. Reliable(p)'
        BY <2>1, <4>1, <4>2 DEF Reliable, Succeeded
      <4> QED
        BY <2>1, <3>3, <4>3, QuietStep DEF Goto, OthersKept
    <3> QED
      BY <1>17, <2>3, <3>2, <3>3 DEF CompareGenerated
  <2> QED
    BY <1>17, <2>2, <2>3 DEF CompareGenerated
<1>18. ASSUME NEW p \in Procs, CompareLatest(p) PROVE ConsistencyInv'
  <2>1. /\ at[p] = "compare_latest" /\ cmd[p] = "check-latest"
        /\ UNCHANGED <<tree, cmd, candidate, disturbed>> /\ Loaded(p)
    BY <1>18 DEF CompareLatest, Control, Loaded
  <2>2. CASE End(p, "error")
    BY <1>5, <2>1, <2>2
  <2>3. CASE End(p, "current") /\ tree.crs = candidate[p]
    <3>1. ~disturbed[p] => Agree(p, Files)
      BY <1>0, <2>1 DEF Alone
    <3> QED
      BY <1>12, <1>13, <2>1, <2>3, <3>1
  <2> QED
    BY <1>18, <2>2, <2>3 DEF CompareLatest
<1>19. CASE UNCHANGED vars
  BY <1>19 DEF vars, ConsistencyInv, Reliable, Succeeded, Alone, Agree
<1> QED
  <2>1. ASSUME NEW p \in Procs,
               \/ DownloadFails(p) \/ Kill(p)
               \/ \E pkg \in Packages, b \in Browsers : DownloadRejected(p, pkg, b)
        PROVE  ConsistencyInv'
    BY <1>5, <2>1 DEF DownloadFails, Kill, DownloadRejected
  <2> QED
    BY <1>1, <1>2, <1>3, <1>6, <1>7, <1>9, <1>10, <1>11, <1>14, <1>15, <1>16, <1>17,
       <1>18, <1>19, <2>1
    DEF Next, Step, Download, Fault

LEMMA ConsistencyHolds == Spec => []ConsistencyInv
  BY InitConsistency, NextConsistency, Provenance, PTL DEF Spec

(* Every success an undisturbed command reports leaves the three files        *)
(* consistent, and check-latest then also saw the downloaded payload, for any *)
(* number of commands, kills and failed writes (component.rs:14-89,           *)
(* generator.rs:42-157).                                                      *)
THEOREM SuccessIsConsistent == Spec => []OkMeansConsistent
<1>1. ConsistencyInv => OkMeansConsistent
  BY ReliableImplies
<1> QED
  BY <1>1, ConsistencyHolds, PTL

(* Only the writes of another command can make update report that its change  *)
(* detection disagrees (component.rs:31-34).                                  *)
THEOREM DisagreementNeedsInterference == Spec => []ChangeDetectionAgrees
<1>1. ConsistencyInv => ChangeDetectionAgrees
  BY ReliableImplies
<1> QED
  BY <1>1, ConsistencyHolds, PTL
=============================================================================
