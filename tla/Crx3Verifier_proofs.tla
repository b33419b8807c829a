------------------------- MODULE Crx3Verifier_proofs -------------------------
(*****************************************************************************)
(* Proofs about Crx3Verifier, for any number of proofs and entries and any   *)
(* limits: authentication comes before the archive is opened, what is        *)
(* extracted is whole, and the packages accepted are exactly the sound ones. *)
(*****************************************************************************)
EXTENDS Crx3Verifier, WellFoundedInduction, TLAPS

Unzipping == phase \in {"entries", "manifest", "payload", "version", "verified"}

HeaderInv ==
  /\ phase \in {"prefix", "header"} => next = 1 /\ ~found
  /\ phase \in {"rsa", "ecdsa"} \/ Unzipping => HeaderValid(pkg)

(* The proofs before next have been verified, and found was set by one of     *)
(* them.                                                                      *)
RsaInv ==
  phase = "rsa" =>
    /\ \A k \in 1 .. next - 1 : ProofVerifies(pkg, pkg.header.rsa[k], RsaKeys)
    /\ next <= Len(pkg.header.rsa) + 1
    /\ found => \E k \in 1 .. next - 1 : pkg.header.rsa[k].public_key = PinnedKey

EcdsaInv ==
  phase = "ecdsa" =>
    /\ \A k \in 1 .. Len(pkg.header.rsa) : ProofVerifies(pkg, pkg.header.rsa[k], RsaKeys)
    /\ \A k \in 1 .. next - 1 : ProofVerifies(pkg, pkg.header.ecdsa[k], EcdsaKeys)
    /\ next <= Len(pkg.header.ecdsa) + 1
    /\ found => \/ \E k \in 1 .. Len(pkg.header.rsa) : pkg.header.rsa[k].public_key = PinnedKey
                \/ \E k \in 1 .. next - 1 : pkg.header.ecdsa[k].public_key = PinnedKey

ZipInv == Unzipping => pkg.archive # Garbled

ManifestRead ==
  \E j \in DOMAIN pkg.archive :
    pkg.archive[j].name = "manifest.json" /\ manifest = pkg.archive[j].actual
PayloadRead ==
  \E k \in DOMAIN pkg.archive : pkg.archive[k].name = "crs.pb" /\ crs = pkg.archive[k].actual

ReadInv ==
  /\ phase \in {"payload", "version", "verified"} => ManifestRead
  /\ phase \in {"version", "verified"} => PayloadRead

IInv ==
  /\ TypeOK /\ HeaderInv /\ RsaInv /\ EcdsaInv
  /\ AuthenticatedBeforeUnzip /\ ZipInv /\ ReadInv

-----------------------------------------------------------------------------
LEMMA Lists ==
  ASSUME pkg \in Packages
  PROVE  /\ pkg.header # Garbled =>
              /\ Len(pkg.header.rsa) \in Nat /\ DOMAIN pkg.header.rsa = 1 .. Len(pkg.header.rsa)
              /\ Len(pkg.header.ecdsa) \in Nat
              /\ DOMAIN pkg.header.ecdsa = 1 .. Len(pkg.header.ecdsa)
         /\ pkg.archive # Garbled =>
              /\ Len(pkg.archive) \in Nat /\ DOMAIN pkg.archive = 1 .. Len(pkg.archive)
              /\ \A k \in DOMAIN pkg.archive :
                   pkg.archive[k].size \in Nat /\ pkg.archive[k].actual \in Nat
<1>1. ASSUME NEW s, IsList(s) PROVE Len(s) \in Nat /\ DOMAIN s = 1 .. Len(s)
  BY <1>1 DEF IsList
<1> QED
  BY <1>1, Crx3Assumption

(* read_entry delivers the whole entry, within the limit. *)
LEMMA ReadEntry ==
  ASSUME pkg \in Packages, pkg.archive # Garbled, NEW name, NEW limit \in Nat,
         Readable(name, limit)
  PROVE  /\ Taken(Entry(name), limit) \in 0 .. limit
         /\ \E k \in DOMAIN pkg.archive :
              pkg.archive[k].name = name /\ Taken(Entry(name), limit) = pkg.archive[k].actual
<1>1. PICK k \in Named(name) : Entry(name) = pkg.archive[k]
  BY DEF Readable, Entry
<1>2. k \in DOMAIN pkg.archive /\ pkg.archive[k].name = name
  BY <1>1 DEF Named
<1>3. pkg.archive[k].actual \in Nat
  BY <1>2, Lists
<1>4. Taken(Entry(name), limit) <= limit
  BY DEF Readable
<1>5. Taken(Entry(name), limit) = pkg.archive[k].actual
  BY <1>1, <1>3, <1>4 DEF Taken, TakeOneMore
<1>6. Taken(Entry(name), limit) \in 0 .. limit
  BY <1>3, <1>4, <1>5
<1> QED
  BY <1>2, <1>5, <1>6

LEMMA InitInv == Init => IInv
<1> SUFFICES ASSUME Init PROVE IInv
  OBVIOUS
<1>1. TypeOK
  <2>1. /\ pkg \in Packages /\ phase \in Phases /\ next \in Nat \ {0} /\ names = {}
        /\ total = 0 /\ manifest = 0 /\ crs = 0
    BY DEF Init, Phases
  <2>2. found \in BOOLEAN
    BY DEF Init
  <2>3. total \in 0 .. MaxArchiveBytes /\ manifest \in 0 .. MaxManifestBytes
        /\ crs \in 0 .. MaxCrsBytes
    BY <2>1, Crx3Assumption
  <2> QED
    BY <2>1, <2>2, <2>3 DEF TypeOK
<1>2. phase = "prefix" /\ next = 1 /\ ~found
  BY DEF Init
<1> QED
  BY <1>1, <1>2
  DEF IInv, HeaderInv, RsaInv, EcdsaInv, AuthenticatedBeforeUnzip, ZipInv, ReadInv, Unzipping

LEMMA RejectInv == IInv /\ Reject => IInv'
<1> SUFFICES ASSUME IInv, Reject PROVE IInv'
  OBVIOUS
<1> QED
  BY DEF Reject, Goto, IInv, TypeOK, Phases, HeaderInv, RsaInv, EcdsaInv, AuthenticatedBeforeUnzip,
         ZipInv, ReadInv, Unzipping

LEMMA HeaderSteps == IInv /\ (CheckPrefix \/ CheckHeader) => IInv'
<1> SUFFICES ASSUME IInv, CheckPrefix \/ CheckHeader, ~Reject PROVE IInv'
  BY RejectInv
<1>1. \/ phase = "prefix" /\ phase' = "header"
      \/ phase = "header" /\ phase' = "rsa" /\ HeaderValid(pkg)
  BY DEF CheckPrefix, CheckHeader, Goto
<1>2. UNCHANGED <<pkg, next, found, names, total, manifest, crs>>
  BY DEF CheckPrefix, CheckHeader, Goto
<1>3. TypeOK'
  BY <1>1, <1>2 DEF IInv, TypeOK, Phases
<1>4. HeaderInv' /\ next = 1 /\ ~found
  BY <1>1, <1>2 DEF IInv, HeaderInv, HeaderValid, Unzipping
<1>5. RsaInv'
  <2>1. phase' = "rsa" => Len(pkg.header.rsa) \in Nat
    BY <1>1, Lists DEF HeaderValid, IInv, TypeOK
  <2> QED
    BY <1>2, <1>4, <2>1 DEF RsaInv
<1> QED
  BY <1>1, <1>2, <1>3, <1>4, <1>5
  DEF IInv, EcdsaInv, AuthenticatedBeforeUnzip, ZipInv, ReadInv, Unzipping

LEMMA VerifyRsaInv == IInv /\ VerifyRsa => IInv'
<1> SUFFICES ASSUME IInv, VerifyRsa, ~Reject PROVE IInv'
  BY RejectInv
<1> DEFINE proof == pkg.header.rsa[next]
<1>1. /\ phase = "rsa" /\ phase' = "rsa" /\ next <= Len(pkg.header.rsa) /\ next' = next + 1
      /\ ProofVerifies(pkg, proof, RsaKeys)
      /\ found' = FoundKey(found, proof)
      /\ UNCHANGED <<pkg, names, total, manifest, crs>>
  BY DEF VerifyRsa, VerifyProof
<1>2. Len(pkg.header.rsa) \in Nat /\ next \in 1 .. Len(pkg.header.rsa)
  BY <1>1, Lists DEF IInv, TypeOK, HeaderInv, HeaderValid
<1>3. \A k \in 1 .. next : ProofVerifies(pkg, pkg.header.rsa[k], RsaKeys)
  BY <1>1, <1>2 DEF IInv, RsaInv
<1>4. found' => \E k \in 1 .. next : pkg.header.rsa[k].public_key = PinnedKey
  <2>1. CASE found
    <3>1. \E k \in 1 .. next - 1 : pkg.header.rsa[k].public_key = PinnedKey
      BY <1>1, <2>1 DEF IInv, RsaInv
    <3> QED
      BY <1>2, <3>1
  <2>2. CASE ~found
    <3>1. found' => proof.public_key = PinnedKey
      BY <1>1, <2>2 DEF FoundKey, Digest
    <3>2. next \in 1 .. next
      BY <1>2
    <3> QED
      BY <3>1, <3>2
  <2> QED
    BY <2>1, <2>2
<1>5. RsaInv'
  <2>1. next' - 1 = next /\ next' <= Len(pkg.header.rsa) + 1
    BY <1>1, <1>2
  <2>2. \A k \in 1 .. next : ProofVerifies(pkg, pkg.header.rsa[k], RsaKeys)'
    BY <1>1, <1>3 DEF ProofVerifies, Signed
  <2> QED
    BY <1>1, <1>4, <2>1, <2>2 DEF RsaInv
<1>6. TypeOK'
  BY <1>1, <1>2 DEF IInv, TypeOK, FoundKey, Phases
<1>7. HeaderInv'
  BY <1>1 DEF IInv, HeaderInv, HeaderValid, Unzipping
<1> QED
  BY <1>1, <1>5, <1>6, <1>7
  DEF IInv, EcdsaInv, AuthenticatedBeforeUnzip, ZipInv, ReadInv, Unzipping

LEMMA RsaDoneInv == IInv /\ RsaDone => IInv'
<1> SUFFICES ASSUME IInv, RsaDone PROVE IInv'
  OBVIOUS
<1>1. /\ phase = "rsa" /\ phase' = "ecdsa" /\ next > Len(pkg.header.rsa) /\ next' = 1
      /\ UNCHANGED <<pkg, found, names, total, manifest, crs>>
  BY DEF RsaDone, Goto
<1>2. Len(pkg.header.rsa) \in Nat /\ next = Len(pkg.header.rsa) + 1 /\ Len(pkg.header.ecdsa) \in Nat
  BY <1>1, Lists DEF IInv, TypeOK, HeaderInv, HeaderValid, RsaInv
<1>3. /\ \A k \in 1 .. Len(pkg.header.rsa) : ProofVerifies(pkg, pkg.header.rsa[k], RsaKeys)
      /\ found => \E k \in 1 .. Len(pkg.header.rsa) : pkg.header.rsa[k].public_key = PinnedKey
  BY <1>1, <1>2 DEF IInv, RsaInv
<1>4. EcdsaInv'
  BY <1>1, <1>2, <1>3 DEF EcdsaInv, ProofVerifies, Signed
<1>5. TypeOK'
  BY <1>1 DEF IInv, TypeOK, Phases
<1>6. HeaderInv'
  BY <1>1 DEF IInv, HeaderInv, HeaderValid, Unzipping
<1> QED
  BY <1>1, <1>4, <1>5, <1>6
  DEF IInv, RsaInv, AuthenticatedBeforeUnzip, ZipInv, ReadInv, Unzipping

LEMMA VerifyEcdsaInv == IInv /\ VerifyEcdsa => IInv'
<1> SUFFICES ASSUME IInv, VerifyEcdsa, ~Reject PROVE IInv'
  BY RejectInv
<1> DEFINE proof == pkg.header.ecdsa[next]
<1>1. /\ phase = "ecdsa" /\ phase' = "ecdsa" /\ next <= Len(pkg.header.ecdsa) /\ next' = next + 1
      /\ ProofVerifies(pkg, proof, EcdsaKeys)
      /\ found' = FoundKey(found, proof)
      /\ UNCHANGED <<pkg, names, total, manifest, crs>>
  BY DEF VerifyEcdsa, VerifyProof
<1>2. Len(pkg.header.ecdsa) \in Nat /\ next \in 1 .. Len(pkg.header.ecdsa)
  BY <1>1, Lists DEF IInv, TypeOK, HeaderInv, HeaderValid
<1>3. \A k \in 1 .. next : ProofVerifies(pkg, pkg.header.ecdsa[k], EcdsaKeys)
  BY <1>1, <1>2 DEF IInv, EcdsaInv
<1>4. found' => \/ \E k \in 1 .. Len(pkg.header.rsa) : pkg.header.rsa[k].public_key = PinnedKey
                \/ \E k \in 1 .. next : pkg.header.ecdsa[k].public_key = PinnedKey
  <2>1. CASE found
    <3>1. \/ \E k \in 1 .. Len(pkg.header.rsa) : pkg.header.rsa[k].public_key = PinnedKey
          \/ \E k \in 1 .. next - 1 : pkg.header.ecdsa[k].public_key = PinnedKey
      BY <1>1, <2>1 DEF IInv, EcdsaInv
    <3> QED
      BY <1>2, <3>1
  <2>2. CASE ~found
    <3>1. found' => proof.public_key = PinnedKey
      BY <1>1, <2>2 DEF FoundKey, Digest
    <3>2. next \in 1 .. next
      BY <1>2
    <3> QED
      BY <3>1, <3>2
  <2> QED
    BY <2>1, <2>2
<1>5. EcdsaInv'
  <2>1. next' - 1 = next /\ next' <= Len(pkg.header.ecdsa) + 1
    BY <1>1, <1>2
  <2>2. \A k \in 1 .. next : ProofVerifies(pkg, pkg.header.ecdsa[k], EcdsaKeys)'
    BY <1>1, <1>3 DEF ProofVerifies, Signed
  <2>3. \A k \in 1 .. Len(pkg.header.rsa) : ProofVerifies(pkg, pkg.header.rsa[k], RsaKeys)'
    BY <1>1 DEF ProofVerifies, Signed, IInv, EcdsaInv
  <2> QED
    BY <1>1, <1>4, <2>1, <2>2, <2>3 DEF EcdsaInv
<1>6. TypeOK'
  BY <1>1, <1>2 DEF IInv, TypeOK, FoundKey, Phases
<1>7. HeaderInv'
  BY <1>1 DEF IInv, HeaderInv, HeaderValid, Unzipping
<1> QED
  BY <1>1, <1>5, <1>6, <1>7
  DEF IInv, RsaInv, AuthenticatedBeforeUnzip, ZipInv, ReadInv, Unzipping

LEMMA ProofsDoneInv == IInv /\ ProofsDone => IInv'
<1> SUFFICES ASSUME IInv, ProofsDone, ~Reject PROVE IInv'
  BY RejectInv
<1>1. /\ phase = "ecdsa" /\ phase' = "entries" /\ next > Len(pkg.header.ecdsa) /\ next' = 1
      /\ found /\ pkg.archive # Garbled
      /\ UNCHANGED <<pkg, found, names, total, manifest, crs>>
  BY DEF ProofsDone, Goto
<1>2. /\ HeaderValid(pkg) /\ pkg.header # Garbled
      /\ Len(pkg.header.ecdsa) \in Nat /\ next = Len(pkg.header.ecdsa) + 1
      /\ DOMAIN pkg.header.rsa = 1 .. Len(pkg.header.rsa)
      /\ DOMAIN pkg.header.ecdsa = 1 .. Len(pkg.header.ecdsa)
  BY <1>1, Lists DEF IInv, TypeOK, HeaderInv, HeaderValid, EcdsaInv
<1>3. /\ \A k \in DOMAIN pkg.header.rsa : ProofVerifies(pkg, pkg.header.rsa[k], RsaKeys)
      /\ \A k \in DOMAIN pkg.header.ecdsa : ProofVerifies(pkg, pkg.header.ecdsa[k], EcdsaKeys)
      /\ \/ \E k \in DOMAIN pkg.header.rsa : pkg.header.rsa[k].public_key = PinnedKey
         \/ \E k \in DOMAIN pkg.header.ecdsa : pkg.header.ecdsa[k].public_key = PinnedKey
  BY <1>1, <1>2 DEF IInv, EcdsaInv
<1>4. ASSUME NEW pair \in Proofs(pkg) PROVE ProofVerifies(pkg, pair[1], pair[2])
  BY <1>3 DEF Proofs
<1>5. \E pair \in Proofs(pkg) : pair[1].public_key = PinnedKey
  <2>1. ASSUME NEW k \in DOMAIN pkg.header.rsa, pkg.header.rsa[k].public_key = PinnedKey
        PROVE  \E pair \in Proofs(pkg) : pair[1].public_key = PinnedKey
    <3>1. <<pkg.header.rsa[k], RsaKeys>> \in Proofs(pkg)
      BY DEF Proofs
    <3> QED
      BY <2>1, <3>1
  <2>2. ASSUME NEW k \in DOMAIN pkg.header.ecdsa, pkg.header.ecdsa[k].public_key = PinnedKey
        PROVE  \E pair \in Proofs(pkg) : pair[1].public_key = PinnedKey
    <3>1. <<pkg.header.ecdsa[k], EcdsaKeys>> \in Proofs(pkg)
      BY DEF Proofs
    <3> QED
      BY <2>2, <3>1
  <2> QED
    BY <1>3, <2>1, <2>2
<1>6. Authenticated(pkg)
  <2>1. ASSUME NEW pair \in Proofs(pkg)
        PROVE /\ pair[1].public_key \in pair[2] /\ pair[1].signature # None
              /\ pair[1].signature.by = pair[1].public_key
              /\ pair[1].signature.covers.signedData = pkg.header.signedData
              /\ pair[1].signature.covers.archive = pkg.archive
    BY <1>4 DEF ProofVerifies, Signed
  <2> QED
    BY <1>2, <1>5, <2>1 DEF Authenticated, HeaderValid
<1>7. AuthenticatedBeforeUnzip'
  BY <1>1, <1>6 DEF AuthenticatedBeforeUnzip, Authenticated, Proofs
<1>8. TypeOK'
  BY <1>1 DEF IInv, TypeOK, Phases
<1>9. HeaderInv'
  BY <1>1, <1>2 DEF HeaderInv, HeaderValid, Unzipping
<1> QED
  BY <1>1, <1>7, <1>8, <1>9 DEF IInv, RsaInv, EcdsaInv, ZipInv, ReadInv, Unzipping

(* Once the archive is open, a step keeps the package and everything known of *)
(* its header.                                                                *)
LEMMA UnzipFrame ==
  ASSUME IInv, Unzipping, Unzipping', pkg' = pkg, next' \in Nat \ {0}, found' \in BOOLEAN,
         total' \in 0 .. MaxArchiveBytes, manifest' \in 0 .. MaxManifestBytes,
         crs' \in 0 .. MaxCrsBytes, ReadInv'
  PROVE  IInv'
<1>1. TypeOK'
  BY DEF IInv, TypeOK, Phases, Unzipping
<1>2. HeaderInv' /\ ZipInv'
  BY DEF IInv, HeaderInv, HeaderValid, ZipInv, Unzipping
<1>3. AuthenticatedBeforeUnzip'
  BY DEF IInv, AuthenticatedBeforeUnzip, Authenticated, Proofs, Unzipping
<1> QED
  BY <1>1, <1>2, <1>3 DEF IInv, RsaInv, EcdsaInv, Unzipping

LEMMA UnzipSteps ==
  IInv /\ (InspectEntry \/ EntriesDone \/ ReadManifest \/ ReadPayload \/ CheckVersion) => IInv'
<1> SUFFICES ASSUME IInv, ~Reject,
                    InspectEntry \/ EntriesDone \/ ReadManifest \/ ReadPayload \/ CheckVersion
             PROVE  IInv'
  BY RejectInv
<1> USE Crx3Assumption DEF Unzipping
<1>1. CASE InspectEntry
  <2>1. /\ phase = "entries" /\ phase' = "entries" /\ next <= Len(pkg.archive)
        /\ EntryValid(pkg.archive[next])
        /\ total' = total + pkg.archive[next].size /\ next' = next + 1
        /\ UNCHANGED <<pkg, found, manifest, crs>>
    BY <1>1 DEF InspectEntry
  <2>2. pkg.archive[next].size \in Nat
    BY <2>1, Lists DEF IInv, TypeOK, ZipInv
  <2>3. total' \in 0 .. MaxArchiveBytes
    BY <2>1, <2>2 DEF EntryValid, IInv, TypeOK
  <2>4. ReadInv'
    BY <2>1 DEF ReadInv
  <2> QED
    BY <2>1, <2>3, <2>4, UnzipFrame DEF IInv, TypeOK
<1>2. CASE EntriesDone
  BY <1>2, UnzipFrame DEF EntriesDone, Goto, IInv, TypeOK, ReadInv
<1>3. CASE ReadManifest
  <2>1. /\ phase = "manifest" /\ phase' = "payload"
        /\ Readable("manifest.json", MaxManifestBytes)
        /\ manifest' = Taken(Entry("manifest.json"), MaxManifestBytes)
        /\ UNCHANGED <<pkg, next, found, names, total, crs>>
    BY <1>3 DEF ReadManifest, Goto
  <2>2. manifest' \in 0 .. MaxManifestBytes /\ ManifestRead'
    BY <2>1, ReadEntry DEF IInv, TypeOK, ZipInv, ManifestRead
  <2> QED
    BY <2>1, <2>2, UnzipFrame DEF IInv, TypeOK, ReadInv
<1>4. CASE ReadPayload
  <2>1. /\ phase = "payload" /\ phase' = "version"
        /\ Readable("crs.pb", MaxCrsBytes)
        /\ crs' = Taken(Entry("crs.pb"), MaxCrsBytes)
        /\ UNCHANGED <<pkg, next, found, names, total, manifest>>
    BY <1>4 DEF ReadPayload, Goto
  <2>2. crs' \in 0 .. MaxCrsBytes /\ PayloadRead'
    BY <2>1, ReadEntry DEF IInv, TypeOK, ZipInv, PayloadRead
  <2>3. ManifestRead'
    BY <2>1 DEF IInv, ReadInv, ManifestRead
  <2> QED
    BY <2>1, <2>2, <2>3, UnzipFrame DEF IInv, TypeOK, ReadInv
<1>5. CASE CheckVersion
  <2>1. /\ phase = "version" /\ phase' = "verified"
        /\ UNCHANGED <<pkg, next, found, names, total, manifest, crs>>
    BY <1>5 DEF CheckVersion, Goto
  <2>2. ReadInv'
    BY <2>1 DEF IInv, ReadInv, ManifestRead, PayloadRead
  <2> QED
    BY <2>1, <2>2, UnzipFrame DEF IInv, TypeOK
<1> QED
  BY <1>1, <1>2, <1>3, <1>4, <1>5

LEMMA NextInv == IInv /\ [Next]_vars => IInv'
<1> SUFFICES ASSUME IInv, [Next]_vars PROVE IInv'
  OBVIOUS
<1>1. CASE UNCHANGED vars
  BY <1>1
  DEF vars, IInv, TypeOK, HeaderInv, HeaderValid, RsaInv, EcdsaInv, ProofVerifies, Signed,
      AuthenticatedBeforeUnzip, Authenticated, Proofs, ZipInv, ReadInv, ManifestRead, PayloadRead,
      Unzipping
<1> QED
  BY <1>1, HeaderSteps, VerifyRsaInv, RsaDoneInv, VerifyEcdsaInv, ProofsDoneInv, UnzipSteps
  DEF Next

LEMMA Invariance == Spec => []IInv
  BY InitInv, NextInv, PTL DEF Spec

-----------------------------------------------------------------------------
(* Type correctness, with the limits as bounds of what is read. *)
THEOREM TypeCorrect == Spec => []TypeOK
<1>1. IInv => TypeOK
  BY DEF IInv
<1> QED
  BY <1>1, Invariance, PTL

(* Whatever proofs a package carries and in whatever order, the archive is    *)
(* opened only after every proof has been verified over it and one of them    *)
(* was made with the pinned key (crx3.rs:150-187).                            *)
THEOREM AuthenticationFirst == Spec => []AuthenticatedBeforeUnzip
<1>1. IInv => AuthenticatedBeforeUnzip
  BY DEF IInv
<1> QED
  BY <1>1, Invariance, PTL

(* A verified package yields all of manifest.json and crs.pb, for any limits  *)
(* and any declared sizes (crx3.rs:300-321).                                  *)
THEOREM NothingCutOff == Spec => []ExtractedWhole
<1>1. IInv => ExtractedWhole
  BY DEF IInv, ReadInv, ManifestRead, PayloadRead, ExtractedWhole
<1> QED
  BY <1>1, Invariance, PTL

-----------------------------------------------------------------------------
(* Recursion over a list *)

LEMMA LeastNumber ==
  ASSUME NEW S \in SUBSET Nat, S # {}
  PROVE  \E m \in S : \A n \in S : m <= n
<1> DEFINE R == OpToRel(<, Nat)
<1>1. IsWellFoundedOn(R, Nat)
  BY NatLessThanWellFounded
<1> HIDE DEF R
<1>2. PICK m \in S : \A n \in S : <<n, m>> \notin R
  BY <1>1, WFMin
<1>3. \A n, k \in Nat : n < k => <<n, k>> \in R
  BY DEF R, OpToRel
<1>4. \A n \in S : ~(n < m)
  BY <1>2, <1>3
<1>5. m \in Nat /\ \A n \in S : n \in Nat
  OBVIOUS
<1>6. \A n \in S : m <= n
  BY <1>4, <1>5
<1> QED
  BY <1>6

(* Induction over the positions 0 .. n, for the set of those that satisfy     *)
(* something.                                                                 *)
LEMMA UpTo ==
  ASSUME NEW n \in Nat, NEW P, 0 \in P, \A k \in 1 .. n : k - 1 \in P => k \in P
  PROVE  \A k \in 0 .. n : k \in P
<1> DEFINE Q == {k \in 0 .. n : k \notin P}
<1>1. SUFFICES ASSUME Q # {} PROVE FALSE
  OBVIOUS
<1>2. PICK m \in Q : \A k \in Q : m <= k
  <2>1. Q \in SUBSET Nat
    OBVIOUS
  <2> HIDE DEF Q
  <2> QED
    BY <1>1, <2>1, LeastNumber
<1>3. m \in 1 .. n /\ m - 1 \in 0 .. n /\ m - 1 \notin Q
  BY <1>2
<1> QED
  BY <1>2, <1>3

(* A function given by its first value and its steps exists.                  *)
LEMMA StepsExist ==
  ASSUME NEW S, NEW c \in S, NEW n \in Nat, NEW step \in [1 .. n -> [S -> S]]
  PROVE  \E f \in [0 .. n -> S] : f[0] = c /\ \A k \in 1 .. n : f[k] = step[k][f[k - 1]]
<1> DEFINE Solves(f, m) == f[0] = c /\ \A k \in 1 .. m : f[k] = step[k][f[k - 1]]
           P == {m \in 0 .. n : \E f \in [0 .. m -> S] : Solves(f, m)}
<1>1. 0 \in P
  <2> DEFINE f == [k \in 0 .. 0 |-> c]
  <2>1. f \in [0 .. 0 -> S] /\ f[0] = c /\ 1 .. 0 = {}
    OBVIOUS
  <2>2. Solves(f, 0)
    BY <2>1
  <2> HIDE DEF f, Solves
  <2> QED
    BY <2>1, <2>2
<1>2. ASSUME NEW m \in 1 .. n, m - 1 \in P
      PROVE  m \in P
  <2>1. PICK f \in [0 .. m - 1 -> S] : Solves(f, m - 1)
    BY <1>2
  <2>2. f[m - 1] \in S
    OBVIOUS
  <2> DEFINE g == [k \in 0 .. m |-> IF k = m THEN step[m][f[m - 1]] ELSE f[k]]
  <2>3. step[m][f[m - 1]] \in S
    BY <2>2
  <2>4. g \in [0 .. m -> S]
    BY <2>3
  <2>5. g[m] = step[m][f[m - 1]] /\ \A k \in 0 .. m - 1 : g[k] = f[k]
    OBVIOUS
  <2> HIDE DEF g
  <2>6. ASSUME NEW k \in 1 .. m
        PROVE  g[k] = step[k][g[k - 1]]
    <3>1. CASE k = m
      <4>1. m - 1 \in 0 .. m - 1
        OBVIOUS
      <4> QED
        BY <2>5, <3>1, <4>1
    <3>2. CASE k # m
      <4>1. k \in 1 .. m - 1 /\ k - 1 \in 0 .. m - 1
        BY <3>2
      <4> QED
        BY <2>1, <2>5, <4>1
    <3> QED
      BY <3>1, <3>2
  <2>7. g[0] = c
    BY <2>1, <2>5
  <2>8. Solves(g, m)
    BY <2>6, <2>7
  <2> HIDE DEF Solves
  <2> QED
    BY <2>4, <2>8
<1>3. \A m \in 0 .. n : m \in P
  BY <1>1, <1>2, UpTo
<1> QED
  BY <1>3

-----------------------------------------------------------------------------
(* The sizes of the entries *)

(* What the loop has added up after k entries. *)
SumsUpTo(f, list) ==
  /\ f \in [0 .. Len(list) -> Nat]
  /\ f[0] = 0
  /\ \A k \in 1 .. Len(list) : f[k] = f[k - 1] + list[k].size

Sums(list) == CHOOSE f : SumsUpTo(f, list)

LEMMA SumsExist ==
  ASSUME pkg \in Packages, pkg.archive # Garbled
  PROVE  SumsUpTo(Sums(pkg.archive), pkg.archive)
<1> DEFINE list == pkg.archive
           n == Len(list)
           step == [k \in 1 .. n |-> [x \in Nat |-> x + list[k].size]]
<1>1. n \in Nat /\ \A k \in 1 .. n : list[k].size \in Nat
  BY Lists
<1> HIDE DEF list, n
<1>2. step \in [1 .. n -> [Nat -> Nat]] /\ 0 \in Nat
  BY <1>1
<1>3. \A k \in 1 .. n : \A x \in Nat : step[k][x] = x + list[k].size
  OBVIOUS
<1>4. PICK f \in [0 .. n -> Nat] : f[0] = 0 /\ \A k \in 1 .. n : f[k] = step[k][f[k - 1]]
  <2> HIDE DEF step
  <2> DEFINE T == Nat
  <2>1. 0 \in T /\ step \in [1 .. n -> [T -> T]]
    BY <1>2
  <2> HIDE DEF T
  <2>2. \E f \in [0 .. n -> T] : f[0] = 0 /\ \A k \in 1 .. n : f[k] = step[k][f[k - 1]]
    BY <1>1, <2>1, StepsExist
  <2> QED
    BY <2>2 DEF T
<1>5. ASSUME NEW k \in 1 .. n
      PROVE  f[k] = f[k - 1] + list[k].size
  <2>1. k - 1 \in 0 .. n
    BY <1>1
  <2>2. f[k - 1] \in Nat
    BY <2>1
  <2> QED
    BY <1>3, <1>4, <2>2
<1>6. SumsUpTo(f, pkg.archive)
  BY <1>4, <1>5 DEF SumsUpTo, list, n
<1> QED
  BY <1>6 DEF Sums

LEMMA SizeIsSum ==
  ASSUME pkg \in Packages, pkg.archive # Garbled
  PROVE  SizeOf(pkg.archive) = Sums(pkg.archive)[Len(pkg.archive)]
<1> DEFINE list == pkg.archive
           n == Len(list)
           Body(h) == [k \in 0 .. n |-> IF k = 0 THEN 0 ELSE h[k - 1] + list[k].size]
           f == Sums(list)
           g == CHOOSE h : h = Body(h)
<1>1. n \in Nat /\ SumsUpTo(f, list)
  BY Lists, SumsExist
<1>2. f \in [0 .. n -> Nat] /\ f[0] = 0 /\ \A k \in 1 .. n : f[k] = f[k - 1] + list[k].size
  BY <1>1 DEF SumsUpTo
<1>3. SizeOf(pkg.archive) = g[n]
  BY DEF SizeOf
<1> HIDE DEF f, n, list
<1>4. f = Body(f)
  <2>1. ASSUME NEW k \in 0 .. n
        PROVE  f[k] = Body(f)[k]
    <3>1. CASE k = 0
      BY <1>2, <3>1
    <3>2. CASE k # 0
      <4>1. k \in 1 .. n
        BY <1>1, <3>2
      <4> QED
        BY <1>2, <3>2, <4>1
    <3> QED
      BY <3>1, <3>2
  <2>2. f = [k \in 0 .. n |-> f[k]]
    BY <1>2
  <2> QED
    BY <2>1, <2>2
<1>5. g = Body(g)
  BY <1>4
<1> HIDE DEF g
<1> DEFINE P == {k \in 0 .. n : g[k] = f[k]}
<1>6. 0 \in P
  <2>1. 0 \in 0 .. n /\ g[0] = Body(g)[0]
    BY <1>1, <1>5
  <2> QED
    BY <1>2, <2>1
<1>7. ASSUME NEW k \in 1 .. n, k - 1 \in P
      PROVE  k \in P
  <2>1. k \in 0 .. n /\ k # 0 /\ g[k - 1] = f[k - 1]
    BY <1>1, <1>7
  <2>2. g[k] = Body(g)[k]
    BY <1>5, <2>1
  <2> QED
    BY <1>2, <2>1, <2>2
<1>8. n \in P
  <2> HIDE DEF P
  <2>1. \A k \in 0 .. n : k \in P
    BY <1>1, <1>6, <1>7, UpTo
  <2> QED
    BY <1>1, <2>1
<1> QED
  BY <1>3, <1>8 DEF f, n, list

(* No partial sum is above the whole. *)
LEMMA SumsGrow ==
  ASSUME pkg \in Packages, pkg.archive # Garbled, NEW k \in 0 .. Len(pkg.archive)
  PROVE  Sums(pkg.archive)[k] <= SizeOf(pkg.archive)
<1> DEFINE n == Len(pkg.archive)
           f == Sums(pkg.archive)
           P == {m \in 0 .. n : f[n - m] <= f[n]}
<1>1. n \in Nat /\ SumsUpTo(f, pkg.archive) /\ \A m \in 1 .. n : pkg.archive[m].size \in Nat
  BY Lists, SumsExist
<1>2. f \in [0 .. n -> Nat] /\ \A m \in 1 .. n : f[m] = f[m - 1] + pkg.archive[m].size
  BY <1>1 DEF SumsUpTo
<1>3. SizeOf(pkg.archive) = f[n]
  BY SizeIsSum
<1> HIDE DEF f
<1>4. 0 \in P
  BY <1>1, <1>2
<1>5. ASSUME NEW m \in 1 .. n, m - 1 \in P
      PROVE  m \in P
  <2>1. f[n - (m - 1)] <= f[n] /\ n - (m - 1) \in 1 .. n /\ n - m \in 0 .. n
    BY <1>1, <1>5
  <2>2. f[n - (m - 1)] = f[n - m] + pkg.archive[n - (m - 1)].size
    <3>1. (n - (m - 1)) - 1 = n - m
      BY <1>1
    <3> QED
      BY <1>2, <2>1, <3>1
  <2>3. f[n - m] \in Nat /\ f[n] \in Nat /\ pkg.archive[n - (m - 1)].size \in Nat
    <3>1. n \in 0 .. n
      BY <1>1
    <3>2. ASSUME NEW a \in 0 .. n PROVE f[a] \in Nat
      BY <1>2
    <3>3. ASSUME NEW a \in 1 .. n PROVE pkg.archive[a].size \in Nat
      BY <1>1
    <3> QED
      BY <2>1, <3>1, <3>2, <3>3
  <2>4. f[n - m] <= f[n]
    <3>1. ASSUME NEW a \in Nat, NEW b \in Nat, NEW c \in Nat, NEW d, d = a + b, d <= c
          PROVE  a <= c
      BY <3>1
    <3> QED
      BY <2>1, <2>2, <2>3, <3>1
  <2> QED
    BY <1>1, <2>1, <2>4
<1>6. n - k \in P
  <2> HIDE DEF P
  <2>1. n - k \in 0 .. n
    BY <1>1
  <2>2. \A m \in 0 .. n : m \in P
    BY <1>1, <1>4, <1>5, UpTo
  <2> QED
    BY <2>1, <2>2
<1>7. n - (n - k) = k
  BY <1>1
<1>8. f[n - (n - k)] <= f[n]
  BY <1>6
<1>9. f[k] <= f[n]
  BY <1>7, <1>8
<1> QED
  BY <1>3, <1>9 DEF f

-----------------------------------------------------------------------------
(* What is read of an archive without duplicate names *)

Distinct(p) == \A j, k \in DOMAIN p.archive : p.archive[j].name = p.archive[k].name => j = k

LEMMA SoleEntry ==
  ASSUME Distinct(pkg), NEW k \in DOMAIN pkg.archive
  PROVE  Named(pkg.archive[k].name) # {} /\ Entry(pkg.archive[k].name) = pkg.archive[k]
<1>1. Named(pkg.archive[k].name) = {k}
  BY DEF Named, Distinct
<1>2. (CHOOSE j \in Named(pkg.archive[k].name) : TRUE) = k
  BY <1>1
<1> QED
  BY <1>1, <1>2 DEF Entry

LEMMA WholeIsReadable ==
  ASSUME pkg \in Packages, pkg.archive # Garbled, Distinct(pkg), NEW name, NEW limit \in Nat,
         NEW k \in Whole(pkg, name, limit)
  PROVE  /\ Readable(name, limit) /\ Entry(name) = pkg.archive[k]
         /\ Taken(Entry(name), limit) = pkg.archive[k].actual
<1>1. /\ k \in DOMAIN pkg.archive
      /\ pkg.archive[k].name = name /\ pkg.archive[k].file /\ pkg.archive[k].intact
      /\ pkg.archive[k].size <= limit /\ pkg.archive[k].actual <= limit
  BY DEF Whole
<1>2. Named(name) # {} /\ Entry(name) = pkg.archive[k]
  BY <1>1, SoleEntry
<1>3. pkg.archive[k].actual \in Nat
  BY <1>1, Lists
<1>4. Taken(Entry(name), limit) = pkg.archive[k].actual
  BY <1>1, <1>2, <1>3 DEF Taken, TakeOneMore
<1> QED
  BY <1>1, <1>2, <1>4 DEF Readable

LEMMA ReadableIsWhole ==
  ASSUME pkg \in Packages, pkg.archive # Garbled, NEW name, NEW limit \in Nat,
         Readable(name, limit)
  PROVE  \E k \in Whole(pkg, name, limit) :
           Entry(name) = pkg.archive[k] /\ Taken(Entry(name), limit) = pkg.archive[k].actual
<1>1. PICK k \in Named(name) : Entry(name) = pkg.archive[k]
  BY DEF Readable, Entry
<1>2. k \in DOMAIN pkg.archive /\ pkg.archive[k].name = name
  BY <1>1 DEF Named
<1>3. pkg.archive[k].actual \in Nat
  BY <1>2, Lists
<1>4. Taken(Entry(name), limit) <= limit
  BY DEF Readable
<1>5. Taken(Entry(name), limit) = pkg.archive[k].actual
  BY <1>1, <1>3, <1>4 DEF Taken, TakeOneMore
<1>6. k \in Whole(pkg, name, limit)
  BY <1>1, <1>2, <1>4, <1>5 DEF Whole, Readable
<1> QED
  BY <1>1, <1>5, <1>6

-----------------------------------------------------------------------------
(* Accepted exactly when sound *)

Sound(p) == PrefixValid(p) /\ Authenticated(p) /\ ArchiveSound(p)

(* While proofs are verified, found is only missing if no proof so far was    *)
(* made with the pinned key.                                                  *)
Unpinned ==
  ~found =>
    /\ phase = "rsa" => \A k \in 1 .. next - 1 : pkg.header.rsa[k].public_key # PinnedKey
    /\ phase = "ecdsa" =>
         /\ \A k \in 1 .. Len(pkg.header.rsa) : pkg.header.rsa[k].public_key # PinnedKey
         /\ \A k \in 1 .. next - 1 : pkg.header.ecdsa[k].public_key # PinnedKey

(* The entries before n are the sound ones the loop has seen. *)
SeenBefore(n) ==
  /\ n \in 1 .. Len(pkg.archive) + 1
  /\ names = {pkg.archive[k].name : k \in 1 .. n - 1}
  /\ total = Sums(pkg.archive)[n - 1]
  /\ \A k \in 1 .. n - 1 : pkg.archive[k].enclosed /\ ~pkg.archive[k].encrypted
  /\ \A j, k \in 1 .. n - 1 : pkg.archive[j].name = pkg.archive[k].name => j = k

Read ==
  /\ phase \in {"payload", "version", "verified"} =>
       /\ Readable("manifest.json", MaxManifestBytes)
       /\ Entry("manifest.json").contents \in {"pki_metadata", "unversioned"}
  /\ phase \in {"version", "verified"} =>
       Readable("crs.pb", MaxCrsBytes) /\ Taken(Entry("crs.pb"), MaxCrsBytes) > 0
  /\ phase = "verified" => Entry("manifest.json").contents = "pki_metadata"

(* Every rejection has its reason, and every phase keeps what the earlier     *)
(* ones have established.                                                     *)
Judged ==
  /\ phase = "rejected" => ~Sound(pkg)
  /\ phase \notin {"prefix", "rejected"} => PrefixValid(pkg)
  /\ Unpinned
  /\ Unzipping => SeenBefore(next)
  /\ phase \in {"manifest", "payload", "version", "verified"} => next = Len(pkg.archive) + 1
  /\ Read

LEMMA AllSeen ==
  ASSUME IInv, Unzipping, SeenBefore(Len(pkg.archive) + 1)
  PROVE  /\ \A k \in DOMAIN pkg.archive : pkg.archive[k].enclosed /\ ~pkg.archive[k].encrypted
         /\ Distinct(pkg) /\ SizeOf(pkg.archive) <= MaxArchiveBytes
<1>1. pkg \in Packages /\ pkg.archive # Garbled /\ total \in 0 .. MaxArchiveBytes
  BY DEF IInv, TypeOK, ZipInv
<1>2. /\ Len(pkg.archive) \in Nat /\ DOMAIN pkg.archive = 1 .. Len(pkg.archive)
      /\ SizeOf(pkg.archive) = Sums(pkg.archive)[Len(pkg.archive)]
  BY <1>1, Lists, SizeIsSum
<1>3. (Len(pkg.archive) + 1) - 1 = Len(pkg.archive)
  BY <1>2
<1>4. /\ total = Sums(pkg.archive)[Len(pkg.archive)]
      /\ \A k \in 1 .. Len(pkg.archive) : pkg.archive[k].enclosed /\ ~pkg.archive[k].encrypted
      /\ \A j, k \in 1 .. Len(pkg.archive) :
           pkg.archive[j].name = pkg.archive[k].name => j = k
  BY <1>3 DEF SeenBefore
<1>5. MaxArchiveBytes \in Nat
  BY Crx3Assumption
<1>6. SizeOf(pkg.archive) <= MaxArchiveBytes
  BY <1>1, <1>2, <1>4, <1>5
<1> QED
  BY <1>2, <1>4, <1>6 DEF Distinct

(* The comparisons of lengths in the code leave exactly the packages made of  *)
(* a prefix, a header and an archive.                                         *)
LEMMA FramedExactly ==
  ASSUME NEW p \in Packages
  PROVE  PrefixValid(p) <=> Framed(p)
<1>1. p.size \in Nat /\ p.headerSize \in Nat /\ MaxHeaderBytes \in Nat
  BY Crx3Assumption
<1>2. ASSUME PrefixValid(p) PROVE Framed(p)
  <2> DEFINE archive == p.size - 12 - p.headerSize
  <2>1. p.headerSize \in 0 .. MaxHeaderBytes /\ archive \in 1 .. p.size
        /\ p.size = 12 + p.headerSize + archive
    BY <1>1, <1>2 DEF PrefixValid, PrefixBytes
  <2> HIDE DEF archive
  <2> QED
    BY <1>2, <2>1 DEF PrefixValid, Framed
<1>3. ASSUME Framed(p) PROVE PrefixValid(p)
  BY <1>1, <1>3 DEF PrefixValid, PrefixBytes, Framed
<1> QED
  BY <1>2, <1>3

LEMMA VerdictFollows == IInv /\ Judged => VerifiedIffSound
<1> SUFFICES ASSUME IInv, Judged, phase = "verified" PROVE Sound(pkg)
  <2>1. ASSUME IInv PROVE PrefixValid(pkg) <=> Framed(pkg)
    BY <2>1, FramedExactly DEF IInv, TypeOK
  <2> QED
    BY <2>1 DEF VerifiedIffSound, Judged, Sound
<1>1. /\ PrefixValid(pkg) /\ Unzipping /\ SeenBefore(Len(pkg.archive) + 1)
      /\ Readable("manifest.json", MaxManifestBytes)
      /\ Entry("manifest.json").contents = "pki_metadata"
      /\ Readable("crs.pb", MaxCrsBytes) /\ Taken(Entry("crs.pb"), MaxCrsBytes) > 0
  BY DEF Judged, Read, Unzipping
<1>2. Authenticated(pkg) /\ pkg \in Packages /\ pkg.archive # Garbled
  BY DEF IInv, AuthenticatedBeforeUnzip, TypeOK, ZipInv, Unzipping
<1>3. /\ \A k \in DOMAIN pkg.archive : pkg.archive[k].enclosed /\ ~pkg.archive[k].encrypted
      /\ Distinct(pkg) /\ SizeOf(pkg.archive) <= MaxArchiveBytes
  BY <1>1, AllSeen
<1>4. \E k \in Whole(pkg, "manifest.json", MaxManifestBytes) :
        pkg.archive[k].contents = "pki_metadata"
  BY <1>1, <1>2, ReadableIsWhole, Crx3Assumption
<1>5. \E k \in Whole(pkg, "crs.pb", MaxCrsBytes) : pkg.archive[k].actual > 0
  <2>1. PICK k \in Whole(pkg, "crs.pb", MaxCrsBytes) :
          Taken(Entry("crs.pb"), MaxCrsBytes) = pkg.archive[k].actual
    BY <1>1, <1>2, ReadableIsWhole, Crx3Assumption
  <2> QED
    BY <1>1, <2>1
<1> QED
  BY <1>1, <1>2, <1>3, <1>4, <1>5 DEF Sound, ArchiveSound, Distinct

LEMMA InitJudged == Init => Judged
<1> SUFFICES ASSUME Init PROVE Judged
  OBVIOUS
<1>1. phase = "prefix"
  BY DEF Init
<1> QED
  BY <1>1 DEF Judged, Unpinned, Read, Unzipping

LEMMA RejectJudged ==
  ASSUME Reject, ~Sound(pkg)
  PROVE  Judged'
<1>1. phase' = "rejected" /\ pkg' = pkg
  BY DEF Reject, Goto
<1>2. ~Sound(pkg)'
  BY <1>1 DEF Sound, PrefixValid, Authenticated, Proofs, ArchiveSound, Whole, SizeOf
<1> QED
  BY <1>1, <1>2 DEF Judged, Unpinned, Read, Unzipping

LEMMA HeaderJudged == IInv /\ Judged /\ (CheckPrefix \/ CheckHeader) => Judged'
<1> SUFFICES ASSUME IInv, Judged, CheckPrefix \/ CheckHeader PROVE Judged'
  OBVIOUS
<1>1. CASE Reject
  <2>1. ~Sound(pkg)
    BY <1>1 DEF CheckPrefix, CheckHeader, Reject, Goto, Sound, Authenticated, HeaderValid
  <2> QED
    BY <1>1, <2>1, RejectJudged
<1>2. CASE ~Reject
  <2>1. /\ \/ phase = "prefix" /\ phase' = "header"
           \/ phase = "header" /\ phase' = "rsa"
        /\ PrefixValid(pkg) /\ pkg' = pkg /\ next' = next
    BY <1>2 DEF CheckPrefix, CheckHeader, Goto, Judged
  <2>2. next = 1
    BY <2>1 DEF IInv, HeaderInv
  <2>3. PrefixValid(pkg)'
    BY <2>1 DEF PrefixValid
  <2>4. Unpinned'
    <3>1. 1 .. next' - 1 = {}
      BY <2>1, <2>2
    <3> QED
      BY <2>1, <3>1 DEF Unpinned
  <2> QED
    BY <2>1, <2>3, <2>4 DEF Judged, Read, Unzipping
<1> QED
  BY <1>1, <1>2

(* A proof that does not verify spoils the authentication. *)
LEMMA BadProof ==
  ASSUME pkg \in Packages, pkg.header # Garbled,
         NEW proof, NEW keys, <<proof, keys>> \in Proofs(pkg), ~ProofVerifies(pkg, proof, keys)
  PROVE  ~Sound(pkg)
<1> SUFFICES ASSUME Authenticated(pkg) PROVE FALSE
  BY DEF Sound
<1>1. /\ proof.public_key \in keys /\ proof.signature # None
      /\ proof.signature.by = proof.public_key
      /\ proof.signature.covers.signedData = pkg.header.signedData
      /\ proof.signature.covers.archive = pkg.archive
  <2> DEFINE pair == <<proof, keys>>
  <2>1. pair \in Proofs(pkg) /\ pair[1] = proof /\ pair[2] = keys
    OBVIOUS
  <2> HIDE DEF pair
  <2> QED
    BY <2>1 DEF Authenticated
<1>2. IsSignature(proof.signature)
  <2>1. \/ \E k \in DOMAIN pkg.header.rsa : proof = pkg.header.rsa[k]
        \/ \E k \in DOMAIN pkg.header.ecdsa : proof = pkg.header.ecdsa[k]
    BY DEF Proofs
  <2> QED
    BY <2>1, Crx3Assumption
<1>3. proof.signature.covers = Signed(pkg)
  BY <1>1, <1>2 DEF IsSignature, Signed
<1> QED
  BY <1>1, <1>3 DEF ProofVerifies

LEMMA ProofsJudged == IInv /\ Judged /\ (VerifyRsa \/ RsaDone \/ VerifyEcdsa) => Judged'
<1> SUFFICES ASSUME IInv, Judged, VerifyRsa \/ RsaDone \/ VerifyEcdsa PROVE Judged'
  OBVIOUS
<1>1. /\ phase \in {"rsa", "ecdsa"} /\ pkg \in Packages /\ pkg.header # Garbled
      /\ next \in Nat \ {0} /\ PrefixValid(pkg)
  BY DEF IInv, TypeOK, HeaderInv, HeaderValid, VerifyRsa, RsaDone, VerifyEcdsa, Judged
<1>2. /\ Len(pkg.header.rsa) \in Nat /\ DOMAIN pkg.header.rsa = 1 .. Len(pkg.header.rsa)
      /\ Len(pkg.header.ecdsa) \in Nat /\ DOMAIN pkg.header.ecdsa = 1 .. Len(pkg.header.ecdsa)
  BY <1>1, Lists
<1>3. CASE VerifyRsa
  <2> DEFINE proof == pkg.header.rsa[next]
  <2>1. phase = "rsa" /\ next \in DOMAIN pkg.header.rsa
    BY <1>1, <1>2, <1>3 DEF VerifyRsa
  <2>2. CASE ~ProofVerifies(pkg, proof, RsaKeys)
    <3>1. Reject
      BY <1>3, <2>2 DEF VerifyRsa, VerifyProof
    <3>2. <<proof, RsaKeys>> \in Proofs(pkg)
      BY <2>1 DEF Proofs
    <3>3. ~Sound(pkg)
      BY <1>1, <2>2, <3>2, BadProof
    <3> QED
      BY <3>1, <3>3, RejectJudged
  <2>3. CASE ProofVerifies(pkg, proof, RsaKeys)
    <3>1. /\ phase' = "rsa" /\ pkg' = pkg /\ next' = next + 1
          /\ found' = (found \/ proof.public_key = PinnedKey)
      BY <1>3, <2>1, <2>3 DEF VerifyRsa, VerifyProof, FoundKey, Digest
    <3>2. ~found' => \A k \in 1 .. next' - 1 : pkg.header.rsa[k].public_key # PinnedKey
      <4>1. ASSUME ~found', NEW k \in 1 .. next' - 1
            PROVE  pkg.header.rsa[k].public_key # PinnedKey
        <5>1. ~found /\ proof.public_key # PinnedKey
          BY <3>1, <4>1
        <5>2. k = next \/ k \in 1 .. next - 1
          BY <1>1, <3>1
        <5> QED
          BY <2>1, <5>1, <5>2 DEF Judged, Unpinned
      <4> QED
        BY <4>1
    <3>3. Unpinned'
      BY <3>1, <3>2 DEF Unpinned
    <3>4. PrefixValid(pkg)'
      BY <1>1, <3>1 DEF PrefixValid
    <3> QED
      BY <3>1, <3>3, <3>4 DEF Judged, Read, Unzipping
  <2> QED
    BY <2>2, <2>3
<1>4. CASE RsaDone
  <2>1. /\ phase = "rsa" /\ phase' = "ecdsa" /\ next' = 1 /\ pkg' = pkg /\ found' = found
        /\ next > Len(pkg.header.rsa)
    BY <1>4 DEF RsaDone, Goto
  <2>2. Unpinned'
    <3>1. 1 .. next' - 1 = {}
      BY <2>1
    <3>2. ASSUME ~found, NEW k \in 1 .. Len(pkg.header.rsa)
          PROVE  pkg.header.rsa[k].public_key # PinnedKey
      <4>1. k \in 1 .. next - 1
        BY <1>1, <1>2, <2>1
      <4> QED
        BY <2>1, <3>2, <4>1 DEF Judged, Unpinned
    <3> QED
      BY <2>1, <3>1, <3>2 DEF Unpinned
  <2>3. PrefixValid(pkg)'
    BY <1>1, <2>1 DEF PrefixValid
  <2> QED
    BY <2>1, <2>2, <2>3 DEF Judged, Read, Unzipping
<1>5. CASE VerifyEcdsa
  <2> DEFINE proof == pkg.header.ecdsa[next]
  <2>1. phase = "ecdsa" /\ next \in DOMAIN pkg.header.ecdsa
    BY <1>1, <1>2, <1>5 DEF VerifyEcdsa
  <2>2. CASE ~ProofVerifies(pkg, proof, EcdsaKeys)
    <3>1. Reject
      BY <1>5, <2>2 DEF VerifyEcdsa, VerifyProof
    <3>2. <<proof, EcdsaKeys>> \in Proofs(pkg)
      BY <2>1 DEF Proofs
    <3>3. ~Sound(pkg)
      BY <1>1, <2>2, <3>2, BadProof
    <3> QED
      BY <3>1, <3>3, RejectJudged
  <2>3. CASE ProofVerifies(pkg, proof, EcdsaKeys)
    <3>1. /\ phase' = "ecdsa" /\ pkg' = pkg /\ next' = next + 1
          /\ found' = (found \/ proof.public_key = PinnedKey)
      BY <1>5, <2>1, <2>3 DEF VerifyEcdsa, VerifyProof, FoundKey, Digest
    <3>2. ~found' => \A k \in 1 .. next' - 1 : pkg.header.ecdsa[k].public_key # PinnedKey
      <4>1. ASSUME ~found', NEW k \in 1 .. next' - 1
            PROVE  pkg.header.ecdsa[k].public_key # PinnedKey
        <5>1. ~found /\ proof.public_key # PinnedKey
          BY <3>1, <4>1
        <5>2. k = next \/ k \in 1 .. next - 1
          BY <1>1, <3>1
        <5> QED
          BY <2>1, <5>1, <5>2 DEF Judged, Unpinned
      <4> QED
        BY <4>1
    <3>3. ~found' => \A k \in 1 .. Len(pkg.header.rsa) : pkg.header.rsa[k].public_key # PinnedKey
      BY <2>1, <3>1 DEF Judged, Unpinned
    <3>4. Unpinned'
      BY <3>1, <3>2, <3>3 DEF Unpinned
    <3>5. PrefixValid(pkg)'
      BY <1>1, <3>1 DEF PrefixValid
    <3> QED
      BY <3>1, <3>4, <3>5 DEF Judged, Read, Unzipping
  <2> QED
    BY <2>2, <2>3
<1> QED
  BY <1>3, <1>4, <1>5

LEMMA ProofsDoneJudged == IInv /\ Judged /\ ProofsDone => Judged'
<1> SUFFICES ASSUME IInv, Judged, ProofsDone PROVE Judged'
  OBVIOUS
<1>1. /\ phase = "ecdsa" /\ pkg \in Packages /\ pkg.header # Garbled /\ PrefixValid(pkg)
      /\ next \in Nat \ {0} /\ next > Len(pkg.header.ecdsa)
  BY DEF IInv, TypeOK, HeaderInv, HeaderValid, ProofsDone, Judged
<1>2. /\ Len(pkg.header.rsa) \in Nat /\ DOMAIN pkg.header.rsa = 1 .. Len(pkg.header.rsa)
      /\ Len(pkg.header.ecdsa) \in Nat /\ DOMAIN pkg.header.ecdsa = 1 .. Len(pkg.header.ecdsa)
  BY <1>1, Lists
<1>3. CASE ProofCount(pkg) > 0 /\ found /\ pkg.archive # Garbled
  <2>1. phase' = "entries" /\ next' = 1 /\ pkg' = pkg /\ names' = {} /\ total' = 0
    BY <1>1, <1>3 DEF ProofsDone, Goto, IInv, TypeOK
  <2>2. Len(pkg.archive) \in Nat /\ Sums(pkg.archive)[0] = 0
    BY <1>1, <1>3, Lists, SumsExist DEF SumsUpTo
  <2>3. SeenBefore(next)'
    <3>1. 1 .. next' - 1 = {} /\ next' \in 1 .. Len(pkg.archive) + 1 /\ next' - 1 = 0
      BY <2>1, <2>2
    <3>2. Sums(pkg.archive)' = Sums(pkg.archive)
      BY <2>1 DEF Sums, SumsUpTo
    <3> QED
      BY <2>1, <2>2, <3>1, <3>2 DEF SeenBefore
  <2>4. PrefixValid(pkg)'
    BY <1>1, <2>1 DEF PrefixValid
  <2> QED
    BY <2>1, <2>3, <2>4 DEF Judged, Unpinned, Read, Unzipping
<1>4. CASE ~(ProofCount(pkg) > 0 /\ found /\ pkg.archive # Garbled)
  <2>1. Reject
    BY <1>4 DEF ProofsDone
  <2>2. CASE pkg.archive = Garbled
    <3>1. ~Sound(pkg)
      BY <2>2 DEF Sound, ArchiveSound
    <3> QED
      BY <2>1, <3>1, RejectJudged
  <2>3. CASE pkg.archive # Garbled
    <3>1. ASSUME NEW pair \in Proofs(pkg), pair[1].public_key = PinnedKey PROVE FALSE
      <4>1. CASE found
        <5>1. ~(Len(pkg.header.rsa) + Len(pkg.header.ecdsa) > 0)
          BY <1>4, <2>3, <4>1 DEF ProofCount
        <5>2. 1 .. Len(pkg.header.rsa) = {} /\ 1 .. Len(pkg.header.ecdsa) = {}
          <6>1. ASSUME NEW a \in Nat, NEW b \in Nat, ~(a + b > 0)
                PROVE  1 .. a = {} /\ 1 .. b = {}
            BY <6>1
          <6> QED
            BY <1>2, <5>1, <6>1
        <5> QED
          BY <1>2, <3>1, <5>2 DEF Proofs
      <4>2. CASE ~found
        <5>1. \A k \in DOMAIN pkg.header.rsa : pkg.header.rsa[k].public_key # PinnedKey
          BY <1>1, <1>2, <4>2 DEF Judged, Unpinned
        <5>2. \A k \in DOMAIN pkg.header.ecdsa : k \in 1 .. next - 1
          BY <1>1, <1>2
        <5>3. \A k \in DOMAIN pkg.header.ecdsa : pkg.header.ecdsa[k].public_key # PinnedKey
          BY <1>1, <4>2, <5>2 DEF Judged, Unpinned
        <5> QED
          BY <3>1, <5>1, <5>3 DEF Proofs
      <4> QED
        BY <4>1, <4>2
    <3>2. ~Sound(pkg)
      BY <3>1 DEF Sound, Authenticated
    <3> QED
      BY <2>1, <3>2, RejectJudged
  <2> QED
    BY <2>2, <2>3
<1> QED
  BY <1>3, <1>4

(* An entry that is refused shows that the archive is not sound. *)
LEMMA BadEntry ==
  ASSUME IInv, Unzipping, SeenBefore(next), next <= Len(pkg.archive),
         ~EntryValid(pkg.archive[next])
  PROVE  ~Sound(pkg)
<1> SUFFICES ASSUME ArchiveSound(pkg) PROVE FALSE
  BY DEF Sound
<1> DEFINE entry == pkg.archive[next]
<1>1. /\ pkg \in Packages /\ pkg.archive # Garbled /\ next \in Nat \ {0}
  BY DEF IInv, TypeOK, ZipInv
<1>2. /\ Len(pkg.archive) \in Nat /\ DOMAIN pkg.archive = 1 .. Len(pkg.archive)
      /\ \A k \in DOMAIN pkg.archive : pkg.archive[k].size \in Nat
      /\ SumsUpTo(Sums(pkg.archive), pkg.archive)
  BY <1>1, Lists, SumsExist
<1>3. next \in DOMAIN pkg.archive /\ next \in 1 .. Len(pkg.archive)
  BY <1>1, <1>2
<1>4. entry.enclosed /\ ~entry.encrypted
  BY <1>3 DEF ArchiveSound
<1>5. entry.name \notin names
  <2>1. ASSUME NEW k \in 1 .. next - 1, pkg.archive[k].name = entry.name PROVE FALSE
    <3>1. k \in DOMAIN pkg.archive /\ k # next
      BY <1>2, <1>3
    <3> QED
      BY <1>3, <2>1, <3>1 DEF ArchiveSound
  <2> QED
    BY <2>1 DEF SeenBefore
<1>6. total + entry.size <= MaxArchiveBytes
  <2>1. Sums(pkg.archive)[next] = total + entry.size
    BY <1>2, <1>3 DEF SumsUpTo, SeenBefore
  <2>2. next \in 0 .. Len(pkg.archive) /\ Len(pkg.archive) \in 0 .. Len(pkg.archive)
    BY <1>2, <1>3
  <2>3. Sums(pkg.archive)[next] <= SizeOf(pkg.archive)
    BY <1>1, <2>2, SumsGrow
  <2>4. SizeOf(pkg.archive) \in Nat
    BY <1>1, <1>2, <2>2, SizeIsSum DEF SumsUpTo
  <2>5. total + entry.size \in Nat
    BY <1>2, <1>3 DEF IInv, TypeOK
  <2>6. SizeOf(pkg.archive) <= MaxArchiveBytes /\ MaxArchiveBytes \in Nat
    BY Crx3Assumption DEF ArchiveSound
  <2> QED
    BY <2>1, <2>3, <2>4, <2>5, <2>6
<1> QED
  BY <1>4, <1>5, <1>6 DEF EntryValid, NewName

LEMMA EntriesJudged == IInv /\ Judged /\ (InspectEntry \/ EntriesDone) => Judged'
<1> SUFFICES ASSUME IInv, Judged, InspectEntry \/ EntriesDone PROVE Judged'
  OBVIOUS
<1>1. /\ phase = "entries" /\ Unzipping /\ SeenBefore(next) /\ PrefixValid(pkg)
      /\ pkg \in Packages /\ pkg.archive # Garbled /\ next \in Nat \ {0}
  BY DEF IInv, TypeOK, ZipInv, InspectEntry, EntriesDone, Judged, Unzipping
<1>2. Len(pkg.archive) \in Nat /\ SumsUpTo(Sums(pkg.archive), pkg.archive)
  BY <1>1, Lists, SumsExist
<1>3. CASE EntriesDone
  <2>1. /\ phase' = "manifest" /\ next > Len(pkg.archive)
        /\ UNCHANGED <<pkg, next, names, total, found>>
    BY <1>3 DEF EntriesDone, Goto
  <2>2. next = Len(pkg.archive) + 1
    BY <1>1, <1>2, <2>1 DEF SeenBefore
  <2>3. SeenBefore(next)' /\ PrefixValid(pkg)'
    BY <1>1, <2>1 DEF SeenBefore, Sums, SumsUpTo, PrefixValid
  <2> QED
    BY <2>1, <2>2, <2>3 DEF Judged, Unpinned, Read, Unzipping
<1>4. CASE InspectEntry /\ ~EntryValid(pkg.archive[next])
  <2>1. Reject /\ next <= Len(pkg.archive)
    BY <1>4 DEF InspectEntry
  <2>2. ~Sound(pkg)
    BY <1>1, <1>4, <2>1, BadEntry
  <2> QED
    BY <2>1, <2>2, RejectJudged
<1>5. CASE InspectEntry /\ EntryValid(pkg.archive[next])
  <2> DEFINE entry == pkg.archive[next]
  <2>1. /\ phase' = "entries" /\ next <= Len(pkg.archive) /\ next' = next + 1
        /\ names' = names \cup {entry.name} /\ total' = total + entry.size
        /\ pkg' = pkg /\ found' = found
        /\ entry.enclosed /\ ~entry.encrypted /\ entry.name \notin names
    BY <1>1, <1>5 DEF InspectEntry, EntryValid, NewName
  <2>2. /\ next' \in 1 .. Len(pkg.archive) + 1 /\ next' - 1 = next
        /\ next \in 1 .. Len(pkg.archive)
        /\ \A k \in 1 .. next : k = next \/ k \in 1 .. next - 1
        /\ \A k \in 1 .. next - 1 : k \in 1 .. next
    BY <1>1, <1>2, <2>1
  <2>3. names' = {pkg.archive[k].name : k \in 1 .. next}
    BY <1>1, <2>1, <2>2 DEF SeenBefore
  <2>4. total' = Sums(pkg.archive)[next]
    BY <1>1, <1>2, <2>1, <2>2 DEF SeenBefore, SumsUpTo
  <2>5. \A k \in 1 .. next : pkg.archive[k].enclosed /\ ~pkg.archive[k].encrypted
    BY <1>1, <2>1, <2>2 DEF SeenBefore
  <2>6. ASSUME NEW j \in 1 .. next, NEW k \in 1 .. next, pkg.archive[j].name = pkg.archive[k].name
        PROVE  j = k
    <3>1. ASSUME NEW i \in 1 .. next - 1, pkg.archive[i].name = entry.name PROVE FALSE
      BY <1>1, <2>1, <3>1 DEF SeenBefore
    <3> QED
      BY <1>1, <2>2, <2>6, <3>1 DEF SeenBefore
  <2>7. SeenBefore(next)'
    <3>1. Sums(pkg.archive)' = Sums(pkg.archive)
      BY <2>1 DEF Sums, SumsUpTo
    <3> QED
      BY <2>1, <2>2, <2>3, <2>4, <2>5, <2>6, <3>1 DEF SeenBefore
  <2>8. PrefixValid(pkg)'
    BY <1>1, <2>1 DEF PrefixValid
  <2> QED
    BY <2>1, <2>7, <2>8 DEF Judged, Unpinned, Read, Unzipping
<1> QED
  BY <1>3, <1>4, <1>5

(* An archive without its files, or without a valid version, is not sound.    *)
LEMMA BadFiles ==
  ASSUME IInv, Judged, phase \in {"manifest", "payload", "version"},
         \/ ~Readable("manifest.json", MaxManifestBytes)
         \/ Entry("manifest.json").contents # "pki_metadata"
         \/ ~Readable("crs.pb", MaxCrsBytes)
         \/ ~(Taken(Entry("crs.pb"), MaxCrsBytes) > 0)
  PROVE  ~Sound(pkg)
<1> SUFFICES ASSUME ArchiveSound(pkg) PROVE FALSE
  BY DEF Sound
<1>1. pkg \in Packages /\ pkg.archive # Garbled /\ Distinct(pkg)
  BY DEF IInv, TypeOK, ZipInv, Unzipping, ArchiveSound, Distinct
<1>2. PICK j \in Whole(pkg, "manifest.json", MaxManifestBytes) :
        pkg.archive[j].contents = "pki_metadata"
  BY DEF ArchiveSound
<1>3. PICK k \in Whole(pkg, "crs.pb", MaxCrsBytes) : pkg.archive[k].actual > 0
  BY DEF ArchiveSound
<1>4. /\ Readable("manifest.json", MaxManifestBytes)
      /\ Entry("manifest.json").contents = "pki_metadata"
  BY <1>1, <1>2, WholeIsReadable, Crx3Assumption
<1>5. Readable("crs.pb", MaxCrsBytes) /\ Taken(Entry("crs.pb"), MaxCrsBytes) > 0
  BY <1>1, <1>3, WholeIsReadable, Crx3Assumption
<1> QED
  BY <1>4, <1>5

LEMMA FilesJudged == IInv /\ Judged /\ (ReadManifest \/ ReadPayload \/ CheckVersion) => Judged'
<1> SUFFICES ASSUME IInv, Judged, ReadManifest \/ ReadPayload \/ CheckVersion PROVE Judged'
  OBVIOUS
<1>1. /\ phase \in {"manifest", "payload", "version"} /\ Unzipping /\ SeenBefore(next)
      /\ PrefixValid(pkg) /\ next = Len(pkg.archive) + 1
  BY DEF ReadManifest, ReadPayload, CheckVersion, Judged, Unzipping
<1>2. CASE Reject
  <2>1. ~Sound(pkg)
    BY <1>1, <1>2, BadFiles DEF ReadManifest, ReadPayload, CheckVersion, Goto, Reject
  <2> QED
    BY <1>2, <2>1, RejectJudged
<1>3. CASE ~Reject
  <2>1. pkg' = pkg /\ next' = next /\ names' = names /\ total' = total /\ found' = found
    BY <1>3 DEF ReadManifest, ReadPayload, CheckVersion
  <2>2. SeenBefore(next)' /\ PrefixValid(pkg)'
    <3>1. SeenBefore(next)' <=> SeenBefore(next)
      BY <2>1 DEF SeenBefore, Sums, SumsUpTo
    <3>2. PrefixValid(pkg)' <=> PrefixValid(pkg)
      BY <2>1 DEF PrefixValid
    <3> QED
      BY <1>1, <3>1, <3>2
  <2>3. /\ \/ phase = "manifest" /\ phase' = "payload"
           \/ phase = "payload" /\ phase' = "version"
           \/ phase = "version" /\ phase' = "verified"
    BY <1>3 DEF ReadManifest, ReadPayload, CheckVersion, Goto
  <2>4. Read'
    <3>1. /\ phase' \in {"payload", "version", "verified"} =>
               /\ Readable("manifest.json", MaxManifestBytes)
               /\ Entry("manifest.json").contents \in {"pki_metadata", "unversioned"}
          /\ phase' \in {"version", "verified"} =>
               Readable("crs.pb", MaxCrsBytes) /\ Taken(Entry("crs.pb"), MaxCrsBytes) > 0
          /\ phase' = "verified" => Entry("manifest.json").contents = "pki_metadata"
      BY <1>3, <2>3 DEF ReadManifest, ReadPayload, CheckVersion, Goto, Judged, Read
    <3> QED
      BY <2>1, <3>1 DEF Read, Readable, Entry, Named, Taken
  <2> QED
    BY <1>1, <2>1, <2>2, <2>3, <2>4 DEF Judged, Unpinned, Unzipping
<1> QED
  BY <1>2, <1>3

LEMMA NextJudged == IInv /\ Judged /\ [Next]_vars => Judged'
<1> SUFFICES ASSUME IInv, Judged, [Next]_vars PROVE Judged'
  OBVIOUS
<1>1. CASE UNCHANGED vars
  <2>1. Sound(pkg)' <=> Sound(pkg)
    BY <1>1 DEF vars, Sound, PrefixValid, Authenticated, Proofs, ArchiveSound, Whole, SizeOf
  <2>2. PrefixValid(pkg)' <=> PrefixValid(pkg)
    BY <1>1 DEF vars, PrefixValid
  <2>3. SeenBefore(next)' <=> SeenBefore(next)
    BY <1>1 DEF vars, SeenBefore, Sums, SumsUpTo
  <2>4. Read' <=> Read
    BY <1>1 DEF vars, Read, Readable, Entry, Named, Taken
  <2> QED
    BY <1>1, <2>1, <2>2, <2>3, <2>4 DEF vars, Judged, Unpinned, Unzipping
<1> QED
  BY <1>1, HeaderJudged, ProofsJudged, ProofsDoneJudged, EntriesJudged, FilesJudged DEF Next

(* A package is accepted exactly when its prefix is valid, its proofs         *)
(* authenticate it and its archive keeps the limits, for any lists of proofs  *)
(* and entries, any declared sizes and any limits (crx3.rs:96-321).           *)
THEOREM VerdictExact == Spec => []VerifiedIffSound
<1>1. Spec => []Judged
  BY InitJudged, NextJudged, Invariance, PTL DEF Spec
<1> QED
  BY <1>1, VerdictFollows, Invariance, PTL
=============================================================================
