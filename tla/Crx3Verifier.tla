---------------------------- MODULE Crx3Verifier ----------------------------
(*****************************************************************************)
(* crx3::verify_and_extract: from the bytes of a CRX3 package to the         *)
(* component version and the crs.pb inside it.                               *)
(*                                                                           *)
(* The two loops over proofs and the loop over ZIP entries take one step     *)
(* per element.  A package is a record of what the code looks at, already    *)
(* split at header_end; cryptography is perfect, so a signature is the key   *)
(* that made it and the bytes it was made over; a key is its own SHA-256,    *)
(* and the component ID is derived from the pinned key.                      *)
(*****************************************************************************)
EXTENDS Integers, Sequences

CONSTANTS
  MaxHeaderBytes, MaxArchiveBytes, MaxManifestBytes, MaxCrsBytes,
  RsaKeys,       \* public keys that parse as RSA keys
  EcdsaKeys,     \* public keys that parse as P-256 keys
  PinnedKey,     \* the key with hash PKI_METADATA_PUBLIC_KEY_SHA256
  ComponentId,   \* the 16 bytes of PKI_METADATA_COMPONENT_ID
  Packages,      \* the packages considered
  None,          \* an absent field
  Garbled        \* bytes that do not decode

PrefixBytes == 12
Digest(key) == key

IsList(s) == s \in Seq({s[k] : k \in DOMAIN s})

(* What a signature covers is a signed data and an archive, and nothing else. *)
IsSignature(s) ==
  s # None =>
    s.covers = [signedData |-> s.covers.signedData, archive |-> s.covers.archive]

ASSUME Crx3Assumption ==
  /\ MaxHeaderBytes \in Nat /\ MaxArchiveBytes \in Nat
  /\ MaxManifestBytes \in Nat /\ MaxCrsBytes \in Nat
  /\ RsaKeys \cap EcdsaKeys = {}
  /\ None \notin RsaKeys \cup EcdsaKeys
  /\ \A p \in Packages :
       /\ p.size \in Nat /\ p.headerSize \in Nat
       /\ p.header # Garbled =>
            /\ IsList(p.header.rsa) /\ IsList(p.header.ecdsa)
            /\ \A k \in DOMAIN p.header.rsa : IsSignature(p.header.rsa[k].signature)
            /\ \A k \in DOMAIN p.header.ecdsa : IsSignature(p.header.ecdsa[k].signature)
       /\ p.archive # Garbled =>
            /\ IsList(p.archive)
            /\ \A k \in DOMAIN p.archive :
                 p.archive[k].size \in Nat /\ p.archive[k].actual \in Nat

Phases == {"prefix", "header", "rsa", "ecdsa", "entries", "manifest", "payload", "version",
           "verified", "rejected"}

VARIABLES
  pkg,       \* the package
  phase,     \* how far verification has come
  next,      \* the proof or entry the current loop looks at
  found,     \* found_component_key
  names,     \* the names of the entries seen
  total,     \* the sum of their uncompressed sizes
  manifest,  \* the number of bytes of manifest.json read
  crs        \* the number of bytes of crs.pb read

vars == <<pkg, phase, next, found, names, total, manifest, crs>>

-----------------------------------------------------------------------------
(* Prefix and header *)

EmptyArchiveAllowed(p) ==
  /\ p.size >= PrefixBytes
  /\ p.magic
  /\ p.version = 3
  /\ p.headerSize <= MaxHeaderBytes
  /\ PrefixBytes + p.headerSize <= p.size
  /\ ~p.zipMarker
PrefixValid(p) ==
  /\ p.size >= PrefixBytes
  /\ p.magic
  /\ p.version = 3
  /\ p.headerSize <= MaxHeaderBytes
  /\ PrefixBytes + p.headerSize < p.size
  /\ ~p.zipMarker

HeaderValid(p) ==
  /\ p.header # Garbled
  /\ p.header.signedData \notin {None, Garbled}
  /\ p.header.signedData.crxId = ComponentId

(* SIGNATURE_CONTEXT, the length of the signed data, the signed data, archive *)
Signed(p) == [signedData |-> p.header.signedData, archive |-> p.archive]

(* verify_rsa_proof, verify_ecdsa_proof *)
HeaderSigned(p, proof, keys) ==
  /\ proof.public_key \in keys
  /\ proof.signature # None
  /\ proof.signature.by = proof.public_key
  /\ proof.signature.covers.signedData = p.header.signedData
ProofVerifies(p, proof, keys) ==
  /\ proof.public_key \in keys
  /\ proof.signature # None
  /\ proof.signature.by = proof.public_key
  /\ proof.signature.covers = Signed(p)

LastKey(seen, proof) == Digest(proof.public_key) = PinnedKey
FoundKey(seen, proof) == seen \/ Digest(proof.public_key) = PinnedKey

ProofCount(p) == Len(p.header.rsa) + Len(p.header.ecdsa)

-----------------------------------------------------------------------------
(* ZIP archive *)

NewName(seen, entry) == entry.name \notin seen

EntryValid(entry) ==
  /\ entry.enclosed
  /\ ~entry.encrypted
  /\ NewName(names, entry)
  /\ total + entry.size <= MaxArchiveBytes

Named(name) == {k \in DOMAIN pkg.archive : pkg.archive[k].name = name}
Entry(name) == pkg.archive[CHOOSE k \in Named(name) : TRUE]

(* read_entry: the directory's size is checked before, the bytes that come    *)
(* out while reading.                                                         *)
TakeLimit(limit) == limit
TakeOneMore(limit) == limit + 1
Taken(entry, limit) ==
  IF entry.actual <= TakeOneMore(limit) THEN entry.actual ELSE TakeOneMore(limit)
DeclaredSmall(name, limit) ==
  /\ Named(name) # {}
  /\ Entry(name).file
  /\ Entry(name).size <= limit
  /\ Entry(name).intact
Readable(name, limit) ==
  /\ Named(name) # {}
  /\ Entry(name).file
  /\ Entry(name).size <= limit
  /\ Entry(name).intact
  /\ Taken(Entry(name), limit) <= limit

-----------------------------------------------------------------------------
Init ==
  /\ pkg \in Packages
  /\ phase = "prefix"
  /\ next = 1
  /\ found = FALSE
  /\ names = {} /\ total = 0
  /\ manifest = 0 /\ crs = 0

Goto(p) == phase' = p

Reject ==
  /\ Goto("rejected")
  /\ UNCHANGED <<pkg, next, found, names, total, manifest, crs>>

CheckPrefix ==
  /\ phase = "prefix"
  /\ IF PrefixValid(pkg)
     THEN /\ Goto("header")
          /\ UNCHANGED <<pkg, next, found, names, total, manifest, crs>>
     ELSE Reject

CheckHeader ==
  /\ phase = "header"
  /\ IF HeaderValid(pkg)
     THEN /\ Goto("rsa")
          /\ UNCHANGED <<pkg, next, found, names, total, manifest, crs>>
     ELSE Reject

VerifyProof(proof, keys) ==
  IF ProofVerifies(pkg, proof, keys)
  THEN /\ found' = FoundKey(found, proof)
       /\ next' = next + 1
       /\ UNCHANGED <<pkg, phase, names, total, manifest, crs>>
  ELSE Reject

VerifyRsa ==
  /\ phase = "rsa"
  /\ next <= Len(pkg.header.rsa)
  /\ VerifyProof(pkg.header.rsa[next], RsaKeys)

RsaDone ==
  /\ phase = "rsa"
  /\ next > Len(pkg.header.rsa)
  /\ Goto("ecdsa")
  /\ next' = 1
  /\ UNCHANGED <<pkg, found, names, total, manifest, crs>>

VerifyEcdsa ==
  /\ phase = "ecdsa"
  /\ next <= Len(pkg.header.ecdsa)
  /\ VerifyProof(pkg.header.ecdsa[next], EcdsaKeys)

(* Some proof, and one by the pinned key; then ZipArchive::new.               *)
ProofsDone ==
  /\ phase = "ecdsa"
  /\ next > Len(pkg.header.ecdsa)
  /\ IF ProofCount(pkg) > 0 /\ found /\ pkg.archive # Garbled
     THEN /\ Goto("entries")
          /\ next' = 1
          /\ UNCHANGED <<pkg, found, names, total, manifest, crs>>
     ELSE Reject

InspectEntry ==
  /\ phase = "entries"
  /\ next <= Len(pkg.archive)
  /\ LET entry == pkg.archive[next]
     IN IF EntryValid(entry)
        THEN /\ names' = names \cup {entry.name}
             /\ total' = total + entry.size
             /\ next' = next + 1
             /\ UNCHANGED <<pkg, phase, found, manifest, crs>>
        ELSE Reject

EntriesDone ==
  /\ phase = "entries"
  /\ next > Len(pkg.archive)
  /\ Goto("manifest")
  /\ UNCHANGED <<pkg, next, found, names, total, manifest, crs>>

ReadManifest ==
  /\ phase = "manifest"
  /\ IF /\ Readable("manifest.json", MaxManifestBytes)
        /\ Entry("manifest.json").contents \in {"pki_metadata", "unversioned"}
     THEN /\ manifest' = Taken(Entry("manifest.json"), MaxManifestBytes)
          /\ Goto("payload")
          /\ UNCHANGED <<pkg, next, found, names, total, crs>>
     ELSE Reject

ReadPayload ==
  /\ phase = "payload"
  /\ IF Readable("crs.pb", MaxCrsBytes) /\ Taken(Entry("crs.pb"), MaxCrsBytes) > 0
     THEN /\ crs' = Taken(Entry("crs.pb"), MaxCrsBytes)
          /\ Goto("version")
          /\ UNCHANGED <<pkg, next, found, names, total, manifest>>
     ELSE Reject

CheckVersion ==
  /\ phase = "version"
  /\ IF Entry("manifest.json").contents = "pki_metadata"
     THEN /\ Goto("verified")
          /\ UNCHANGED <<pkg, next, found, names, total, manifest, crs>>
     ELSE Reject

Next ==
  \/ CheckPrefix \/ CheckHeader
  \/ VerifyRsa \/ RsaDone \/ VerifyEcdsa \/ ProofsDone
  \/ InspectEntry \/ EntriesDone
  \/ ReadManifest \/ ReadPayload \/ CheckVersion

Spec == Init /\ [][Next]_vars

-----------------------------------------------------------------------------
(* Properties *)

TypeOK ==
  /\ pkg \in Packages
  /\ phase \in Phases
  /\ next \in Nat \ {0}
  /\ found \in BOOLEAN
  /\ phase \in {"prefix", "header", "rsa", "ecdsa"} => names = {} /\ total = 0
  /\ total \in 0 .. MaxArchiveBytes
  /\ manifest \in 0 .. MaxManifestBytes
  /\ crs \in 0 .. MaxCrsBytes

(* The proofs in either list, with the keys that list may use. *)
Proofs(p) ==
  {<<p.header.rsa[k], RsaKeys>> : k \in DOMAIN p.header.rsa}
    \cup {<<p.header.ecdsa[k], EcdsaKeys>> : k \in DOMAIN p.header.ecdsa}

(* The holder of the pinned key signed this signed data and this archive, and *)
(* nobody else's proof in the header is bad.                                  *)
Authenticated(p) ==
  /\ p.header # Garbled
  /\ p.header.signedData \notin {None, Garbled}
  /\ p.header.signedData.crxId = ComponentId
  /\ \A pair \in Proofs(p) :
       LET proof == pair[1]
       IN /\ proof.public_key \in pair[2] /\ proof.signature # None
          /\ proof.signature.by = proof.public_key
          /\ proof.signature.covers.signedData = p.header.signedData
          /\ proof.signature.covers.archive = p.archive
  /\ \E pair \in Proofs(p) : pair[1].public_key = PinnedKey

SizeOf(archive) ==
  LET upTo[k \in 0 .. Len(archive)] == IF k = 0 THEN 0 ELSE upTo[k - 1] + archive[k].size
  IN upTo[Len(archive)]

Whole(p, name, limit) ==
  {k \in DOMAIN p.archive :
     LET entry == p.archive[k]
     IN /\ entry.name = name /\ entry.file /\ entry.intact
        /\ entry.size <= limit /\ entry.actual <= limit}

ArchiveSound(p) ==
  /\ p.archive # Garbled
  /\ \A k \in DOMAIN p.archive : p.archive[k].enclosed /\ ~p.archive[k].encrypted
  /\ \A j, k \in DOMAIN p.archive : p.archive[j].name = p.archive[k].name => j = k
  /\ SizeOf(p.archive) <= MaxArchiveBytes
  /\ \E k \in Whole(p, "manifest.json", MaxManifestBytes) :
       p.archive[k].contents = "pki_metadata"
  /\ \E k \in Whole(p, "crs.pb", MaxCrsBytes) : p.archive[k].actual > 0

(* The package is a prefix of twelve bytes with the magic and version 3, a    *)
(* header of the length it announces, within the limit and without a ZIP end  *)
(* marker, and an archive of at least one byte: nothing else, nothing less.   *)
Framed(p) ==
  /\ p.magic /\ p.version = 3 /\ ~p.zipMarker
  /\ \E header \in 0 .. MaxHeaderBytes, archive \in 1 .. p.size :
       p.headerSize = header /\ p.size = 12 + header + archive

(* No byte of the archive is given to the ZIP parser before the pinned key    *)
(* has been found to sign exactly these bytes, and a later proof in the list  *)
(* cannot undo or fake that (crx3.rs:153-190).                                *)
AuthenticatedBeforeUnzip ==
  phase \in {"entries", "manifest", "payload", "version", "verified"} => Authenticated(pkg)

(* A package is accepted exactly when it is authentic and its archive keeps   *)
(* the limits, whatever the sizes its directory declares (crx3.rs:96-321).    *)
VerifiedIffSound ==
  phase \in {"verified", "rejected"} =>
    (phase = "verified" <=> Framed(pkg) /\ Authenticated(pkg) /\ ArchiveSound(pkg))

(* What is extracted is all of each entry, although reading stops at a limit  *)
(* and the directory may understate the size (crx3.rs:300-321).               *)
ExtractedWhole ==
  phase = "verified" =>
    \E j, k \in DOMAIN pkg.archive :
      /\ pkg.archive[j].name = "manifest.json" /\ manifest = pkg.archive[j].actual
      /\ pkg.archive[k].name = "crs.pb" /\ crs = pkg.archive[k].actual
=============================================================================
