--------------------------- MODULE AnchorSelection ---------------------------
(******************************************************************************)
(* From a decoded RootStoreMessage to the anchors of the generated library:   *)
(* parse_root_store, validate_anchors, the length limit of                    *)
(* generate_component, and the lists codegen emits.                           *)
(*                                                                            *)
(* parse_root_store keeps no state between entries, so it is one step;        *)
(* validate_anchors accumulates two sets and two lists, so it is one step     *)
(* per anchor.  Certificates and Trust Anchor IDs are abstract values with    *)
(* the attributes the code tests; SHA-256 is injective, so a certificate is   *)
(* its own digest.  Constraints, policy OIDs, names and flags are copied      *)
(* unchanged from entry to output and are left out.                           *)
(******************************************************************************)
EXTENDS Integers, Sequences

CONSTANTS
  Certificates,   \* DER byte strings an entry may carry
  Parseable,      \* those that are one complete X.509 certificate
  Authorities,    \* those that are CA certificates
  Ids,            \* byte strings in the trust_anchor_id and log_id fields
  ValidIds,       \* those validate_trust_anchor_id accepts
  IdLength,       \* their lengths
  MaxVector,      \* largest length of the TLS vector (65535)
  Stores,         \* the decoded messages considered
  None            \* an absent optional field

Kinds   == {"Root", "Additional"}
Message == [certificate : Certificates \cup {"sha256_hex", None},
            tls         : BOOLEAN \cup {None},
            id          : Ids \cup {None},
            crsRootId   : Int \cup {None}]
Mtc     == [logId     : Ids \cup {None},
            tls       : BOOLEAN \cup {None},
            crsRootId : Int \cup {None}]
Store   == [version    : Int,
            mtc        : Seq(Mtc),
            roots      : Seq(Message),
            additional : Seq(Message)]
Anchor  == [kind : Kinds, der : Certificates, tls : BOOLEAN, id : Ids \cup {None}]
Entry   == [der : Certificates, id : Ids \cup {None}]
Phases  == {"parse", "validate", "limit", "published", "rejected"}

ASSUME AnchorAssumption ==
  /\ Authorities \subseteq Parseable /\ Parseable \subseteq Certificates
  /\ ValidIds \subseteq Ids
  /\ IdLength \in [Ids -> Nat]
  /\ MaxVector \in Nat
  /\ Stores \subseteq Store
  /\ None \notin Certificates \cup Ids \cup BOOLEAN \cup Int
  /\ "sha256_hex" \notin Certificates

VARIABLES
  store,       \* the decoded message
  phase,       \* how far generate_component has come
  anchors,     \* what parse_root_store returned
  next,        \* the anchor validate_anchors looks at
  seenHashes,  \* the digests of the TLS anchors so far
  seenIds,     \* the IDs of all anchors so far
  ids,         \* the IDs of the TLS anchors so far, in order
  validated    \* the TLS anchors so far, in order

vars == <<store, phase, anchors, next, seenHashes, seenIds, ids, validated>>

-----------------------------------------------------------------------------
(* parse_root_store *)

Field(value, default) == IF value = None THEN default ELSE value

CrsRootIdValid(crsRootId) == crsRootId # None => crsRootId > 2

MtcValid(m) ==
  /\ IF m.logId # None THEN m.logId \in ValidIds ELSE ~Field(m.tls, FALSE)
  /\ CrsRootIdValid(m.crsRootId)

Convertible(m, kind) ==
  /\ m.certificate \in Certificates
  /\ kind = "Root" => m.tls = None
  /\ CrsRootIdValid(m.crsRootId)

AlwaysTrusted(m, kind) == [kind |-> kind, der |-> m.certificate, tls |-> TRUE, id |-> m.id]
WithoutDefault(m, kind) == [kind |-> kind, der |-> m.certificate, tls |-> m.tls, id |-> m.id]
ConvertAnchor(m, kind) ==
  [kind |-> kind, der |-> m.certificate, tls |-> Field(m.tls, kind = "Root"), id |-> m.id]

Parses(s) ==
  /\ s.version > 0
  /\ \A k \in DOMAIN s.mtc : MtcValid(s.mtc[k])
  /\ \A k \in DOMAIN s.roots : Convertible(s.roots[k], "Root")
  /\ \A k \in DOMAIN s.additional : Convertible(s.additional[k], "Additional")

ParsedAnchors(s) ==
  [k \in 1 .. Len(s.roots) |-> ConvertAnchor(s.roots[k], "Root")]
    \o [k \in 1 .. Len(s.additional) |-> ConvertAnchor(s.additional[k], "Additional")]

-----------------------------------------------------------------------------
(* validate_anchors, one anchor *)

CertificateValid(a) == a.der \in (IF a.tls THEN Authorities ELSE Parseable)

TlsIdNew(a) == a.tls => a.id \notin seenIds
IdNew(a) == a.id \notin seenIds
IdAccepted(a) == a.id # None => a.id \in ValidIds /\ IdNew(a)

HashIgnored(a) == TRUE
HashNew(a) == a.tls => a.der \notin seenHashes

SeenId(a) == IF a.id # None THEN {a.id} ELSE {}

(* What codegen makes of a validated anchor.                                  *)
RootIdsOnly(a) == [der |-> a.der, id |-> IF a.kind = "Root" THEN a.id ELSE None]
Published(a) == [der |-> a.der, id |-> a.id]

(* encoded_ids_len of generate_component: one length byte for each ID.        *)
EncodedLength(list) ==
  LET upTo[k \in 0 .. Len(list)] == IF k = 0 THEN 0 ELSE upTo[k - 1] + 1 + IdLength[list[k]]
  IN upTo[Len(list)]

FitsVector(list) == EncodedLength(list) <= MaxVector

-----------------------------------------------------------------------------
Init ==
  /\ store \in Stores
  /\ phase = "parse"
  /\ anchors = <<>>
  /\ next = 1
  /\ seenHashes = {} /\ seenIds = {}
  /\ ids = <<>> /\ validated = <<>>

Reject ==
  /\ phase' = "rejected"
  /\ UNCHANGED <<store, anchors, next, seenHashes, seenIds, ids, validated>>

Parse ==
  /\ phase = "parse"
  /\ Parses(store)
  /\ anchors' = ParsedAnchors(store)
  /\ phase' = "validate"
  /\ UNCHANGED <<store, next, seenHashes, seenIds, ids, validated>>

ParseFails ==
  /\ phase = "parse"
  /\ ~Parses(store)
  /\ Reject

(* The loop body succeeds for the next anchor. *)
ValidateAnchor ==
  /\ phase = "validate"
  /\ next <= Len(anchors)
  /\ LET a == anchors[next]
     IN /\ CertificateValid(a) /\ IdAccepted(a) /\ HashNew(a)
        /\ seenIds' = seenIds \cup SeenId(a)
        /\ seenHashes' = IF a.tls THEN seenHashes \cup {a.der} ELSE seenHashes
        /\ ids' = IF a.tls /\ a.id # None THEN Append(ids, a.id) ELSE ids
        /\ validated' = IF a.tls THEN Append(validated, Published(a)) ELSE validated
  /\ next' = next + 1
  /\ UNCHANGED <<store, phase, anchors>>

AnchorInvalid ==
  /\ phase = "validate"
  /\ next <= Len(anchors)
  /\ LET a == anchors[next] IN ~(CertificateValid(a) /\ IdAccepted(a) /\ HashNew(a))
  /\ Reject

(* After the loop: some TLS anchor must be left. *)
AnchorsValidated ==
  /\ phase = "validate"
  /\ next > Len(anchors)
  /\ IF validated # <<>>
     THEN /\ phase' = "limit"
          /\ UNCHANGED <<store, anchors, next, seenHashes, seenIds, ids, validated>>
     ELSE Reject

(* The length limit of generate_component, then codegen. *)
CheckLimit ==
  /\ phase = "limit"
  /\ IF FitsVector(ids)
     THEN /\ phase' = "published"
          /\ UNCHANGED <<store, anchors, next, seenHashes, seenIds, ids, validated>>
     ELSE Reject

Next == Parse \/ ParseFails \/ ValidateAnchor \/ AnchorInvalid \/ AnchorsValidated \/ CheckLimit

Spec == Init /\ [][Next]_vars

-----------------------------------------------------------------------------
(* The library the result compiles to (chromium-roots). *)

(* trust_anchor_id_for_certificate: the ID of the first anchor with this DER. *)
IdForCertificate(library, der) ==
  LET matches == {k \in DOMAIN library : library[k].der = der}
  IN IF matches = {} THEN None
     ELSE library[CHOOSE k \in matches : \A j \in matches : k <= j].id

-----------------------------------------------------------------------------
(* Properties *)

TypeOK ==
  /\ store \in Store
  /\ phase \in Phases
  /\ anchors \in Seq(Anchor)
  /\ next \in Nat \ {0}
  /\ seenHashes \subseteq Certificates
  /\ seenIds \subseteq Ids
  /\ ids \in Seq(Ids)
  /\ validated \in Seq(Entry)

(* The entries of a message, by list and position. *)
Slots(s) == {<<"Root", k>> : k \in DOMAIN s.roots}
              \cup {<<"Additional", k>> : k \in DOMAIN s.additional}
At(s, slot) == IF slot[1] = "Root" THEN s.roots[slot[2]] ELSE s.additional[slot[2]]
Tls(s, slot) == slot[1] = "Root" \/ At(s, slot).tls = TRUE

(* SelectSeq, by position: the elements of list at the positions in kept.     *)
Keep(list, kept) ==
  LET upTo[k \in 0 .. Len(list)] ==
        IF k = 0 THEN <<>>
        ELSE IF k \in kept THEN Append(upTo[k - 1], list[k]) ELSE upTo[k - 1]
  IN upTo[Len(list)]

TlsAdditional(s) ==
  Keep(s.additional, {k \in DOMAIN s.additional : s.additional[k].tls = TRUE})
TlsMessages(s) == s.roots \o TlsAdditional(s)
IdsOf(list) ==
  Keep([k \in DOMAIN list |-> list[k].id], {k \in DOMAIN list : list[k].id # None})

(* What has to hold of a whole message before any of it is published, in no   *)
(* particular order.                                                          *)
StoreSound(s) ==
  /\ s.version > 0
  /\ \A k \in DOMAIN s.mtc :
       /\ s.mtc[k].logId \in ValidIds \/ (s.mtc[k].logId = None /\ s.mtc[k].tls # TRUE)
       /\ s.mtc[k].crsRootId = None \/ s.mtc[k].crsRootId >= 3
  /\ \A slot \in Slots(s) :
       LET m == At(s, slot)
       IN /\ m.certificate \in (IF Tls(s, slot) THEN Authorities ELSE Parseable)
          /\ slot[1] = "Root" => m.tls = None
          /\ m.crsRootId = None \/ m.crsRootId >= 3
          /\ m.id \in ValidIds \cup {None}
  /\ \A a, b \in Slots(s) :
       a # b => /\ At(s, a).id = None \/ At(s, a).id # At(s, b).id
                /\ Tls(s, a) /\ Tls(s, b) => At(s, a).certificate # At(s, b).certificate
  /\ \E slot \in Slots(s) : Tls(s, slot)
  /\ EncodedLength(IdsOf(TlsMessages(s))) <= MaxVector

(* A store is published exactly when all of it is sound: no fault in an entry *)
(* that is not published slips through, and no sound store is refused         *)
(* (protobuf.rs:162-260, generator.rs:54-135).                                *)
PublishedIffSound ==
  phase \in {"published", "rejected"} => (phase = "published" <=> StoreSound(store))

(* The library lists every historical root and then the additional            *)
(* certificates marked for TLS, in source order, and the IDs whose encoded    *)
(* length was checked are the IDs of that list (generator.rs:58-128,          *)
(* codegen.rs:54-65).                                                         *)
PublishedInSourceOrder ==
  phase = "published" =>
    /\ validated = [k \in DOMAIN TlsMessages(store) |->
                      [der |-> TlsMessages(store)[k].certificate,
                       id  |-> TlsMessages(store)[k].id]]
    /\ ids = IdsOf(validated)

(* No certificate and no Trust Anchor ID is published twice                   *)
(* (generator.rs:100-121).                                                    *)
PublishedUnique ==
  \A j, k \in DOMAIN validated :
    j # k => /\ validated[j].der # validated[k].der
             /\ validated[j].id # None => validated[j].id # validated[k].id

(* trust_anchor_id_for_certificate finds, for every anchor trusted for TLS,   *)
(* the ID of that very anchor, and no ID for a certificate that no TLS anchor *)
(* carries, although it stops at the first match and an untrusted entry may   *)
(* carry the same certificate with another ID (chromium-roots/src/lib.rs:213).*)
LookupExact ==
  phase = "published" =>
    /\ \A k \in DOMAIN anchors :
         anchors[k].tls => IdForCertificate(validated, anchors[k].der) = anchors[k].id
    /\ \A der \in Certificates :
         (\A k \in DOMAIN anchors : anchors[k].tls => anchors[k].der # der) =>
           IdForCertificate(validated, der) = None
=============================================================================
