---------------------------- MODULE TrustAnchorIds ----------------------------
(*****************************************************************************)
(* The constant evaluation of trust_anchor_ids() and                         *)
(* encoded_trust_anchor_ids(): each function first sizes its array in one    *)
(* pass over the anchors (the const generic N) and fills it in another.      *)
(* A failed assertion or an index out of bounds stops the compiler.          *)
(*                                                                           *)
(* The two functions are independent; the model evaluates one after the      *)
(* other, one loop iteration per step.  The sum in checked_add cannot        *)
(* overflow usize and is not bounded here.                                   *)
(*****************************************************************************)
EXTENDS Integers, Sequences

CONSTANTS
  Base,         \* the number of byte values (256)
  MaxIdBytes,   \* the longest Trust Anchor ID (255)
  MaxVector,    \* the longest encoded list (65535)
  None,         \* the anchor has no ID
  Lists         \* the trust_anchor_id columns of TLS_TRUST_ANCHORS considered

Byte   == 0 .. Base - 1
Column == Seq(Seq(Byte) \cup {None})

Panics == {"panic_collect", "panic_measure", "panic_encode"}
Labels == {"count", "collect", "measure", "encode", "copy", "done"} \cup Panics

ASSUME WireAssumption ==
  /\ Base \in Nat /\ MaxIdBytes \in Nat /\ MaxVector \in Nat
  /\ MaxIdBytes < Base
  /\ None \notin Seq(Byte)
  /\ Lists \subseteq Column

VARIABLES
  anchors,    \* the IDs of TLS_TRUST_ANCHORS, None where there is none
  pc,         \* the loop being evaluated, or how evaluation ended
  index,      \* the anchor that loop looks at
  count,      \* trust_anchor_id_count, the N of the collector
  ids,        \* the array collect_trust_anchor_ids fills
  filled,     \* its id_index
  length,     \* encoded_trust_anchor_ids_len, the N of the encoder
  encoded,    \* the array encode_trust_anchor_ids fills
  offset,     \* the number of its bytes written
  copied,     \* the number of bytes of the current ID written
  ranks,      \* history: count before each anchor
  starts      \* history: length before each anchor

vars == <<anchors, pc, index, count, ids, filled, length, encoded, offset, copied, ranks, starts>>

-----------------------------------------------------------------------------
(* Pieces of the loops *)

Id == anchors[index]
HasId == Id # None

FitsPrefixLoosely(id) == Len(id) <= Base
FitsPrefix(id) == Len(id) <= MaxIdBytes

Unprefixed(id) == Len(id)
EncodedSize(id) == Len(id) + 1

(* id.len().to_le_bytes()[0] *)
SelfCounting(id) == Len(id) + 1
LengthByte(id) == Len(id) % Base

FitsLoosely(n) == n <= MaxVector + 1
FitsOuterVector(n) == n <= MaxVector

(* array[cell] = value for a zero-based cell *)
Store(array, cell, value) == [array EXCEPT ![cell + 1] = value]

Cells(n, value) == [k \in 1 .. n |-> value]

-----------------------------------------------------------------------------
Init ==
  /\ anchors \in Lists
  /\ pc = "count"
  /\ index = 1
  /\ count = 0 /\ ids = <<>> /\ filled = 0
  /\ length = 0 /\ encoded = <<>> /\ offset = 0 /\ copied = 0
  /\ ranks = <<>> /\ starts = <<>>

Loop(label) == pc = label /\ index <= Len(anchors)
LoopDone(label) == pc = label /\ index > Len(anchors)

Stop(panic) ==
  /\ pc' = panic
  /\ UNCHANGED <<anchors, index, count, ids, filled, length, encoded, offset, copied,
                 ranks, starts>>

(* trust_anchor_id_count *)
CountAnchor ==
  /\ Loop("count")
  /\ count' = IF HasId THEN count + 1 ELSE count
  /\ ranks' = Append(ranks, count)
  /\ index' = index + 1
  /\ UNCHANGED <<anchors, pc, ids, filled, length, encoded, offset, copied, starts>>

CountDone ==
  /\ LoopDone("count")
  /\ pc' = "collect"
  /\ index' = 1
  /\ ids' = Cells(count, <<>>)
  /\ UNCHANGED <<anchors, count, filled, length, encoded, offset, copied, ranks, starts>>

(* collect_trust_anchor_ids; the array may be too short or too long. *)
CollectAnchor ==
  /\ Loop("collect")
  /\ IF HasId => filled < count
     THEN /\ ids' = IF HasId THEN Store(ids, filled, Id) ELSE ids
          /\ filled' = IF HasId THEN filled + 1 ELSE filled
          /\ index' = index + 1
          /\ UNCHANGED <<anchors, pc, count, length, encoded, offset, copied, ranks, starts>>
     ELSE Stop("panic_collect")

CollectDone ==
  /\ LoopDone("collect")
  /\ pc' = IF filled = count THEN "measure" ELSE "panic_collect"
  /\ index' = 1
  /\ UNCHANGED <<anchors, count, ids, filled, length, encoded, offset, copied, ranks, starts>>

(* encoded_trust_anchor_ids_len *)
MeasureAnchor ==
  /\ Loop("measure")
  /\ HasId => Id # <<>> /\ FitsPrefix(Id)
  /\ length' = IF HasId THEN length + EncodedSize(Id) ELSE length
  /\ starts' = Append(starts, length)
  /\ index' = index + 1
  /\ UNCHANGED <<anchors, pc, count, ids, filled, encoded, offset, copied, ranks>>

MeasureBadId ==
  /\ Loop("measure")
  /\ HasId /\ (Id = <<>> \/ ~FitsPrefix(Id))
  /\ Stop("panic_measure")

MeasureDone ==
  /\ LoopDone("measure")
  /\ FitsOuterVector(length)
  /\ pc' = "encode"
  /\ index' = 1
  /\ encoded' = Cells(length, 0)
  /\ UNCHANGED <<anchors, count, ids, filled, length, offset, copied, ranks, starts>>

MeasureTooLong ==
  /\ LoopDone("measure")
  /\ ~FitsOuterVector(length)
  /\ Stop("panic_measure")

(* encode_trust_anchor_ids: the outer loop, ...                               *)
SkipAnchor ==
  /\ Loop("encode")
  /\ ~HasId
  /\ index' = index + 1
  /\ UNCHANGED <<anchors, pc, count, ids, filled, length, encoded, offset, copied,
                 ranks, starts>>

(* encoded[offset] = value; offset += 1; unless offset is out of bounds.      *)
WriteByte(value, label, position) ==
  IF offset < length
  THEN /\ encoded' = Store(encoded, offset, value)
       /\ offset' = offset + 1
       /\ pc' = label
       /\ copied' = position
       /\ UNCHANGED <<anchors, index, count, ids, filled, length, ranks, starts>>
  ELSE Stop("panic_encode")

WritePrefix ==
  /\ Loop("encode")
  /\ HasId
  /\ WriteByte(LengthByte(Id), "copy", 0)

(* ... the bytes of one ID, ...                                               *)
CopyByte ==
  /\ pc = "copy"
  /\ copied < Len(Id)
  /\ WriteByte(Id[copied + 1], "copy", copied + 1)

CopyDone ==
  /\ pc = "copy"
  /\ copied >= Len(Id)
  /\ pc' = "encode"
  /\ index' = index + 1
  /\ UNCHANGED <<anchors, count, ids, filled, length, encoded, offset, copied, ranks, starts>>

(* ... and the final assertion.                                               *)
EncodeDone ==
  /\ LoopDone("encode")
  /\ pc' = IF offset = length THEN "done" ELSE "panic_encode"
  /\ UNCHANGED <<anchors, index, count, ids, filled, length, encoded, offset, copied,
                 ranks, starts>>

Next ==
  \/ CountAnchor \/ CountDone
  \/ CollectAnchor \/ CollectDone
  \/ MeasureAnchor \/ MeasureBadId \/ MeasureDone \/ MeasureTooLong
  \/ SkipAnchor \/ WritePrefix \/ CopyByte \/ CopyDone \/ EncodeDone

Spec == Init /\ [][Next]_vars

-----------------------------------------------------------------------------
(* What surrounds the constants. *)

(* generate_component accepts the IDs of the store: validate_trust_anchor_id  *)
(* has passed each of them, and encoded_ids_len fits.                         *)
EncodedIdsLen(list) ==
  LET upTo[k \in 0 .. Len(list)] ==
        IF k = 0 THEN 0
        ELSE upTo[k - 1] + (IF list[k] = None THEN 0 ELSE 1 + Len(list[k]))
  IN upTo[Len(list)]

GeneratorAccepts(list) ==
  /\ \A k \in DOMAIN list : list[k] # None => Len(list[k]) \in 1 .. MaxIdBytes
  /\ EncodedIdsLen(list) <= MaxVector

(* decode_wire_ids: the reading of the tests and of a TLS peer; a None in the *)
(* result is the failed assertion on a zero or truncated length.              *)
DecodeWireIds(bytes) ==
  LET from[k \in 1 .. Len(bytes) + 1] ==
        IF k > Len(bytes) THEN <<>>
        ELSE IF bytes[k] = 0 \/ k + bytes[k] > Len(bytes) THEN <<None>>
        ELSE <<SubSeq(bytes, k + 1, k + bytes[k])>> \o from[k + 1 + bytes[k]]
  IN from[1]

Published(list) ==
  LET upTo[k \in 0 .. Len(list)] ==
        IF k = 0 THEN <<>>
        ELSE IF list[k] = None THEN upTo[k - 1] ELSE Append(upTo[k - 1], list[k])
  IN upTo[Len(list)]

-----------------------------------------------------------------------------
(* Properties *)

TypeOK ==
  /\ anchors \in Column
  /\ pc \in Labels
  /\ index \in 1 .. Len(anchors) + 1
  /\ count \in Nat /\ filled \in Nat
  /\ length \in Nat /\ offset \in Nat /\ copied \in Nat
  /\ ids \in Seq(Seq(Byte))
  /\ encoded \in Seq(Byte)
  /\ ranks \in Seq(Nat) /\ starts \in Seq(Nat)

(* What the constants hold is the published IDs in source order, and reading  *)
(* the encoded bytes as a TLS vector gives the same list: the length prefix,  *)
(* one byte of a usize, was never cut off (lib.rs:104-207).                   *)
RoundTrip ==
  pc = "done" => /\ ids = Published(anchors)
                 /\ DecodeWireIds(encoded) = Published(anchors)

(* The sizing passes and the filling passes agree: no array is too short, too *)
(* long or indexed out of bounds, so evaluation can only stop at the          *)
(* assertions on the data (lib.rs:135-151, 183-207).                          *)
PassesAgree == pc \notin {"panic_collect", "panic_encode"}

(* The assertions of the library agree with the limits of the generator: what *)
(* generate accepts compiles, and what compiles satisfies those limits        *)
(* (lib.rs:155-179, generator.rs:58-70, certificates.rs:53-58).               *)
CompilesIffAccepted ==
  /\ pc \in Panics => ~GeneratorAccepts(anchors)
  /\ pc = "done" => GeneratorAccepts(anchors)
=============================================================================
