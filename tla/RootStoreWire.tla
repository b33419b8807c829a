---------------------------- MODULE RootStoreWire ----------------------------
(******************************************************************************)
(* The two readings of a serialized Root Store that parse_root_store makes,   *)
(* one after the other: the schema guard of wire.rs, which slices the input   *)
(* message by message, and prost's decoder, which runs over the whole         *)
(* buffer with a limit per nested message, takes the types from the derive    *)
(* attributes of protobuf.rs, and silently skips what it does not know.       *)
(*                                                                            *)
(* One step reads one field, enters a nested message or leaves it.  A         *)
(* configuration is a position and the messages open there; the guard         *)
(* leaves its configurations in trace.  Widths are parameters: a byte has     *)
(* Base values below the continuation bit (128), a varint at most             *)
(* VarintBytes bytes (10) of which the last is at most LastGroup (1).         *)
(******************************************************************************)
EXTENDS Integers, SequencesExt

CONSTANTS
  Base, VarintBytes, LastGroup,
  MaxTag,      \* largest field number of protobuf (2^29 - 1)
  IsText(_),   \* is a byte string UTF-8?
  Inputs       \* the byte strings considered

ASSUME WireAssumption ==
  /\ Base \in Nat /\ Base > 1
  /\ VarintBytes \in Nat \ {0}
  /\ LastGroup \in 0 .. Base - 1
  /\ MaxTag \in Nat /\ MaxTag >= 12
  /\ Inputs \subseteq Seq(0 .. 2 * Base - 1)

(* The weight of each group of a varint: what index * 7 shifts by.            *)
Power[n \in 0 .. VarintBytes] == IF n = 0 THEN 1 ELSE Base * Power[n - 1]
U32 == 8 * (MaxTag + 1)
U64 == (LastGroup + 1) * Power[VarintBytes - 1]

VARIABLES
  input,     \* the bytes of crs.pb
  phase,     \* which reading is going on, or how it ended
  at,        \* the configuration of the current reading
  trace,     \* the guard's configurations, first to last
  steps,     \* the decoder's configurations so far
  partial,   \* the decoder's values of each open message
  discarded  \* has the decoder skipped a field?

vars == <<input, phase, at, trace, steps, partial, discarded>>

-----------------------------------------------------------------------------
(* The two declarations of the schema. *)

MessageKind == {"RootStore", "TrustAnchor", "ConstraintSet", "MtcAnchor"}

(* field_kind of the guard: for each message, the arms of its match. *)
ReservedToo == {6, 7, 8, 9, 10, 12}
TrustAnchorVarints == {6, 8, 9, 10, 12}

FieldKinds ==
  [RootStore     |-> {<<{1, 3}, "TrustAnchor">>, <<{2}, "Varint">>, <<{4}, "MtcAnchor">>},
   TrustAnchor   |-> {<<{1, 2, 3, 5, 11}, "Bytes">>, <<{4}, "ConstraintSet">>,
                      <<TrustAnchorVarints, "Varint">>},
   ConstraintSet |-> {<<{1, 2, 8, 9, 10, 11}, "Varint">>, <<{3, 4, 5}, "Bytes">>},
   MtcAnchor     |-> {<<{1}, "Bytes">>, <<{2}, "ConstraintSet">>, <<{3, 4}, "Varint">>}]

Declares(kind, tag, field) ==
  \E arm \in FieldKinds[kind] : tag \in arm[1] /\ field = arm[2]

WireType(field) == IF field = "Varint" THEN 0 ELSE 2

(* The derive attributes: <<tag, type, label>>; an unlabelled or optional     *)
(* scalar is "single".                                                        *)
RootStoreMessage ==
  {<<1, "TrustAnchor", "repeated">>, <<2, "int64", "single">>,
   <<3, "TrustAnchor", "repeated">>, <<4, "MtcAnchor", "repeated">>}
TrustAnchorMessage ==
  {<<1, "bytes", "oneof">>, <<2, "string", "oneof">>, <<3, "string", "repeated">>,
   <<4, "ConstraintSet", "repeated">>, <<5, "string", "single">>, <<6, "bool", "single">>,
   <<8, "bool", "single">>, <<9, "bool", "single">>, <<10, "bool", "single">>,
   <<11, "bytes", "single">>, <<12, "int32", "single">>}
ConstraintSetMessage ==
  {<<1, "int64", "single">>, <<2, "int64", "single">>, <<3, "string", "single">>,
   <<4, "string", "single">>, <<5, "string", "repeated">>, <<8, "uint64", "single">>,
   <<9, "uint64", "single">>, <<10, "int64", "single">>, <<11, "int64", "single">>}
MtcAnchorMessage ==
  {<<1, "bytes", "single">>, <<2, "ConstraintSet", "repeated">>, <<3, "bool", "single">>,
   <<4, "int32", "single">>}
Attributes ==
  [RootStore |-> RootStoreMessage, TrustAnchor |-> TrustAnchorMessage,
   ConstraintSet |-> ConstraintSetMessage, MtcAnchor |-> MtcAnchorMessage]

Numeric == {"int64", "uint64", "int32", "bool"}
ProstWireType(type) == IF type \in Numeric THEN 0 ELSE 2

-----------------------------------------------------------------------------
(* Configurations *)

Start == [pos |-> 1, open |-> <<[kind |-> "RootStore", tag |-> 0, end |-> Len(input) + 1]>>]
Inner(c) == Last(c.open)
Inside(c) == c.pos < Inner(c).end

(* The configurations after a field that is not a message, at the start of a  *)
(* nested message that ends before end, and behind a nested message.          *)
Behind(c, pos) == [c EXCEPT !.pos = pos]
Entered(c, pos, kind, tag, end) ==
  [pos |-> pos, open |-> Append(c.open, [kind |-> kind, tag |-> tag, end |-> end])]
Left(c) == [c EXCEPT !.open = Front(@)]

-----------------------------------------------------------------------------
(* read_varint of the guard on the bytes from p up to end: the lengths with   *)
(* which it succeeds, at most one.                                            *)
AnyLastByte(p, end) ==
  {n \in 1 .. VarintBytes :
     p + n <= end /\ \A k \in 0 .. n - 1 : (input[p + k] < Base) <=> (k = n - 1)}
VarintLengths(p, end) ==
  {n \in 1 .. VarintBytes :
     /\ p + n <= end
     /\ \A k \in 0 .. n - 2 : input[p + k] >= Base
     /\ input[p + n - 1] < Base
     /\ n = VarintBytes => input[p + n - 1] <= LastGroup}

(* prost's decode_varint, which sees the whole rest of the buffer.            *)
DecodeVarint(p) ==
  {n \in 1 .. VarintBytes :
     /\ p + n <= Len(input) + 1
     /\ \A k \in 0 .. n - 2 : input[p + k] >= Base
     /\ input[p + n - 1] <= (IF n = VarintBytes THEN LastGroup ELSE Base - 1)}

(* The value of the n bytes at p, least significant group first.              *)
Value(p, n) ==
  LET upTo[k \in 0 .. n] ==
        IF k = 0 THEN 0 ELSE upTo[k - 1] + (input[p + k - 1] % Base) * Power[k - 1]
  IN upTo[n]

-----------------------------------------------------------------------------
(* The guard *)

(* validate_message accepts the field at c: a key of k bytes, the field it    *)
(* declares, and a payload behind a varint of n bytes (the value itself, or   *)
(* the length of what follows).                                               *)
PayloadEnd(p, n, wire) == IF wire = 0 THEN p + n ELSE p + n + Value(p, n)

FieldValid(c, k, field, n) ==
  LET key == Value(c.pos, k)
      body == c.pos + k
  IN /\ k \in VarintLengths(c.pos, Inner(c).end)
     /\ key \div 8 \in 1 .. MaxTag
     /\ Declares(Inner(c).kind, key \div 8, field)
     /\ key % 8 = WireType(field)
     /\ n \in VarintLengths(body, Inner(c).end)
     /\ PayloadEnd(body, n, WireType(field)) \in body + n .. Inner(c).end

(* The configuration after it: inside a nested message, else behind it.       *)
NestedUnchecked(c, k, field, n) == Behind(c, PayloadEnd(c.pos + k, n, WireType(field)))
After(c, k, field, n) ==
  LET body == c.pos + k
      end == PayloadEnd(body, n, WireType(field))
  IN IF field \in MessageKind
     THEN Entered(c, body + n, field, Value(c.pos, k) \div 8, end)
     ELSE Behind(c, end)

Fields == MessageKind \cup {"Varint", "Bytes"}

Init ==
  /\ input \in Inputs
  /\ phase = "guard"
  /\ at = Start
  /\ trace = <<Start>>
  /\ steps = 0
  /\ partial = <<>>
  /\ discarded = FALSE

ScanField ==
  /\ phase = "guard"
  /\ Inside(at)
  /\ \E k \in 1 .. VarintBytes, n \in 1 .. VarintBytes, field \in Fields :
       /\ FieldValid(at, k, field, n)
       /\ at' = After(at, k, field, n)
  /\ trace' = Append(trace, at')
  /\ UNCHANGED <<input, phase, steps, partial, discarded>>

ReturnNested ==
  /\ phase = "guard"
  /\ ~Inside(at)
  /\ Len(at.open) > 1
  /\ at' = Left(at)
  /\ trace' = Append(trace, at')
  /\ UNCHANGED <<input, phase, steps, partial, discarded>>

Refuse ==
  /\ phase = "guard"
  /\ Inside(at)
  /\ \A k \in 1 .. VarintBytes, n \in 1 .. VarintBytes, field \in Fields :
       ~FieldValid(at, k, field, n)
  /\ phase' = "refused"
  /\ UNCHANGED <<input, at, trace, steps, partial, discarded>>

-----------------------------------------------------------------------------
(* The decoder *)

(* prost reads the field at c: a key that fits u32 (its tag is at most        *)
(* MaxTag), a length that fits the buffer, and for a field the                *)
(* attributes declare, the wire type of its type and UTF-8 in a string.       *)
(* Unknown fields have wire type 0 or 2 here: no other passes the guard.      *)
Typed(c, tag) == {a \in Attributes[Inner(c).kind] : a[1] = tag}
Payload(body, n) == SubSeq(input, body + n, body + n + Value(body, n) - 1)

Decodable(c, k, n) ==
  LET key == Value(c.pos, k)
      body == c.pos + k
  IN /\ k \in DecodeVarint(c.pos)
     /\ key \div 8 \in 1 .. MaxTag
     /\ key % 8 \in {0, 2}
     /\ \A a \in Typed(c, key \div 8) : key % 8 = ProstWireType(a[2])
     /\ n \in DecodeVarint(body)
     /\ PayloadEnd(body, n, key % 8) \in body + n .. Len(input) + 1
     /\ \A a \in Typed(c, key \div 8) : a[2] = "string" => IsText(Payload(body, n))

(* What prost makes of a varint: truncated to the type's width, two's         *)
(* complement for the signed types.                                           *)
Signed(v, modulus) ==
  LET low == v % modulus IN IF 2 * low >= modulus THEN low - modulus ELSE low
Numeral(type, v) ==
  CASE type = "bool"   -> v # 0
    [] type = "int32"  -> Signed(v, U32)
    [] type = "int64"  -> Signed(v, U64)
    [] type = "uint64" -> v

Scalar(type, body, n) ==
  IF type \in Numeric THEN Numeral(type, Value(body, n)) ELSE Payload(body, n)

(* A message is the sequence of values of each field: all of a repeated one,  *)
(* at most one otherwise, and at most one of the alternatives of a oneof.     *)
Empty == [tag \in 1 .. 12 |-> <<>>]
Oneof == {1, 2}

FirstKept(message, tag, label, value) ==
  [t \in DOMAIN message |->
     IF t = tag /\ (label = "repeated" \/ message[t] = <<>>)
     THEN Append(message[t], value)
     ELSE message[t]]
Merge(message, tag, label, value) ==
  [t \in DOMAIN message |->
     IF t = tag THEN IF label = "repeated" THEN Append(message[t], value) ELSE <<value>>
     ELSE IF label = "oneof" /\ t \in Oneof THEN <<>> ELSE message[t]]

PushedAside(tag, label, value) == Append(partial, Merge(Last(partial), tag, label, value))
MergeInner(tag, label, value) ==
  Append(Front(partial), Merge(Last(partial), tag, label, value))

(* validate_root_store returned Ok: RootStoreMessage::decode begins. *)
Accept ==
  /\ phase = "guard"
  /\ ~Inside(at)
  /\ Len(at.open) = 1
  /\ phase' = "decode"
  /\ at' = Start
  /\ steps' = 1
  /\ partial' = <<Empty>>
  /\ UNCHANGED <<input, trace, discarded>>

DecodeField ==
  /\ phase = "decode"
  /\ Inside(at)
  /\ \E k \in 1 .. VarintBytes, n \in 1 .. VarintBytes :
       LET key == Value(at.pos, k)
           tag == key \div 8
           body == at.pos + k
           end == PayloadEnd(body, n, key % 8)
           typed == Typed(at, tag)
           nested == {a \in typed : a[2] \in MessageKind}
       IN /\ Decodable(at, k, n)
          /\ at' = IF nested = {} THEN Behind(at, end)
                   ELSE Entered(at, body + n, (CHOOSE a \in nested : TRUE)[2], tag, end)
          /\ partial' = IF nested # {} THEN Append(partial, Empty)
                        ELSE IF typed = {} THEN partial
                        ELSE LET a == CHOOSE a \in typed : TRUE
                             IN MergeInner(tag, a[3], Scalar(a[2], body, n))
          /\ discarded' = (discarded \/ typed = {})
  /\ steps' = steps + 1
  /\ UNCHANGED <<input, phase, trace>>

LeaveNested ==
  /\ phase = "decode"
  /\ at.pos = Inner(at).end
  /\ Len(at.open) > 1
  /\ at' = Left(at)
  /\ LET parent == partial[Len(partial) - 1]
     IN partial' = Append(SubSeq(partial, 1, Len(partial) - 2),
                          Merge(parent, Inner(at).tag, "repeated", Last(partial)))
  /\ steps' = steps + 1
  /\ UNCHANGED <<input, phase, trace, discarded>>

(* A field that cannot be read, or a nested message that overran its limit.   *)
DecodeFails ==
  /\ phase = "decode"
  /\ at.pos # Inner(at).end
  /\ Inside(at) => \A k \in 1 .. VarintBytes, n \in 1 .. VarintBytes : ~Decodable(at, k, n)
  /\ phase' = "undecodable"
  /\ UNCHANGED <<input, at, trace, steps, partial, discarded>>

Decoded ==
  /\ phase = "decode"
  /\ at.pos = Inner(at).end
  /\ Len(at.open) = 1
  /\ phase' = "decoded"
  /\ UNCHANGED <<input, at, trace, steps, partial, discarded>>

Next ==
  \/ ScanField \/ ReturnNested \/ Refuse \/ Accept
  \/ DecodeField \/ LeaveNested \/ DecodeFails \/ Decoded

Spec == Init /\ [][Next]_vars

-----------------------------------------------------------------------------
(* Properties *)

Frame == [kind : MessageKind, tag : 0 .. MaxTag, end : Nat]
Configuration == [pos : Nat \ {0}, open : Seq(Frame) \ {<<>>}]

TypeOK ==
  /\ input \in Seq(0 .. 2 * Base - 1)
  /\ phase \in {"guard", "refused", "decode", "decoded", "undecodable"}
  /\ at \in Configuration
  /\ trace \in Seq(Configuration) \ {<<>>}
  /\ steps \in Nat
  /\ Len(partial) = (IF steps = 0 THEN 0 ELSE Len(at.open))
  /\ discarded \in BOOLEAN

(* The grammar of a serialized message, read off the wire format: is          *)
(* input[i .. j - 1] a message of this kind?                                  *)
IsVarint(i, j) ==
  /\ j - i \in 1 .. VarintBytes
  /\ \A k \in i .. j - 1 : (input[k] < Base) <=> (k = j - 1)
  /\ Value(i, j - i) < U64

WellFormed ==
  LET Here == 1 .. Len(input) + 1
      message[span \in MessageKind \X Here \X Here] ==
        LET i == span[2]
            j == span[3]
        IN \/ i = j
           \/ \E b, e \in i + 1 .. j :
                /\ IsVarint(i, b)
                /\ e > b
                /\ \E arm \in FieldKinds[span[1]] :
                     /\ Value(i, b - i) \in {8 * tag + WireType(arm[2]) : tag \in arm[1]}
                     /\ IF arm[2] = "Varint" THEN IsVarint(b, e)
                        ELSE \E p \in b + 1 .. e :
                               /\ IsVarint(b, p) /\ Value(b, p - b) = e - p
                               /\ arm[2] \in MessageKind => message[<<arm[2], p, e>>]
                /\ message[<<span[1], e, j>>]
  IN message[<<"RootStore", 1, Len(input) + 1>>]

(* The guard accepts exactly the byte strings that are a Root Store down to   *)
(* the last nested field: nothing is skipped, cut, or read past its message,  *)
(* at the varint and length boundaries too (wire.rs:54-156).                  *)
AcceptedIffWellFormed == phase # "guard" => (phase # "refused" <=> WellFormed)

(* "Prost ... intentionally discards unknown fields. This scanner validates   *)
(* field numbers and wire types first ... so a new Chromium policy field      *)
(* cannot be ignored silently": two declarations of one schema, in two files  *)
(* (wire.rs:3-5, 99-125; protobuf.rs:16-155).                                 *)
NothingDiscarded == ~discarded

(* The decoder goes through the guard's configurations one by one and ends    *)
(* with the last: both read the same fields in the same messages, although    *)
(* one slices its input and the other counts down a limit.                    *)
Retraces ==
  /\ phase \in {"decode", "undecodable", "decoded"} =>
       steps \in 1 .. Len(trace) /\ at = trace[steps]
  /\ phase = "decoded" => steps = Len(trace)

(* After the guard only text can make decoding fail: parse_root_store's       *)
(* "failed to decode crs.pb" is a string field that is not UTF-8.             *)
UnreadableText(c) ==
  \E k \in VarintLengths(c.pos, Inner(c).end), n \in 1 .. VarintBytes :
    /\ n \in VarintLengths(c.pos + k, Inner(c).end)
    /\ \E a \in Typed(c, Value(c.pos, k) \div 8) : a[2] = "string"
    /\ ~IsText(Payload(c.pos + k, n))

FailsOnlyOnText == phase = "undecodable" => UnreadableText(at)

(* The two declarations of the schema agree: what the guard lets through, the *)
(* decoder knows field by field and rejects for its text only.                *)
FullyDecoded == NothingDiscarded /\ FailsOnlyOnText

(* The meaning of an accepted message.  The field that begins at i, if the    *)
(* message goes on to j: its payload is behind the varint at "at".            *)
FieldsAt(i, j) ==
  LET item(b, p) == [tag |-> Value(i, b - i) \div 8, at |-> b, from |-> p,
                     end |-> IF Value(i, b - i) % 8 = 0 THEN p ELSE p + Value(b, p - b)]
      varints == {v \in (i + 1 .. j) \X (i + 1 .. j) : IsVarint(i, v[1]) /\ IsVarint(v[1], v[2])}
  IN {x \in {item(v[1], v[2]) : v \in varints} : x.end <= j}

(* The fields with these tags, in order, from i up to j.                      *)
Occurrences(tags, i, j) ==
  LET found[h \in 1 .. Len(input) + 1] ==
        IF FieldsAt(h, j) = {} THEN <<>>
        ELSE LET x == CHOOSE x \in FieldsAt(h, j) : TRUE
             IN (IF x.tag \in tags THEN <<x>> ELSE <<>>) \o found[x.end]
  IN found[i]

(* Of each field all occurrences, the last one, or the last of the            *)
(* alternatives; messages tells what the nested ones mean.                    *)
MessageAt(messages, kind, i, j) ==
  LET Read(type, x) == IF type \in MessageKind THEN messages[<<type, x.from, x.end>>]
                       ELSE Scalar(type, x.at, x.from - x.at)
      Kept(a) ==
        LET all == Occurrences(IF a[3] = "oneof" THEN Oneof ELSE {a[1]}, i, j)
        IN IF a[3] = "repeated" THEN [x \in DOMAIN all |-> Read(a[2], all[x])]
           ELSE IF all # <<>> /\ Last(all).tag = a[1] THEN <<Read(a[2], Last(all))>>
           ELSE <<>>
  IN [tag \in 1 .. 12 |->
        LET typed == {a \in Attributes[kind] : a[1] = tag}
        IN IF typed = {} THEN <<>> ELSE Kept(CHOOSE a \in typed : TRUE)]

Meaning ==
  LET Here == 1 .. Len(input) + 1
      message[span \in MessageKind \X Here \X Here] ==
        MessageAt(message, span[1], span[2], span[3])
  IN message[<<"RootStore", 1, Len(input) + 1>>]

(* A singular field that occurs again replaces the earlier value, a oneof     *)
(* alternative replaces the other, and repeated fields keep every occurrence  *)
(* in order, at every level: a conversion that asks whether a field is        *)
(* present sees it wherever it occurred (protobuf.rs:16-155, 234-245).        *)
DecodesLastOccurrence == phase = "decoded" => partial = <<Meaning>>
=============================================================================
