------------------------ MODULE CheckedInFiles_proofs ------------------------
(******************************************************************************)
(* The two parsers of `generate`, for files of any length.                    *)
(*                                                                            *)
(* crs.pb, for any widths and any definition of text: what the guard          *)
(* accepted, the decoder reads field by field the same way and in full.  The  *)
(* invariant keeps the guard's trace connected: each of its configurations is *)
(* well nested and leads to the next by one step of the guard, and the        *)
(* decoder stands on one of them.  While the guard reads, the input belongs   *)
(* to the grammar of the wire format exactly if the rest of every open        *)
(* message does, so that the guard accepts that grammar and nothing else.     *)
(* While the decoder reads, what it holds of every open message, continued    *)
(* with the meaning of the rest, leads to the meaning of the input.           *)
(*                                                                            *)
(* SOURCE.toml: what the slots hold is what the lines read so far say, each   *)
(* field on one of them; what is on disk after a write is the lock of valid   *)
(* provenance, its beginning, or the lock with the end of another behind it.  *)
(* The lock is a text of whole lines, none of which has anything the parser   *)
(* would cut, trim or refuse.                                                 *)
(*                                                                            *)
(* A behaviour of MCCheckedInFiles is one parser's while the other stays      *)
(* where it starts; each parser's own specification is a projection of it.    *)
(******************************************************************************)
EXTENDS MCCheckedInFiles, WellFoundedInduction, TLAPS

GuardStep(c, d) ==
  \/ /\ Inside(c)
     /\ \E k \in 1 .. VarintBytes, n \in 1 .. VarintBytes, field \in Fields :
          FieldValid(c, k, field, n) /\ d = After(c, k, field, n)
  \/ /\ ~Inside(c)
     /\ Len(c.open) > 1
     /\ d = Left(c)

(* The position is inside every open message, and each of them inside the     *)
(* one around it and the buffer.                                              *)
Nested(c) ==
  /\ c \in Configuration
  /\ c.pos <= Inner(c).end
  /\ \A i, j \in 1 .. Len(c.open) : i <= j => c.open[j].end <= c.open[i].end
  /\ c.open[1].end <= Len(input) + 1

Connected ==
  /\ \A i \in 1 .. Len(trace) : Nested(trace[i])
  /\ \A i \in 1 .. Len(trace) - 1 : GuardStep(trace[i], trace[i + 1])

Closed(c) == ~Inside(c) /\ Len(c.open) = 1

Accepted == phase \in {"decode", "undecodable", "decoded"}

WireInv ==
  /\ TypeOK
  /\ \E S : partial \in Seq(S)
  /\ Connected
  /\ trace[1] = Start
  /\ ~Accepted => steps = 0 /\ at = trace[Len(trace)]
  /\ Accepted => Closed(trace[Len(trace)])
  /\ Retraces
  /\ NothingDiscarded
  /\ FailsOnlyOnText

-----------------------------------------------------------------------------
(* A varint the guard reads in a slice of the input is the only one the       *)
(* decoder can read at that position of the buffer.                           *)
LEMMA SameVarint ==
  ASSUME input \in Seq(0 .. 2 * Base - 1),
         NEW p \in Nat \ {0}, NEW end \in Nat, end <= Len(input) + 1,
         NEW n \in VarintLengths(p, end)
  PROVE  /\ n \in DecodeVarint(p)
         /\ \A m \in DecodeVarint(p) : m = n
<1> USE WireAssumption
<1>1. /\ n \in 1 .. VarintBytes /\ p + n <= end
      /\ \A k \in 0 .. n - 2 : input[p + k] >= Base
      /\ input[p + n - 1] < Base
      /\ n = VarintBytes => input[p + n - 1] <= LastGroup
  BY DEF VarintLengths
<1>2. input[p + n - 1] \in 0 .. 2 * Base - 1
  BY <1>1
<1>3. n \in DecodeVarint(p)
  BY <1>1, <1>2 DEF DecodeVarint
<1>4. ASSUME NEW m \in DecodeVarint(p)
      PROVE  m = n
  <2>1. /\ m \in 1 .. VarintBytes /\ p + m <= Len(input) + 1
        /\ \A k \in 0 .. m - 2 : input[p + k] >= Base
        /\ input[p + m - 1] <= (IF m = VarintBytes THEN LastGroup ELSE Base - 1)
    BY <1>4 DEF DecodeVarint
  <2>2. input[p + m - 1] \in 0 .. 2 * Base - 1
    BY <2>1
  <2>3. ~(m < n)
    <3>1. SUFFICES ASSUME m < n PROVE FALSE
      OBVIOUS
    <3>2. m - 1 \in 0 .. n - 2 /\ p + (m - 1) = p + m - 1
      BY <1>1, <2>1, <3>1
    <3>3. input[p + m - 1] >= Base
      BY <1>1, <3>2
    <3> QED BY <2>1, <2>2, <3>3
  <2>4. ~(n < m)
    <3>1. SUFFICES ASSUME n < m PROVE FALSE
      OBVIOUS
    <3>2. n - 1 \in 0 .. m - 2 /\ p + (n - 1) = p + n - 1
      BY <1>1, <2>1, <3>1
    <3>3. input[p + n - 1] >= Base
      BY <2>1, <3>2
    <3> QED BY <1>1, <1>2, <3>3
  <2> QED BY <1>1, <2>1, <2>3, <2>4
<1> QED BY <1>3, <1>4

(* The two declarations of the schema agree: a field the guard knows has one  *)
(* attribute, of the same wire type, and it is the same message or neither is *)
(* one.                                                                       *)
Matches(a, tag, field) ==
  /\ a[1] = tag
  /\ ProstWireType(a[2]) = WireType(field)
  /\ IF field \in MessageKind THEN a[2] = field ELSE a[2] \notin MessageKind

LEMMA AttributesByTag ==
  ASSUME NEW kind \in MessageKind, NEW a \in Attributes[kind], NEW b \in Attributes[kind],
         a[1] = b[1]
  PROVE  a = b
<1>1. CASE kind = "RootStore"
  BY <1>1 DEF Attributes, RootStoreMessage
<1>2. CASE kind = "TrustAnchor"
  BY <1>2 DEF Attributes, TrustAnchorMessage
<1>3. CASE kind = "ConstraintSet"
  BY <1>3 DEF Attributes, ConstraintSetMessage
<1>4. CASE kind = "MtcAnchor"
  BY <1>4 DEF Attributes, MtcAnchorMessage
<1> QED BY <1>1, <1>2, <1>3, <1>4 DEF MessageKind

LEMMA SchemasAgree ==
  ASSUME NEW kind \in MessageKind, NEW tag, NEW field, Declares(kind, tag, field)
  PROVE  \E a \in Attributes[kind] :
           Matches(a, tag, field) /\ \A b \in Attributes[kind] : b[1] = tag => b = a
<1> SUFFICES \E a \in Attributes[kind] : Matches(a, tag, field)
  BY AttributesByTag DEF Matches
<1>1. PICK arm \in FieldKinds[kind] : tag \in arm[1] /\ field = arm[2]
  BY DEF Declares
<1> USE DEF Matches, MessageKind, WireType, ProstWireType, Numeric
<1>2. CASE kind = "RootStore"
  <2>1. FieldKinds[kind] =
          {<<{1, 3}, "TrustAnchor">>, <<{2}, "Varint">>, <<{4}, "MtcAnchor">>}
    BY <1>2 DEF FieldKinds
  <2>2. Attributes[kind] = RootStoreMessage
    BY <1>2 DEF Attributes
  <2>3. \/ tag \in {1, 3} /\ field = "TrustAnchor"
        \/ tag = 2 /\ field = "Varint"
        \/ tag = 4 /\ field = "MtcAnchor"
    BY <1>1, <2>1
  <2> QED BY <2>2, <2>3 DEF RootStoreMessage
<1>3. CASE kind = "TrustAnchor"
  <2>1. FieldKinds[kind] =
          {<<{1, 2, 3, 5, 11}, "Bytes">>, <<{4}, "ConstraintSet">>,
           <<{6, 8, 9, 10, 12}, "Varint">>}
    BY <1>3 DEF FieldKinds, TrustAnchorVarints
  <2>2. Attributes[kind] = TrustAnchorMessage
    BY <1>3 DEF Attributes
  <2>3. \/ tag \in {1, 2, 3, 5, 11} /\ field = "Bytes"
        \/ tag = 4 /\ field = "ConstraintSet"
        \/ tag \in {6, 8, 9, 10, 12} /\ field = "Varint"
    BY <1>1, <2>1
  <2>4. CASE tag \in {1, 2, 3, 4, 5}
    BY <2>2, <2>3, <2>4 DEF TrustAnchorMessage
  <2>5. CASE tag \in {6, 8, 9, 10, 11, 12}
    BY <2>2, <2>3, <2>5 DEF TrustAnchorMessage
  <2> QED BY <2>3, <2>4, <2>5
<1>4. CASE kind = "ConstraintSet"
  <2>1. FieldKinds[kind] = {<<{1, 2, 8, 9, 10, 11}, "Varint">>, <<{3, 4, 5}, "Bytes">>}
    BY <1>4 DEF FieldKinds
  <2>2. Attributes[kind] = ConstraintSetMessage
    BY <1>4 DEF Attributes
  <2>3. \/ tag \in {1, 2, 8, 9, 10, 11} /\ field = "Varint"
        \/ tag \in {3, 4, 5} /\ field = "Bytes"
    BY <1>1, <2>1
  <2> QED BY <2>2, <2>3 DEF ConstraintSetMessage
<1>5. CASE kind = "MtcAnchor"
  <2>1. FieldKinds[kind] =
          {<<{1}, "Bytes">>, <<{2}, "ConstraintSet">>, <<{3, 4}, "Varint">>}
    BY <1>5 DEF FieldKinds
  <2>2. Attributes[kind] = MtcAnchorMessage
    BY <1>5 DEF Attributes
  <2>3. \/ tag = 1 /\ field = "Bytes"
        \/ tag = 2 /\ field = "ConstraintSet"
        \/ tag \in {3, 4} /\ field = "Varint"
    BY <1>1, <2>1
  <2> QED BY <2>2, <2>3 DEF MtcAnchorMessage
<1> QED BY <1>2, <1>3, <1>4, <1>5

-----------------------------------------------------------------------------
(* Facts about configurations. *)

LEMMA StartNested ==
  ASSUME input \in Seq(0 .. 2 * Base - 1)
  PROVE  Nested(Start)
<1>1. Start.open = <<[kind |-> "RootStore", tag |-> 0, end |-> Len(input) + 1]>>
  BY DEF Start
<1>2. Start \in Configuration /\ Inner(Start).end = Len(input) + 1
  BY <1>1, WireAssumption DEF Start, Configuration, Frame, Inner, Last, MessageKind
<1> QED BY <1>1, <1>2 DEF Start, Nested

LEMMA InnerEnd ==
  ASSUME NEW c, Nested(c), input \in Seq(0 .. 2 * Base - 1)
  PROVE  /\ c.pos \in Nat \ {0} /\ c.pos <= Inner(c).end
         /\ c.open \in Seq(Frame) /\ Len(c.open) \in Nat \ {0}
         /\ Inner(c) \in Frame
         /\ Inner(c).kind \in MessageKind
         /\ Inner(c).end \in Nat /\ Inner(c).end <= Len(input) + 1
<1>1. c \in Configuration
  BY DEF Nested
<1>2. /\ c.pos \in Nat \ {0} /\ c.pos <= Inner(c).end
      /\ c.open \in Seq(Frame) /\ Len(c.open) \in Nat \ {0}
  BY <1>1 DEF Nested, Configuration
<1>3. Inner(c) = c.open[Len(c.open)] /\ Inner(c) \in Frame
  BY <1>2 DEF Inner, Last
<1>4. Inner(c).end <= c.open[1].end /\ c.open[1].end <= Len(input) + 1
  BY <1>2, <1>3 DEF Nested
<1>5. c.open[1] \in Frame
  BY <1>2
<1> QED BY <1>2, <1>3, <1>4, <1>5 DEF Frame

LEMMA AfterNested ==
  ASSUME NEW c, Nested(c), input \in Seq(0 .. 2 * Base - 1),
         NEW k \in 1 .. VarintBytes, NEW n \in 1 .. VarintBytes, NEW field \in Fields,
         FieldValid(c, k, field, n)
  PROVE  Nested(After(c, k, field, n))
<1> DEFINE body == c.pos + k
           end == PayloadEnd(body, n, WireType(field))
           tag == Value(c.pos, k) \div 8
<1> USE WireAssumption
<1>1. tag \in 1 .. MaxTag /\ end \in body + n .. Inner(c).end
  BY DEF FieldValid
<1>2. /\ c.pos \in Nat \ {0} /\ c.open \in Seq(Frame) /\ Len(c.open) \in Nat \ {0}
      /\ Inner(c).end \in Nat /\ Inner(c) = c.open[Len(c.open)]
      /\ Inner(c).end <= Len(input) + 1
  BY InnerEnd DEF Inner, Last
<1>0. body \in Nat \ {0}
  BY <1>2
<1> HIDE DEF body, end, tag
<1>3. body + n \in Nat \ {0} /\ end \in Nat \ {0} /\ body + n <= end /\ end <= Inner(c).end
  BY <1>0, <1>1, <1>2
<1>4. c \in [pos : Nat \ {0}, open : Seq(Frame) \ {<<>>}]
  BY DEF Nested, Configuration
<1>5. CASE field \in MessageKind
  <2> DEFINE d == Entered(c, body + n, field, tag, end)
             frame == [kind |-> field, tag |-> tag, end |-> end]
  <2>1. After(c, k, field, n) = d
    BY <1>5 DEF After, body, end, tag
  <2>2. frame \in Frame
    BY <1>1, <1>3, <1>5 DEF Frame
  <2>3. /\ d.pos = body + n
        /\ d.open = Append(c.open, frame) /\ d.open \in Seq(Frame)
        /\ Len(d.open) = Len(c.open) + 1
        /\ \A i \in 1 .. Len(c.open) : d.open[i] = c.open[i]
        /\ d.open[Len(c.open) + 1] = frame
    BY <1>2, <2>2 DEF Entered
  <2>4. d \in Configuration
    <3>1. d = [pos |-> body + n, open |-> d.open]
      BY <2>3 DEF Entered
    <3>2. d.open # <<>>
      BY <1>2, <2>3
    <3> HIDE DEF d
    <3> QED BY <1>3, <2>3, <3>1, <3>2 DEF Configuration
  <2>5. Inner(d) = frame
    BY <1>2, <2>3 DEF Inner, Last
  <2> HIDE DEF d
  <2>6. ASSUME NEW i \in 1 .. Len(d.open), NEW j \in 1 .. Len(d.open), i <= j
        PROVE  d.open[j].end <= d.open[i].end
    <3>0. i \in 1 .. Len(c.open) + 1 /\ j \in 1 .. Len(c.open) + 1
      BY <2>3
    <3>1. CASE j <= Len(c.open)
      <4>1. i \in 1 .. Len(c.open) /\ j \in 1 .. Len(c.open)
        BY <1>2, <2>6, <3>0, <3>1
      <4>2. c.open[j].end <= c.open[i].end
        BY <2>6, <4>1 DEF Nested
      <4> QED BY <2>3, <4>1, <4>2
    <3>2. CASE j = Len(c.open) + 1 /\ i <= Len(c.open)
      <4>0. i \in 1 .. Len(c.open) /\ Len(c.open) \in 1 .. Len(c.open)
        BY <1>2, <3>0, <3>2
      <4>1. Inner(c).end <= c.open[i].end
        BY <1>2, <4>0 DEF Nested
      <4>2. c.open[i] \in Frame
        BY <1>2, <4>0
      <4>3. c.open[i].end \in Nat
        BY <4>2 DEF Frame
      <4>4. d.open[j].end = end
        BY <2>3, <3>2
      <4>5. d.open[i] = c.open[i]
        BY <2>3, <4>0
      <4>6. end <= c.open[i].end
        BY <1>2, <1>3, <4>1, <4>3
      <4> QED BY <4>4, <4>5, <4>6
    <3>3. CASE i = Len(c.open) + 1
      <4>1. j = Len(c.open) + 1
        BY <1>2, <2>6, <3>0, <3>3
      <4>2. d.open[i].end = end /\ d.open[j].end = end
        BY <2>3, <3>3, <4>1
      <4> HIDE DEF frame
      <4> QED BY <1>3, <4>2
    <3> QED BY <1>2, <3>0, <3>1, <3>2, <3>3
  <2>7. d.open[1].end <= Len(input) + 1
    <3>1. 1 \in 1 .. Len(c.open)
      BY <1>2
    <3> QED BY <2>3, <3>1 DEF Nested
  <2> QED BY <1>3, <2>1, <2>3, <2>4, <2>5, <2>6, <2>7 DEF Nested
<1>6. CASE field \notin MessageKind
  <2>1. After(c, k, field, n) = [c EXCEPT !.pos = end]
    BY <1>6 DEF After, Behind, body, end, tag
  <2>2. /\ [c EXCEPT !.pos = end] \in Configuration
        /\ [c EXCEPT !.pos = end].pos = end /\ [c EXCEPT !.pos = end].open = c.open
    BY <1>3, <1>4 DEF Configuration
  <2> QED BY <1>2, <1>3, <2>1, <2>2 DEF Nested, Inner
<1> QED BY <1>5, <1>6

LEMMA LeftNested ==
  ASSUME NEW c, Nested(c), input \in Seq(0 .. 2 * Base - 1), ~Inside(c), Len(c.open) > 1
  PROVE  Nested(Left(c)) /\ Len(Left(c).open) = Len(c.open) - 1
<1> DEFINE m == Len(c.open) - 1
           d == Left(c)
<1>1. /\ c.pos \in Nat \ {0} /\ c.open \in Seq(Frame) /\ m \in Nat \ {0}
      /\ Len(c.open) = m + 1
      /\ Inner(c).end \in Nat /\ Inner(c) = c.open[Len(c.open)] /\ c.pos <= Inner(c).end
  BY InnerEnd DEF Inner, Last
<1>2. c \in [pos : Nat \ {0}, open : Seq(Frame) \ {<<>>}]
  BY DEF Nested, Configuration
<1>3. d.pos = c.pos /\ d.open = SubSeq(c.open, 1, m)
  BY <1>2 DEF Left, Front
<1>4. d = [pos |-> d.pos, open |-> d.open]
  BY <1>2 DEF Left
<1> HIDE DEF d, m
<1>5. /\ d.open \in Seq(Frame) /\ Len(d.open) = m
      /\ \A i \in 1 .. m : d.open[i] = c.open[i]
  BY <1>1, <1>3
<1>6. d \in Configuration
  <2>1. d.open # <<>>
    BY <1>1, <1>5
  <2> QED BY <1>1, <1>3, <1>4, <1>5, <2>1 DEF Configuration
<1>7. Inner(d) = c.open[m]
  BY <1>1, <1>5 DEF Inner, Last
<1>8. \A i \in 1 .. m : i \in 1 .. Len(c.open)
  BY <1>1
<1>9. \A i, j \in 1 .. m : i <= j => d.open[j].end <= d.open[i].end
  BY <1>5, <1>8 DEF Nested
<1>10. c.pos <= c.open[m].end
  <2>1. m \in 1 .. Len(c.open) /\ m + 1 \in 1 .. Len(c.open) /\ m <= m + 1
    BY <1>1
  <2>2. c.open[m + 1].end <= c.open[m].end
    BY <2>1 DEF Nested
  <2>3. c.open[m] \in Frame
    BY <1>1, <2>1
  <2>4. c.open[m].end \in Nat
    BY <2>3 DEF Frame
  <2>5. Inner(c).end <= c.open[m].end
    BY <1>1, <2>2
  <2> QED BY <1>1, <2>4, <2>5
<1>11. d.open[1].end <= Len(input) + 1
  BY <1>1, <1>5 DEF Nested
<1>12. Nested(d)
  BY <1>3, <1>5, <1>6, <1>7, <1>9, <1>10, <1>11 DEF Nested
<1> QED BY <1>1, <1>5, <1>12 DEF d, m

-----------------------------------------------------------------------------
(* The input is read, never written: what depends on it alone stays as it is. *)

LEMMA InputFrame ==
  ASSUME UNCHANGED input
  PROVE  /\ \A c : Nested(c)' <=> Nested(c)
         /\ \A c, d : GuardStep(c, d)' <=> GuardStep(c, d)
         /\ \A c : UnreadableText(c)' <=> UnreadableText(c)
<1>1. ASSUME NEW p, NEW n PROVE Value(p, n)' = Value(p, n)
  BY DEF Value
<1>2. ASSUME NEW p, NEW n PROVE VarintLengths(p, n)' = VarintLengths(p, n)
  BY DEF VarintLengths
<1>3. ASSUME NEW c, NEW k, NEW field, NEW n
      PROVE  /\ FieldValid(c, k, field, n)' <=> FieldValid(c, k, field, n)
             /\ After(c, k, field, n)' = After(c, k, field, n)
  BY <1>1, <1>2 DEF FieldValid, After, Behind, Entered, PayloadEnd, Inner, Declares
<1>4. ASSUME NEW c PROVE Nested(c)' <=> Nested(c)
  BY DEF Nested, Inner, Configuration, Frame
<1>5. ASSUME NEW c, NEW d PROVE GuardStep(c, d)' <=> GuardStep(c, d)
  BY <1>3 DEF GuardStep, Inside, Inner, Left
<1>6. ASSUME NEW p, NEW n PROVE Payload(p, n)' = Payload(p, n)
  BY <1>1 DEF Payload
<1>7. ASSUME NEW c PROVE UnreadableText(c)' <=> UnreadableText(c)
  BY <1>1, <1>2, <1>6 DEF UnreadableText, Inner, Typed
<1> QED BY <1>4, <1>5, <1>7

LEMMA ConnectedFrame ==
  Connected /\ UNCHANGED <<input, trace>> => Connected' /\ (trace[1] = Start => (trace[1] = Start)')
BY InputFrame DEF Connected, Start

(* What the decoder does to its stack of messages: push one, replace the top  *)
(* one, or replace the two on top by one.                                     *)
LEMMA StackSteps ==
  ASSUME NEW s, \E S : s \in Seq(S), NEW x
  PROVE  /\ Len(Append(s, x)) = Len(s) + 1 /\ \E S : Append(s, x) \in Seq(S)
         /\ Len(s) >= 1 => /\ Len(Append(Front(s), x)) = Len(s)
                            /\ \E S : Append(Front(s), x) \in Seq(S)
         /\ Len(s) >= 2 => /\ Len(Append(SubSeq(s, 1, Len(s) - 2), x)) = Len(s) - 1
                            /\ \E S : Append(SubSeq(s, 1, Len(s) - 2), x) \in Seq(S)
<1>1. PICK S : s \in Seq(S)
  OBVIOUS
<1> DEFINE T == S \cup {x}
<1>2. s \in Seq(T) /\ x \in T /\ Len(s) \in Nat
  BY <1>1
<1> HIDE DEF T
<1>3. Append(s, x) \in Seq(T) /\ Len(Append(s, x)) = Len(s) + 1
  BY <1>2
<1>4. ASSUME NEW m \in 0 .. Len(s)
      PROVE  /\ Append(SubSeq(s, 1, m), x) \in Seq(T)
             /\ Len(Append(SubSeq(s, 1, m), x)) = m + 1
  <2>1. SubSeq(s, 1, m) \in Seq(T) /\ Len(SubSeq(s, 1, m)) = m
    BY <1>2
  <2> QED BY <1>2, <2>1
<1>5. ASSUME Len(s) >= 1
      PROVE  Append(Front(s), x) \in Seq(T) /\ Len(Append(Front(s), x)) = Len(s)
  <2>1. Len(s) - 1 \in 0 .. Len(s) /\ (Len(s) - 1) + 1 = Len(s)
    BY <1>2, <1>5
  <2> QED BY <1>4, <2>1 DEF Front
<1>6. ASSUME Len(s) >= 2
      PROVE  /\ Append(SubSeq(s, 1, Len(s) - 2), x) \in Seq(T)
             /\ Len(Append(SubSeq(s, 1, Len(s) - 2), x)) = Len(s) - 1
  <2>1. Len(s) - 2 \in 0 .. Len(s) /\ (Len(s) - 2) + 1 = Len(s) - 1
    BY <1>2, <1>6
  <2> QED BY <1>4, <2>1
<1> QED BY <1>3, <1>5, <1>6, Zenon

(* The guard's steps extend the trace.                                        *)
LEMMA TraceGrows ==
  ASSUME TypeOK, Connected, at = trace[Len(trace)],
         NEW d, Nested(d), GuardStep(at, d), trace' = Append(trace, d), UNCHANGED input
  PROVE  /\ trace' \in Seq(Configuration) \ {<<>>}
         /\ trace'[Len(trace')] = d
         /\ trace'[1] = trace[1]
         /\ Connected'
<1> DEFINE m == Len(trace)
<1>1. trace \in Seq(Configuration) /\ m \in Nat \ {0} /\ at = trace[m]
  BY DEF TypeOK
<1>2. d \in Configuration
  BY DEF Nested
<1>3. /\ trace' \in Seq(Configuration) \ {<<>>} /\ Len(trace') = m + 1 /\ trace'[m + 1] = d
      /\ \A i \in 1 .. m : trace'[i] = trace[i]
  BY <1>1, <1>2
<1> HIDE DEF m
<1>4. ASSUME NEW i \in 1 .. m + 1 PROVE Nested(trace'[i])
  <2>1. i \in 1 .. m \/ i = m + 1
    BY <1>1
  <2> QED BY <1>3, <2>1 DEF Connected, m
<1>5. ASSUME NEW i \in 1 .. m PROVE GuardStep(trace'[i], trace'[i + 1])
  <2>1. CASE i = m
    BY <1>1, <1>3, <2>1
  <2>2. CASE i # m
    <3>1. i \in 1 .. Len(trace) - 1 /\ i + 1 \in 1 .. m /\ i \in 1 .. m
      BY <1>1, <1>5, <2>2 DEF m
    <3> QED BY <1>3, <3>1 DEF Connected
  <2> QED BY <2>1, <2>2
<1>6. PICK t : t = trace'
  OBVIOUS
<1>7. \A i \in 1 .. m + 1 : Nested(t[i])'
  BY <1>4, <1>6, InputFrame
<1>8. \A i \in 1 .. m : GuardStep(t[i], t[i + 1])'
  BY <1>5, <1>6, InputFrame
<1>9. 1 .. Len(trace') - 1 = 1 .. m /\ 1 .. Len(trace') = 1 .. m + 1
  BY <1>1, <1>3
<1>10. Connected'
  BY <1>6, <1>7, <1>8, <1>9 DEF Connected
<1>11. trace'[1] = trace[1]
  BY <1>1, <1>3
<1> QED BY <1>3, <1>10, <1>11

(* The decoder's next field is the one the guard read at this configuration.  *)
LEMMA SameField ==
  ASSUME TypeOK, Nested(at),
         NEW k \in 1 .. VarintBytes, NEW n \in 1 .. VarintBytes, NEW field \in Fields,
         FieldValid(at, k, field, n)
  PROVE  /\ k \in DecodeVarint(at.pos) /\ \A j \in DecodeVarint(at.pos) : j = k
         /\ n \in DecodeVarint(at.pos + k) /\ \A j \in DecodeVarint(at.pos + k) : j = n
         /\ Inner(at).end <= Len(input) + 1
<1>1. /\ input \in Seq(0 .. 2 * Base - 1) /\ at.pos \in Nat \ {0}
      /\ Inner(at).end \in Nat /\ Inner(at).end <= Len(input) + 1
  BY InnerEnd DEF TypeOK
<1>2. k \in VarintLengths(at.pos, Inner(at).end) /\ n \in VarintLengths(at.pos + k, Inner(at).end)
  BY DEF FieldValid
<1>3. at.pos + k \in Nat \ {0}
  BY <1>1, WireAssumption
<1> QED BY <1>1, <1>2, <1>3, SameVarint

-----------------------------------------------------------------------------
LEMMA WireInit == Init => WireInv
<1> SUFFICES ASSUME Init PROVE WireInv
  OBVIOUS
<1> USE WireAssumption
<1>1. input \in Seq(0 .. 2 * Base - 1) /\ trace = <<Start>> /\ at = Start
  BY DEF Init
<1>2. Nested(Start) /\ Start \in Configuration
  BY <1>1, StartNested DEF Nested
<1>3. TypeOK
  <2>1. trace \in Seq(Configuration) \ {<<>>}
    BY <1>1, <1>2
  <2>2. Len(partial) = 0 /\ steps = 0 /\ discarded = FALSE /\ phase = "guard"
    BY DEF Init
  <2> QED BY <1>1, <1>2, <2>1, <2>2 DEF TypeOK
<1>4. Connected
  BY <1>1, <1>2 DEF Connected
<1>5. steps = 0 /\ at = trace[Len(trace)]
  BY <1>1 DEF Init
<1> QED
  BY <1>1, <1>3, <1>4, <1>5 DEF Init, WireInv, Accepted, Retraces, NothingDiscarded, FailsOnlyOnText

(* Reading a field and returning from a nested message are the two ways the   *)
(* guard goes on.                                                             *)
LEMMA GuardGoesOn ==
  ASSUME WireInv, phase = "guard", Nested(at'), GuardStep(at, at'), trace' = Append(trace, at'),
         UNCHANGED <<input, phase, steps, partial, discarded>>
  PROVE  WireInv'
<1>1. /\ TypeOK /\ Connected /\ steps = 0 /\ at = trace[Len(trace)]
  BY DEF WireInv, Accepted
<1>2. PICK d : d = at'
  OBVIOUS
<1>3. Nested(d) /\ GuardStep(at, d) /\ trace' = Append(trace, d)
  BY <1>2
<1>4. /\ trace' \in Seq(Configuration) \ {<<>>}
      /\ trace'[Len(trace')] = d
      /\ trace'[1] = trace[1]
      /\ Connected'
  BY <1>1, <1>3, TraceGrows
<1>5. d \in Configuration
  BY <1>3 DEF Nested
<1>6. TypeOK'
  BY <1>1, <1>2, <1>4, <1>5 DEF TypeOK
<1>7. (trace[1] = Start)'
  BY <1>4 DEF WireInv, Start
<1> QED
  BY <1>1, <1>2, <1>4, <1>6, <1>7 DEF WireInv, Accepted, Retraces, NothingDiscarded, FailsOnlyOnText

LEMMA AtNested == WireInv => Nested(at)
<1> SUFFICES ASSUME WireInv PROVE Nested(at)
  OBVIOUS
<1>1. trace \in Seq(Configuration) /\ Len(trace) \in Nat \ {0}
      /\ phase \in {"guard", "refused", "decode", "decoded", "undecodable"}
  BY DEF WireInv, TypeOK
<1>2. \E i \in 1 .. Len(trace) : at = trace[i]
  BY <1>1 DEF WireInv, Accepted, Retraces
<1> QED BY <1>2 DEF WireInv, Connected

LEMMA ScanFieldInv == WireInv /\ ScanField => WireInv'
<1> SUFFICES ASSUME WireInv, ScanField PROVE WireInv'
  OBVIOUS
<1>1. PICK k \in 1 .. VarintBytes, n \in 1 .. VarintBytes, field \in Fields :
        FieldValid(at, k, field, n) /\ at' = After(at, k, field, n)
  BY DEF ScanField
<1>2. Nested(at')
  BY <1>1, AtNested, AfterNested DEF WireInv, TypeOK
<1>3. GuardStep(at, at')
  BY <1>1 DEF GuardStep, ScanField
<1> QED BY <1>2, <1>3, GuardGoesOn DEF ScanField

LEMMA ReturnNestedInv == WireInv /\ ReturnNested => WireInv'
<1> SUFFICES ASSUME WireInv, ReturnNested PROVE WireInv'
  OBVIOUS
<1>1. ~Inside(at) /\ Len(at.open) > 1 /\ at' = Left(at)
  BY DEF ReturnNested
<1>2. Nested(at')
  BY <1>1, AtNested, LeftNested DEF WireInv, TypeOK
<1>3. GuardStep(at, at')
  BY <1>1 DEF GuardStep
<1> QED BY <1>2, <1>3, GuardGoesOn DEF ReturnNested

LEMMA RefuseInv == WireInv /\ Refuse => WireInv'
<1> SUFFICES ASSUME WireInv, Refuse PROVE WireInv'
  OBVIOUS
<1>1. Connected' /\ (trace[1] = Start)'
  BY ConnectedFrame DEF Refuse, WireInv
<1>2. TypeOK'
  BY DEF Refuse, WireInv, TypeOK
<1> QED
  BY <1>1, <1>2 DEF Refuse, WireInv, Accepted, Retraces, NothingDiscarded, FailsOnlyOnText

LEMMA AcceptInv == WireInv /\ Accept => WireInv'
<1> SUFFICES ASSUME WireInv, Accept PROVE WireInv'
  OBVIOUS
<1>1. /\ phase = "guard" /\ phase' = "decode" /\ at' = Start /\ steps' = 1 /\ partial' = <<Empty>>
      /\ UNCHANGED <<input, trace, discarded>> /\ Closed(at)
  BY DEF Accept, Closed
<1>2. TypeOK /\ Connected /\ at = trace[Len(trace)] /\ trace[1] = Start /\ NothingDiscarded
  BY <1>1 DEF WireInv, Accepted
<1>3. Connected' /\ (trace[1] = Start)'
  BY <1>1, <1>2, ConnectedFrame
<1>4. Start \in Configuration /\ Len(Start.open) = 1
  BY <1>2, StartNested DEF TypeOK, Nested, Start
<1>5. Len(partial') = 1 /\ partial' \in Seq({Empty})
  BY <1>1
<1>6. TypeOK'
  BY <1>1, <1>2, <1>4, <1>5 DEF TypeOK
<1>7. Retraces'
  BY <1>1, <1>2, <1>4 DEF Retraces, TypeOK
<1>8. Closed(trace[Len(trace)])'
  BY <1>1, <1>2 DEF Closed, Inside, Inner
<1> QED
  BY <1>1, <1>2, <1>3, <1>5, <1>6, <1>7, <1>8
     DEF WireInv, Accepted, NothingDiscarded, FailsOnlyOnText

-----------------------------------------------------------------------------
(* The decoder, standing on a configuration of the trace. *)

(* Where there is something to read, the guard read it; where a message ends, *)
(* the guard left it, or this is the end.                                     *)
LEMMA OnTrace ==
  ASSUME WireInv, phase = "decode"
  PROVE  /\ steps \in 1 .. Len(trace) /\ at = trace[steps] /\ Nested(at)
         /\ ~Closed(at) => steps + 1 \in 1 .. Len(trace) /\ GuardStep(at, trace[steps + 1])
         /\ Closed(at) => steps = Len(trace)
<1>1. steps \in 1 .. Len(trace) /\ at = trace[steps] /\ Len(trace) \in Nat
  BY DEF WireInv, Retraces, TypeOK
<1>2. Closed(trace[Len(trace)]) /\ Nested(at)
  BY AtNested DEF WireInv, Accepted
<1>3. steps # Len(trace) => steps + 1 \in 1 .. Len(trace) /\ GuardStep(at, trace[steps + 1])
  BY <1>1 DEF WireInv, Connected
<1>4. ASSUME Closed(at), steps # Len(trace) PROVE FALSE
  <2>1. GuardStep(at, trace[steps + 1])
    BY <1>3, <1>4
  <2>2. ~Inside(at) /\ ~(Len(at.open) > 1)
    BY <1>2, <1>4, InnerEnd DEF Closed, WireInv, TypeOK
  <2> QED BY <2>1, <2>2 DEF GuardStep
<1> QED BY <1>1, <1>2, <1>3, <1>4

(* A step of the decoder along the trace that discards nothing.               *)
LEMMA DecoderGoesOn ==
  ASSUME WireInv, phase = "decode", steps + 1 \in 1 .. Len(trace), at' = trace[steps + 1],
         steps' = steps + 1, discarded' = FALSE,
         Len(partial') = Len(at'.open), \E S : partial' \in Seq(S),
         UNCHANGED <<input, phase, trace>>
  PROVE  WireInv'
<1>1. TypeOK /\ Connected /\ trace[1] = Start /\ Closed(trace[Len(trace)])
  BY DEF WireInv, Accepted
<1>2. Connected' /\ (trace[1] = Start)'
  BY <1>1, ConnectedFrame
<1>3. at' \in Configuration /\ steps' \in Nat /\ steps' # 0 /\ discarded' \in BOOLEAN
  <2>1. trace \in Seq(Configuration) /\ steps \in Nat
    BY <1>1 DEF TypeOK
  <2>2. at' \in Configuration
    BY <2>1
  <2>3. steps' \in Nat /\ steps' # 0
    BY <2>1
  <2>4. discarded' \in BOOLEAN
    OBVIOUS
  <2> QED BY <2>2, <2>3, <2>4
<1>4. TypeOK'
  <2>1. Len(partial') = IF steps' = 0 THEN 0 ELSE Len(at'.open)
    BY <1>3
  <2> QED BY <1>1, <1>3, <2>1 DEF TypeOK
<1>5. Closed(trace[Len(trace)])'
  BY <1>1 DEF Closed, Inside, Inner
<1> QED
  BY <1>1, <1>2, <1>4, <1>5 DEF WireInv, Accepted, Retraces, NothingDiscarded, FailsOnlyOnText

(* The guard's field at this configuration, and the attribute prost reads it  *)
(* by.                                                                        *)
LEMMA FieldHere ==
  ASSUME WireInv, phase = "decode", Inside(at)
  PROVE  \E k \in 1 .. VarintBytes, n \in 1 .. VarintBytes, field \in Fields :
           \E a \in Typed(at, Value(at.pos, k) \div 8) :
             /\ FieldValid(at, k, field, n)
             /\ trace[steps + 1] = After(at, k, field, n)
             /\ Typed(at, Value(at.pos, k) \div 8) = {a}
             /\ Matches(a, Value(at.pos, k) \div 8, field)
<1>1. Nested(at) /\ GuardStep(at, trace[steps + 1])
  BY OnTrace DEF Closed
<1>2. PICK k \in 1 .. VarintBytes, n \in 1 .. VarintBytes, field \in Fields :
        FieldValid(at, k, field, n) /\ trace[steps + 1] = After(at, k, field, n)
  BY <1>1 DEF GuardStep
<1> DEFINE tag == Value(at.pos, k) \div 8
<1>3. Inner(at).kind \in MessageKind /\ Declares(Inner(at).kind, tag, field)
  BY <1>1, <1>2, InnerEnd DEF FieldValid, WireInv, TypeOK
<1>4. PICK a \in Attributes[Inner(at).kind] :
        Matches(a, tag, field) /\ \A b \in Attributes[Inner(at).kind] : b[1] = tag => b = a
  BY <1>3, SchemasAgree
<1>5. Typed(at, tag) = {a}
  BY <1>4 DEF Typed, Matches
<1> QED BY <1>2, <1>4, <1>5

(* What the decoder does with it.                                             *)
LEMMA FieldDecoded ==
  ASSUME WireInv, DecodeField
  PROVE  \E k \in 1 .. VarintBytes, n \in 1 .. VarintBytes, field \in Fields :
           \E a \in Typed(at, Value(at.pos, k) \div 8) :
             /\ FieldValid(at, k, field, n)
             /\ Typed(at, Value(at.pos, k) \div 8) = {a}
             /\ Matches(a, Value(at.pos, k) \div 8, field)
             /\ at' = After(at, k, field, n)
             /\ at' = trace[steps + 1]
             /\ partial' = IF field \in MessageKind THEN Append(partial, Empty)
                           ELSE MergeInner(Value(at.pos, k) \div 8, a[3],
                                           Scalar(a[2], at.pos + k, n))
             /\ discarded' = FALSE
<1>1. phase = "decode" /\ Inside(at) /\ steps' = steps + 1 /\ UNCHANGED <<input, phase, trace>>
  BY DEF DecodeField
<1>2. PICK k \in 1 .. VarintBytes, n \in 1 .. VarintBytes, field \in Fields :
        \E a \in Typed(at, Value(at.pos, k) \div 8) :
          /\ FieldValid(at, k, field, n)
          /\ trace[steps + 1] = After(at, k, field, n)
          /\ Typed(at, Value(at.pos, k) \div 8) = {a}
          /\ Matches(a, Value(at.pos, k) \div 8, field)
  BY <1>1, FieldHere
<1> DEFINE tag == Value(at.pos, k) \div 8
           body == at.pos + k
           typed == Typed(at, tag)
           nested == {b \in typed : b[2] \in MessageKind}
           end == PayloadEnd(body, n, Value(at.pos, k) % 8)
<1>3. PICK a \in typed : typed = {a} /\ Matches(a, tag, field)
  BY <1>2
<1>4. FieldValid(at, k, field, n) /\ trace[steps + 1] = After(at, k, field, n)
  BY <1>2
<1>5. /\ \A j \in DecodeVarint(at.pos) : j = k
      /\ \A j \in DecodeVarint(at.pos + k) : j = n
  BY <1>1, <1>4, OnTrace, SameField DEF WireInv
<1>6. /\ at' = IF nested = {} THEN Behind(at, end)
               ELSE Entered(at, body + n, (CHOOSE b \in nested : TRUE)[2], tag, end)
      /\ partial' = IF nested # {} THEN Append(partial, Empty)
                    ELSE IF typed = {} THEN partial
                    ELSE LET b == CHOOSE b \in typed : TRUE
                         IN MergeInner(tag, b[3], Scalar(b[2], body, n))
      /\ discarded' = (discarded \/ typed = {})
  <2>1. PICK j \in 1 .. VarintBytes, i \in 1 .. VarintBytes :
          LET t == Value(at.pos, j) \div 8
              p == at.pos + j
              e == PayloadEnd(p, i, Value(at.pos, j) % 8)
              ty == Typed(at, t)
              ne == {b \in ty : b[2] \in MessageKind}
          IN /\ Decodable(at, j, i)
             /\ at' = IF ne = {} THEN Behind(at, e)
                      ELSE Entered(at, p + i, (CHOOSE b \in ne : TRUE)[2], t, e)
             /\ partial' = IF ne # {} THEN Append(partial, Empty)
                           ELSE IF ty = {} THEN partial
                           ELSE LET b == CHOOSE b \in ty : TRUE
                                IN MergeInner(t, b[3], Scalar(b[2], p, i))
             /\ discarded' = (discarded \/ ty = {})
    BY DEF DecodeField
  <2>2. j \in DecodeVarint(at.pos) /\ i \in DecodeVarint(at.pos + j)
    BY <2>1 DEF Decodable
  <2>3. j = k /\ i = n
    BY <1>5, <2>2
  <2> QED BY <2>1, <2>3
<1>7. discarded' = FALSE
  BY <1>3, <1>6 DEF WireInv, NothingDiscarded
<1>8. end = PayloadEnd(body, n, WireType(field))
  BY <1>4 DEF FieldValid
<1>9. /\ at' = trace[steps + 1]
      /\ partial' = IF field \in MessageKind THEN Append(partial, Empty)
                    ELSE MergeInner(tag, a[3], Scalar(a[2], body, n))
  <2>1. CASE field \in MessageKind
    <3>1. a[2] = field
      BY <1>3, <2>1 DEF Matches
    <3>2. nested = {a}
      BY <1>3, <2>1, <3>1
    <3>3. (CHOOSE b \in nested : TRUE) = a
      BY <3>2
    <3> HIDE DEF nested, typed, tag, body, end
    <3>4. at' = Entered(at, body + n, field, tag, end) /\ partial' = Append(partial, Empty)
      BY <1>6, <3>1, <3>2, <3>3
    <3> QED
      BY <1>4, <1>8, <2>1, <3>4 DEF After, body, tag
  <2>2. CASE field \notin MessageKind
    <3>1. nested = {}
      BY <1>3, <2>2 DEF Matches
    <3>2. (CHOOSE b \in typed : TRUE) = a /\ typed # {}
      BY <1>3
    <3> HIDE DEF nested, typed, tag, body, end
    <3>3. at' = Behind(at, end) /\ partial' = MergeInner(tag, a[3], Scalar(a[2], body, n))
      BY <1>6, <3>1, <3>2
    <3> QED
      BY <1>4, <1>8, <2>2, <3>3 DEF After, body, tag
  <2> QED BY <2>1, <2>2
<1> QED
  BY <1>3, <1>4, <1>7, <1>9

LEMMA DecodeFieldInv == WireInv /\ DecodeField => WireInv'
<1> SUFFICES ASSUME WireInv, DecodeField PROVE WireInv'
  OBVIOUS
<1>1. phase = "decode" /\ Inside(at) /\ steps' = steps + 1 /\ UNCHANGED <<input, phase, trace>>
  BY DEF DecodeField
<1>2. /\ Len(partial) = Len(at.open) /\ Len(partial) >= 1 /\ at.open \in Seq(Frame)
      /\ at = [pos |-> at.pos, open |-> at.open]
  <2>1. Len(at.open) \in Nat \ {0} /\ at.open \in Seq(Frame)
    BY AtNested, InnerEnd DEF WireInv, TypeOK
  <2>2. at = [pos |-> at.pos, open |-> at.open]
    BY DEF WireInv, TypeOK, Configuration
  <2> QED BY <1>1, <2>1, <2>2 DEF WireInv, TypeOK, Retraces
<1>3. PICK k \in 1 .. VarintBytes, n \in 1 .. VarintBytes, field \in Fields :
        /\ at' = After(at, k, field, n) /\ at' = trace[steps + 1] /\ discarded' = FALSE
        /\ \E a : partial' = IF field \in MessageKind THEN Append(partial, Empty)
                             ELSE MergeInner(Value(at.pos, k) \div 8, a[3],
                                             Scalar(a[2], at.pos + k, n))
  BY FieldDecoded
<1>4. Len(partial') = Len(at'.open) /\ \E S : partial' \in Seq(S)
  <2>1. CASE field \in MessageKind
    <3>1. PICK frame : at'.open = Append(at.open, frame)
      BY <1>3, <2>1 DEF After, Entered
    <3>2. Len(at'.open) = Len(at.open) + 1
      BY <1>2, <3>1
    <3>3. \A x : /\ Len(Append(partial, x)) = Len(partial) + 1
                /\ \E S : Append(partial, x) \in Seq(S)
      BY StackSteps DEF WireInv
    <3> QED BY <1>2, <1>3, <2>1, <3>2, <3>3
  <2>2. CASE field \notin MessageKind
    <3>1. /\ \A x : /\ Len(Append(Front(partial), x)) = Len(partial)
                  /\ \E S : Append(Front(partial), x) \in Seq(S)
          /\ at'.open = at.open
      BY <1>2, <1>3, <2>2, StackSteps DEF WireInv, After, Behind
    <3> QED BY <1>2, <1>3, <2>2, <3>1 DEF MergeInner
  <2> QED BY <2>1, <2>2
<1> QED BY <1>1, <1>3, <1>4, OnTrace, DecoderGoesOn DEF Closed

LEMMA LeaveNestedInv == WireInv /\ LeaveNested => WireInv'
<1> SUFFICES ASSUME WireInv, LeaveNested PROVE WireInv'
  OBVIOUS
<1>1. /\ phase = "decode" /\ at.pos = Inner(at).end /\ Len(at.open) > 1 /\ at' = Left(at)
      /\ steps' = steps + 1 /\ discarded' = FALSE
      /\ UNCHANGED <<input, phase, trace>>
  BY DEF LeaveNested, WireInv, NothingDiscarded
<1>2. /\ Nested(at) /\ input \in Seq(0 .. 2 * Base - 1)
      /\ ~Closed(at) => steps + 1 \in 1 .. Len(trace) /\ GuardStep(at, trace[steps + 1])
  BY <1>1, OnTrace DEF WireInv, TypeOK
<1>3. ~Inside(at) /\ ~Closed(at)
  <2>1. Inner(at).end \in Nat
    BY <1>2, InnerEnd
  <2>2. ~Inside(at)
    BY <1>1, <2>1 DEF Inside
  <2>3. Len(at.open) # 1
    <3>1. PICK m \in Nat : m = Len(at.open)
      BY <1>2, InnerEnd
    <3>2. m > 1
      BY <1>1, <3>1
    <3>3. m # 1
      BY <3>2
    <3> QED BY <3>1, <3>3
  <2> QED BY <2>2, <2>3 DEF Closed
<1>4. steps + 1 \in 1 .. Len(trace) /\ at' = trace[steps + 1]
  BY <1>1, <1>2, <1>3 DEF GuardStep
<1>5. Len(at'.open) = Len(at.open) - 1
  BY <1>1, <1>2, <1>3, LeftNested
<1>6. Len(partial) = Len(at.open) /\ Len(partial) >= 2
  <2>1. Len(partial) = Len(at.open) /\ Len(at.open) \in Nat
    BY <1>1, <1>2, InnerEnd DEF WireInv, TypeOK, Retraces
  <2> QED BY <1>1, <2>1
<1>7. PICK x : partial' = Append(SubSeq(partial, 1, Len(partial) - 2), x)
  BY DEF LeaveNested
<1>8. Len(partial') = Len(at'.open) /\ \E S : partial' \in Seq(S)
  <2>1. \E S : partial \in Seq(S)
    BY DEF WireInv
  <2>2. /\ Len(Append(SubSeq(partial, 1, Len(partial) - 2), x)) = Len(partial) - 1
        /\ \E S : Append(SubSeq(partial, 1, Len(partial) - 2), x) \in Seq(S)
    BY <1>6, <2>1, StackSteps
  <2> QED BY <1>5, <1>6, <1>7, <2>2
<1> QED BY <1>1, <1>4, <1>8, DecoderGoesOn

LEMMA DecodeFailsInv == WireInv /\ DecodeFails => WireInv'
<1> SUFFICES ASSUME WireInv, DecodeFails PROVE WireInv'
  OBVIOUS
<1>1. /\ phase = "decode" /\ phase' = "undecodable" /\ at.pos # Inner(at).end
      /\ Inside(at) => \A k \in 1 .. VarintBytes, n \in 1 .. VarintBytes : ~Decodable(at, k, n)
      /\ UNCHANGED <<input, at, trace, steps, partial, discarded>>
  BY DEF DecodeFails
<1>2. Nested(at) /\ TypeOK
  BY AtNested DEF WireInv
<1>3. Inside(at)
  BY <1>1, <1>2, InnerEnd DEF Inside, TypeOK
<1>4. PICK k \in 1 .. VarintBytes, n \in 1 .. VarintBytes, field \in Fields :
        \E a \in Typed(at, Value(at.pos, k) \div 8) :
          /\ FieldValid(at, k, field, n)
          /\ trace[steps + 1] = After(at, k, field, n)
          /\ Typed(at, Value(at.pos, k) \div 8) = {a}
          /\ Matches(a, Value(at.pos, k) \div 8, field)
  BY <1>1, <1>3, FieldHere
<1> DEFINE key == Value(at.pos, k)
           body == at.pos + k
<1>5. PICK a \in Typed(at, key \div 8) :
        Typed(at, key \div 8) = {a} /\ Matches(a, key \div 8, field)
  BY <1>4
<1>6. /\ k \in VarintLengths(at.pos, Inner(at).end) /\ n \in VarintLengths(body, Inner(at).end)
      /\ key \div 8 \in 1 .. MaxTag /\ key % 8 = WireType(field)
      /\ PayloadEnd(body, n, WireType(field)) \in body + n .. Inner(at).end
  BY <1>4 DEF FieldValid
<1>7. /\ k \in DecodeVarint(at.pos) /\ n \in DecodeVarint(body)
      /\ Inner(at).end <= Len(input) + 1
  BY <1>2, <1>4, SameField
<1>8. PayloadEnd(body, n, key % 8) \in body + n .. Len(input) + 1
  <2>1. /\ at.pos \in Nat /\ Inner(at).end \in Nat /\ Len(input) \in Nat
    BY <1>2, InnerEnd DEF TypeOK
  <2>2. body + n \in Nat
    BY <2>1
  <2> HIDE DEF body
  <2> QED BY <1>6, <1>7, <2>1, <2>2
<1>9. key % 8 \in {0, 2} /\ key % 8 = ProstWireType(a[2])
  BY <1>5, <1>6 DEF WireType, Matches
<1>10. a[2] = "string" /\ ~IsText(Payload(body, n))
  <2>1. ~Decodable(at, k, n)
    BY <1>1, <1>3
  <2> QED BY <1>5, <1>6, <1>7, <1>8, <1>9, <2>1 DEF Decodable
<1>11. UnreadableText(at)
  BY <1>5, <1>6, <1>10 DEF UnreadableText
<1>12. FailsOnlyOnText'
  <2>1. PICK c : c = at
    OBVIOUS
  <2>2. UnreadableText(c)'
    BY <1>1, <1>11, <2>1, InputFrame
  <2> QED BY <1>1, <2>1, <2>2 DEF FailsOnlyOnText
<1>13. TypeOK'
  BY <1>1, <1>2 DEF TypeOK
<1>14. Connected' /\ (trace[1] = Start)'
  BY <1>1, ConnectedFrame DEF WireInv
<1>15. Retraces'
  BY <1>1 DEF WireInv, Retraces
<1>16. Closed(trace[Len(trace)])'
  BY <1>1 DEF WireInv, Accepted, Closed, Inside, Inner
<1> QED
  BY <1>1, <1>12, <1>13, <1>14, <1>15, <1>16 DEF WireInv, Accepted, NothingDiscarded

LEMMA DecodedInv == WireInv /\ Decoded => WireInv'
<1> SUFFICES ASSUME WireInv, Decoded PROVE WireInv'
  OBVIOUS
<1>1. /\ phase = "decode" /\ phase' = "decoded" /\ at.pos = Inner(at).end /\ Len(at.open) = 1
      /\ UNCHANGED <<input, at, trace, steps, partial, discarded>>
  BY DEF Decoded
<1>2. Nested(at) /\ TypeOK
  BY AtNested DEF WireInv
<1>3. Closed(at)
  BY <1>1, <1>2, InnerEnd DEF Closed, Inside, TypeOK
<1>4. steps \in 1 .. Len(trace) /\ at = trace[steps] /\ steps = Len(trace)
  BY <1>1, <1>3, OnTrace
<1>5. TypeOK'
  BY <1>1, <1>2 DEF TypeOK
<1>6. Connected' /\ (trace[1] = Start)'
  BY <1>1, ConnectedFrame DEF WireInv
<1>7. Retraces'
  BY <1>1, <1>4 DEF Retraces
<1>8. Closed(trace[Len(trace)])'
  BY <1>1 DEF WireInv, Accepted, Closed, Inside, Inner
<1> QED
  BY <1>1, <1>5, <1>6, <1>7, <1>8 DEF WireInv, Accepted, NothingDiscarded, FailsOnlyOnText

LEMMA WireStep == WireInv /\ [Next]_vars => WireInv'
<1> SUFFICES ASSUME WireInv, [Next]_vars PROVE WireInv'
  OBVIOUS
<1>1. CASE UNCHANGED vars
  <2>1. /\ UNCHANGED <<input, phase, at, trace, steps, partial, discarded>>
        /\ Connected' /\ (trace[1] = Start)'
    BY <1>1, ConnectedFrame DEF vars, WireInv
  <2>2. TypeOK'
    BY <2>1 DEF WireInv, TypeOK
  <2>3. FailsOnlyOnText'
    <3>1. PICK c : c = at
      OBVIOUS
    <3>2. UnreadableText(c)' <=> UnreadableText(c)
      BY <2>1, InputFrame
    <3> QED BY <2>1, <3>1, <3>2 DEF WireInv, FailsOnlyOnText
  <2>4. Accepted => Closed(trace[Len(trace)])'
    BY <2>1 DEF WireInv, Closed, Inside, Inner
  <2> QED
    BY <2>1, <2>2, <2>3, <2>4 DEF WireInv, Accepted, Retraces, NothingDiscarded
<1> QED
  BY <1>1, ScanFieldInv, ReturnNestedInv, RefuseInv, AcceptInv, DecodeFieldInv, LeaveNestedInv,
     DecodeFailsInv, DecodedInv DEF Next

-----------------------------------------------------------------------------
(* SOURCE.toml *)

(* The assumptions about the constants, in the terms of SourceLock.           *)
LEMMA LockConstants ==
  /\ PinnedId \in Seq(Lock!Plain)
  /\ PinnedUrl \in Seq(Lock!Plain)
  /\ MaxVersion \in Nat /\ HashDigits \in Nat
  /\ Decimal \in [1 .. MaxVersion -> Seq(Lock!Digit) \ {<<>>}]
  /\ \A n \in 1 .. MaxVersion : Lock!Denoted(Decimal[n]) = n
  /\ Candidates \subseteq Lock!Snapshot
  /\ HandWritten \subseteq Seq(Lock!Token)
<1>1. Plain = Lock!Plain /\ Digit = Lock!Digit
  BY DEF Plain, Lock!Plain, Digit, Lock!Digit
<1>2. Token = Lock!Token
  BY <1>1 DEF Token, Lock!Token, Field, Lock!Field, StringField, Lock!StringField,
         HashField, Lock!HashField
<1>3. Snapshot = Lock!Snapshot
  BY <1>2 DEF Snapshot, Lock!Snapshot
<1>4. \A digits : Denoted(digits) = Lock!Denoted(digits)
  BY DEF Denoted, Lock!Denoted, Nibble, Lock!Nibble, FoldLeft, Lock!FoldLeft, MapThenFoldSet,
         Lock!MapThenFoldSet, Max, Lock!Max
<1> QED
  BY <1>1, <1>2, <1>3, <1>4, LockAssumption DEF LockAssumption

LEMMA LeastNumber ==
  ASSUME NEW S \in SUBSET Nat, S # {}
  PROVE  \E m \in S : \A n \in S : m <= n
<1> DEFINE R == OpToRel(<, Nat)
<1>1. IsWellFoundedOn(R, Nat)
  BY NatLessThanWellFounded
<1> HIDE DEF R
<1>2. PICK m \in S : \A n \in S : <<n, m>> \notin R
  BY <1>1, WFMin
<1>3. \A n, k \in Nat : n < k => <<n, k>> \in R
  BY DEF R, OpToRel
<1>4. \A n \in S : ~(n < m)
  BY <1>2, <1>3
<1>5. m \in Nat /\ \A n \in S : n \in Nat
  OBVIOUS
<1>6. \A n \in S : m <= n
  BY <1>4, <1>5
<1> QED
  BY <1>6

-----------------------------------------------------------------------------
(* Lines *)

(* Every line has an end, and there is no line feed before it.                *)
LEMMA LineEndExists ==
  ASSUME text \in Seq(Lock!Token), NEW i \in 1 .. Len(text)
  PROVE  /\ Lock!LineEnd(i) \in i .. Len(text) + 1
         /\ Lock!LineEnd(i) = Len(text) + 1 \/ text[Lock!LineEnd(i)] = "nl"
         /\ \A k \in i .. Lock!LineEnd(i) - 1 : text[k] # "nl"
<1> DEFINE S == {j \in i .. Len(text) + 1 : j = Len(text) + 1 \/ text[j] = "nl"}
<1>1. Len(text) \in Nat
  OBVIOUS
<1>2. S \in SUBSET Nat /\ Len(text) + 1 \in S
  BY <1>1
<1>3. PICK m \in S : \A n \in S : m <= n
  BY <1>2, LeastNumber
<1>4. \A k \in i .. m - 1 : k \notin S
  BY <1>1, <1>3
<1>5. \A k \in i .. m - 1 : text[k] # "nl"
  BY <1>1, <1>3, <1>4
<1>6. \E j \in i .. Len(text) + 1 :
        /\ j = Len(text) + 1 \/ text[j] = "nl"
        /\ \A k \in i .. j - 1 : text[k] # "nl"
  BY <1>3, <1>5
<1> QED
  BY <1>6 DEF Lock!LineEnd, Lock!EndOfLine

(* The line behind a line is the next one, and there is none in between.      *)
LEMMA NextLine ==
  ASSUME text \in Seq(Lock!Token), NEW i \in Lock!LineStarts
  PROVE  LET n == Lock!LineEnd(i) + 1
         IN /\ n \in Nat \ {0} /\ n > i
            /\ n \in Lock!LineStarts \/ n > Len(text)
            /\ \A k \in Lock!LineStarts : k < n <=> k < i \/ k = i
<1>1. Len(text) \in Nat /\ i \in 1 .. Len(text) /\ DOMAIN text = 1 .. Len(text)
  BY DEF Lock!LineStarts
<1> DEFINE e == Lock!LineEnd(i)
<1>2. /\ e \in i .. Len(text) + 1
      /\ e = Len(text) + 1 \/ text[e] = "nl"
      /\ \A k \in i .. e - 1 : text[k] # "nl"
  BY <1>1, LineEndExists
<1> HIDE DEF e
<1>3. e + 1 \in Lock!LineStarts \/ e + 1 > Len(text)
  BY <1>1, <1>2 DEF Lock!LineStarts
<1>4. ASSUME NEW k \in Lock!LineStarts, k < e + 1, ~(k < i), k # i
      PROVE  FALSE
  <2>1. k \in 1 .. Len(text) /\ (k = 1 \/ text[k - 1] = "nl")
    BY <1>1 DEF Lock!LineStarts
  <2>2. k - 1 \in i .. e - 1
    BY <1>1, <1>2, <1>4, <2>1
  <2> QED
    BY <1>1, <1>2, <2>1, <2>2
<1>5. \A k \in Lock!LineStarts : k \in Nat
  BY <1>1 DEF Lock!LineStarts
<1>6. \A k \in Lock!LineStarts : k < e + 1 <=> k < i \/ k = i
  BY <1>1, <1>2, <1>4, <1>5
<1> QED
  BY <1>1, <1>2, <1>3, <1>6 DEF e

(* A line offers a value for one field at most, and none if it is blank.      *)
LEMMA OneField ==
  ASSUME NEW i, NEW f \in Lock!Field, Lock!StoredAt(i, f) # {}
  PROVE  \A g \in Lock!Field : Lock!StoredAt(i, g) # {} => g = f
BY DEF Lock!StoredAt

LEMMA BlankOffersNothing ==
  ASSUME NEW i, Lock!Blank(i), NEW f
  PROVE  Lock!StoredAt(i, f) = {}
<1>1. "=" \notin Lock!Range(<<>>)
  BY DEF Lock!Range
<1> QED
  BY <1>1 DEF Lock!Blank, Lock!StoredAt

(* A stored version fits an i64. *)
LEMMA StoredInRange ==
  ASSUME NEW i
  PROVE  Lock!StoredAt(i, "root_store_version") \subseteq (-MaxVersion - 1) .. MaxVersion
BY DEF Lock!StoredAt, Lock!Parsed, Lock!ParseVersion, Lock!StringField, Lock!HashField

-----------------------------------------------------------------------------
(* What update writes *)

LEMMA QuotedTyped ==
  ASSUME NEW s \in Seq(Lock!Token), \A i \in DOMAIN s : s[i] \notin {"quote", "backslash"}
  PROVE  Lock!Quoted(s) \in Seq(Lock!Token)
<1>1. Lock!Escaped(s) = s
  BY DEF Lock!Escaped
<1>2. <<"quote">> \in Seq(Lock!Token)
  BY DEF Lock!Token
<1> QED
  BY <1>1, <1>2 DEF Lock!Quoted

LEMMA LineTyped ==
  ASSUME NEW f \in Lock!Field, NEW value \in Seq(Lock!Token)
  PROVE  Lock!Line(f, value) \in Seq(Lock!Token)
<1>1. <<f, "sp", "=", "sp">> \in Seq(Lock!Token) /\ <<"nl">> \in Seq(Lock!Token)
  BY DEF Lock!Token
<1> QED
  BY <1>1 DEF Lock!Line

(* A valid version has nothing to escape. *)
LEMMA VersionPlain ==
  ASSUME NEW v \in Seq(Lock!Token), Lock!DottedVersion(v)
  PROVE  v \in Seq(Lock!Plain)
<1> DEFINE d == <<".">> \o v \o <<".">>
<1>1. Len(v) \in Nat /\ DOMAIN v = 1 .. Len(v) /\ <<".">> \in Seq(Lock!Token)
  BY DEF Lock!Token, Lock!Plain
<1>2. Len(d) = Len(v) + 2 /\ \A i \in 1 .. Len(v) : d[i + 1] = v[i]
  BY <1>1
<1>3. \A i \in 1 .. Len(v) : d[i + 1] \in Lock!Digit \cup {"."}
  <2>1. \A j \in 1 .. Len(d) - 1 : d[j] \in Lock!Digit \cup {"."}
    BY DEF Lock!DottedVersion
  <2> HIDE DEF d
  <2> QED
    BY <1>1, <1>2, <2>1
<1>4. \A i \in 1 .. Len(v) : v[i] \in Lock!Plain
  <2> HIDE DEF d
  <2> QED
    BY <1>2, <1>3 DEF Lock!Plain
<1> QED
  BY <1>1, <1>4

LEMMA PlainTyped ==
  ASSUME NEW s \in Seq(Lock!Plain)
  PROVE  s \in Seq(Lock!Token) /\ \A i \in DOMAIN s : s[i] \notin {"quote", "backslash"}
<1>1. Lock!Plain \subseteq Lock!Token /\ "quote" \notin Lock!Plain /\ "backslash" \notin Lock!Plain
  BY DEF Lock!Plain, Lock!Token, Lock!Digit
<1> QED
  BY <1>1

LEMMA HexTyped ==
  ASSUME NEW hash \in [1 .. HashDigits -> 0 .. 2]
  PROVE  Lock!Hex(hash) \in Seq(Lock!Plain)
<1>1. \A n \in 0 .. 2 : Lock!HexChar[n] \in Lock!Plain
  BY DEF Lock!HexChar, Lock!Plain, Lock!Digit
<1>2. HashDigits \in Nat
  BY LockConstants
<1>3. Lock!Hex(hash) \in [1 .. HashDigits -> Lock!Plain]
  BY <1>1 DEF Lock!Hex
<1> QED
  BY <1>2, <1>3

LEMMA ContentsTyped ==
  ASSUME NEW s \in Candidates, Lock!SourceValid(s)
  PROVE  Lock!Contents(s) \in Seq(Lock!Token)
<1>1. s \in Lock!Snapshot
  BY LockConstants
<1>2. /\ s.component_version \in Seq(Lock!Token) /\ s.browser_version \in Seq(Lock!Token)
      /\ s.crx_sha256 \in [1 .. HashDigits -> 0 .. 2]
      /\ s.crs_sha256 \in [1 .. HashDigits -> 0 .. 2]
      /\ s.root_store_version \in 1 .. MaxVersion
  BY <1>1 DEF Lock!Snapshot
<1>3. Lock!Quoted(s.component_id) \in Seq(Lock!Token) /\ Lock!Quoted(PinnedUrl) \in Seq(Lock!Token)
  BY LockConstants, PlainTyped, QuotedTyped DEF Lock!SourceValid
<1>4. Lock!Quoted(s.component_version) \in Seq(Lock!Token)
      /\ Lock!Quoted(s.browser_version) \in Seq(Lock!Token)
  BY <1>2, VersionPlain, PlainTyped, QuotedTyped DEF Lock!SourceValid
<1>5. Lock!Quoted(Lock!Hex(s.crx_sha256)) \in Seq(Lock!Token)
      /\ Lock!Quoted(Lock!Hex(s.crs_sha256)) \in Seq(Lock!Token)
  BY <1>2, HexTyped, PlainTyped, QuotedTyped
<1>6. Decimal[s.root_store_version] \in Seq(Lock!Token)
  <2>1. Lock!Digit \subseteq Lock!Token
    BY DEF Lock!Token, Lock!Plain
  <2> QED
    BY <1>2, <2>1, LockConstants
<1>7. /\ Lock!Line("component_id", Lock!Quoted(s.component_id)) \in Seq(Lock!Token)
      /\ Lock!Line("component_version", Lock!Quoted(s.component_version)) \in Seq(Lock!Token)
      /\ Lock!Line("browser_version", Lock!Quoted(s.browser_version)) \in Seq(Lock!Token)
      /\ Lock!Line("crx_sha256", Lock!Quoted(Lock!Hex(s.crx_sha256))) \in Seq(Lock!Token)
      /\ Lock!Line("crs_sha256", Lock!Quoted(Lock!Hex(s.crs_sha256))) \in Seq(Lock!Token)
      /\ Lock!Line("root_store_version", Decimal[s.root_store_version]) \in Seq(Lock!Token)
      /\ Lock!Line("source", Lock!Quoted(PinnedUrl)) \in Seq(Lock!Token)
  BY <1>3, <1>4, <1>5, <1>6, LineTyped DEF Lock!Field, Lock!StringField, Lock!HashField
<1>8. <<"#", "sp", "x", "nl">> \in Seq(Lock!Token)
  BY DEF Lock!Token, Lock!Plain
<1> QED
  BY <1>7, <1>8 DEF Lock!Contents

-----------------------------------------------------------------------------
(* The loop *)

ReadLines == {i \in Lock!LineStarts : i < next}

(* The slots hold what the lines before next offer, each of which is blank or *)
(* the only one of its field.                                                 *)
LockProgress ==
  /\ next \in Lock!LineStarts \/ next > Len(text)
  /\ slot = [f \in Lock!Field |-> UNION {Lock!StoredAt(i, f) : i \in ReadLines}]
  /\ \A i \in ReadLines : Lock!Blank(i) \/ \E f \in Lock!Field : Lock!StoredAt(i, f) # {}
  /\ \A f \in Lock!Field : \A i, k \in ReadLines :
       Lock!StoredAt(i, f) # {} /\ Lock!StoredAt(k, f) # {} => i = k

LockInv ==
  /\ Lock!TypeOK
  /\ lock_phase = "write" => origin = "none" /\ next = 1 /\ slot = [f \in Lock!Field |-> {}]
  /\ lock_phase # "write" => LockProgress
  /\ Lock!AcceptedIffEachFieldOnce

LEMMA LockInit == Lock!Init => LockInv
<1> SUFFICES ASSUME Lock!Init PROVE LockInv
  OBVIOUS
<1>1. "root_store_version" \in Lock!Field
  BY DEF Lock!Field
<1> QED
  BY <1>1 DEF Lock!Init, LockInv, Lock!TypeOK, Lock!AcceptedIffEachFieldOnce

(* A text just left on disk: nothing is read yet. *)
LEMMA LeftUnread ==
  ASSUME LockInv, lock_phase = "write", NEW contents \in Seq(Lock!Token), NEW how,
         how \in {"written", "damaged", "edited"}, Lock!Leave(contents, how),
         how # "edited" => snapshot' \in Lock!Snapshot /\ Lock!SourceValid(snapshot)'
  PROVE  LockInv'
<1>1. text' \in Seq(Lock!Token) /\ next' = 1 /\ slot' = [f \in Lock!Field |-> {}]
      /\ lock_phase' = "parse"
  BY DEF Lock!Leave, LockInv
<1>2. Lock!TypeOK'
  BY <1>1 DEF Lock!TypeOK, LockInv, Lock!Leave, Lock!Field
<1>3. DOMAIN text' = 1 .. Len(text')
  BY <1>1
<1>4. ReadLines' = {}
  BY <1>1, <1>3 DEF ReadLines, Lock!LineStarts
<1>5. next' \in Lock!LineStarts' \/ next' > Len(text')
  BY <1>1, <1>3 DEF Lock!LineStarts
<1>6. slot' = [f \in Lock!Field |-> UNION {Lock!StoredAt(i, f)' : i \in ReadLines'}]
  BY <1>1, <1>4
<1>7. LockProgress'
  BY <1>4, <1>5, <1>6 DEF LockProgress
<1> QED
  BY <1>1, <1>2, <1>7 DEF LockInv, Lock!AcceptedIffEachFieldOnce

(* Reading the line at next adds what it offers to the slots. *)
LEMMA LineRead ==
  ASSUME LockInv, lock_phase = "parse", next <= Len(text),
         next' = Lock!LineEnd(next) + 1, UNCHANGED <<snapshot, text, origin, lock_phase>>,
         slot' = [f \in Lock!Field |-> slot[f] \cup Lock!StoredAt(next, f)],
         Lock!Blank(next) \/ \E f \in Lock!Field : Lock!StoredAt(next, f) # {},
         \A f \in Lock!Field : Lock!StoredAt(next, f) # {} => slot[f] = {}
  PROVE  LockInv'
<1>1. Lock!TypeOK /\ LockProgress
  BY DEF LockInv
<1>2. text \in Seq(Lock!Token) /\ Len(text) \in Nat /\ next \in Lock!LineStarts
  BY <1>1 DEF Lock!TypeOK, LockProgress
<1>3. /\ next' \in Nat \ {0}
      /\ next' \in Lock!LineStarts \/ next' > Len(text)
      /\ \A k \in Lock!LineStarts : k < next' <=> k < next \/ k = next
  BY <1>2, NextLine
<1>4. Lock!LineStarts' = Lock!LineStarts
  BY DEF Lock!LineStarts
<1>5. ReadLines' = ReadLines \cup {next}
  BY <1>2, <1>3, <1>4 DEF ReadLines
<1>6. \A i, f : Lock!StoredAt(i, f)' = Lock!StoredAt(i, f) /\ (Lock!Blank(i)' <=> Lock!Blank(i))
  BY DEF Lock!StoredAt, Lock!Blank, Lock!Name, Lock!ValueText, Lock!LineAt, Lock!LineEnd
<1>7. \A f \in Lock!Field : slot[f] = UNION {Lock!StoredAt(i, f) : i \in ReadLines}
  BY <1>1 DEF LockProgress
<1>8. \A f \in Lock!Field : slot[f] = {} => \A i \in ReadLines : Lock!StoredAt(i, f) = {}
  <2>1. ASSUME NEW f \in Lock!Field, slot[f] = {}, NEW i \in ReadLines
        PROVE  Lock!StoredAt(i, f) = {}
    <3>1. Lock!StoredAt(i, f) \in {Lock!StoredAt(j, f) : j \in ReadLines}
      OBVIOUS
    <3>2. UNION {Lock!StoredAt(j, f) : j \in ReadLines} = {}
      BY <1>7, <2>1
    <3> QED
      BY ONLY <3>1, <3>2
  <2> QED
    BY <2>1
<1>9. Lock!TypeOK'
  <2>1. slot'["root_store_version"] \subseteq (-MaxVersion - 1) .. MaxVersion
    BY <1>1, StoredInRange DEF Lock!TypeOK, Lock!Field
  <2> QED
    BY <1>1, <1>3, <2>1 DEF Lock!TypeOK, Lock!SourceValid, Lock!DottedVersion, Lock!Components
<1>10. slot' = [f \in Lock!Field |-> UNION {Lock!StoredAt(i, f)' : i \in ReadLines'}]
  <2>1. ASSUME NEW f \in Lock!Field
        PROVE  slot[f] \cup Lock!StoredAt(next, f) = UNION {Lock!StoredAt(i, f)' : i \in ReadLines'}
    BY <1>5, <1>6, <1>7
  <2> QED
    BY <2>1
<1>11. \A i \in ReadLines' : Lock!Blank(i)' \/ \E f \in Lock!Field : Lock!StoredAt(i, f)' # {}
  BY <1>1, <1>5, <1>6 DEF LockProgress
<1>12. ASSUME NEW f \in Lock!Field, NEW i \in ReadLines', NEW k \in ReadLines',
              Lock!StoredAt(i, f)' # {}, Lock!StoredAt(k, f)' # {}
       PROVE  i = k
  <2>1. Lock!StoredAt(i, f) # {} /\ Lock!StoredAt(k, f) # {}
    BY <1>6, <1>12
  <2>2. i \in ReadLines \cup {next} /\ k \in ReadLines \cup {next}
    BY <1>5
  <2>3. CASE slot[f] = {}
    BY <1>8, <2>1, <2>2, <2>3
  <2>4. CASE slot[f] # {}
    <3>1. Lock!StoredAt(next, f) = {}
      BY <2>4
    <3> QED
      BY <1>1, <2>1, <2>2, <3>1 DEF LockProgress
  <2> QED
    BY <2>3, <2>4
<1>13. LockProgress'
  BY <1>3, <1>4, <1>10, <1>11, <1>12 DEF LockProgress
<1> QED
  BY <1>9, <1>13 DEF LockInv, Lock!AcceptedIffEachFieldOnce

(* The loop leaves behind it what all lines offer. *)
LEMMA AllLinesRead ==
  ASSUME Lock!TypeOK, LockProgress, next > Len(text)
  PROVE  /\ ReadLines = Lock!LineStarts
         /\ slot = Lock!Offered
<1>1. Len(text) \in Nat /\ DOMAIN text = 1 .. Len(text) /\ next \in Nat
  BY DEF Lock!TypeOK
<1>2. ReadLines = Lock!LineStarts
  BY <1>1 DEF ReadLines, Lock!LineStarts
<1> QED
  BY <1>2 DEF LockProgress, Lock!Offered

(* Every field is offered once, if every slot is full. *)
LEMMA FullSlots ==
  ASSUME Lock!TypeOK, LockProgress, next > Len(text), \A f \in Lock!Field : slot[f] # {}
  PROVE  Lock!EachFieldOnce
<1>1. ReadLines = Lock!LineStarts
  BY AllLinesRead
<1>2. ASSUME NEW f \in Lock!Field
      PROVE  \E i \in Lock!LineStarts :
               \A k \in Lock!LineStarts : Lock!StoredAt(k, f) # {} <=> k = i
  <2>1. slot[f] = UNION {Lock!StoredAt(i, f) : i \in Lock!LineStarts}
    BY <1>1 DEF LockProgress
  <2>2. PICK v : v \in UNION {Lock!StoredAt(i, f) : i \in Lock!LineStarts}
    BY <2>1
  <2>3. PICK i \in Lock!LineStarts : v \in Lock!StoredAt(i, f)
    BY <2>2
  <2>4. \A k \in Lock!LineStarts : Lock!StoredAt(k, f) # {} <=> k = i
    BY <1>1, <2>3 DEF LockProgress
  <2> QED
    BY <2>4
<1> QED
  BY <1>1, <1>2 DEF LockProgress, Lock!EachFieldOnce

(* The properties of the text stay as they are while it does.                 *)
LEMMA TextKept ==
  ASSUME text' = text
  PROVE  /\ Lock!EachFieldOnce' <=> Lock!EachFieldOnce
         /\ Lock!Offered' = Lock!Offered
<1>1. Lock!LineStarts' = Lock!LineStarts
  BY DEF Lock!LineStarts
<1>2. \A i, f : Lock!StoredAt(i, f)' = Lock!StoredAt(i, f) /\ (Lock!Blank(i)' <=> Lock!Blank(i))
  BY DEF Lock!StoredAt, Lock!Blank, Lock!Name, Lock!ValueText, Lock!LineAt, Lock!LineEnd
<1>3. Lock!EachFieldOnce' <=> Lock!EachFieldOnce
  BY <1>1, <1>2 DEF Lock!EachFieldOnce
<1>4. Lock!Offered' = Lock!Offered
  BY <1>1, <1>2 DEF Lock!Offered
<1> QED
  BY <1>3, <1>4

(* A step that only ends the parse. *)
LEMMA Ended ==
  ASSUME LockInv, lock_phase = "parse", UNCHANGED <<snapshot, text, origin, next, slot>>,
         lock_phase' \in {"accepted", "refused"},
         lock_phase' = "accepted" =>
           Lock!EachFieldOnce /\ Lock!Complete(Lock!Offered) /\ slot = Lock!Offered,
         lock_phase' = "refused" => ~(Lock!EachFieldOnce /\ Lock!Complete(Lock!Offered))
  PROVE  LockInv'
<1>1. Lock!TypeOK /\ LockProgress
  BY DEF LockInv
<1>2. Lock!TypeOK'
  BY <1>1 DEF Lock!TypeOK, Lock!SourceValid, Lock!DottedVersion, Lock!Components
<1>3. Lock!LineStarts' = Lock!LineStarts /\ ReadLines' = ReadLines
  BY DEF Lock!LineStarts, ReadLines
<1>4. \A i, f : Lock!StoredAt(i, f)' = Lock!StoredAt(i, f) /\ (Lock!Blank(i)' <=> Lock!Blank(i))
  BY DEF Lock!StoredAt, Lock!Blank, Lock!Name, Lock!ValueText, Lock!LineAt, Lock!LineEnd
<1>5. slot' = [f \in Lock!Field |-> UNION {Lock!StoredAt(i, f)' : i \in ReadLines'}]
  BY <1>1, <1>3, <1>4 DEF LockProgress
<1>6. LockProgress'
  BY <1>1, <1>3, <1>4, <1>5 DEF LockProgress
<1>7. Lock!Complete(Lock!Offered)' <=> Lock!Complete(Lock!Offered)
  <2>1. Lock!Offered' = Lock!Offered
    BY TextKept
  <2> QED
    BY ONLY <2>1
<1> QED
  BY <1>2, <1>6, <1>7, TextKept DEF LockInv, Lock!AcceptedIffEachFieldOnce

LEMMA LockStep ==
  ASSUME LockInv, [Lock!Next]_(Lock!vars)
  PROVE  LockInv'
<1>1. ASSUME lock_phase = "write", NEW s \in Candidates, Lock!WriteSourceLock(s)
      PROVE  LockInv'
  <2>1. Lock!Contents(s) \in Seq(Lock!Token) /\ s \in Lock!Snapshot
    BY <1>1, ContentsTyped, LockConstants DEF Lock!WriteSourceLock
  <2>2. snapshot' \in Lock!Snapshot /\ Lock!SourceValid(snapshot)'
    BY <1>1, <2>1 DEF Lock!WriteSourceLock, Lock!SourceValid, Lock!DottedVersion, Lock!Components
  <2> QED
    BY <1>1, <2>1, <2>2, LeftUnread DEF Lock!WriteSourceLock
<1>2. ASSUME lock_phase = "write", NEW s \in Candidates,
             NEW n \in 0 .. Len(Lock!Contents(s)), Lock!CutShort(s, n)
      PROVE  LockInv'
  <2>1. Lock!Contents(s) \in Seq(Lock!Token) /\ s \in Lock!Snapshot
    BY <1>2, ContentsTyped, LockConstants DEF Lock!CutShort
  <2>2. snapshot' \in Lock!Snapshot /\ Lock!SourceValid(snapshot)'
    BY <1>2, <2>1 DEF Lock!CutShort, Lock!SourceValid, Lock!DottedVersion, Lock!Components
  <2>3. SubSeq(Lock!Contents(s), 1, n) \in Seq(Lock!Token)
    BY <2>1
  <2>4. SubSeq(Lock!Contents(s), 1, n) \o <<"frag">> \in Seq(Lock!Token)
    <3>1. <<"frag">> \in Seq(Lock!Token)
      BY DEF Lock!Token
    <3> QED
      BY <2>3, <3>1
  <2> QED
    BY <1>2, <2>2, <2>3, <2>4, LeftUnread DEF Lock!CutShort
<1>3. ASSUME lock_phase = "write", NEW s \in Candidates,
             NEW other \in Candidates, Lock!WriteOver(s, other)
      PROVE  LockInv'
  <2>1. Lock!Contents(s) \in Seq(Lock!Token) /\ s \in Lock!Snapshot
        /\ Lock!Contents(other) \in Seq(Lock!Token)
    BY <1>3, ContentsTyped, LockConstants DEF Lock!WriteOver
  <2>2. snapshot' \in Lock!Snapshot /\ Lock!SourceValid(snapshot)'
    BY <1>3, <2>1 DEF Lock!WriteOver, Lock!SourceValid, Lock!DottedVersion, Lock!Components
  <2> DEFINE m == Lock!Contents(s)
             t == Lock!Contents(other)
  <2>3. m \o SubSeq(t, Len(m) + 1, Len(t)) \in Seq(Lock!Token)
    <3>1. Len(m) \in Nat /\ Len(t) \in Nat /\ Len(m) < Len(t)
      BY <1>3, <2>1 DEF Lock!WriteOver
    <3> HIDE DEF m, t
    <3>2. m \in Seq(Lock!Token) /\ t \in Seq(Lock!Token)
      BY <2>1 DEF m, t
    <3>3. SubSeq(t, Len(m) + 1, Len(t)) \in Seq(Lock!Token)
      BY <3>1, <3>2
    <3> QED
      BY <3>2, <3>3
  <2> QED
    BY <1>3, <2>2, <2>3, LeftUnread DEF Lock!WriteOver
<1>4. ASSUME lock_phase = "write", NEW contents \in HandWritten, Lock!EditByHand(contents)
      PROVE  LockInv'
  <2>1. contents \in Seq(Lock!Token)
    BY LockConstants
  <2> QED
    BY <1>4, <2>1, LeftUnread DEF Lock!EditByHand
<1>5. ASSUME Lock!SkipLine
      PROVE  LockInv'
  <2>1. \A f \in Lock!Field : Lock!StoredAt(next, f) = {}
    BY <1>5, BlankOffersNothing DEF Lock!SkipLine
  <2>2. DOMAIN slot = Lock!Field /\ \E R : slot = [f \in Lock!Field |-> R[f]]
    <3>1. LockProgress
      BY <1>5 DEF Lock!SkipLine, Lock!MoreLines, LockInv
    <3>2. slot = [f \in Lock!Field |->
                     [g \in Lock!Field |-> UNION {Lock!StoredAt(i, g) : i \in ReadLines}][f]]
      BY <3>1 DEF LockProgress
    <3> QED
      BY <3>1, <3>2 DEF LockProgress
  <2>3. slot = [f \in Lock!Field |-> slot[f]]
    BY <2>2
  <2>4. slot' = [f \in Lock!Field |-> slot[f] \cup Lock!StoredAt(next, f)]
    BY <1>5, <2>1, <2>3 DEF Lock!SkipLine
  <2> QED
    BY <1>5, <2>1, <2>4, LineRead DEF Lock!SkipLine, Lock!MoreLines
<1>6. ASSUME NEW f \in Lock!Field, Lock!ReadField(f)
      PROVE  LockInv'
  <2>1. \A g \in Lock!Field \ {f} : Lock!StoredAt(next, g) = {}
    BY <1>6, OneField DEF Lock!ReadField
  <2>2. DOMAIN slot = Lock!Field
    BY DEF LockInv, Lock!TypeOK
  <2>3. slot' = [g \in Lock!Field |-> slot[g] \cup Lock!StoredAt(next, g)]
    <3>1. slot' = [slot EXCEPT ![f] = Lock!StoredAt(next, f)] /\ slot[f] = {}
      BY <1>6 DEF Lock!ReadField, Lock!SlotFree
    <3>2. slot' = [g \in Lock!Field |-> IF g = f THEN Lock!StoredAt(next, f) ELSE slot[g]]
      BY <2>2, <3>1
    <3> QED
      BY <2>1, <3>1, <3>2
  <2> QED
    BY <1>6, <2>1, <2>3, LineRead DEF Lock!ReadField, Lock!MoreLines, Lock!SlotFree
<1>7. ASSUME Lock!RefuseLine
      PROVE  LockInv'
  <2>1. /\ lock_phase = "parse" /\ Lock!TypeOK /\ LockProgress /\ next <= Len(text)
        /\ ~Lock!Blank(next)
        /\ \A f \in Lock!Field : Lock!StoredAt(next, f) # {} => slot[f] # {}
    BY <1>7 DEF Lock!RefuseLine, Lock!MoreLines, LockInv, Lock!SlotFree
  <2>2. next \in Lock!LineStarts /\ next \notin ReadLines
    BY <2>1 DEF LockProgress, Lock!TypeOK, ReadLines, Lock!LineStarts
  <2>3. ASSUME Lock!EachFieldOnce
        PROVE  FALSE
    <3>1. PICK f \in Lock!Field : Lock!StoredAt(next, f) # {}
      BY <2>1, <2>2, <2>3 DEF Lock!EachFieldOnce
    <3>2. slot[f] = UNION {Lock!StoredAt(i, f) : i \in ReadLines}
      BY <2>1 DEF LockProgress
    <3>3. PICK v : v \in UNION {Lock!StoredAt(i, f) : i \in ReadLines}
      BY <2>1, <3>1, <3>2
    <3>4. PICK i \in ReadLines : v \in Lock!StoredAt(i, f)
      BY <3>3
    <3>5. i \in Lock!LineStarts /\ i # next
      BY <2>2, <3>4 DEF ReadLines
    <3> QED
      BY <2>2, <2>3, <3>1, <3>4, <3>5 DEF Lock!EachFieldOnce
  <2> QED
    BY <1>7, <2>1, <2>3, Ended DEF Lock!RefuseLine
<1>8. ASSUME Lock!LinesDone
      PROVE  LockInv'
  <2>1. lock_phase = "parse" /\ Lock!TypeOK /\ LockProgress /\ next > Len(text)
    BY <1>8 DEF Lock!LinesDone, LockInv
  <2>2. slot = Lock!Offered
    BY <2>1, AllLinesRead
  <2>3. Lock!Complete(slot) => Lock!EachFieldOnce
    BY <2>1, FullSlots DEF Lock!Complete
  <2> QED
    BY <1>8, <2>1, <2>2, <2>3, Ended DEF Lock!LinesDone
<1>9. CASE UNCHANGED Lock!vars
  <2>1. /\ UNCHANGED <<snapshot, text, origin, next, slot, lock_phase>>
    BY <1>9 DEF Lock!vars
  <2>2. Lock!LineStarts' = Lock!LineStarts /\ ReadLines' = ReadLines
    BY <2>1 DEF Lock!LineStarts, ReadLines
  <2>3. \A i, f : Lock!StoredAt(i, f)' = Lock!StoredAt(i, f) /\ (Lock!Blank(i)' <=> Lock!Blank(i))
    BY <2>1 DEF Lock!StoredAt, Lock!Blank, Lock!Name, Lock!ValueText, Lock!LineAt, Lock!LineEnd
  <2>4. Lock!TypeOK'
    BY <2>1 DEF LockInv, Lock!TypeOK, Lock!SourceValid, Lock!DottedVersion, Lock!Components
  <2>5. lock_phase # "write" => LockProgress'
    <3>1. ASSUME lock_phase # "write" PROVE LockProgress
      BY <3>1 DEF LockInv
    <3>2. ASSUME LockProgress
          PROVE  slot' = [f \in Lock!Field |-> UNION {Lock!StoredAt(i, f)' : i \in ReadLines'}]
      BY <2>1, <2>2, <2>3, <3>2 DEF LockProgress
    <3> QED
      BY <2>1, <2>2, <2>3, <3>1, <3>2 DEF LockProgress
  <2>6. Lock!Complete(Lock!Offered)' <=> Lock!Complete(Lock!Offered)
    <3>1. Lock!Offered' = Lock!Offered
      BY <2>1, TextKept
    <3> QED
      BY ONLY <3>1
  <2> QED
    BY <2>1, <2>4, <2>5, <2>6, TextKept DEF LockInv, Lock!AcceptedIffEachFieldOnce
<1>10. CASE Lock!Next
  BY <1>1, <1>2, <1>3, <1>4, <1>5, <1>6, <1>7, <1>8, <1>10 DEF Lock!Next
<1> QED
  BY <1>9, <1>10

-----------------------------------------------------------------------------
(* Both files *)

(* A behaviour of the two parsers is, as far as crs.pb goes, one of the guard *)
(* and the decoder (wire.rs, protobuf.rs).                                    *)
THEOREM WireProjection == FilesSpec => Spec
<1>1. FilesInit => Init
  BY DEF FilesInit
<1>2. [ReadCrs \/ ReadSourceLock]_<<read, vars, lock>> => [Next]_vars
  BY DEF ReadCrs, ReadSourceLock
<1> QED
  BY <1>1, <1>2, PTL DEF FilesSpec, Spec

(* And, as far as SOURCE.toml goes, one of parse_source_lock (generator.rs).  *)
THEOREM LockProjection == FilesSpec => Lock!Spec
<1>1. FilesInit => Lock!Init
  BY DEF FilesInit
<1>2. [ReadCrs \/ ReadSourceLock]_<<read, vars, lock>> => [Lock!Next]_(Lock!vars)
  BY DEF ReadCrs, ReadSourceLock, lock, Lock!vars
<1> QED
  BY <1>1, <1>2, PTL DEF FilesSpec, Lock!Spec

LEMMA WireAlways == FilesSpec => []WireInv
BY WireProjection, WireInit, WireStep, PTL DEF Spec

LEMMA LockAlways == FilesSpec => []LockInv
BY LockProjection, LockInit, LockStep, PTL DEF Lock!Spec

(* Types: positions stay in the buffer and the stack of messages is as deep   *)
(* as the configuration; what is on disk before parsing was written from      *)
(* valid provenance, and no version beyond an i64 is ever stored              *)
(* (write_source_lock, str::parse).                                           *)
THEOREM FileTypes == FilesSpec => []TypesOK
<1>1. WireInv /\ LockInv => TypesOK
  BY DEF WireInv, LockInv, TypesOK
<1> QED
  BY <1>1, WireAlways, LockAlways, PTL

(* The decoder follows the guard configuration by configuration: what the     *)
(* guard checked is what is decoded (protobuf.rs:163-164).                    *)
THEOREM DecoderRetraces == FilesSpec => []Retraces
<1>1. WireInv => Retraces
  BY DEF WireInv
<1> QED
  BY <1>1, WireAlways, PTL

(* No field of an accepted Root Store is skipped by prost (wire.rs:3-5), and  *)
(* only a string field that is not UTF-8 fails to decode.                     *)
THEOREM DecodesInFull == FilesSpec => []FullyDecoded
<1>1. WireInv => FullyDecoded
  BY DEF WireInv, FullyDecoded
<1> QED
  BY <1>1, WireAlways, PTL

(* For texts of any length, parse_source_lock accepts exactly those with each *)
(* field on one line of its own and valid values, and returns what these      *)
(* lines say, whatever their order and whatever blank lines are between.      *)
THEOREM AcceptanceExact == FilesSpec => []AcceptedIffEachFieldOnce
<1>1. LockInv => AcceptedIffEachFieldOnce
  BY DEF LockInv, AcceptedIffEachFieldOnce
<1> QED
  BY <1>1, LockAlways, PTL

-----------------------------------------------------------------------------
(* Recursion over numbers *)

(* What holds of 0 and passes on from each number to the next holds up to n. *)
LEMMA UpTo ==
  ASSUME NEW n \in Nat, NEW P, 0 \in P, \A k \in 1 .. n : k - 1 \in P => k \in P
  PROVE  \A k \in 0 .. n : k \in P
<1> DEFINE Q == {k \in 0 .. n : k \notin P}
<1>1. SUFFICES ASSUME Q # {} PROVE FALSE
  OBVIOUS
<1>2. PICK m \in Q : \A k \in Q : m <= k
  <2>1. Q \in SUBSET Nat
    OBVIOUS
  <2> HIDE DEF Q
  <2> QED
    BY <1>1, <2>1, LeastNumber
<1>3. m \in 1 .. n /\ m - 1 \in 0 .. n /\ m - 1 \notin Q
  BY <1>2
<1> QED
  BY <1>2, <1>3

(* A function given by its first value and its steps exists.                  *)
LEMMA StepsExist ==
  ASSUME NEW S, NEW c \in S, NEW n \in Nat, NEW step \in [1 .. n -> [S -> S]]
  PROVE  \E f \in [0 .. n -> S] : f[0] = c /\ \A k \in 1 .. n : f[k] = step[k][f[k - 1]]
<1> DEFINE Solves(f, m) == f[0] = c /\ \A k \in 1 .. m : f[k] = step[k][f[k - 1]]
           P == {m \in 0 .. n : \E f \in [0 .. m -> S] : Solves(f, m)}
<1>1. 0 \in P
  <2> DEFINE f == [k \in 0 .. 0 |-> c]
  <2>1. f \in [0 .. 0 -> S] /\ f[0] = c /\ 1 .. 0 = {}
    OBVIOUS
  <2>2. Solves(f, 0)
    BY <2>1
  <2> HIDE DEF f, Solves
  <2> QED
    BY <2>1, <2>2
<1>2. ASSUME NEW m \in 1 .. n, m - 1 \in P
      PROVE  m \in P
  <2>1. PICK f \in [0 .. m - 1 -> S] : Solves(f, m - 1)
    BY <1>2
  <2>2. f[m - 1] \in S
    OBVIOUS
  <2> DEFINE g == [k \in 0 .. m |-> IF k = m THEN step[m][f[m - 1]] ELSE f[k]]
  <2>3. step[m][f[m - 1]] \in S
    BY <2>2
  <2>4. g \in [0 .. m -> S]
    BY <2>3
  <2>5. g[m] = step[m][f[m - 1]] /\ \A k \in 0 .. m - 1 : g[k] = f[k]
    OBVIOUS
  <2> HIDE DEF g
  <2>6. ASSUME NEW k \in 1 .. m
        PROVE  g[k] = step[k][g[k - 1]]
    <3>1. CASE k = m
      <4>1. m - 1 \in 0 .. m - 1
        OBVIOUS
      <4> QED
        BY <2>5, <3>1, <4>1
    <3>2. CASE k # m
      <4>1. k \in 1 .. m - 1 /\ k - 1 \in 0 .. m - 1
        BY <3>2
      <4> QED
        BY <2>1, <2>5, <4>1
    <3> QED
      BY <3>1, <3>2
  <2>7. g[0] = c
    BY <2>1, <2>5
  <2>8. Solves(g, m)
    BY <2>6, <2>7
  <2> HIDE DEF Solves
  <2> QED
    BY <2>4, <2>8
<1>3. \A m \in 0 .. n : m \in P
  BY <1>1, <1>2, UpTo
<1> QED
  BY <1>3

-----------------------------------------------------------------------------
(* The value of a varint *)

LEMMA ElementOf ==
  ASSUME NEW S, NEW s \in Seq(S)
  PROVE  \A i \in 1 .. Len(s) : s[i] \in S
OBVIOUS

LEMMA Powers ==
  /\ Power[0] = 1
  /\ \A k \in 1 .. VarintBytes : Power[k] = Base * Power[k - 1]
  /\ \A k \in 0 .. VarintBytes : Power[k] \in Nat \ {0}
<1> DEFINE n == VarintBytes
           S == Nat \ {0}
           step == [k \in 1 .. n |-> [x \in S |-> Base * x]]
           Body(h) == [k \in 0 .. n |-> IF k = 0 THEN 1 ELSE Base * h[k - 1]]
           g == CHOOSE h : h = Body(h)
<1>1. n \in Nat /\ Base \in Nat /\ Base > 1
  BY WireAssumption
<1>2. \A x \in S : Base * x \in S
  BY <1>1
<1>3. Power = g
  BY DEF Power
<1>4. 1 \in S
  OBVIOUS
<1> HIDE DEF n, S
<1>5. step \in [1 .. n -> [S -> S]]
  BY <1>2
<1>6. \A k \in 1 .. n : \A x \in S : step[k][x] = Base * x
  OBVIOUS
<1> HIDE DEF step
<1>7. PICK f \in [0 .. n -> S] : f[0] = 1 /\ \A k \in 1 .. n : f[k] = step[k][f[k - 1]]
  BY <1>1, <1>4, <1>5, StepsExist
<1>8. ASSUME NEW k \in 1 .. n
      PROVE  f[k] = Base * f[k - 1]
  <2>1. k - 1 \in 0 .. n
    BY <1>1
  <2>2. f[k - 1] \in S
    BY <2>1
  <2> QED
    BY <1>6, <1>7, <2>2
<1>9. f = Body(f)
  <2>1. \A k \in 0 .. n : k = 0 \/ k \in 1 .. n
    BY <1>1
  <2>2. \A k \in 0 .. n : f[k] = IF k = 0 THEN 1 ELSE Base * f[k - 1]
    BY <1>7, <1>8, <2>1
  <2> QED
    BY <2>2
<1> HIDE DEF Body
<1>10. g = Body(g)
  BY <1>9
<1> HIDE DEF g
<1>11. \A k \in 0 .. n : g[k] = IF k = 0 THEN 1 ELSE Base * g[k - 1]
  BY <1>10 DEF Body
<1> DEFINE P == {k \in 0 .. n : g[k] \in S}
<1>12. 0 \in P
  BY <1>1, <1>4, <1>11
<1>13. \A k \in 1 .. n : k - 1 \in P => k \in P
  BY <1>1, <1>2, <1>11
<1>14. \A k \in 0 .. n : k \in P
  <2> HIDE DEF P
  <2> QED
    BY <1>1, <1>12, <1>13, UpTo
<1>15. \A k \in 0 .. n : g[k] \in S
  BY <1>14
<1>16. \A k \in 1 .. n : g[k] = Base * g[k - 1]
  <2>1. \A k \in 1 .. n : k \in 0 .. n /\ k # 0
    BY <1>1
  <2> QED
    BY <1>11, <2>1
<1>17. g[0] = 1
  BY <1>1, <1>11
<1> QED
  BY <1>3, <1>15, <1>16, <1>17 DEF n, S

(* No power of Base below the last group's is larger than that one.           *)
LEMMA PowersGrow ==
  ASSUME NEW k \in 0 .. VarintBytes - 1
  PROVE  Power[k] <= Power[VarintBytes - 1]
<1> DEFINE n == VarintBytes - 1
           P == {j \in 0 .. n - k : Power[k] <= Power[k + j]}
<1>1. /\ VarintBytes \in Nat /\ n \in Nat /\ n - k \in Nat /\ Base \in Nat /\ Base > 1 /\ k \in Nat
      /\ k \in 0 .. VarintBytes
  BY WireAssumption
<1>2. 0 \in P
  <2>1. Power[k] \in Nat /\ k + 0 = k /\ 0 \in 0 .. n - k
    BY <1>1, Powers
  <2>2. Power[k] <= Power[k + 0]
    BY <2>1
  <2> QED
    BY <2>1, <2>2
<1>3. ASSUME NEW j \in 1 .. n - k, j - 1 \in P
      PROVE  j \in P
  <2>1. k + j \in 1 .. VarintBytes /\ (k + j) - 1 = k + (j - 1) /\ k + (j - 1) \in 0 .. VarintBytes
        /\ k \in 0 .. VarintBytes
    BY <1>1
  <2>2. Power[k + j] = Base * Power[k + (j - 1)]
    BY <2>1, Powers
  <2>3. Power[k] <= Power[k + (j - 1)]
    BY <1>3
  <2>4. \A b, x, y \in Nat : b > 1 /\ x <= y => x <= b * y
    <3> SUFFICES ASSUME NEW b \in Nat, NEW x \in Nat, NEW y \in Nat, b > 1, x <= y
                 PROVE  x <= b * y
      OBVIOUS
    <3>1. b * y = y + (b - 1) * y /\ (b - 1) * y >= 0
      OBVIOUS
    <3> QED
      BY <3>1
  <2>5. Power[k] \in Nat /\ Power[k + (j - 1)] \in Nat
    BY <2>1, Powers
  <2>6. Power[k] <= Power[k + j]
    BY <1>1, <2>2, <2>3, <2>4, <2>5
  <2> QED
    BY <2>6
<1>4. \A j \in 0 .. n - k : j \in P
  <2> HIDE DEF P, n
  <2> QED
    BY <1>1, <1>2, <1>3, UpTo
<1>5. n - k \in P
  BY <1>1, <1>4
<1>6. k + (n - k) = n
  BY <1>1
<1> QED
  BY <1>5, <1>6

(* Running totals exist. *)
LEMMA NumberSteps ==
  \A n \in Nat : \A step \in [1 .. n -> [Nat -> Nat]] :
    \E f \in [0 .. n -> Nat] : f[0] = 0 /\ \A k \in 1 .. n : f[k] = step[k][f[k - 1]]
<1> DEFINE T == Nat
           zero == 0
<1>1. zero \in T
  OBVIOUS
<1> HIDE DEF T, zero
<1>2. ASSUME NEW n \in Nat, NEW step \in [1 .. n -> [T -> T]]
      PROVE  \E f \in [0 .. n -> T] : f[0] = zero /\ \A k \in 1 .. n : f[k] = step[k][f[k - 1]]
  BY <1>1, StepsExist
<1> QED
  BY <1>2 DEF T, zero

LEMMA SumsExist ==
  ASSUME NEW n \in Nat, NEW add \in [1 .. n -> Nat]
  PROVE  \E f \in [0 .. n -> Nat] : f[0] = 0 /\ \A k \in 1 .. n : f[k] = f[k - 1] + add[k]
<1> DEFINE step == [k \in 1 .. n |-> [x \in Nat |-> x + add[k]]]
<1>1. \A k \in 1 .. n : \A x \in Nat : x + add[k] \in Nat
  OBVIOUS
<1>2. step \in [1 .. n -> [Nat -> Nat]]
  BY <1>1
<1>3. \A k \in 1 .. n : \A x \in Nat : step[k][x] = x + add[k]
  OBVIOUS
<1> HIDE DEF step
<1>4. PICK f \in [0 .. n -> Nat] : f[0] = 0 /\ \A k \in 1 .. n : f[k] = step[k][f[k - 1]]
  BY <1>2, NumberSteps
<1>5. ASSUME NEW k \in 1 .. n
      PROVE  f[k] = f[k - 1] + add[k]
  <2>1. k - 1 \in 0 .. n
    OBVIOUS
  <2>2. f[k - 1] \in Nat
    BY <2>1
  <2> QED
    BY <1>3, <1>4, <2>2
<1> QED
  BY <1>4, <1>5

(* The groups of n bytes, one after the other. *)
LEMMA ValueSteps ==
  ASSUME input \in Seq(0 .. 2 * Base - 1), NEW p \in Nat \ {0}, NEW n \in 1 .. VarintBytes,
         p + n <= Len(input) + 1
  PROVE  /\ \A k \in 0 .. n - 1 : input[p + k] \in 0 .. 2 * Base - 1
         /\ \E v \in [0 .. n -> Nat] :
           /\ v[0] = 0
           /\ \A k \in 1 .. n : v[k] = v[k - 1] + (input[p + k - 1] % Base) * Power[k - 1]
           /\ Value(p, n) = v[n]
<1> DEFINE add == [k \in 1 .. n |-> (input[p + k - 1] % Base) * Power[k - 1]]
           Body(h) == [k \in 0 .. n |->
                         IF k = 0 THEN 0
                         ELSE h[k - 1] + (input[p + k - 1] % Base) * Power[k - 1]]
           g == CHOOSE h : h = Body(h)
<1>1. n \in Nat /\ Base \in Nat /\ Base > 1 /\ VarintBytes \in Nat
  BY WireAssumption
<1>2. \A k \in 0 .. n - 1 : input[p + k] \in 0 .. 2 * Base - 1
  <2>1. \A k \in 0 .. n - 1 : p + k \in 1 .. Len(input)
    BY <1>1
  <2>2. \A i \in 1 .. Len(input) : input[i] \in 0 .. 2 * Base - 1
    BY ElementOf
  <2> QED
    BY <2>1, <2>2
<1>3. ASSUME NEW k \in 1 .. n
      PROVE  (input[p + k - 1] % Base) * Power[k - 1] \in Nat
  <2>1. k - 1 \in 0 .. n - 1 /\ p + (k - 1) = p + k - 1 /\ k - 1 \in 0 .. VarintBytes
    BY <1>1
  <2>2. input[p + k - 1] \in 0 .. 2 * Base - 1
    BY <1>2, <2>1
  <2>3. (input[p + k - 1] % Base) \in Nat
    BY <1>1, <2>2
  <2>4. Power[k - 1] \in Nat
    BY <2>1, Powers
  <2> QED
    BY <2>3, <2>4
<1>4. Value(p, n) = g[n]
  BY DEF Value
<1>5. add \in [1 .. n -> Nat]
  BY <1>3
<1>6. \A k \in 1 .. n : add[k] = (input[p + k - 1] % Base) * Power[k - 1]
  OBVIOUS
<1> HIDE DEF add
<1>11. PICK f \in [0 .. n -> Nat] : f[0] = 0 /\ \A k \in 1 .. n : f[k] = f[k - 1] + add[k]
  BY <1>1, <1>5, SumsExist
<1>12. \A k \in 1 .. n : f[k] = f[k - 1] + (input[p + k - 1] % Base) * Power[k - 1]
  BY <1>6, <1>11
<1>13. f = Body(f)
  <2>1. \A k \in 0 .. n : k = 0 \/ k \in 1 .. n
    BY <1>1
  <2>2. \A k \in 0 .. n :
          f[k] = IF k = 0 THEN 0 ELSE f[k - 1] + (input[p + k - 1] % Base) * Power[k - 1]
    BY <1>11, <1>12, <2>1
  <2> QED
    BY <2>2
<1> HIDE DEF Body
<1>14. g = Body(g)
  BY <1>13
<1> HIDE DEF g
<1>15. \A k \in 0 .. n :
          g[k] = IF k = 0 THEN 0 ELSE g[k - 1] + (input[p + k - 1] % Base) * Power[k - 1]
  BY <1>14 DEF Body
<1>16. \A k \in 1 .. n : k \in 0 .. n /\ k # 0
  BY <1>1
<1>17. \A k \in 1 .. n : g[k] = g[k - 1] + (input[p + k - 1] % Base) * Power[k - 1]
  BY <1>15, <1>16
<1>18. g[0] = 0
  BY <1>1, <1>15
<1> DEFINE P == {k \in 0 .. n : g[k] = f[k]}
<1>19. 0 \in P
  BY <1>1, <1>11, <1>18
<1>20. ASSUME NEW k \in 1 .. n, k - 1 \in P
       PROVE  k \in P
  BY <1>12, <1>16, <1>17, <1>20
<1>21. \A k \in 0 .. n : k \in P
  <2> HIDE DEF P
  <2> QED
    BY <1>1, <1>19, <1>20, UpTo
<1>22. g[n] = f[n]
  BY <1>1, <1>21
<1> QED
  BY <1>2, <1>4, <1>11, <1>12, <1>22

LEMMA BelowNextPower ==
  ASSUME NEW b \in Nat, NEW d \in 0 .. b - 1, NEW q \in Nat, NEW x \in Nat, x < q
  PROVE  x + d * q < b * q
<1>1. b * q = d * q + (b - d) * q
  BY SMTT(30)
<1>2. b - d \in Nat /\ b - d >= 1
  OBVIOUS
<1>3. \A a \in Nat : a >= 1 => a * q >= q
  <2> SUFFICES ASSUME NEW a \in Nat, a >= 1 PROVE a * q >= q
    OBVIOUS
  <2>1. a * q = q + (a - 1) * q /\ (a - 1) * q >= 0
    BY SMTT(30)
  <2> QED
    BY <2>1
<1>4. (b - d) * q >= q
  BY <1>2, <1>3
<1>5. d * q \in Int /\ (b - d) * q \in Int
  OBVIOUS
<1> QED
  BY <1>1, <1>4, <1>5

(* A varint of n bytes is below the n-th power, and its last byte decides.    *)
LEMMA ValueBelow ==
  ASSUME input \in Seq(0 .. 2 * Base - 1), NEW p \in Nat \ {0}, NEW n \in 1 .. VarintBytes,
         p + n <= Len(input) + 1
  PROVE  /\ Value(p, n) \in Nat
         /\ Value(p, n) < Power[n]
         /\ \E x \in Nat : /\ x < Power[n - 1]
                           /\ Value(p, n) = x + (input[p + n - 1] % Base) * Power[n - 1]
<1>1. PICK v \in [0 .. n -> Nat] :
        /\ v[0] = 0
        /\ \A k \in 1 .. n : v[k] = v[k - 1] + (input[p + k - 1] % Base) * Power[k - 1]
        /\ Value(p, n) = v[n]
  BY ValueSteps
<1>2. /\ n \in Nat /\ Base \in Nat /\ Base > 1 /\ VarintBytes \in Nat
      /\ \A k \in 0 .. n - 1 : input[p + k] \in 0 .. 2 * Base - 1
  BY WireAssumption, ValueSteps
<1> DEFINE P == {k \in 0 .. n : v[k] < Power[k]}
<1>3. 0 \in P
  BY <1>1, <1>2, Powers
<1>4. ASSUME NEW k \in 1 .. n, k - 1 \in P
      PROVE  k \in P
  <2>1. k - 1 \in 0 .. n - 1 /\ p + (k - 1) = p + k - 1 /\ k \in 1 .. VarintBytes
        /\ k - 1 \in 0 .. VarintBytes /\ k - 1 \in 0 .. n /\ k \in 0 .. n
    BY <1>2
  <2>2. input[p + k - 1] \in 0 .. 2 * Base - 1
    BY <1>2, <2>1
  <2>3. (input[p + k - 1] % Base) \in 0 .. Base - 1
    BY <1>2, <2>2
  <2>4. Power[k] = Base * Power[k - 1] /\ Power[k - 1] \in Nat
    BY <2>1, Powers
  <2>5. v[k - 1] \in Nat /\ v[k - 1] < Power[k - 1]
    BY <1>4, <2>1
  <2>6. v[k - 1] + (input[p + k - 1] % Base) * Power[k - 1] < Base * Power[k - 1]
    BY <1>2, <2>3, <2>4, <2>5, BelowNextPower
  <2>7. v[k] < Power[k]
    BY <1>1, <2>4, <2>6
  <2> QED
    BY <2>1, <2>7
<1>5. \A k \in 0 .. n : k \in P
  <2> HIDE DEF P
  <2> QED
    BY <1>2, <1>3, <1>4, UpTo
<1>6. n \in 1 .. n /\ n - 1 \in 0 .. n /\ n \in 0 .. n
  BY <1>2
<1>7. v[n] < Power[n] /\ v[n - 1] < Power[n - 1] /\ v[n] \in Nat /\ v[n - 1] \in Nat
  BY <1>5, <1>6
<1> QED
  BY <1>1, <1>6, <1>7

LEMMA AtMostLast ==
  ASSUME NEW d \in Nat, NEW l \in Nat, NEW q \in Nat \ {0}, NEW x \in Nat, x < q
  PROVE  x + d * q < (l + 1) * q <=> d <= l
<1>1. CASE d <= l
  <2>1. d \in 0 .. (l + 1) - 1 /\ l + 1 \in Nat /\ q \in Nat
    BY <1>1
  <2> QED
    BY <1>1, <2>1, BelowNextPower
<1>2. CASE d > l
  <2>1. d * q = (l + 1) * q + (d - (l + 1)) * q
    BY SMTT(30)
  <2>2. d - (l + 1) \in Nat
    BY <1>2
  <2>3. \A a \in Nat : a * q >= 0
    BY SMTT(30)
  <2>4. (d - (l + 1)) * q >= 0
    BY <2>2, <2>3
  <2>5. (l + 1) * q \in Int /\ (d - (l + 1)) * q \in Int /\ d * q \in Int
    OBVIOUS
  <2> QED
    BY <1>2, <2>1, <2>4, <2>5
<1> QED
  BY <1>1, <1>2

(* The limit on the last byte of a longest varint is the limit on its value. *)
LEMMA LastByteLimits ==
  ASSUME input \in Seq(0 .. 2 * Base - 1), NEW p \in Nat \ {0}, NEW n \in 1 .. VarintBytes,
         p + n <= Len(input) + 1, input[p + n - 1] < Base
  PROVE  Value(p, n) < U64 <=> (n = VarintBytes => input[p + n - 1] <= LastGroup)
<1>1. /\ n \in Nat /\ Base \in Nat /\ Base > 1 /\ VarintBytes \in Nat \ {0}
      /\ LastGroup \in Nat /\ n - 1 \in 0 .. n - 1 /\ p + (n - 1) = p + n - 1
  BY WireAssumption
<1>2. input[p + n - 1] \in 0 .. Base - 1
  <2>1. \A k \in 0 .. n - 1 : input[p + k] \in 0 .. 2 * Base - 1
    BY ValueSteps
  <2>2. input[p + n - 1] \in 0 .. 2 * Base - 1
    BY <1>1, <2>1
  <2> QED
    BY <1>1, <2>2
<1>3. (input[p + n - 1] % Base) = input[p + n - 1]
  <2> DEFINE d == input[p + n - 1]
  <2>1. d \in 0 .. Base - 1
    BY <1>2
  <2> HIDE DEF d
  <2>2. (d % Base) = d
    BY <1>1, <2>1
  <2> QED
    BY <2>2 DEF d
<1>4. PICK x \in Nat : /\ x < Power[n - 1]
                       /\ Value(p, n) = x + input[p + n - 1] * Power[n - 1]
  BY <1>3, ValueBelow
<1>5. /\ VarintBytes - 1 \in 0 .. VarintBytes
      /\ n \in 0 .. VarintBytes /\ n - 1 \in 0 .. VarintBytes
  BY <1>1
<1>6. Power[VarintBytes - 1] \in Nat \ {0} /\ Power[n] \in Nat /\ Power[n - 1] \in Nat \ {0}
  BY <1>5, Powers
<1>7. CASE n = VarintBytes
  <2>1. U64 = (LastGroup + 1) * Power[n - 1]
    BY <1>7 DEF U64
  <2>2. x + input[p + n - 1] * Power[n - 1] < (LastGroup + 1) * Power[n - 1]
          <=> input[p + n - 1] <= LastGroup
    <3> DEFINE d == input[p + n - 1]
               q == Power[n - 1]
    <3>1. d \in Nat /\ q \in Nat \ {0} /\ x < q
      BY <1>1, <1>2, <1>4, <1>6
    <3> HIDE DEF d, q
    <3>2. x + d * q < (LastGroup + 1) * q <=> d <= LastGroup
      BY <1>1, <3>1, AtMostLast
    <3> QED
      BY <3>2 DEF d, q
  <2> QED
    BY <1>4, <1>7, <2>1, <2>2
<1>8. CASE n # VarintBytes
  <2>1. n \in 0 .. VarintBytes - 1
    BY <1>1, <1>8
  <2>2. Power[n] <= Power[VarintBytes - 1]
    BY <2>1, PowersGrow
  <2>3. \A l, q \in Nat : q <= (l + 1) * q
    <3> SUFFICES ASSUME NEW l \in Nat, NEW q \in Nat PROVE q <= (l + 1) * q
      OBVIOUS
    <3>1. (l + 1) * q = l * q + q /\ l * q >= 0
      BY SMTT(30)
    <3> QED
      BY <3>1
  <2>4. Power[VarintBytes - 1] <= U64
    BY <1>1, <1>6, <2>3 DEF U64
  <2>5. U64 \in Int
    BY <1>1, <1>6 DEF U64
  <2>6. Value(p, n) < Power[n] /\ Value(p, n) \in Nat
    BY ValueBelow
  <2>7. Value(p, n) < U64
    BY <1>6, <2>2, <2>4, <2>5, <2>6
  <2> QED
    BY <1>8, <2>7
<1> QED
  BY <1>7, <1>8

(* The grammar's varints are the guard's. *)
LEMMA VarintsAgree ==
  ASSUME input \in Seq(0 .. 2 * Base - 1), NEW p \in Nat \ {0}, NEW n \in Int,
         p + n <= Len(input) + 1
  PROVE  IsVarint(p, p + n) <=> n \in VarintLengths(p, p + n)
<1>1. VarintBytes \in Nat /\ Base \in Nat
  BY WireAssumption
<1>2. (p + n) - p = n
  OBVIOUS
<1>3. CASE n \notin 1 .. VarintBytes
  BY <1>2, <1>3 DEF IsVarint, VarintLengths
<1>4. CASE n \in 1 .. VarintBytes
  <2>1. \A k \in 0 .. n - 1 : input[p + k] \in Int
    BY <1>1, <1>4, ValueSteps
  <2> DEFINE Ends == /\ \A k \in 0 .. n - 2 : input[p + k] >= Base
                     /\ input[p + n - 1] < Base
  <2>2. (\A k \in p .. p + n - 1 : (input[k] < Base) <=> (k = p + n - 1)) <=> Ends
    <3>1. ASSUME \A k \in p .. p + n - 1 : (input[k] < Base) <=> (k = p + n - 1)
          PROVE  Ends
      <4>1. \A k \in 0 .. n - 2 : p + k \in p .. p + n - 1 /\ p + k # p + n - 1 /\ k \in 0 .. n - 1
        BY <1>4
      <4>2. p + n - 1 \in p .. p + n - 1
        BY <1>4
      <4> QED
        BY <1>1, <2>1, <3>1, <4>1, <4>2
    <3>2. ASSUME Ends, NEW k \in p .. p + n - 1
          PROVE  (input[k] < Base) <=> (k = p + n - 1)
      <4>1. CASE k = p + n - 1
        BY <3>2, <4>1
      <4>2. CASE k # p + n - 1
        <5>1. k - p \in 0 .. n - 2 /\ p + (k - p) = k /\ k - p \in 0 .. n - 1
          BY <1>4, <4>2
        <5>2. input[k] >= Base /\ input[k] \in Int
          BY <2>1, <3>2, <5>1
        <5> QED
          BY <1>1, <4>2, <5>2
      <4> QED
        BY <4>1, <4>2
    <3> QED
      BY <3>1, <3>2
  <2>3. Ends => (Value(p, n) < U64 <=> (n = VarintBytes => input[p + n - 1] <= LastGroup))
    BY <1>4, LastByteLimits
  <2>4. IsVarint(p, p + n) <=> Ends /\ Value(p, n) < U64
    <3> DEFINE m == (p + n) - p
    <3>1. IsVarint(p, p + n)
            <=> /\ m \in 1 .. VarintBytes
                /\ \A k \in p .. p + n - 1 : (input[k] < Base) <=> (k = p + n - 1)
                /\ Value(p, m) < U64
      BY DEF IsVarint
    <3>2. m = n
      BY <1>2
    <3> HIDE DEF m, Ends
    <3> QED
      BY <1>4, <2>2, <3>1, <3>2
  <2>5. n \in VarintLengths(p, p + n)
          <=> Ends /\ (n = VarintBytes => input[p + n - 1] <= LastGroup)
    BY <1>4 DEF VarintLengths
  <2> QED
    BY <2>3, <2>4, <2>5
<1> QED
  BY <1>3, <1>4

(* Where a varint may end does not change it, and it is the only one there.   *)
LEMMA OneVarint ==
  ASSUME input \in Seq(0 .. 2 * Base - 1), NEW p \in Nat \ {0},
         NEW end \in Nat, end <= Len(input) + 1
  PROVE  /\ \A n \in Int : n \in VarintLengths(p, end)
                             <=> p + n <= end /\ n \in VarintLengths(p, p + n)
         /\ \A n, m \in VarintLengths(p, end) : n = m
         /\ \A n \in VarintLengths(p, end) : Value(p, n) \in Nat
<1>1. \A n \in Int : n \in VarintLengths(p, end)
                       <=> p + n <= end /\ n \in VarintLengths(p, p + n)
  BY DEF VarintLengths
<1>2. \A n, m \in VarintLengths(p, end) : n = m
  BY SameVarint
<1>3. ASSUME NEW n \in VarintLengths(p, end)
      PROVE  Value(p, n) \in Nat
  <2>1. n \in 1 .. VarintBytes /\ p + n <= end
    BY DEF VarintLengths
  <2>2. p + n <= Len(input) + 1
    BY <2>1, WireAssumption
  <2> QED
    BY <2>1, <2>2, ValueBelow
<1> QED
  BY <1>1, <1>2, <1>3

-----------------------------------------------------------------------------
(* The grammar *)

Here == 1 .. Len(input) + 1
Spans == MessageKind \X Here \X Here

(* The field that ends before e, with a key that ends before b; and a         *)
(* message, if g says which of the messages inside it are well formed.        *)
FieldBy(g, kind, i, b, e) ==
  \E arm \in FieldKinds[kind] :
    /\ Value(i, b - i) \in {8 * tag + WireType(arm[2]) : tag \in arm[1]}
    /\ IF arm[2] = "Varint" THEN IsVarint(b, e)
       ELSE \E p \in b + 1 .. e :
              /\ IsVarint(b, p) /\ Value(b, p - b) = e - p
              /\ arm[2] \in MessageKind => g[<<arm[2], p, e>>]
MessageBy(g, kind, i, j) ==
  \/ i = j
  \/ \E b, e \in i + 1 .. j :
       /\ IsVarint(i, b)
       /\ e > b
       /\ FieldBy(g, kind, i, b, e)
       /\ g[<<kind, e, j>>]
MessagesBy(g) == [span \in Spans |-> MessageBy(g, span[1], span[2], span[3])]
Messages == CHOOSE g : g = MessagesBy(g)

LEMMA MessagesByIs ==
  ASSUME NEW g, NEW kind \in MessageKind, NEW i \in Here, NEW j \in Here
  PROVE  MessagesBy(g)[<<kind, i, j>>] = MessageBy(g, kind, i, j)
<1>1. <<kind, i, j>> \in Spans
  BY DEF Spans
<1> QED
  BY <1>1 DEF MessagesBy

LEMMA SpanParts ==
  ASSUME NEW span \in Spans
  PROVE  /\ span = <<span[1], span[2], span[3]>>
         /\ span[1] \in MessageKind /\ span[2] \in Here /\ span[3] \in Here
BY DEF Spans

(* Whether a span is well formed depends on shorter spans only. *)
Agree(g, h, length) ==
  \A kind \in MessageKind, i, j \in Here :
    j - i < length => (g[<<kind, i, j>>] <=> h[<<kind, i, j>>])

LEMMA FieldLocal ==
  ASSUME NEW g, NEW h, NEW length \in Int, Agree(g, h, length), Len(input) \in Nat,
         NEW kind \in MessageKind, NEW i \in Here, NEW b \in Here, NEW e \in Here,
         e - b <= length
  PROVE  FieldBy(g, kind, i, b, e) => FieldBy(h, kind, i, b, e)
<1> SUFFICES ASSUME FieldBy(g, kind, i, b, e) PROVE FieldBy(h, kind, i, b, e)
  OBVIOUS
<1>1. PICK arm \in FieldKinds[kind] :
        /\ Value(i, b - i) \in {8 * tag + WireType(arm[2]) : tag \in arm[1]}
        /\ IF arm[2] = "Varint" THEN IsVarint(b, e)
           ELSE \E p \in b + 1 .. e :
                  /\ IsVarint(b, p) /\ Value(b, p - b) = e - p
                  /\ arm[2] \in MessageKind => g[<<arm[2], p, e>>]
  BY DEF FieldBy
<1>2. CASE arm[2] = "Varint"
  BY <1>1, <1>2 DEF FieldBy
<1>3. CASE arm[2] # "Varint"
  <2>1. PICK p \in b + 1 .. e :
          /\ IsVarint(b, p) /\ Value(b, p - b) = e - p
          /\ arm[2] \in MessageKind => g[<<arm[2], p, e>>]
    BY <1>1, <1>3
  <2>2. p \in Here /\ e - p < length
    BY DEF Here
  <2>3. arm[2] \in MessageKind => h[<<arm[2], p, e>>]
    BY <2>1, <2>2 DEF Agree
  <2> QED
    BY <1>1, <1>3, <2>1, <2>3 DEF FieldBy
<1> QED
  BY <1>2, <1>3

LEMMA MessageLocal ==
  ASSUME NEW g, NEW h, NEW length \in Int, Agree(g, h, length), Len(input) \in Nat,
         NEW kind \in MessageKind, NEW i \in Here, NEW j \in Here, j - i <= length
  PROVE  MessageBy(g, kind, i, j) => MessageBy(h, kind, i, j)
<1> SUFFICES ASSUME MessageBy(g, kind, i, j), i # j PROVE MessageBy(h, kind, i, j)
  BY DEF MessageBy
<1>1. PICK b, e \in i + 1 .. j :
        IsVarint(i, b) /\ e > b /\ FieldBy(g, kind, i, b, e) /\ g[<<kind, e, j>>]
  BY DEF MessageBy
<1>2. b \in Here /\ e \in Here /\ e - b <= length /\ j - e < length
  BY <1>1 DEF Here
<1>3. FieldBy(h, kind, i, b, e)
  BY <1>1, <1>2, FieldLocal
<1>4. h[<<kind, e, j>>]
  BY <1>1, <1>2 DEF Agree
<1> QED
  BY <1>1, <1>3, <1>4 DEF MessageBy

(* The recursive definition of the grammar has a solution: its iterates agree *)
(* on ever longer spans.                                                      *)
LEMMA MessagesExist ==
  ASSUME Len(input) \in Nat
  PROVE  \E g : g = MessagesBy(g)
<1> DEFINE n == Len(input) + 2
           S == [Spans -> BOOLEAN]
           none == [span \in Spans |-> FALSE]
           step == [k \in 1 .. n |-> [g \in S |-> MessagesBy(g)]]
<1>1. n \in Nat /\ none \in S /\ \A g : MessagesBy(g) \in S
  BY DEF MessagesBy, MessageBy
<1>2. step \in [1 .. n -> [S -> S]]
  BY <1>1
<1>3. \A k \in 1 .. n : \A g \in S : step[k][g] = MessagesBy(g)
  OBVIOUS
<1> HIDE DEF S, none, step, n
<1>4. PICK f \in [0 .. n -> S] : f[0] = none /\ \A k \in 1 .. n : f[k] = step[k][f[k - 1]]
  BY <1>1, <1>2, StepsExist
<1>5. ASSUME NEW k \in 1 .. n
      PROVE  f[k] = MessagesBy(f[k - 1]) /\ f[k] \in S /\ f[k - 1] \in S
  <2>1. k - 1 \in 0 .. n /\ k \in 0 .. n
    BY <1>1
  <2> QED
    BY <1>3, <1>4, <2>1
<1> DEFINE P == {k \in 0 .. n - 1 : Agree(f[k], f[k + 1], k)}
<1>6. n - 1 \in Nat
  BY DEF n
<1>7. 0 \in P
  <2>1. ASSUME NEW kind \in MessageKind, NEW i \in Here, NEW j \in Here, j - i < 0
        PROVE  ~f[0][<<kind, i, j>>] /\ ~f[1][<<kind, i, j>>]
    <3>1. <<kind, i, j>> \in Spans
      BY DEF Spans
    <3>2. ~f[0][<<kind, i, j>>]
      BY <1>4, <3>1 DEF none
    <3>3. 1 \in 1 .. n /\ 1 - 1 = 0
      BY <1>6, <1>1
    <3>4. f[1] = MessagesBy(f[0])
      BY <1>5, <3>3
    <3>5. i + 1 .. j = {} /\ i # j
      BY <2>1 DEF Here
    <3>6. ~MessageBy(f[0], kind, i, j)
      BY <3>5 DEF MessageBy
    <3>7. f[1][<<kind, i, j>>] = MessageBy(f[0], kind, i, j)
      BY <3>4, MessagesByIs
    <3> QED
      BY <3>2, <3>6, <3>7
  <2>2. Agree(f[0], f[1], 0)
    BY <2>1 DEF Agree
  <2> QED
    BY <1>6, <2>2
<1>8. ASSUME NEW k \in 1 .. n - 1, k - 1 \in P
      PROVE  k \in P
  <2>1. k \in 1 .. n /\ k + 1 \in 1 .. n /\ (k + 1) - 1 = k /\ (k - 1) + 1 = k /\ k \in Int
        /\ k \in 0 .. n - 1 /\ k - 1 \in Int
    BY <1>1, <1>6
  <2>2. Agree(f[k - 1], f[k], k - 1)
    BY <1>8, <2>1
  <2>3. f[k] = MessagesBy(f[k - 1]) /\ f[k + 1] = MessagesBy(f[k])
    BY <1>5, <2>1
  <2>4. ASSUME NEW kind \in MessageKind, NEW i \in Here, NEW j \in Here, j - i < k
        PROVE  f[k][<<kind, i, j>>] <=> f[k + 1][<<kind, i, j>>]
    <3>1. j - i <= k - 1
      BY <2>4 DEF Here
    <3>2. Agree(f[k], f[k - 1], k - 1)
      BY <2>2 DEF Agree
    <3>3. MessageBy(f[k - 1], kind, i, j) <=> MessageBy(f[k], kind, i, j)
      BY <2>1, <2>2, <3>1, <3>2, MessageLocal
    <3>4. /\ f[k][<<kind, i, j>>] = MessageBy(f[k - 1], kind, i, j)
          /\ f[k + 1][<<kind, i, j>>] = MessageBy(f[k], kind, i, j)
      BY <2>3, MessagesByIs
    <3> QED
      BY <3>3, <3>4
  <2>5. Agree(f[k], f[k + 1], k)
    BY <2>4 DEF Agree
  <2> QED
    BY <2>1, <2>5
<1>9. \A k \in 0 .. n - 1 : k \in P
  <2> DEFINE m == n - 1
  <2>1. m \in Nat /\ 0 \in P /\ \A k \in 1 .. m : k - 1 \in P => k \in P
    BY <1>6, <1>7, <1>8
  <2>2. \A k \in 0 .. m : k \in P
    <3> HIDE DEF P, m
    <3> QED
      BY <2>1, UpTo
  <2> QED
    BY <2>2
<1>10. Agree(f[n - 1], f[n], n - 1)
  <2>1. n - 1 \in P /\ (n - 1) + 1 = n
    BY <1>1, <1>6, <1>9
  <2> QED
    BY <2>1
<1>11. n \in 1 .. n
  BY <1>1, <1>6
<1>12. f[n] = MessagesBy(f[n - 1]) /\ f[n] \in S /\ f[n - 1] \in S
  BY <1>5, <1>11
<1>13. \A span \in Spans : f[n][span] = f[n - 1][span]
  <2> TAKE span \in Spans
  <2>1. /\ span = <<span[1], span[2], span[3]>>
        /\ span[1] \in MessageKind /\ span[2] \in Here /\ span[3] \in Here
    BY SpanParts
  <2>2. span[3] - span[2] < n - 1
    BY <2>1 DEF Here, n
  <2>3. f[n - 1][<<span[1], span[2], span[3]>>] <=> f[n][<<span[1], span[2], span[3]>>]
    BY <1>10, <2>1, <2>2 DEF Agree
  <2>4. f[n][span] \in BOOLEAN /\ f[n - 1][span] \in BOOLEAN
    BY <1>12 DEF S
  <2> QED
    BY <2>1, <2>3, <2>4
<1>14. f[n] = f[n - 1]
  BY <1>12, <1>13 DEF S
<1> QED
  BY <1>12, <1>14

(* What the solution says of a span.                                          *)
LEMMA MessageMeans ==
  ASSUME Len(input) \in Nat, NEW kind \in MessageKind, NEW i \in Here, NEW j \in Here
  PROVE  Messages[<<kind, i, j>>] <=> MessageBy(Messages, kind, i, j)
<1>1. Messages = MessagesBy(Messages)
  BY MessagesExist DEF Messages
<1>2. MessagesBy(Messages)[<<kind, i, j>>] = MessageBy(Messages, kind, i, j)
  BY MessagesByIs
<1> QED
  BY <1>1, <1>2

LEMMA WellFormedMeans ==
  WellFormed <=> Messages[<<"RootStore", 1, Len(input) + 1>>]
BY DEF WellFormed, Messages, MessagesBy, MessageBy, FieldBy, Here, Spans

-----------------------------------------------------------------------------
(* One field of a message *)

LEMMA FieldsOf ==
  ASSUME NEW kind \in MessageKind, NEW arm \in FieldKinds[kind]
  PROVE  /\ arm[1] \in SUBSET (1 .. 12) /\ arm[2] \in Fields
         /\ WireType(arm[2]) = (IF arm[2] = "Varint" THEN 0 ELSE 2)
         /\ arm[2] \in MessageKind => arm[2] # "Varint"
<1> USE DEF Fields, MessageKind
<1>1. CASE kind = "RootStore"
  BY <1>1 DEF FieldKinds, WireType
<1>2. CASE kind = "TrustAnchor"
  BY <1>2 DEF FieldKinds, TrustAnchorVarints, WireType
<1>3. CASE kind = "ConstraintSet"
  BY <1>3 DEF FieldKinds, WireType
<1>4. CASE kind = "MtcAnchor"
  BY <1>4 DEF FieldKinds, WireType
<1> QED
  BY <1>1, <1>2, <1>3, <1>4

LEMMA DeclaredOnce ==
  ASSUME NEW kind \in MessageKind, NEW tag, NEW f, NEW g,
         Declares(kind, tag, f), Declares(kind, tag, g)
  PROVE  f = g
<1>1. CASE kind = "RootStore"
  BY <1>1 DEF FieldKinds, Declares
<1>2. CASE kind = "TrustAnchor"
  BY <1>2 DEF FieldKinds, Declares, TrustAnchorVarints
<1>3. CASE kind = "ConstraintSet"
  BY <1>3 DEF FieldKinds, Declares
<1>4. CASE kind = "MtcAnchor"
  BY <1>4 DEF FieldKinds, Declares
<1> QED
  BY <1>1, <1>2, <1>3, <1>4 DEF MessageKind

(* What is left to be well formed once a field has been read. *)
EndOf(c, k, field, n) == PayloadEnd(c.pos + k, n, WireType(field))
Remains(c, k, field, n) ==
  /\ field \in MessageKind => Messages[<<field, c.pos + k + n, EndOf(c, k, field, n)>>]
  /\ Messages[<<Inner(c).kind, EndOf(c, k, field, n), Inner(c).end>>]

(* A field the guard reads, and then a message from its end on, are a         *)
(* message from where the field begins.                                       *)
LEMMA FieldInGrammar ==
  ASSUME NEW c, Nested(c), input \in Seq(0 .. 2 * Base - 1),
         NEW k \in 1 .. VarintBytes, NEW n \in 1 .. VarintBytes, NEW field \in Fields,
         FieldValid(c, k, field, n), Remains(c, k, field, n)
  PROVE  MessageBy(Messages, Inner(c).kind, c.pos, Inner(c).end)
<1> DEFINE i == c.pos
           j == Inner(c).end
           b == i + k
           e == EndOf(c, k, field, n)
           key == Value(i, k)
<1>1. /\ i \in Nat \ {0} /\ j \in Nat /\ j <= Len(input) + 1 /\ Inner(c).kind \in MessageKind
      /\ VarintBytes \in Nat /\ Len(input) \in Nat
  BY InnerEnd, WireAssumption
<1>2. /\ k \in VarintLengths(i, j)
      /\ Declares(Inner(c).kind, key \div 8, field)
      /\ key % 8 = WireType(field)
      /\ n \in VarintLengths(b, j)
      /\ e \in b + n .. j
  BY DEF FieldValid, EndOf
<1>3. b \in Nat \ {0} /\ b + n <= j
  BY <1>1, <1>2
<1>4. /\ k \in VarintLengths(i, i + k) /\ i + k <= j /\ key \in Nat
      /\ n \in VarintLengths(b, b + n) /\ Value(b, n) \in Nat
  <2>1. k \in VarintLengths(i, i + k) /\ i + k <= j /\ key \in Nat
    <3> HIDE DEF i, j
    <3> QED
      BY <1>1, <1>2, OneVarint
  <2>2. n \in VarintLengths(b, b + n) /\ Value(b, n) \in Nat
    <3> HIDE DEF b, j
    <3> QED
      BY <1>1, <1>2, <1>3, OneVarint
  <2> QED
    BY <2>1, <2>2
<1>5. IsVarint(i, b) /\ IsVarint(b, b + n)
  <2>1. i + k <= Len(input) + 1 /\ b + n <= Len(input) + 1 /\ k \in Int /\ n \in Int
    BY <1>1, <1>3, <1>4
  <2> QED
    BY <1>1, <1>3, <1>4, <2>1, VarintsAgree
<1>6. b \in i + 1 .. j /\ e \in i + 1 .. j /\ e > b
  BY <1>1, <1>2, <1>3, <1>4
<1>7. PICK arm \in FieldKinds[Inner(c).kind] : key \div 8 \in arm[1] /\ field = arm[2]
  BY <1>2 DEF Declares
<1>8. key = 8 * (key \div 8) + WireType(arm[2])
  <2>1. key = 8 * (key \div 8) + (key % 8)
    <3> HIDE DEF key
    <3> QED
      BY <1>4
  <2> QED
    BY <1>2, <1>7, <2>1
<1>9. b - i = k /\ (b + n) - b = n
  BY <1>1
<1>10. Value(i, b - i) \in {8 * tag + WireType(arm[2]) : tag \in arm[1]}
  <2>1. Value(i, b - i) = key
    BY <1>9
  <2> HIDE DEF key, b, i
  <2> QED
    BY <1>7, <1>8, <2>1
<1>11. FieldBy(Messages, Inner(c).kind, i, b, e)
  <2>1. CASE arm[2] = "Varint"
    <3>1. e = b + n
      BY <1>7, <2>1 DEF EndOf, PayloadEnd, WireType
    <3> HIDE DEF b, i, e
    <3> QED
      BY <1>5, <1>10, <2>1, <3>1 DEF FieldBy
  <2>2. CASE arm[2] # "Varint"
    <3>1. e = b + n + Value(b, n)
      BY <1>7, <2>2 DEF EndOf, PayloadEnd, WireType
    <3>2. b + n \in b + 1 .. e /\ Value(b, (b + n) - b) = e - (b + n)
      <4> DEFINE v == Value(b, n)
      <4>1. Value(b, (b + n) - b) = v
        BY <1>9
      <4>2. v \in Nat /\ e = b + n + v /\ b \in Nat
        BY <1>3, <1>4, <3>1
      <4> HIDE DEF v, b, e
      <4> QED
        BY <4>1, <4>2
    <3>3. arm[2] \in MessageKind => Messages[<<arm[2], b + n, e>>]
      BY <1>7 DEF Remains
    <3> HIDE DEF b, i, e
    <3> QED
      BY <1>5, <1>10, <2>2, <3>2, <3>3 DEF FieldBy
  <2> QED
    BY <2>1, <2>2
<1>12. Messages[<<Inner(c).kind, e, j>>]
  BY DEF Remains
<1> HIDE DEF b, i, e, j
<1>13. MessageBy(Messages, Inner(c).kind, i, j)
  BY <1>5, <1>6, <1>11, <1>12 DEF MessageBy
<1> QED
  BY <1>13 DEF i, j

(* And conversely: the grammar sees no field here that the guard does not.    *)
LEMMA GrammarInField ==
  ASSUME NEW c, Nested(c), input \in Seq(0 .. 2 * Base - 1), Inside(c),
         MessageBy(Messages, Inner(c).kind, c.pos, Inner(c).end)
  PROVE  \E k \in 1 .. VarintBytes, n \in 1 .. VarintBytes, field \in Fields :
           FieldValid(c, k, field, n) /\ Remains(c, k, field, n)
<1> DEFINE i == c.pos
           j == Inner(c).end
           kind == Inner(c).kind
<1>1. /\ i \in Nat \ {0} /\ j \in Nat /\ j <= Len(input) + 1 /\ kind \in MessageKind /\ i < j
      /\ VarintBytes \in Nat /\ Len(input) \in Nat /\ MaxTag \in Nat /\ MaxTag >= 12
  BY InnerEnd, WireAssumption DEF Inside
<1>2. MessageBy(Messages, kind, i, j)
  OBVIOUS
<1> HIDE DEF i, j, kind
<1>3. PICK b, e \in i + 1 .. j :
        IsVarint(i, b) /\ e > b /\ FieldBy(Messages, kind, i, b, e) /\ Messages[<<kind, e, j>>]
  BY <1>1, <1>2 DEF MessageBy
<1>4. PICK arm \in FieldKinds[kind] :
        /\ Value(i, b - i) \in {8 * tag + WireType(arm[2]) : tag \in arm[1]}
        /\ IF arm[2] = "Varint" THEN IsVarint(b, e)
           ELSE \E p \in b + 1 .. e :
                  /\ IsVarint(b, p) /\ Value(b, p - b) = e - p
                  /\ arm[2] \in MessageKind => Messages[<<arm[2], p, e>>]
  BY <1>3 DEF FieldBy
<1>5. PICK tag \in arm[1] : Value(i, b - i) = 8 * tag + WireType(arm[2])
  BY <1>4
<1>6. /\ tag \in 1 .. 12 /\ arm[2] \in Fields
      /\ WireType(arm[2]) = (IF arm[2] = "Varint" THEN 0 ELSE 2)
      /\ arm[2] \in MessageKind => arm[2] # "Varint"
  BY <1>1, <1>5, FieldsOf
<1> DEFINE k == b - i
           field == arm[2]
<1>7. /\ k \in Int /\ i + k = b /\ b \in Nat \ {0} /\ b <= j /\ e <= j /\ e > b
      /\ b \in Int /\ e \in Int
  BY <1>1, <1>3
<1>8. k \in VarintLengths(i, j) /\ k \in 1 .. VarintBytes
  <2>1. IsVarint(i, i + k) /\ i + k <= Len(input) + 1
    BY <1>1, <1>3, <1>7
  <2>2. k \in VarintLengths(i, i + k)
    BY <1>1, <1>7, <2>1, VarintsAgree
  <2>3. k \in VarintLengths(i, j)
    BY <1>1, <1>7, <2>2, OneVarint
  <2> QED
    BY <2>3 DEF VarintLengths
<1>9. Value(i, k) = 8 * tag + WireType(field)
  BY <1>5
<1>10. Value(i, k) \div 8 = tag /\ Value(i, k) % 8 = WireType(field) /\ tag \in 1 .. MaxTag
  <2> DEFINE v == Value(i, k)
             w == WireType(field)
  <2>1. v = 8 * tag + w /\ w \in {0, 2} /\ tag \in 1 .. 12
    BY <1>6, <1>9
  <2> HIDE DEF v, w, k, field
  <2>2. v \div 8 = tag /\ v % 8 = w
    BY <2>1
  <2> QED
    BY <1>1, <2>1, <2>2 DEF v, w
<1>11. Declares(kind, tag, field)
  BY <1>5 DEF Declares
<1> HIDE DEF k, field
<1>12. \E n \in 1 .. VarintBytes :
         /\ n \in VarintLengths(b, j)
         /\ PayloadEnd(b, n, WireType(field)) = e
         /\ e \in b + n .. j
         /\ field \in MessageKind => Messages[<<field, b + n, e>>]
  <2>1. \A m \in Int : b + m <= j /\ IsVarint(b, b + m) =>
          m \in VarintLengths(b, j) /\ m \in 1 .. VarintBytes
    <3> SUFFICES ASSUME NEW m \in Int, b + m <= j, IsVarint(b, b + m)
                 PROVE  m \in VarintLengths(b, j) /\ m \in 1 .. VarintBytes
      OBVIOUS
    <3>1. b + m <= Len(input) + 1
      BY <1>1, <1>7
    <3>2. m \in VarintLengths(b, b + m)
      BY <1>7, <3>1, VarintsAgree
    <3>3. m \in VarintLengths(b, j)
      BY <1>1, <1>7, <3>2, OneVarint
    <3> QED
      BY <3>3 DEF VarintLengths
  <2>2. CASE arm[2] = "Varint"
    <3> DEFINE n == e - b
    <3>1. n \in Int /\ b + n = e /\ b + n <= j
      BY <1>7
    <3>2. IsVarint(b, b + n)
      BY <1>4, <2>2, <3>1
    <3>3. n \in VarintLengths(b, j) /\ n \in 1 .. VarintBytes
      BY <2>1, <3>1, <3>2
    <3>4. PayloadEnd(b, n, WireType(field)) = b + n
      BY <1>6, <2>2 DEF PayloadEnd, field
    <3>5. field \notin MessageKind
      BY <1>6, <2>2 DEF field
    <3> HIDE DEF n
    <3> QED
      BY <1>7, <3>1, <3>3, <3>4, <3>5
  <2>3. CASE arm[2] # "Varint"
    <3>1. PICK p \in b + 1 .. e :
            /\ IsVarint(b, p) /\ Value(b, p - b) = e - p
            /\ arm[2] \in MessageKind => Messages[<<arm[2], p, e>>]
      BY <1>4, <2>3
    <3> DEFINE n == p - b
    <3>2. n \in Int /\ b + n = p /\ b + n <= j /\ p <= e /\ p \in Int
      <4>1. b \in Int /\ e \in Int /\ j \in Int /\ e <= j
        BY <1>1, <1>7
      <4>2. p \in Int /\ p <= e
        BY <4>1
      <4> QED
        BY <4>1, <4>2
    <3>3. n \in VarintLengths(b, j) /\ n \in 1 .. VarintBytes
      BY <2>1, <3>1, <3>2
    <3>4. PayloadEnd(b, n, WireType(field)) = b + n + Value(b, n)
      BY <1>6, <2>3 DEF PayloadEnd, field
    <3>5. Value(b, n) = e - p
      BY <3>1
    <3>6. field \in MessageKind => Messages[<<field, b + n, e>>]
      BY <3>1, <3>2 DEF field
    <3> HIDE DEF n
    <3>7. PayloadEnd(b, n, WireType(field)) = e /\ e \in b + n .. j
      BY <1>7, <3>2, <3>4, <3>5
    <3> QED
      BY <3>3, <3>6, <3>7
  <2> QED
    BY <2>2, <2>3
<1>13. PICK n \in 1 .. VarintBytes :
         /\ n \in VarintLengths(b, j)
         /\ PayloadEnd(b, n, WireType(field)) = e
         /\ e \in b + n .. j
         /\ field \in MessageKind => Messages[<<field, b + n, e>>]
  BY <1>12
<1>14. FieldValid(c, k, field, n)
  BY <1>7, <1>8, <1>10, <1>11, <1>13 DEF FieldValid, i, j, kind
<1>15. EndOf(c, k, field, n) = e /\ c.pos + k + n = b + n
  BY <1>7, <1>13 DEF EndOf, i
<1>16. Remains(c, k, field, n)
  BY <1>3, <1>13, <1>15 DEF Remains, j, kind
<1>17. field \in Fields
  BY <1>6 DEF field
<1> QED
  BY <1>8, <1>14, <1>16, <1>17

(* The guard has no choice. *)
LEMMA OneFieldHere ==
  ASSUME NEW c, Nested(c), input \in Seq(0 .. 2 * Base - 1),
         NEW k, NEW n, NEW field, FieldValid(c, k, field, n),
         NEW k2, NEW n2, NEW field2, FieldValid(c, k2, field2, n2)
  PROVE  k = k2 /\ n = n2 /\ field = field2
<1>1. /\ c.pos \in Nat \ {0} /\ Inner(c).end \in Nat /\ Inner(c).end <= Len(input) + 1
      /\ Inner(c).kind \in MessageKind
  BY InnerEnd
<1>2. k = k2
  BY <1>1, OneVarint DEF FieldValid
<1>3. field = field2
  BY <1>1, <1>2, DeclaredOnce DEF FieldValid
<1>4. n = n2
  <2>1. /\ n \in VarintLengths(c.pos + k, Inner(c).end)
        /\ n2 \in VarintLengths(c.pos + k, Inner(c).end)
        /\ k \in VarintLengths(c.pos, Inner(c).end)
    BY <1>2 DEF FieldValid
  <2>2. k \in 1 .. VarintBytes
    BY <2>1 DEF VarintLengths
  <2>3. c.pos + k \in Nat \ {0}
    BY <1>1, <2>2, WireAssumption
  <2> QED
    BY <1>1, <2>1, <2>3, OneVarint
<1> QED
  BY <1>2, <1>3, <1>4

-----------------------------------------------------------------------------
(* The guard against the grammar *)

(* Each open message is well formed from where the reading goes on in it.     *)
From(c, m) == IF m = Len(c.open) THEN c.pos ELSE c.open[m + 1].end
RestOf(c, m) == Messages[<<c.open[m].kind, From(c, m), c.open[m].end>>]
RestValid(c) == \A m \in 1 .. Len(c.open) : RestOf(c, m)

LEMMA InnerRest ==
  ASSUME NEW c, Nested(c), input \in Seq(0 .. 2 * Base - 1)
  PROVE  /\ Len(c.open) \in Nat \ {0} /\ Inner(c) = c.open[Len(c.open)]
         /\ Inner(c).kind \in MessageKind /\ c.pos \in Here /\ Inner(c).end \in Here
         /\ RestOf(c, Len(c.open)) = Messages[<<Inner(c).kind, c.pos, Inner(c).end>>]
         /\ RestOf(c, Len(c.open)) <=> MessageBy(Messages, Inner(c).kind, c.pos, Inner(c).end)
<1>1. /\ Len(c.open) \in Nat \ {0} /\ Inner(c) = c.open[Len(c.open)]
      /\ Inner(c).kind \in MessageKind /\ c.pos \in Nat \ {0} /\ Inner(c).end \in Nat
      /\ c.pos <= Inner(c).end /\ Inner(c).end <= Len(input) + 1 /\ Len(input) \in Nat
  BY InnerEnd DEF Inner, Last
<1>2. c.pos \in Here /\ Inner(c).end \in Here
  BY <1>1 DEF Here
<1>3. RestOf(c, Len(c.open)) = Messages[<<Inner(c).kind, c.pos, Inner(c).end>>]
  BY <1>1 DEF RestOf, From
<1>4. Messages[<<Inner(c).kind, c.pos, Inner(c).end>>]
        <=> MessageBy(Messages, Inner(c).kind, c.pos, Inner(c).end)
  BY <1>1, <1>2, MessageMeans
<1> QED
  BY <1>1, <1>2, <1>3, <1>4

(* Reading a field leaves what is left to be well formed as it is, and so     *)
(* does leaving a message that has ended.                                     *)
LEMMA FieldKeepsRest ==
  ASSUME NEW c, Nested(c), input \in Seq(0 .. 2 * Base - 1), Inside(c),
         NEW k \in 1 .. VarintBytes, NEW n \in 1 .. VarintBytes, NEW field \in Fields,
         FieldValid(c, k, field, n)
  PROVE  RestValid(c) <=> RestValid(After(c, k, field, n))
<1> DEFINE l == Len(c.open)
           d == After(c, k, field, n)
           e == EndOf(c, k, field, n)
<1>1. /\ l \in Nat \ {0} /\ Inner(c) = c.open[l] /\ c.open \in Seq(Frame)
      /\ RestOf(c, l) <=> MessageBy(Messages, Inner(c).kind, c.pos, Inner(c).end)
  BY InnerRest, InnerEnd
<1>2. RestOf(c, l) <=> Remains(c, k, field, n)
  <2>1. ASSUME MessageBy(Messages, Inner(c).kind, c.pos, Inner(c).end)
        PROVE  Remains(c, k, field, n)
    BY <2>1, GrammarInField, OneFieldHere
  <2> QED
    BY <1>1, <2>1, FieldInGrammar
<1>3. CASE field \in MessageKind
  <2> DEFINE frame == [kind |-> field, tag |-> Value(c.pos, k) \div 8, end |-> e]
  <2>1. d = [pos |-> c.pos + k + n, open |-> Append(c.open, frame)]
    BY <1>3 DEF After, Entered, EndOf
  <2>2. /\ d.pos = c.pos + k + n /\ d.open = Append(c.open, frame)
        /\ frame.kind = field /\ frame.end = e
    BY <2>1
  <2> HIDE DEF d, e, frame
  <2>3. /\ Len(d.open) = l + 1 /\ d.open[l + 1] = frame
        /\ \A m \in 1 .. l : d.open[m] = c.open[m]
    BY <1>1, <2>2
  <2> HIDE DEF l
  <2>4. RestOf(d, l + 1) <=> Messages[<<field, c.pos + k + n, e>>]
    BY <2>2, <2>3 DEF RestOf, From
  <2>5. RestOf(d, l) <=> Messages[<<Inner(c).kind, e, Inner(c).end>>]
    <3>1. l # l + 1 /\ l \in 1 .. l
      BY <1>1
    <3> QED
      BY <1>1, <2>2, <2>3, <3>1 DEF RestOf, From
  <2>6. RestOf(d, l) /\ RestOf(d, l + 1) <=> RestOf(c, l)
    BY <1>2, <1>3, <2>4, <2>5 DEF Remains, e
  <2>7. \A m \in 1 .. l - 1 : RestOf(d, m) <=> RestOf(c, m)
    <3>1. \A m \in 1 .. l - 1 : m # l /\ m # l + 1 /\ m \in 1 .. l /\ m + 1 \in 1 .. l
      BY <1>1
    <3> QED
      BY <2>3, <3>1 DEF RestOf, From, l
  <2>8. \A m \in 1 .. l + 1 : m \in 1 .. l - 1 \/ m = l \/ m = l + 1
    BY <1>1
  <2>9. /\ l \in 1 .. l /\ l \in 1 .. l + 1 /\ l + 1 \in 1 .. l + 1
        /\ \A m \in 1 .. l - 1 : m \in 1 .. l /\ m \in 1 .. l + 1
        /\ \A m \in 1 .. l : m \in 1 .. l - 1 \/ m = l
    BY <1>1
  <2>10. RestValid(c) <=> \A m \in 1 .. l : RestOf(c, m)
    BY DEF RestValid, l
  <2>11. RestValid(d) <=> \A m \in 1 .. l + 1 : RestOf(d, m)
    BY <2>3 DEF RestValid
  <2>12. RestValid(c) <=> RestValid(d)
    BY <2>6, <2>7, <2>8, <2>9, <2>10, <2>11
  <2> QED
    BY <2>12 DEF d
<1>4. CASE field \notin MessageKind
  <2>1. d = [c EXCEPT !.pos = e]
    BY <1>4 DEF After, Behind, EndOf
  <2>2. c \in [pos : Nat \ {0}, open : Seq(Frame) \ {<<>>}]
    BY DEF Nested, Configuration
  <2> HIDE DEF d, e
  <2>3. d.pos = e /\ d.open = c.open
    BY <2>1, <2>2
  <2>4. RestOf(d, l) <=> Messages[<<Inner(c).kind, e, Inner(c).end>>]
    BY <1>1, <2>3 DEF RestOf, From
  <2>5. RestOf(d, l) <=> RestOf(c, l)
    BY <1>2, <1>4, <2>4 DEF Remains, e
  <2>6. \A m \in 1 .. l : m # l => (RestOf(d, m) <=> RestOf(c, m))
    BY <2>3 DEF RestOf, From
  <2>7. Len(d.open) = l
    BY <2>3
  <2> HIDE DEF l
  <2>8. RestValid(c) <=> \A m \in 1 .. l : RestOf(c, m)
    BY DEF RestValid, l
  <2>9. RestValid(d) <=> \A m \in 1 .. l : RestOf(d, m)
    BY <2>7 DEF RestValid
  <2>10. RestValid(c) <=> RestValid(d)
    BY <2>5, <2>6, <2>8, <2>9
  <2> QED
    BY <2>10 DEF d
<1> QED
  BY <1>3, <1>4

LEMMA LeftKeepsRest ==
  ASSUME NEW c, Nested(c), input \in Seq(0 .. 2 * Base - 1), ~Inside(c), Len(c.open) > 1
  PROVE  RestValid(c) <=> RestValid(Left(c))
<1> DEFINE l == Len(c.open)
           d == Left(c)
<1>1. /\ l \in Nat \ {0} /\ Inner(c) = c.open[l] /\ c.open \in Seq(Frame)
      /\ RestOf(c, l) <=> MessageBy(Messages, Inner(c).kind, c.pos, Inner(c).end)
      /\ c.pos \in Nat /\ Inner(c).end \in Nat /\ c.pos <= Inner(c).end /\ l > 1
  BY InnerRest, InnerEnd
<1>2. c.pos = Inner(c).end
  BY <1>1 DEF Inside
<1>3. RestOf(c, l)
  BY <1>1, <1>2 DEF MessageBy
<1>4. c \in [pos : Nat \ {0}, open : Seq(Frame) \ {<<>>}]
  BY DEF Nested, Configuration
<1>5. d.pos = c.pos /\ d.open = SubSeq(c.open, 1, l - 1)
  BY <1>4 DEF Left, Front
<1> HIDE DEF d
<1>6. Len(d.open) = l - 1 /\ \A m \in 1 .. l - 1 : d.open[m] = c.open[m]
  BY <1>1, <1>5
<1>7. \A m \in 1 .. l - 1 : RestOf(d, m) <=> RestOf(c, m)
  <2> TAKE m \in 1 .. l - 1
  <2>1. m # l
    BY <1>1
  <2>2. CASE m = l - 1
    <3>1. m + 1 = l
      BY <1>1, <2>2
    <3>2. From(d, m) = c.pos /\ From(c, m) = c.open[l].end
      BY <1>5, <1>6, <2>1, <2>2, <3>1 DEF From
    <3> QED
      BY <1>1, <1>2, <1>6, <3>2 DEF RestOf
  <2>3. CASE m # l - 1
    <3>1. m + 1 \in 1 .. l - 1
      BY <1>1, <2>3
    <3>2. From(d, m) = From(c, m)
      BY <1>6, <2>1, <2>3, <3>1 DEF From
    <3> QED
      BY <1>6, <3>2 DEF RestOf
  <2> QED
    BY <2>2, <2>3
<1>8. /\ \A m \in 1 .. l : m \in 1 .. l - 1 \/ m = l
      /\ \A m \in 1 .. l - 1 : m \in 1 .. l
  BY <1>1
<1>9. RestValid(c) <=> \A m \in 1 .. l : RestOf(c, m)
  BY DEF RestValid
<1>10. RestValid(d) <=> \A m \in 1 .. l - 1 : RestOf(d, m)
  BY <1>6 DEF RestValid
<1> HIDE DEF l
<1>11. RestValid(c) <=> RestValid(d)
  BY <1>3, <1>7, <1>8, <1>9, <1>10
<1> QED
  BY <1>11 DEF d

(* Where no step is possible, what is left is not well formed; at the end,    *)
(* nothing is left.                                                           *)
LEMMA SomethingToRead ==
  ASSUME NEW c, Nested(c), input \in Seq(0 .. 2 * Base - 1), Inside(c), RestValid(c)
  PROVE  \E k \in 1 .. VarintBytes, n \in 1 .. VarintBytes, field \in Fields :
           FieldValid(c, k, field, n)
<1>1. Len(c.open) \in Nat \ {0}
  BY InnerRest
<1>2. RestOf(c, Len(c.open))
  BY <1>1 DEF RestValid
<1>3. MessageBy(Messages, Inner(c).kind, c.pos, Inner(c).end)
  BY <1>2, InnerRest
<1> QED
  BY <1>3, GrammarInField

LEMMA ReadToTheEnd ==
  ASSUME NEW c, Nested(c), input \in Seq(0 .. 2 * Base - 1), Closed(c)
  PROVE  RestValid(c)
<1>1. c.pos = Inner(c).end
  BY InnerEnd DEF Closed, Inside
<1>2. RestOf(c, Len(c.open))
  BY <1>1, InnerRest DEF MessageBy
<1> QED
  BY <1>2 DEF RestValid, Closed

LEMMA StartRest == RestValid(Start) <=> WellFormed
<1> DEFINE frame == [kind |-> "RootStore", tag |-> 0, end |-> Len(input) + 1]
<1>1. /\ Start.pos = 1 /\ Start.open = <<frame>>
      /\ frame.kind = "RootStore" /\ frame.end = Len(input) + 1
  BY DEF Start
<1> HIDE DEF frame
<1>2. Len(Start.open) = 1 /\ Start.open[1] = frame
  BY <1>1
<1>3. RestOf(Start, 1) = Messages[<<"RootStore", 1, Len(input) + 1>>]
  BY <1>1, <1>2 DEF RestOf, From
<1>4. RestValid(Start) <=> RestOf(Start, 1)
  <2>1. \A m \in 1 .. 1 : m = 1
    OBVIOUS
  <2>2. 1 \in 1 .. 1
    OBVIOUS
  <2> QED
    BY <1>2, <2>1, <2>2 DEF RestValid
<1> QED
  BY <1>3, <1>4, WellFormedMeans

(* While the guard reads, the input is well formed exactly if the rest of it  *)
(* is.                                                                        *)
GrammarInv ==
  /\ phase = "guard" => (WellFormed <=> RestValid(at))
  /\ AcceptedIffWellFormed

LEMMA GrammarInit == Init => GrammarInv
BY StartRest DEF Init, GrammarInv, AcceptedIffWellFormed

(* The grammar depends on the input alone.                                    *)
LEMMA GrammarFrame == ASSUME UNCHANGED input PROVE Messages' = Messages
BY SMTT(60) DEF Messages, MessagesBy, MessageBy, FieldBy, IsVarint, Value, Here, Spans

LEMMA WellFormedFrame ==
  ASSUME UNCHANGED input
  PROVE  /\ WellFormed' <=> WellFormed
         /\ \A c : RestValid(c)' <=> RestValid(c)
<1>1. Messages' = Messages
  BY GrammarFrame
<1>2. WellFormed' <=> WellFormed
  <2>1. WellFormed' <=> (Messages[<<"RootStore", 1, Len(input) + 1>>])'
    BY DEF WellFormed, Messages, MessagesBy, MessageBy, FieldBy, Here, Spans
  <2>2. (Messages[<<"RootStore", 1, Len(input) + 1>>])'
          = Messages[<<"RootStore", 1, Len(input) + 1>>]
    BY <1>1
  <2> QED
    BY <2>1, <2>2, WellFormedMeans
<1>3. \A c : RestValid(c)' <=> RestValid(c)
  BY <1>1 DEF RestValid, RestOf, From
<1> QED
  BY <1>2, <1>3

LEMMA GrammarStep == WireInv /\ GrammarInv /\ [Next]_vars => GrammarInv'
<1> SUFFICES ASSUME WireInv, GrammarInv, [Next]_vars PROVE GrammarInv'
  OBVIOUS
<1>1. input \in Seq(0 .. 2 * Base - 1) /\ Nested(at)
  BY AtNested DEF WireInv, TypeOK
<1>2. UNCHANGED input
  BY DEF Next, vars, ScanField, ReturnNested, Refuse, Accept, DecodeField, LeaveNested,
         DecodeFails, Decoded
<1>3. (WellFormed' <=> WellFormed) /\ \A c : RestValid(c)' <=> RestValid(c)
  BY <1>2, WellFormedFrame
<1>4. ASSUME phase = "guard", phase' = "guard", NEW d, at' = d, RestValid(at) <=> RestValid(d)
      PROVE  GrammarInv'
  <2>1. RestValid(at)' <=> RestValid(d)
    BY <1>3, <1>4 DEF RestValid, RestOf, From
  <2> QED
    BY <1>3, <1>4, <2>1 DEF GrammarInv, AcceptedIffWellFormed
<1>5. CASE ScanField
  <2>1. PICK k \in 1 .. VarintBytes, n \in 1 .. VarintBytes, field \in Fields :
          FieldValid(at, k, field, n) /\ at' = After(at, k, field, n)
    BY <1>5 DEF ScanField
  <2>2. RestValid(at) <=> RestValid(After(at, k, field, n))
    BY <1>1, <1>5, <2>1, FieldKeepsRest DEF ScanField
  <2> QED
    BY <1>4, <1>5, <2>1, <2>2 DEF ScanField
<1>6. CASE ReturnNested
  <2>1. RestValid(at) <=> RestValid(Left(at))
    BY <1>1, <1>6, LeftKeepsRest DEF ReturnNested
  <2> QED
    BY <1>4, <1>6, <2>1 DEF ReturnNested
<1>7. CASE Refuse
  <2>1. ~RestValid(at)
    BY <1>1, <1>7, SomethingToRead DEF Refuse
  <2> QED
    BY <1>3, <1>7, <2>1 DEF Refuse, GrammarInv, AcceptedIffWellFormed
<1>8. CASE Accept
  <2>1. RestValid(at)
    BY <1>1, <1>8, ReadToTheEnd DEF Accept, Closed
  <2> QED
    BY <1>3, <1>8, <2>1 DEF Accept, GrammarInv, AcceptedIffWellFormed
<1>9. CASE DecodeField \/ LeaveNested
  BY <1>3, <1>9 DEF DecodeField, LeaveNested, GrammarInv, AcceptedIffWellFormed
<1>10. CASE DecodeFails \/ Decoded
  BY <1>3, <1>10 DEF DecodeFails, Decoded, GrammarInv, AcceptedIffWellFormed
<1>11. CASE UNCHANGED vars
  <2>1. RestValid(at)' <=> RestValid(at)
    BY <1>3, <1>11 DEF vars, RestValid, RestOf, From
  <2> QED
    BY <1>3, <1>11, <2>1 DEF vars, GrammarInv, AcceptedIffWellFormed
<1> QED
  BY <1>5, <1>6, <1>7, <1>8, <1>9, <1>10, <1>11 DEF Next

(* The guard accepts exactly the byte strings that the grammar of the wire    *)
(* format, with the schema of the guard, calls a Root Store: for inputs of    *)
(* any length, nested as the schema allows, and any widths (wire.rs:54-156).  *)
THEOREM AcceptanceIsGrammar == FilesSpec => []AcceptedIffWellFormed
<1>1. GrammarInv => AcceptedIffWellFormed
  BY DEF GrammarInv
<1> QED
  BY <1>1, WireProjection, WireInit, WireStep, GrammarInit, GrammarStep, PTL DEF Spec

-----------------------------------------------------------------------------
(* Reading back what update writes *)

(* Minima, parts and concatenations.                                          *)
LEMMA LeastIs ==
  ASSUME NEW S \in SUBSET Int, NEW m \in S, \A n \in S : m <= n
  PROVE  Lock!Min(S) = m
<1>1. \A x \in S : (\A y \in S : x =< y) => x = m
  OBVIOUS
<1> QED
  BY <1>1 DEF Lock!Min

LEMMA GreatestIs ==
  ASSUME NEW S \in SUBSET Int, NEW m \in S, \A n \in S : n <= m
  PROVE  Lock!Max(S) = m
<1>1. \A x \in S : (\A y \in S : x >= y) => x = m
  OBVIOUS
<1>2. \A y \in S : m >= y
  OBVIOUS
<1> QED
  BY <1>1, <1>2 DEF Lock!Max

LEMMA Part ==
  ASSUME NEW S, NEW s \in Seq(S), NEW a \in Nat \ {0}, NEW b \in Nat, a <= b + 1, b <= Len(s)
  PROVE  /\ SubSeq(s, a, b) \in Seq(S)
         /\ Len(SubSeq(s, a, b)) = b - a + 1
         /\ \A k \in 1 .. b - a + 1 : SubSeq(s, a, b)[k] = s[a + k - 1]
<1>1. \A k \in 1 .. b - a + 1 : a + k - 1 \in 1 .. Len(s)
  OBVIOUS
<1> QED
  BY <1>1

LEMMA Joined ==
  ASSUME NEW S, NEW s \in Seq(S), NEW t \in Seq(S), NEW u, u = s \o t
  PROVE  /\ u \in Seq(S)
         /\ Len(u) = Len(s) + Len(t)
         /\ \A k \in 1 .. Len(s) : u[k] = s[k]
         /\ \A k \in 1 .. Len(t) : u[Len(s) + k] = t[k]
<1>1. Len(s) \in Nat /\ Len(t) \in Nat
  OBVIOUS
<1>2. \A k \in 1 .. Len(t) : Len(s) + k \in 1 .. Len(s) + Len(t) /\ (Len(s) + k) - Len(s) = k
                              /\ ~(Len(s) + k <= Len(s))
  BY <1>1
<1> QED
  BY <1>1, <1>2

LEMMA SameSequence ==
  ASSUME NEW S, NEW s \in Seq(S), NEW t \in Seq(S), Len(s) = Len(t),
         \A k \in 1 .. Len(s) : s[k] = t[k]
  PROVE  s = t
OBVIOUS

LEMMA PartWhole ==
  ASSUME NEW S, NEW s \in Seq(S), NEW n \in Nat, n = Len(s)
  PROVE  SubSeq(s, 1, n) = s
OBVIOUS

LEMMA PartOne ==
  ASSUME NEW S, NEW s \in Seq(S), Len(s) # 0
  PROVE  SubSeq(s, 1, 1) = <<s[1]>>
<1>1. s[1] \in S /\ 1 \in Nat /\ 1 <= Len(s)
  OBVIOUS
<1> DEFINE p == SubSeq(s, 1, 1)
           q == <<s[1]>>
<1>2. p \in Seq(S) /\ Len(p) = 1 /\ p[1] = s[1]
  BY <1>1
<1>3. q \in Seq(S) /\ Len(q) = 1 /\ q[1] = s[1]
  BY <1>1
<1>4. \A k \in 1 .. 1 : k = 1
  OBVIOUS
<1> HIDE DEF p, q
<1>5. p = q
  BY <1>2, <1>3, <1>4, SameSequence
<1> QED
  BY <1>5 DEF p, q

(* Trimming keeps what is between the first and the last character that is    *)
(* not white space; splitting keeps what is before the first separator.       *)
LEMMA TrimIs ==
  ASSUME NEW S, NEW s \in Seq(S), NEW a \in 1 .. Len(s), NEW b \in a .. Len(s),
         s[a] # "sp", s[b] # "sp", \A k \in 1 .. a - 1 : s[k] = "sp",
         \A k \in b + 1 .. Len(s) : s[k] = "sp"
  PROVE  Lock!Trim(s) = SubSeq(s, a, b)
<1> DEFINE kept == {i \in DOMAIN s : s[i] # "sp"}
<1>1. Len(s) \in Nat /\ DOMAIN s = 1 .. Len(s)
  OBVIOUS
<1>2. a \in kept /\ b \in kept /\ kept \in SUBSET Int
  BY <1>1
<1>3. \A k \in kept : a <= k /\ k <= b
  BY <1>1
<1> HIDE DEF kept
<1>4. Lock!Min(kept) = a /\ Lock!Max(kept) = b
  BY <1>2, <1>3, LeastIs, GreatestIs
<1>5. kept # {}
  BY <1>2
<1> QED
  BY <1>4, <1>5 DEF Lock!Trim, kept

LEMMA BeforeIs ==
  ASSUME NEW S, NEW s \in Seq(S), NEW c, NEW n \in Nat, NEW i \in 1 .. Len(s),
         i = n + 1, s[i] = c, \A k \in 1 .. n : s[k] # c
  PROVE  Lock!Before(s, c) = SubSeq(s, 1, n)
<1> DEFINE stops == {j \in DOMAIN s : s[j] = c}
<1>1. Len(s) \in Nat /\ DOMAIN s = 1 .. Len(s)
  OBVIOUS
<1>2. i \in stops /\ stops \in SUBSET Int /\ \A k \in stops : i <= k
  BY <1>1
<1> HIDE DEF stops
<1>3. Lock!Min(stops) = i /\ stops # {}
  BY <1>2, LeastIs
<1>4. i - 1 = n
  OBVIOUS
<1> QED
  BY <1>3, <1>4 DEF Lock!Before, stops

LEMMA BeforeNone ==
  ASSUME NEW s, NEW c, \A k \in DOMAIN s : s[k] # c
  PROVE  Lock!Before(s, c) = s
BY DEF Lock!Before

(* What a value is written with. *)
Shown == Lock!Plain \cup {"quote"}

(* A whole line of a field, line feed included, starts at i. *)
LineHere(t, i, f, value) ==
  /\ i \in Nat \ {0}
  /\ i + 4 + Len(value) <= Len(t)
  /\ t[i] = f /\ t[i + 1] = "sp" /\ t[i + 2] = "=" /\ t[i + 3] = "sp"
  /\ \A k \in 1 .. Len(value) : t[i + 3 + k] = value[k]
  /\ t[i + 4 + Len(value)] = "nl"

LEMMA ShownIs ==
  /\ Shown \subseteq Lock!Token
  /\ Shown \cap (Lock!Field \cup {"sp", "=", "#", "nl", "backslash"}) = {}
  /\ Lock!Field \subseteq Lock!Token
  /\ Lock!Field \cap {"sp", "=", "#", "nl", "x"} = {}
  /\ {"sp", "=", "#", "nl", "x"} \subseteq Lock!Token
BY DEF Shown, Lock!Plain, Lock!Digit, Lock!Token, Lock!Field, Lock!StringField, Lock!HashField

(* The line without its line feed has nothing to cut or to trim. *)
LEMMA LineKept ==
  ASSUME text \in Seq(Lock!Token), NEW i, NEW f \in Lock!Field,
         NEW value \in Seq(Shown) \ {<<>>}, LineHere(text, i, f, value)
  PROVE  /\ Lock!LineAt(i) \in Seq(Lock!Token)
         /\ Len(Lock!LineAt(i)) = Len(value) + 4
         /\ \A k \in 1 .. Len(value) + 4 : Lock!LineAt(i)[k] = text[i + k - 1]
<1> DEFINE n == Len(value)
           e == i + 4 + n
           raw == SubSeq(text, i, e - 1)
<1>1. /\ n \in Nat \ {0} /\ i \in Nat \ {0} /\ Len(text) \in Nat /\ e <= Len(text)
      /\ \A k \in 1 .. n : value[k] \in Shown
  BY DEF LineHere
<1>2. \A k \in i .. e - 1 :
        text[k] \notin {"nl", "#"} /\ (k \in {i} \cup i + 4 .. e - 1 => text[k] # "sp")
  <2> TAKE k \in i .. e - 1
  <2>1. CASE k \in i .. i + 3
    <3>1. k = i \/ k = i + 1 \/ k = i + 2 \/ k = i + 3
      BY <1>1, <2>1
    <3>2. k \in {i} \cup i + 4 .. e - 1 => k = i
      BY <1>1, <2>1
    <3> QED
      BY <3>1, <3>2, ShownIs DEF LineHere
  <2>2. CASE k \in i + 4 .. e - 1
    <3>1. k - i - 3 \in 1 .. n /\ i + 3 + (k - i - 3) = k
      BY <1>1, <2>2
    <3>2. text[k] = value[k - i - 3]
      BY <3>1 DEF LineHere
    <3> QED
      BY <1>1, <3>1, <3>2, ShownIs
  <2> QED
    BY <1>1, <2>1, <2>2
<1>3. Lock!LineEnd(i) = e
  <2>1. i \in 1 .. Len(text)
    BY <1>1
  <2>2. /\ Lock!LineEnd(i) \in i .. Len(text) + 1
        /\ Lock!LineEnd(i) = Len(text) + 1 \/ text[Lock!LineEnd(i)] = "nl"
        /\ \A k \in i .. Lock!LineEnd(i) - 1 : text[k] # "nl"
    BY <2>1, LineEndExists
  <2> DEFINE l == Lock!LineEnd(i)
  <2>3. ~(l < e)
    <3> SUFFICES ASSUME l < e PROVE FALSE
      OBVIOUS
    <3>1. l \in i .. e - 1 /\ l # Len(text) + 1
      BY <1>1, <2>2
    <3> QED
      BY <1>2, <2>2, <3>1
  <2>4. ~(l > e)
    <3> SUFFICES ASSUME l > e PROVE FALSE
      OBVIOUS
    <3>1. e \in i .. l - 1
      BY <1>1, <2>2
    <3> QED
      BY <2>2, <3>1 DEF LineHere
  <2> HIDE DEF l
  <2>5. l \in Int /\ e \in Int
    BY <1>1, <2>2 DEF l
  <2> QED
    BY <2>3, <2>4, <2>5 DEF l
<1>4. /\ raw \in Seq(Lock!Token) /\ Len(raw) = n + 4
      /\ \A k \in 1 .. n + 4 : raw[k] = text[i + k - 1]
  <2>1. i <= (e - 1) + 1 /\ e - 1 <= Len(text) /\ e - 1 \in Nat /\ (e - 1) - i + 1 = n + 4
    BY <1>1
  <2> HIDE DEF e
  <2>2. /\ raw \in Seq(Lock!Token) /\ Len(raw) = (e - 1) - i + 1
        /\ \A k \in 1 .. (e - 1) - i + 1 : raw[k] = text[i + k - 1]
    BY <1>1, <2>1, Part
  <2> QED
    BY <2>1, <2>2
<1>5. \A k \in 1 .. n + 4 : i + k - 1 \in i .. e - 1
  BY <1>1
<1>6. DOMAIN raw = 1 .. n + 4
  BY <1>4
<1>7. Lock!Before(raw, "#") = raw
  <2>1. \A k \in DOMAIN raw : raw[k] # "#"
    BY <1>2, <1>4, <1>5, <1>6
  <2> QED
    BY <2>1, BeforeNone
<1>8. raw[1] # "sp" /\ raw[n + 4] # "sp"
  <2>1. /\ 1 \in 1 .. n + 4 /\ n + 4 \in 1 .. n + 4 /\ i + 1 - 1 = i
        /\ i + (n + 4) - 1 \in i + 4 .. e - 1
    BY <1>1
  <2>2. i \in i .. e - 1 /\ i + (n + 4) - 1 \in i .. e - 1
    BY <1>1
  <2> HIDE DEF raw, e, n
  <2> QED
    BY <1>2, <1>4, <2>1, <2>2
<1>9. Lock!Trim(raw) = SubSeq(raw, 1, n + 4)
  <2>1. /\ 1 \in 1 .. Len(raw) /\ n + 4 \in 1 .. Len(raw) /\ 1 .. 1 - 1 = {}
        /\ n + 4 + 1 .. Len(raw) = {}
    BY <1>1, <1>4
  <2> DEFINE m == n + 4
  <2> HIDE DEF raw, m
  <2>2. /\ raw[1] # "sp" /\ raw[m] # "sp" /\ m \in 1 .. Len(raw)
        /\ \A k \in 1 .. 1 - 1 : raw[k] = "sp"
        /\ \A k \in m + 1 .. Len(raw) : raw[k] = "sp"
    BY <1>8, <2>1 DEF m
  <2>3. Lock!Trim(raw) = SubSeq(raw, 1, m)
    BY <1>4, <2>1, <2>2, TrimIs
  <2> QED
    BY <2>3 DEF m
<1>10. SubSeq(raw, 1, n + 4) = raw
  <2> DEFINE m == n + 4
  <2>1. m \in Nat
    BY <1>1
  <2> HIDE DEF raw, m
  <2>2. SubSeq(raw, 1, m) = raw
    BY <1>4, <2>1, PartWhole DEF m
  <2> QED
    BY <2>2 DEF m
<1>11. Lock!LineAt(i) = raw
  BY <1>3, <1>7, <1>9, <1>10 DEF Lock!LineAt
<1> QED
  BY <1>4, <1>11

(* Such a line offers its value to its field. *)
LEMMA LineOffers ==
  ASSUME text \in Seq(Lock!Token), NEW i, NEW f \in Lock!Field,
         NEW value \in Seq(Shown) \ {<<>>}, LineHere(text, i, f, value)
  PROVE  \A g : Lock!StoredAt(i, g) = IF g = f THEN Lock!Parsed(g, value) ELSE {}
<1> DEFINE n == Len(value)
           l == Lock!LineAt(i)
<1>1. /\ n \in Nat \ {0} /\ i \in Nat \ {0} /\ value \in Seq(Lock!Token)
      /\ \A k \in 1 .. n : value[k] \in Shown
  BY ShownIs DEF LineHere
<1>2. /\ l \in Seq(Lock!Token) /\ Len(l) = n + 4
      /\ \A k \in 1 .. n + 4 : l[k] = text[i + k - 1]
  BY LineKept
<1> HIDE DEF l
<1>3. l[1] = f /\ l[2] = "sp" /\ l[3] = "=" /\ l[4] = "sp" /\ \A k \in 1 .. n : l[k + 4] = value[k]
  <2>1. /\ 1 \in 1 .. n + 4 /\ 2 \in 1 .. n + 4 /\ 3 \in 1 .. n + 4 /\ 4 \in 1 .. n + 4
        /\ i + 1 - 1 = i /\ i + 2 - 1 = i + 1 /\ i + 3 - 1 = i + 2 /\ i + 4 - 1 = i + 3
        /\ \A k \in 1 .. n : k + 4 \in 1 .. n + 4 /\ i + (k + 4) - 1 = i + 3 + k
    BY <1>1
  <2> QED
    BY <1>2, <2>1 DEF LineHere
<1>4. Lock!Before(l, "=") = SubSeq(l, 1, 2)
  <2>1. 3 \in 1 .. Len(l) /\ 3 = 2 + 1 /\ 1 .. 2 = {1, 2}
    BY <1>1, <1>2
  <2>2. \A k \in 1 .. 2 : l[k] # "="
    BY <1>3, <2>1, ShownIs
  <2> DEFINE two == 2
             three == 3
  <2>3. two \in Nat /\ three \in 1 .. Len(l) /\ three = two + 1 /\ l[three] = "="
        /\ \A k \in 1 .. two : l[k] # "="
    BY <1>3, <2>1, <2>2
  <2> HIDE DEF two, three
  <2>4. Lock!Before(l, "=") = SubSeq(l, 1, two)
    BY <1>2, <2>3, BeforeIs
  <2> QED
    BY <2>4 DEF two
<1> DEFINE left == SubSeq(l, 1, 2)
           right == SubSeq(l, 4, n + 4)
<1>5. /\ left \in Seq(Lock!Token) /\ Len(left) = 2 /\ left[1] = f /\ left[2] = "sp"
  <2>1. left \in Seq(Lock!Token) /\ Len(left) = 2 - 1 + 1
        /\ \A k \in 1 .. 2 - 1 + 1 : left[k] = l[1 + k - 1]
    BY <1>1, <1>2, Part
  <2> QED
    BY <1>3, <2>1
<1> HIDE DEF left
<1>6. Lock!Name(i) = <<f>>
  <2>1. 1 \in 1 .. Len(left) /\ 1 \in 1 .. Len(left) /\ 1 .. 1 - 1 = {} /\ 1 + 1 .. Len(left) = {2}
    BY <1>5
  <2>2. f # "sp"
    BY ShownIs
  <2>3. Lock!Trim(left) = SubSeq(left, 1, 1)
    <3>1. /\ \A k \in 1 .. 1 - 1 : left[k] = "sp"
          /\ \A k \in 1 + 1 .. Len(left) : left[k] = "sp"
      BY <1>5, <2>1
    <3> QED
      BY <1>5, <2>1, <2>2, <3>1, TrimIs
  <2>4. SubSeq(left, 1, 1) = <<f>>
    BY <1>5, PartOne
  <2> QED
    BY <1>4, <2>3, <2>4 DEF Lock!Name, l, left
<1>7. /\ right \in Seq(Lock!Token) /\ Len(right) = n + 1 /\ right[1] = "sp"
      /\ \A k \in 1 .. n : right[k + 1] = value[k]
  <2>1. 4 \in Nat \ {0} /\ n + 4 \in Nat /\ 4 <= n + 4 + 1 /\ (n + 4) - 4 + 1 = n + 1
    BY <1>1
  <2>2. right \in Seq(Lock!Token) /\ Len(right) = (n + 4) - 4 + 1
        /\ \A k \in 1 .. (n + 4) - 4 + 1 : right[k] = l[4 + k - 1]
    BY <1>2, <2>1, Part
  <2>3. 1 \in 1 .. n + 1 /\ 4 + 1 - 1 = 4
        /\ \A k \in 1 .. n : k + 1 \in 1 .. n + 1 /\ 4 + (k + 1) - 1 = k + 4
    BY <1>1
  <2> HIDE DEF right, n
  <2> QED
    BY <1>3, <2>1, <2>2, <2>3
<1> HIDE DEF right
<1>8. Lock!ValueText(i) = value
  <2>1. 2 \in 1 .. Len(right) /\ n + 1 \in 2 .. Len(right) /\ 1 .. 2 - 1 = {1}
        /\ n + 1 + 1 .. Len(right) = {}
    BY <1>1, <1>7
  <2>2. right[2] # "sp" /\ right[n + 1] # "sp"
    <3>1. 1 \in 1 .. n /\ n \in 1 .. n /\ 1 + 1 = 2
      BY <1>1
    <3> HIDE DEF n
    <3> QED
      BY <1>1, <1>7, <3>1, ShownIs
  <2>3. Lock!Trim(right) = SubSeq(right, 2, n + 1)
    BY <1>7, <2>1, <2>2, TrimIs
  <2>4. SubSeq(right, 2, n + 1) = value
    <3>1. 2 \in Nat \ {0} /\ n + 1 \in Nat /\ 2 <= n + 1 + 1 /\ (n + 1) - 2 + 1 = n
          /\ \A k \in 1 .. n : 2 + k - 1 = k + 1
      BY <1>1
    <3> DEFINE part == SubSeq(right, 2, n + 1)
    <3> HIDE DEF n
    <3>2. part \in Seq(Lock!Token) /\ Len(part) = (n + 1) - 2 + 1
          /\ \A k \in 1 .. (n + 1) - 2 + 1 : part[k] = right[2 + k - 1]
      BY <1>7, <3>1, Part
    <3>3. Len(part) = n /\ \A k \in 1 .. n : part[k] = value[k]
      BY <1>7, <3>1, <3>2
    <3> HIDE DEF part
    <3>4. part = value
      BY <1>1, <3>2, <3>3, SameSequence DEF n
    <3> QED
      BY <3>4 DEF part
  <2>5. Len(Lock!Before(l, "=")) + 2 = 4 /\ Len(l) = n + 4
    <3>1. Lock!Before(l, "=") = left
      BY <1>4 DEF left
    <3>2. Len(Lock!Before(l, "=")) = 2
      BY <1>5, <3>1
    <3>3. \A k : k = 2 => k + 2 = 4
      OBVIOUS
    <3>4. Len(Lock!Before(l, "=")) + 2 = 4
      BY <3>2, <3>3
    <3>5. Len(l) = n + 4
      BY <1>2
    <3> QED
      BY <3>4, <3>5
  <2>6. Lock!ValueText(i) = Lock!Trim(SubSeq(l, Len(Lock!Before(l, "=")) + 2, Len(l)))
    BY DEF Lock!ValueText, l
  <2> QED
    BY <2>3, <2>4, <2>5, <2>6 DEF right
<1>9. "=" \in Lock!Range(Lock!LineAt(i))
  <2>1. 3 \in DOMAIN l
    BY <1>1, <1>2
  <2> QED
    BY <1>3, <2>1 DEF Lock!Range, l
<1> QED
  BY <1>6, <1>8, <1>9 DEF Lock!StoredAt

(* The values. *)
LEMMA PlainIs ==
  /\ Lock!Plain \subseteq Shown
  /\ "quote" \in Shown /\ "quote" \notin Lock!Plain /\ "backslash" \notin Lock!Plain
  /\ Lock!Digit \subseteq Lock!Plain
BY DEF Shown, Lock!Plain, Lock!Digit

LEMMA QuotedIs ==
  ASSUME NEW p \in Seq(Lock!Plain)
  PROVE  /\ Lock!Quoted(p) \in Seq(Shown)
         /\ Len(Lock!Quoted(p)) = Len(p) + 2
         /\ Lock!Quoted(p)[1] = "quote" /\ Lock!Quoted(p)[Len(p) + 2] = "quote"
         /\ \A k \in 1 .. Len(p) : Lock!Quoted(p)[k + 1] = p[k]
<1>1. Lock!Escaped(p) = p
  BY PlainTyped DEF Lock!Escaped
<1>2. p \in Seq(Shown) /\ <<"quote">> \in Seq(Shown) /\ Len(p) \in Nat
  BY PlainIs
<1> DEFINE q == <<"quote">> \o p \o <<"quote">>
<1>3. Lock!Quoted(p) = q
  BY <1>1 DEF Lock!Quoted
<1>4. /\ q \in Seq(Shown) /\ Len(q) = Len(p) + 2
      /\ q[1] = "quote" /\ q[Len(p) + 2] = "quote"
      /\ \A k \in 1 .. Len(p) : q[k + 1] = p[k]
  BY <1>2
<1> HIDE DEF q
<1> QED
  BY <1>3, <1>4

(* What is quoted reads back, for strings, digests and versions alike.        *)
LEMMA QuotedReads ==
  ASSUME NEW p \in Seq(Lock!Plain)
  PROVE  /\ Lock!ParseLockString(Lock!Quoted(p)) = {p}
         /\ Lock!Quoted(p) \in Seq(Shown) \ {<<>>}
<1> DEFINE q == Lock!Quoted(p)
           n == Len(p)
           mid == SubSeq(q, 2, n + 1)
<1>1. /\ n \in Nat /\ q \in Seq(Shown) /\ Len(q) = n + 2 /\ q[1] = "quote" /\ q[n + 2] = "quote"
      /\ \A k \in 1 .. n : q[k + 1] = p[k]
      /\ \A k \in 1 .. n : p[k] \in Lock!Plain
      /\ p \in Seq(Shown)
  BY QuotedIs, PlainIs
<1> HIDE DEF q
<1>2. mid = p
  <2>1. 2 \in Nat \ {0} /\ n + 1 \in Nat /\ 2 <= n + 1 + 1 /\ n + 1 <= Len(q) /\ (n + 1) - 2 + 1 = n
    BY <1>1
  <2>2. mid \in Seq(Shown) /\ Len(mid) = (n + 1) - 2 + 1
        /\ \A k \in 1 .. (n + 1) - 2 + 1 : mid[k] = q[2 + k - 1]
    <3> HIDE DEF n
    <3> QED
      BY <1>1, <2>1, Part
  <2>3. \A k \in 1 .. n : 2 + k - 1 = k + 1
    BY <1>1
  <2>4. Len(mid) = n /\ \A k \in 1 .. n : mid[k] = p[k]
    <3> HIDE DEF n, mid
    <3> QED
      BY <1>1, <2>1, <2>2, <2>3
  <2> HIDE DEF mid
  <2> QED
    BY <1>1, <2>2, <2>4, SameSequence
<1>3. \A i \in 2 .. Len(q) - 1 : q[i] \notin {"quote", "backslash"}
  <2> TAKE i \in 2 .. Len(q) - 1
  <2>1. i - 1 \in 1 .. n /\ (i - 1) + 1 = i
    BY <1>1
  <2>2. q[i] = p[i - 1]
    BY <1>1, <2>1
  <2> QED
    BY <1>1, <2>1, <2>2, PlainIs
<1>4. Len(q) >= 2 /\ Len(q) - 1 = n + 1 /\ q[Len(q)] = "quote" /\ q # <<>>
  BY <1>1
<1>5. Lock!ParseLockString(q) = {SubSeq(q, 2, Len(q) - 1)}
  BY <1>1, <1>3, <1>4 DEF Lock!ParseLockString
<1>6. SubSeq(q, 2, Len(q) - 1) = p
  BY <1>2, <1>4
<1> QED
  BY <1>1, <1>4, <1>5, <1>6 DEF q

LEMMA HashReads ==
  ASSUME NEW hash \in [1 .. HashDigits -> 0 .. 2]
  PROVE  Lock!ParseLockHash(Lock!Quoted(Lock!Hex(hash))) = {hash}
<1> DEFINE h == Lock!Hex(hash)
<1>1. HashDigits \in Nat /\ DOMAIN hash = 1 .. HashDigits
  BY LockConstants
<1>2. \A n \in 0 .. 2 : Lock!HexChar[n] \in DOMAIN Lock!Nibble /\ Lock!Nibble[Lock!HexChar[n]] = n
  BY DEF Lock!HexChar, Lock!Nibble
<1>3. h \in Seq(Lock!Plain) /\ DOMAIN h = 1 .. HashDigits
      /\ \A i \in 1 .. HashDigits : h[i] = Lock!HexChar[hash[i]]
  BY <1>1, HexTyped DEF Lock!Hex
<1> HIDE DEF h
<1>4. Len(h) = HashDigits
  BY <1>1, <1>3
<1>5. \A i \in 1 .. HashDigits : h[i] \in DOMAIN Lock!Nibble /\ Lock!Nibble[h[i]] = hash[i]
  BY <1>2, <1>3
<1>6. [i \in DOMAIN h |-> Lock!Nibble[h[i]]] = hash
  BY <1>1, <1>3, <1>5
<1>7. Lock!ParseLockString(Lock!Quoted(h)) = {h}
  BY <1>3, QuotedReads
<1>8. {x \in {h} : Len(x) = HashDigits /\ \A i \in DOMAIN x : x[i] \in DOMAIN Lock!Nibble} = {h}
  BY <1>3, <1>4, <1>5
<1>9. {[i \in DOMAIN x |-> Lock!Nibble[x[i]]] : x \in {h}} = {hash}
  BY <1>6
<1> QED
  BY <1>7, <1>8, <1>9 DEF Lock!ParseLockHash, h

LEMMA VersionReads ==
  ASSUME NEW n \in 1 .. MaxVersion
  PROVE  /\ Lock!ParseVersion(Decimal[n]) = {n}
         /\ Decimal[n] \in Seq(Shown) \ {<<>>}
<1> DEFINE d == Decimal[n]
<1>1. d \in Seq(Lock!Digit) /\ d # <<>> /\ Lock!Denoted(d) = n /\ MaxVersion \in Nat
  BY LockConstants
<1> HIDE DEF d
<1>2. \A i \in DOMAIN d : d[i] \in Lock!Digit
  BY <1>1
<1>3. Head(d) \in Lock!Digit
  BY <1>1
<1>4. Head(d) # "-" /\ Head(d) # "+"
  BY <1>3 DEF Lock!Digit
<1>5. Lock!ParseUnbounded(d) = {n}
  BY <1>1, <1>2, <1>4 DEF Lock!ParseUnbounded
<1>6. n \in (-MaxVersion - 1) .. MaxVersion
  BY <1>1
<1>7. Lock!ParseVersion(d) = {n}
  BY <1>5, <1>6 DEF Lock!ParseVersion
<1>8. d \in Seq(Shown)
  BY <1>1, PlainIs
<1> QED
  BY <1>1, <1>7, <1>8 DEF d

(* What write_source_lock shows of each field, and what it stands for.        *)
Values(s) == [f \in Lock!Field |-> IF f = "source" THEN PinnedUrl ELSE s[f]]
Shows(s) ==
  [f \in Lock!Field |->
     IF f \in Lock!StringField THEN Lock!Quoted(Values(s)[f])
     ELSE IF f \in Lock!HashField THEN Lock!Quoted(Lock!Hex(Values(s)[f]))
     ELSE Decimal[Values(s)[f]]]

LEMMA ShownReadsBack ==
  ASSUME NEW s \in Candidates, Lock!SourceValid(s)
  PROVE  /\ Shows(s) \in [Lock!Field -> Seq(Shown) \ {<<>>}]
         /\ \A f \in Lock!Field : Lock!Parsed(f, Shows(s)[f]) = {Values(s)[f]}
<1>1. s \in Lock!Snapshot
  BY LockConstants
<1>2. /\ s.component_version \in Seq(Lock!Token) /\ s.browser_version \in Seq(Lock!Token)
      /\ s["crx_sha256"] \in [1 .. HashDigits -> 0 .. 2]
      /\ s["crs_sha256"] \in [1 .. HashDigits -> 0 .. 2]
      /\ s["root_store_version"] \in 1 .. MaxVersion
  BY <1>1 DEF Lock!Snapshot
<1>3. \A v \in Seq(Lock!Token) : Lock!DottedVersion(v) => v \in Seq(Lock!Plain)
  BY VersionPlain
<1>4. \A f \in Lock!StringField : Values(s)[f] \in Seq(Lock!Plain)
  <2>1. s["component_id"] \in Seq(Lock!Plain)
    BY LockConstants DEF Lock!SourceValid
  <2>2. s["component_version"] \in Seq(Lock!Plain) /\ s["browser_version"] \in Seq(Lock!Plain)
    BY <1>2, <1>3 DEF Lock!SourceValid
  <2> QED
    BY <2>1, <2>2, LockConstants DEF Lock!StringField, Lock!Field, Values
<1>5. \A f \in Lock!HashField : Values(s)[f] \in [1 .. HashDigits -> 0 .. 2]
  BY <1>2 DEF Lock!HashField, Lock!Field, Values
<1>6. Values(s)["root_store_version"] \in 1 .. MaxVersion
  BY <1>2 DEF Lock!Field, Values
<1>7. \A f \in Lock!Field : /\ Shows(s)[f] \in Seq(Shown) \ {<<>>}
                            /\ Lock!Parsed(f, Shows(s)[f]) = {Values(s)[f]}
  <2> TAKE f \in Lock!Field
  <2>1. CASE f \in Lock!StringField
    <3>1. Shows(s)[f] = Lock!Quoted(Values(s)[f])
      BY <2>1 DEF Shows
    <3>2. Values(s)[f] \in Seq(Lock!Plain)
      BY <1>4, <2>1
    <3>3. Lock!Parsed(f, Shows(s)[f]) = Lock!ParseLockString(Shows(s)[f])
      <4>1. f \notin Lock!HashField
        BY <2>1 DEF Lock!StringField, Lock!HashField
      <4> QED
        BY <2>1, <4>1 DEF Lock!Parsed
    <3> QED
      BY <3>1, <3>2, <3>3, QuotedReads
  <2>2. CASE f \in Lock!HashField
    <3>1. f \notin Lock!StringField
      BY <2>2 DEF Lock!StringField, Lock!HashField
    <3>2. Shows(s)[f] = Lock!Quoted(Lock!Hex(Values(s)[f]))
      BY <2>2, <3>1 DEF Shows
    <3>3. Lock!Hex(Values(s)[f]) \in Seq(Lock!Plain)
      BY <1>5, <2>2, HexTyped
    <3>4. Lock!Parsed(f, Shows(s)[f]) = Lock!ParseLockHash(Shows(s)[f])
      BY <2>2, <3>1 DEF Lock!Parsed
    <3> QED
      BY <1>5, <2>2, <3>2, <3>3, <3>4, QuotedReads, HashReads
  <2>3. CASE f = "root_store_version"
    <3>1. f \notin Lock!StringField /\ f \notin Lock!HashField
      BY <2>3 DEF Lock!StringField, Lock!HashField
    <3>2. Shows(s)[f] = Decimal[Values(s)[f]]
      BY <3>1 DEF Shows
    <3>3. Lock!Parsed(f, Shows(s)[f]) = Lock!ParseVersion(Shows(s)[f])
      BY <3>1 DEF Lock!Parsed
    <3> QED
      BY <1>6, <2>3, <3>2, <3>3, VersionReads
  <2> QED
    BY <2>1, <2>2, <2>3 DEF Lock!Field
<1> QED
  BY <1>7 DEF Shows

(* The text t consists of a comment and the lines of the fields D: field f    *)
(* has the line at p[f], with the value v[f].                                 *)
Rows(t, D, p, v) ==
  /\ t \in Seq(Lock!Token)
  /\ Len(t) >= 4 /\ t[1] = "#" /\ t[2] # "nl" /\ t[3] # "nl" /\ t[4] = "nl"
  /\ t[Len(t)] = "nl"
  /\ p \in [Lock!Field -> Nat]
  /\ \A f \in D : LineHere(t, p[f], f, v[f]) /\ p[f] > 4 /\ t[p[f] - 1] = "nl"
  /\ \A k \in 1 .. Len(t) : t[k] \in Lock!Field => t[k] \in D /\ p[t[k]] = k
  /\ \A k \in 1 .. Len(t) - 1 : t[k] = "nl" => k < 4 \/ \E f \in D : p[f] = k + 1

(* A line, character by character.                                            *)
LEMMA LineIs ==
  ASSUME NEW f \in Lock!Field, NEW value \in Seq(Shown) \ {<<>>}
  PROVE  LET l == Lock!Line(f, value)
             n == Len(value)
         IN /\ l \in Seq(Lock!Token) /\ n \in Nat \ {0} /\ Len(l) = n + 5
            /\ l[1] = f /\ l[2] = "sp" /\ l[3] = "=" /\ l[4] = "sp" /\ l[n + 5] = "nl"
            /\ \A k \in 1 .. n : l[4 + k] = value[k] /\ value[k] \in Shown
<1> DEFINE a == <<f, "sp", "=", "sp">>
           z == <<"nl">>
           l == a \o value \o z
           n == Len(value)
<1>1. value \in Seq(Lock!Token) /\ n \in Nat \ {0} /\ \A k \in 1 .. n : value[k] \in Shown
  BY ShownIs
<1>2. a \in Seq(Lock!Token) /\ Len(a) = 4 /\ z \in Seq(Lock!Token) /\ Len(z) = 1 /\ z[1] = "nl"
      /\ a[1] = f /\ a[2] = "sp" /\ a[3] = "=" /\ a[4] = "sp"
  BY ShownIs
<1>3. Lock!Line(f, value) = l
  BY DEF Lock!Line
<1> HIDE DEF a, z
<1>4. /\ l \in Seq(Lock!Token) /\ Len(l) = n + 5
      /\ l[1] = a[1] /\ l[2] = a[2] /\ l[3] = a[3] /\ l[4] = a[4] /\ l[n + 5] = z[1]
      /\ \A k \in 1 .. n : l[4 + k] = value[k]
  <2> DEFINE av == a \o value
  <2>1. /\ av \in Seq(Lock!Token) /\ Len(av) = 4 + Len(value)
        /\ \A k \in 1 .. 4 : av[k] = a[k]
        /\ \A k \in 1 .. Len(value) : av[4 + k] = value[k]
    <3>1. /\ av \in Seq(Lock!Token) /\ Len(av) = Len(a) + Len(value)
          /\ \A k \in 1 .. Len(a) : av[k] = a[k]
          /\ \A k \in 1 .. Len(value) : av[Len(a) + k] = value[k]
      <4>1. av = a \o value
        OBVIOUS
      <4>2. a \in Seq(Lock!Token) /\ value \in Seq(Lock!Token)
        BY <1>1, <1>2
      <4> HIDE DEF av
      <4> QED
        BY <4>1, <4>2, Joined, SMTT(30)
    <3> HIDE DEF av
    <3> QED
      BY <1>2, <3>1
  <2> HIDE DEF av
  <2> DEFINE c == av \o z
  <2>2. /\ c \in Seq(Lock!Token) /\ Len(c) = Len(av) + Len(z)
        /\ \A k \in 1 .. Len(av) : c[k] = av[k]
        /\ \A k \in 1 .. Len(z) : c[Len(av) + k] = z[k]
    <3>1. c = av \o z
      OBVIOUS
    <3>2. av \in Seq(Lock!Token) /\ z \in Seq(Lock!Token)
      BY <1>2, <2>1
    <3> HIDE DEF c
    <3> QED
      BY <3>1, <3>2, Joined, SMTT(30)
  <2>3. l = c
    BY DEF l, c, av
  <2> HIDE DEF c, l
  <2>4. /\ 1 \in 1 .. Len(av) /\ 2 \in 1 .. Len(av) /\ 3 \in 1 .. Len(av) /\ 4 \in 1 .. Len(av)
        /\ 1 \in 1 .. 4 /\ 2 \in 1 .. 4 /\ 3 \in 1 .. 4 /\ 4 \in 1 .. 4
        /\ 1 \in 1 .. Len(z) /\ Len(av) + 1 = n + 5 /\ Len(av) + Len(z) = n + 5
        /\ \A k \in 1 .. n : 4 + k \in 1 .. Len(av)
    BY <1>1, <1>2, <2>1
  <2>5. c[Len(av) + 1] = z[1] /\ \A k \in 1 .. n : c[4 + k] = av[4 + k]
    BY <2>2, <2>4
  <2> QED
    BY <2>1, <2>2, <2>3, <2>4, <2>5
<1> HIDE DEF l
<1> QED
  BY <1>1, <1>2, <1>3, <1>4

LEMMA LineStays ==
  ASSUME NEW t, NEW b, NEW i, NEW f, NEW value, Len(value) \in Nat, LineHere(t, i, f, value),
         Len(t) \in Nat, Len(b) \in Nat, Len(t) <= Len(b), \A k \in 1 .. Len(t) : b[k] = t[k]
  PROVE  LineHere(b, i, f, value)
<1> DEFINE n == Len(value)
<1>1. i \in Nat \ {0} /\ i + 4 + n <= Len(t) /\ n \in Nat
  BY DEF LineHere
<1>2. /\ i \in 1 .. Len(t) /\ i + 1 \in 1 .. Len(t) /\ i + 2 \in 1 .. Len(t)
      /\ i + 3 \in 1 .. Len(t) /\ i + 4 + n \in 1 .. Len(t)
      /\ \A k \in 1 .. n : i + 3 + k \in 1 .. Len(t)
      /\ i + 4 + n <= Len(b)
  BY <1>1
<1>3. /\ b[i] = t[i] /\ b[i + 1] = t[i + 1] /\ b[i + 2] = t[i + 2] /\ b[i + 3] = t[i + 3]
      /\ b[i + 4 + n] = t[i + 4 + n]
      /\ \A k \in 1 .. n : b[i + 3 + k] = t[i + 3 + k]
  BY <1>2
<1> QED
  BY <1>1, <1>2, <1>3 DEF LineHere

(* Writing one more line keeps the text a text of lines.                      *)
LEMMA OneMoreLine ==
  ASSUME NEW D \in SUBSET Lock!Field, NEW f \in Lock!Field \ D,
         NEW v \in [Lock!Field -> Seq(Shown) \ {<<>>}], NEW t, NEW p, Rows(t, D, p, v)
  PROVE  Rows(t \o Lock!Line(f, v[f]), D \cup {f}, [p EXCEPT ![f] = Len(t) + 1], v)
<1> DEFINE l == Lock!Line(f, v[f])
           n == Len(v[f])
           m == Len(t)
           b == t \o l
           q == [p EXCEPT ![f] = m + 1]
<1>1. /\ l \in Seq(Lock!Token) /\ n \in Nat \ {0} /\ Len(l) = n + 5
      /\ l[1] = f /\ l[2] = "sp" /\ l[3] = "=" /\ l[4] = "sp" /\ l[n + 5] = "nl"
      /\ \A k \in 1 .. n : l[4 + k] = v[f][k] /\ v[f][k] \in Shown
  BY LineIs
<1>2. t \in Seq(Lock!Token) /\ m \in Nat /\ m >= 4 /\ p \in [Lock!Field -> Nat]
  BY DEF Rows
<1> HIDE DEF l
<1>3. /\ b \in Seq(Lock!Token) /\ Len(b) = m + n + 5
      /\ \A k \in 1 .. m : b[k] = t[k]
      /\ \A k \in 1 .. n + 5 : b[m + k] = l[k]
  <2>1. /\ b \in Seq(Lock!Token) /\ Len(b) = Len(t) + Len(l)
        /\ \A k \in 1 .. Len(t) : b[k] = t[k]
        /\ \A k \in 1 .. Len(l) : b[Len(t) + k] = l[k]
    <3>1. b = t \o l
      OBVIOUS
    <3>2. t \in Seq(Lock!Token) /\ l \in Seq(Lock!Token)
      BY <1>1, <1>2
    <3> HIDE DEF b
    <3> QED
      BY <3>1, <3>2, Joined, SMTT(30)
  <2>2. m + (n + 5) = m + n + 5 /\ m = Len(t)
    BY <1>1, <1>2
  <2> HIDE DEF b, n, m
  <2> QED
    BY <1>1, <2>1, <2>2
<1>4. /\ q \in [Lock!Field -> Nat] /\ q[f] = m + 1
      /\ \A g \in D : q[g] = p[g]
  BY <1>2
<1> HIDE DEF b, q, m, n
<1>5. /\ b[m + 1] = f /\ b[m + 2] = "sp" /\ b[m + 3] = "=" /\ b[m + 4] = "sp"
      /\ b[m + n + 5] = "nl"
      /\ \A k \in 1 .. n : b[m + 4 + k] = v[f][k]
  <2>1. /\ 1 \in 1 .. n + 5 /\ 2 \in 1 .. n + 5 /\ 3 \in 1 .. n + 5 /\ 4 \in 1 .. n + 5
        /\ n + 5 \in 1 .. n + 5 /\ m + (n + 5) = m + n + 5
        /\ \A k \in 1 .. n : 4 + k \in 1 .. n + 5 /\ m + (4 + k) = m + 4 + k
    BY <1>1, <1>2
  <2>2. b[m + (n + 5)] = l[n + 5] /\ \A k \in 1 .. n : b[m + (4 + k)] = l[4 + k]
    BY <1>3, <2>1
  <2> QED
    BY <1>1, <1>3, <2>1, <2>2
<1>6. LineHere(b, q[f], f, v[f])
  <2>1. /\ m + 1 \in Nat \ {0} /\ m + 1 + 4 + n <= Len(b) /\ m + 1 + 4 + n = m + n + 5
        /\ m + 1 + 1 = m + 2 /\ m + 1 + 2 = m + 3 /\ m + 1 + 3 = m + 4
        /\ \A k \in 1 .. n : m + 1 + 3 + k = m + 4 + k
    BY <1>1, <1>2, <1>3
  <2> QED
    <3>1. Len(v[f]) = n
      BY DEF n
    <3>2. /\ b[q[f]] = f /\ b[q[f] + 1] = "sp" /\ b[q[f] + 2] = "=" /\ b[q[f] + 3] = "sp"
          /\ b[q[f] + 4 + n] = "nl" /\ q[f] \in Nat \ {0} /\ q[f] + 4 + n <= Len(b)
      BY <1>4, <1>5, <2>1
    <3>3. \A k \in 1 .. n : b[q[f] + 3 + k] = v[f][k]
      BY <1>4, <1>5, <2>1
    <3> QED
      BY <3>1, <3>2, <3>3 DEF LineHere
<1>7. ASSUME NEW g \in D
      PROVE  LineHere(b, q[g], g, v[g]) /\ q[g] > 4 /\ b[q[g] - 1] = "nl"
  <2>1. LineHere(t, p[g], g, v[g]) /\ p[g] > 4 /\ t[p[g] - 1] = "nl" /\ g \in Lock!Field
    BY DEF Rows
  <2>2. v[g] \in Seq(Shown)
    BY <2>1
  <2>3. Len(v[g]) \in Nat
    BY <2>2
  <2>4. m = Len(t) /\ Len(b) \in Nat /\ m <= Len(b)
    BY <1>1, <1>2, <1>3 DEF m
  <2>5. LineHere(b, p[g], g, v[g])
    BY <1>2, <1>3, <2>1, <2>3, <2>4, LineStays
  <2>6. p[g] - 1 \in 1 .. m
    BY <2>1, <2>3, <2>4, <1>2 DEF LineHere
  <2> QED
    BY <1>3, <1>4, <2>1, <2>5, <2>6
<1>8. q[f] > 4 /\ b[q[f] - 1] = "nl"
  <2>1. m + 1 - 1 = m /\ m \in 1 .. m /\ t[m] = "nl"
    BY <1>2 DEF Rows, m
  <2> QED
    BY <1>2, <1>3, <1>4, <2>1
<1>9. ASSUME NEW k \in 1 .. n + 5
      PROVE  /\ b[m + k] \in Lock!Field => k = 1
             /\ b[m + k] = "nl" => k = n + 5
  <2>1. b[m + k] = l[k]
    BY <1>3
  <2>2. CASE k \in 5 .. n + 4
    <3>1. k - 4 \in 1 .. n /\ 4 + (k - 4) = k
      BY <1>1, <2>2
    <3>2. l[k] \in Shown
      BY <1>1, <3>1
    <3> QED
      BY <2>1, <3>2, ShownIs
  <2>3. CASE k \in {1, 2, 3, 4}
    BY <1>1, <2>1, <2>3, ShownIs
  <2>4. CASE k = n + 5
    BY <1>1, <2>1, <2>4, ShownIs
  <2> QED
    BY <1>1, <2>2, <2>3, <2>4
<1>10. \A k \in 1 .. Len(b) : k \in 1 .. m \/ (k - m \in 1 .. n + 5 /\ m + (k - m) = k)
  BY <1>1, <1>2, <1>3
<1>11. ASSUME NEW k \in 1 .. Len(b), b[k] \in Lock!Field
       PROVE  b[k] \in D \cup {f} /\ q[b[k]] = k
  <2>1. CASE k \in 1 .. m
    BY <1>2, <1>3, <1>4, <1>11, <2>1 DEF Rows, m
  <2>2. CASE k - m \in 1 .. n + 5 /\ m + (k - m) = k
    <3>1. k - m = 1
      BY <1>9, <1>11, <2>2
    <3> QED
      BY <1>4, <1>5, <2>2, <3>1
  <2> QED
    BY <1>10, <2>1, <2>2
<1>12. ASSUME NEW k \in 1 .. Len(b) - 1, b[k] = "nl"
       PROVE  k < 4 \/ \E g \in D \cup {f} : q[g] = k + 1
  <2>1. k \in 1 .. Len(b) /\ k # Len(b)
    BY <1>1, <1>2, <1>3
  <2>2. CASE k \in 1 .. m
    <3>1. CASE k = m
      BY <1>4, <3>1
    <3>2. CASE k # m
      <4>1. k \in 1 .. m - 1 /\ t[k] = "nl"
        BY <1>2, <1>3, <1>12, <2>2, <3>2
      <4> QED
        BY <1>4, <4>1 DEF Rows, m
    <3> QED
      BY <3>1, <3>2
  <2>3. CASE k - m \in 1 .. n + 5 /\ m + (k - m) = k
    <3>1. k - m = n + 5
      BY <1>9, <1>12, <2>3
    <3>2. k = Len(b)
      BY <1>1, <1>2, <1>3, <2>3, <3>1
    <3> QED
      BY <2>1, <3>2
  <2> QED
    BY <1>10, <2>1, <2>2, <2>3
<1>13. /\ Len(b) >= 4 /\ b[1] = "#" /\ b[2] # "nl" /\ b[3] # "nl" /\ b[4] = "nl"
       /\ b[Len(b)] = "nl"
  <2>1. 1 \in 1 .. m /\ 2 \in 1 .. m /\ 3 \in 1 .. m /\ 4 \in 1 .. m /\ Len(b) >= 4
    BY <1>1, <1>2, <1>3
  <2> QED
    BY <1>3, <1>5, <2>1 DEF Rows
<1>14. \A g \in D \cup {f} : LineHere(b, q[g], g, v[g]) /\ q[g] > 4 /\ b[q[g] - 1] = "nl"
  BY <1>6, <1>7, <1>8
<1>15. Rows(b, D \cup {f}, q, v)
  BY <1>3, <1>4, <1>11, <1>12, <1>13, <1>14 DEF Rows
<1> QED
  BY <1>15 DEF b, q, l, m

LEMMA NoRows ==
  ASSUME NEW v
  PROVE  \E p : Rows(<<"#", "sp", "x", "nl">>, {}, p, v)
<1> DEFINE t == <<"#", "sp", "x", "nl">>
           p == [f \in Lock!Field |-> 0]
<1>1. t \in Seq(Lock!Token) /\ Len(t) = 4 /\ t[1] = "#" /\ t[2] = "sp" /\ t[3] = "x" /\ t[4] = "nl"
  BY ShownIs
<1>2. p \in [Lock!Field -> Nat]
  OBVIOUS
<1> HIDE DEF t, p
<1>3. \A k \in 1 .. Len(t) : k \in {1, 2, 3, 4}
  BY <1>1
<1>4. \A k \in 1 .. Len(t) : t[k] \notin Lock!Field
  BY <1>1, <1>3, ShownIs
<1>5. \A k \in 1 .. Len(t) - 1 : t[k] = "nl" => k < 4
  BY <1>1
<1>6. Rows(t, {}, p, v)
  BY <1>1, <1>2, <1>4, <1>5 DEF Rows
<1> QED
  BY <1>6 DEF t

(* The lock that update writes: the line of the source, behind the others.    *)
LEMMA WrittenRows ==
  ASSUME NEW s \in Candidates, Lock!SourceValid(s)
  PROVE  \E t, p : /\ Rows(t, Lock!Field \ {"source"}, p, Shows(s))
                   /\ Lock!Contents(s) = t \o Lock!Line("source", Shows(s)["source"])
<1> DEFINE v == Shows(s)
           L(f) == Lock!Line(f, v[f])
           t0 == <<"#", "sp", "x", "nl">>
           t1 == t0 \o L("component_id")
           t2 == t1 \o L("component_version")
           t3 == t2 \o L("browser_version")
           t4 == t3 \o L("crx_sha256")
           t5 == t4 \o L("crs_sha256")
           t6 == t5 \o L("root_store_version")
<1>1. /\ v["component_id"] = Lock!Quoted(s.component_id)
      /\ v["component_version"] = Lock!Quoted(s.component_version)
      /\ v["browser_version"] = Lock!Quoted(s.browser_version)
      /\ v["crx_sha256"] = Lock!Quoted(Lock!Hex(s.crx_sha256))
      /\ v["crs_sha256"] = Lock!Quoted(Lock!Hex(s.crs_sha256))
      /\ v["root_store_version"] = Decimal[s.root_store_version]
      /\ v["source"] = Lock!Quoted(PinnedUrl)
  BY DEF Shows, Values, Lock!Field, Lock!StringField, Lock!HashField
<1>2. Lock!Contents(s) = t6 \o L("source")
  BY <1>1 DEF Lock!Contents
<1>3. v \in [Lock!Field -> Seq(Shown) \ {<<>>}]
  BY ShownReadsBack
<1>4. /\ Lock!Field = {"component_id", "component_version", "browser_version", "source",
                       "crx_sha256", "crs_sha256", "root_store_version"}
  BY DEF Lock!Field, Lock!StringField, Lock!HashField
<1> HIDE DEF v
<1>5. \A D \in SUBSET Lock!Field, f \in Lock!Field : \A t :
        f \notin D /\ (\E p : Rows(t, D, p, v)) => \E p : Rows(t \o L(f), D \cup {f}, p, v)
  <2> SUFFICES ASSUME NEW D \in SUBSET Lock!Field, NEW f \in Lock!Field \ D, NEW t, NEW p,
                      Rows(t, D, p, v)
               PROVE  \E q : Rows(t \o L(f), D \cup {f}, q, v)
    OBVIOUS
  <2>1. Rows(t \o L(f), D \cup {f}, [p EXCEPT ![f] = Len(t) + 1], v)
    BY <1>3, OneMoreLine
  <2> HIDE DEF L
  <2> QED
    BY <2>1
<1> DEFINE R(t, D) == \E p : Rows(t, D, p, v)
<1>6. R(t0, {})
  BY NoRows
<1> HIDE DEF L, t0, t1, t2, t3, t4, t5, t6, R
<1>7. \A D \in SUBSET Lock!Field, f \in Lock!Field : \A t :
        f \notin D /\ R(t, D) => R(t \o L(f), D \cup {f})
  BY <1>5 DEF R
<1> DEFINE D1 == {} \cup {"component_id"}
           D2 == D1 \cup {"component_version"}
           D3 == D2 \cup {"browser_version"}
           D4 == D3 \cup {"crx_sha256"}
           D5 == D4 \cup {"crs_sha256"}
           D6 == D5 \cup {"root_store_version"}
<1>8. /\ {} \in SUBSET Lock!Field /\ "component_id" \in Lock!Field \ {}
      /\ D1 \in SUBSET Lock!Field /\ "component_version" \in Lock!Field \ D1
      /\ D2 \in SUBSET Lock!Field /\ "browser_version" \in Lock!Field \ D2
      /\ D3 \in SUBSET Lock!Field /\ "crx_sha256" \in Lock!Field \ D3
      /\ D4 \in SUBSET Lock!Field /\ "crs_sha256" \in Lock!Field \ D4
      /\ D5 \in SUBSET Lock!Field /\ "root_store_version" \in Lock!Field \ D5
      /\ D6 = Lock!Field \ {"source"}
  BY <1>4
<1> HIDE DEF D1, D2, D3, D4, D5, D6
<1>9. R(t1, D1)
  BY <1>7, <1>8, <1>6 DEF D1, t1
<1>10. R(t2, D2)
  BY <1>7, <1>8, <1>9 DEF D2, t2
<1>11. R(t3, D3)
  BY <1>7, <1>8, <1>10 DEF D3, t3
<1>12. R(t4, D4)
  BY <1>7, <1>8, <1>11 DEF D4, t4
<1>13. R(t5, D5)
  BY <1>7, <1>8, <1>12 DEF D5, t5
<1>14. R(t6, D6)
  BY <1>7, <1>8, <1>13 DEF D6, t6
<1>15. PICK p : Rows(t6, Lock!Field \ {"source"}, p, v)
  BY <1>8, <1>14 DEF R
<1> QED
  BY <1>2, <1>15 DEF v, L

(* A text that begins like the lock, up to the line of the source, offers the *)
(* other fields what was written of them.                                     *)
LEMMA BeginningOffers ==
  ASSUME text \in Seq(Lock!Token), NEW s \in Candidates, Lock!SourceValid(s),
         NEW D \in SUBSET Lock!Field, NEW t, NEW p, Rows(t, D, p, Shows(s)), Len(t) <= Len(text),
         \A k \in 1 .. Len(t) : text[k] = t[k]
  PROVE  \A f \in D : /\ p[f] \in Lock!LineStarts
                      /\ Lock!StoredAt(p[f], f) = {Values(s)[f]}
                      /\ \A g \in Lock!Field \ {f} : Lock!StoredAt(p[f], g) = {}
<1> TAKE f \in D
<1>1. Shows(s)[f] \in Seq(Shown) \ {<<>>} /\ Lock!Parsed(f, Shows(s)[f]) = {Values(s)[f]}
  BY ShownReadsBack
<1>2. LineHere(t, p[f], f, Shows(s)[f]) /\ p[f] > 4 /\ t[p[f] - 1] = "nl" /\ p[f] \in Nat
      /\ t \in Seq(Lock!Token)
  BY DEF Rows
<1>3. Len(Shows(s)[f]) \in Nat /\ Len(t) \in Nat /\ Len(text) \in Nat
      /\ DOMAIN text = 1 .. Len(text)
  BY <1>1, <1>2
<1>4. LineHere(text, p[f], f, Shows(s)[f])
  BY <1>2, <1>3, LineStays
<1>5. \A g : Lock!StoredAt(p[f], g) = IF g = f THEN Lock!Parsed(g, Shows(s)[f]) ELSE {}
  BY <1>1, <1>4, LineOffers
<1>6. p[f] \in 1 .. Len(text) /\ p[f] - 1 \in 1 .. Len(t)
  <2>1. p[f] + 4 + Len(Shows(s)[f]) <= Len(t)
    BY <1>2 DEF LineHere
  <2> QED
    BY <1>2, <1>3, <2>1
<1>7. p[f] \in Lock!LineStarts
  BY <1>2, <1>3, <1>6 DEF Lock!LineStarts
<1> QED
  BY <1>1, <1>5, <1>7

(* What is on disk after a write: the lock of s, the part of it that was      *)
(* written, or all of it with the end of a longer one behind.                 *)
IsWritten(s, how, t) ==
  /\ how \in {"written", "damaged"} => s \in Candidates /\ Lock!SourceValid(s)
  /\ how = "written" => t = Lock!Contents(s)
  /\ how = "damaged" =>
       \/ \E n \in 0 .. Len(Lock!Contents(s)) - 1 :
            \/ t = SubSeq(Lock!Contents(s), 1, n)
            \/ t = SubSeq(Lock!Contents(s), 1, n) \o <<"frag">>
       \/ \E rest \in Seq(Lock!Token) : t = Lock!Contents(s) \o rest
WrittenInv == IsWritten(snapshot, origin, text)

LEMMA WrittenNext ==
  ASSUME NEW s, NEW how, NEW t, snapshot' = s, origin' = how, text' = t, IsWritten(s, how, t)
  PROVE  WrittenInv'
BY DEF WrittenInv

LEMMA WrittenInit == Lock!Init => WrittenInv
BY DEF Lock!Init, WrittenInv, IsWritten

(* Parsing does not touch the file; only a write changes what it is.          *)
LEMMA WrittenStep == LockInv /\ WrittenInv /\ [Lock!Next]_(Lock!vars) => WrittenInv'
<1> SUFFICES ASSUME LockInv, WrittenInv, [Lock!Next]_(Lock!vars) PROVE WrittenInv'
  OBVIOUS
<1>1. ASSUME UNCHANGED <<snapshot, text, origin>>
      PROVE  WrittenInv'
  BY <1>1, WrittenNext DEF WrittenInv
<1>2. ASSUME NEW s \in Candidates, Lock!WriteSourceLock(s)
      PROVE  WrittenInv'
  <2>1. IsWritten(s, "written", Lock!Contents(s))
    BY <1>2 DEF IsWritten, Lock!WriteSourceLock
  <2> QED
    BY <1>2, <2>1, WrittenNext DEF Lock!WriteSourceLock, Lock!Leave
<1>3. ASSUME NEW s \in Candidates, NEW n \in 0 .. Len(Lock!Contents(s)), Lock!CutShort(s, n)
      PROVE  WrittenInv'
  <2> DEFINE c == Lock!Contents(s)
  <2>1. Lock!SourceValid(s) /\ snapshot' = s /\ n < Len(c)
        /\ \/ Lock!Leave(SubSeq(c, 1, n), "damaged")
           \/ Lock!Leave(SubSeq(c, 1, n) \o <<"frag">>, "damaged")
    BY <1>3 DEF Lock!CutShort
  <2>2. n \in 0 .. Len(c) - 1
    <3>1. c \in Seq(Lock!Token)
      BY <2>1, ContentsTyped
    <3> HIDE DEF c
    <3> QED
      BY <2>1, <3>1 DEF c
  <2>3. CASE Lock!Leave(SubSeq(c, 1, n), "damaged")
    <3>1. IsWritten(s, "damaged", SubSeq(c, 1, n))
      BY <2>1, <2>2 DEF IsWritten
    <3> QED
      BY <2>1, <2>3, <3>1, WrittenNext DEF Lock!Leave
  <2>4. CASE Lock!Leave(SubSeq(c, 1, n) \o <<"frag">>, "damaged")
    <3>1. IsWritten(s, "damaged", SubSeq(c, 1, n) \o <<"frag">>)
      BY <2>1, <2>2 DEF IsWritten
    <3> QED
      BY <2>1, <2>4, <3>1, WrittenNext DEF Lock!Leave
  <2> QED
    BY <2>1, <2>3, <2>4
<1>4. ASSUME NEW s \in Candidates, NEW other \in Candidates, Lock!WriteOver(s, other)
      PROVE  WrittenInv'
  <2> DEFINE c == Lock!Contents(s)
             d == Lock!Contents(other)
             rest == SubSeq(d, Len(c) + 1, Len(d))
  <2>1. Lock!SourceValid(s) /\ Lock!SourceValid(other) /\ snapshot' = s /\ Len(c) < Len(d)
        /\ Lock!Leave(c \o rest, "damaged")
    BY <1>4 DEF Lock!WriteOver
  <2>2. rest \in Seq(Lock!Token)
    <3>1. c \in Seq(Lock!Token) /\ d \in Seq(Lock!Token)
      BY <2>1, ContentsTyped
    <3> HIDE DEF c, d
    <3>2. Len(c) + 1 \in Nat \ {0} /\ Len(d) \in Nat /\ Len(c) + 1 <= Len(d) + 1
      BY <2>1, <3>1
    <3> QED
      BY <3>1, <3>2, Part
  <2>3. IsWritten(s, "damaged", c \o rest)
    <3> HIDE DEF rest
    <3> QED
      BY <2>1, <2>2 DEF IsWritten
  <2> QED
    BY <2>1, <2>3, WrittenNext DEF Lock!Leave
<1>5. ASSUME NEW contents, Lock!EditByHand(contents)
      PROVE  WrittenInv'
  <2>1. IsWritten(snapshot, "edited", contents)
    BY DEF IsWritten
  <2> QED
    BY <1>5, <2>1, WrittenNext DEF Lock!EditByHand, Lock!Leave
<1> QED
  BY <1>1, <1>2, <1>3, <1>4, <1>5 DEF Lock!Next, Lock!vars, Lock!SkipLine, Lock!ReadField,
     Lock!RefuseLine, Lock!LinesDone

(* Trimming and splitting add no characters.                                  *)
LEMMA TrimStays ==
  ASSUME NEW S, NEW s \in Seq(S)
  PROVE  Lock!Trim(s) \in Seq(S)
<1> DEFINE kept == {i \in DOMAIN s : s[i] # "sp"}
           n == Len(s)
           back == {n - i : i \in kept}
<1>1. n \in Nat /\ DOMAIN s = 1 .. n /\ kept \in SUBSET (1 .. n)
  OBVIOUS
<1>2. CASE kept = {}
  BY <1>2 DEF Lock!Trim
<1>3. CASE kept # {}
  <2> HIDE DEF kept, n
  <2>1. PICK a \in kept : \A k \in kept : a <= k
    BY <1>1, <1>3, LeastNumber
  <2>2. PICK c \in back : \A k \in back : c <= k
    <3>1. back \in SUBSET Nat /\ back # {}
      BY <1>1, <1>3
    <3> HIDE DEF back
    <3> QED
      BY <3>1, LeastNumber
  <2>3. PICK b \in kept : c = n - b
    BY <2>2
  <2>4. \A k \in kept : k <= b
    <3> TAKE k \in kept
    <3>1. n - k \in back
      OBVIOUS
    <3> HIDE DEF back
    <3>2. n - b <= n - k
      BY <2>2, <2>3, <3>1
    <3> QED
      BY <1>1, <3>2
  <2>5. kept \in SUBSET Int
    BY <1>1
  <2>6. Lock!Min(kept) = a /\ Lock!Max(kept) = b
    BY <2>1, <2>3, <2>4, <2>5, LeastIs, GreatestIs
  <2>7. Lock!Trim(s) = SubSeq(s, a, b)
    BY <1>3, <2>6 DEF Lock!Trim, kept
  <2>8. a \in Nat \ {0} /\ b \in Nat /\ a <= b + 1 /\ b <= Len(s)
    BY <1>1, <2>1, <2>3 DEF n
  <2> QED
    BY <2>7, <2>8, Part
<1> QED
  BY <1>2, <1>3

LEMMA BeforeStays ==
  ASSUME NEW S, NEW s \in Seq(S), NEW c
  PROVE  Lock!Before(s, c) \in Seq(S)
<1> DEFINE stops == {i \in DOMAIN s : s[i] = c}
<1>1. Len(s) \in Nat /\ DOMAIN s = 1 .. Len(s) /\ stops \in SUBSET (1 .. Len(s))
  OBVIOUS
<1>2. CASE stops = {}
  BY <1>2 DEF Lock!Before
<1>3. CASE stops # {}
  <2> HIDE DEF stops
  <2>1. PICK a \in stops : \A k \in stops : a <= k
    BY <1>1, <1>3, LeastNumber
  <2>2. stops \in SUBSET Int
    BY <1>1
  <2>3. Lock!Min(stops) = a
    BY <2>1, <2>2, LeastIs
  <2>4. Lock!Before(s, c) = SubSeq(s, 1, a - 1)
    BY <1>3, <2>3 DEF Lock!Before, stops
  <2>5. 1 \in Nat \ {0} /\ a - 1 \in Nat /\ 1 <= (a - 1) + 1 /\ a - 1 <= Len(s)
    BY <1>1, <2>1
  <2>6. SubSeq(s, 1, a - 1) \in Seq(S)
    BY <2>5, Part
  <2> QED
    BY <2>4, <2>6
<1> QED
  BY <1>2, <1>3

(* A field that is offered stands in the text. *)
LEMMA OfferedStands ==
  ASSUME text \in Seq(Lock!Token), NEW f \in Lock!Field, NEW i \in Lock!LineStarts,
         Lock!StoredAt(i, f) # {}
  PROVE  \E k \in 1 .. Len(text) : text[k] = f
<1> DEFINE S == Lock!Token \ {f}
<1>1. SUFFICES ASSUME \A k \in 1 .. Len(text) : text[k] # f
               PROVE  FALSE
  OBVIOUS
<1>2. text \in Seq(S)
  <2>1. \A k \in 1 .. Len(text) : text[k] \in S
    BY <1>1, ElementOf
  <2>2. Len(text) \in Nat /\ text \in [1 .. Len(text) -> Lock!Token]
    OBVIOUS
  <2> HIDE DEF S
  <2> QED
    BY <2>1, <2>2
<1> HIDE DEF S
<1> DEFINE e == Lock!LineEnd(i)
           raw == SubSeq(text, i, e - 1)
<1>3. Len(text) \in Nat /\ i \in 1 .. Len(text)
  BY DEF Lock!LineStarts
<1>4. e \in i .. Len(text) + 1
  BY <1>3, LineEndExists
<1> HIDE DEF e
<1>5. raw \in Seq(S)
  <2>1. i \in Nat \ {0} /\ e - 1 \in Nat /\ i <= (e - 1) + 1 /\ e - 1 <= Len(text)
    BY <1>3, <1>4
  <2> QED
    BY <1>2, <2>1, Part
<1> HIDE DEF raw
<1>6. Lock!LineAt(i) \in Seq(S)
  <2>1. Lock!Trim(Lock!Before(raw, "#")) \in Seq(S)
    BY <1>5, BeforeStays, TrimStays
  <2> QED
    BY <2>1 DEF Lock!LineAt, raw, e
<1>7. Lock!Name(i) \in Seq(S)
  BY <1>6, BeforeStays, TrimStays DEF Lock!Name
<1>8. Lock!Name(i) = <<f>>
  BY DEF Lock!StoredAt
<1>9. f \in S
  BY <1>7, <1>8
<1> QED
  BY <1>9 DEF S

(* An accepted text on disk begins like the lock, up to the line of the       *)
(* source: a shorter one has no line of the source.                           *)
LEMMA BeginsLikeTheLock ==
  ASSUME Lock!TypeOK, WrittenInv, origin \in {"written", "damaged"}, Lock!EachFieldOnce,
         NEW t, NEW p, Rows(t, Lock!Field \ {"source"}, p, Shows(snapshot)),
         Lock!Contents(snapshot) = t \o Lock!Line("source", Shows(snapshot)["source"])
  PROVE  Len(t) <= Len(text) /\ \A k \in 1 .. Len(t) : text[k] = t[k]
<1> DEFINE s == snapshot
           c == Lock!Contents(s)
           l == Lock!Line("source", Shows(s)["source"])
<1>1. s \in Candidates /\ Lock!SourceValid(s) /\ text \in Seq(Lock!Token)
  BY DEF WrittenInv, IsWritten, Lock!TypeOK
<1>2. t \in Seq(Lock!Token) /\ l \in Seq(Lock!Token) /\ "source" \in Lock!Field
  <2>1. "source" \in Lock!Field
    BY DEF Lock!Field, Lock!StringField
  <2>2. Shows(s)["source"] \in Seq(Shown) \ {<<>>}
    BY <1>1, <2>1, ShownReadsBack
  <2> QED
    BY <2>1, <2>2, LineIs DEF Rows
<1>3. c = t \o l
  OBVIOUS
<1>4. \/ text = c
      \/ \E n \in 0 .. Len(c) - 1 : text = SubSeq(c, 1, n) \/ text = SubSeq(c, 1, n) \o <<"frag">>
      \/ \E rest \in Seq(Lock!Token) : text = c \o rest
  BY DEF WrittenInv, IsWritten
<1> HIDE DEF c, l, s
<1>5. /\ c \in Seq(Lock!Token) /\ Len(c) = Len(t) + Len(l)
      /\ \A k \in 1 .. Len(t) : c[k] = t[k]
  BY <1>2, <1>3, Joined, SMTT(30)
<1>6. Len(t) \in Nat /\ Len(l) \in Nat /\ Len(c) \in Nat
  BY <1>2, <1>5
<1>7. CASE text = c
  BY <1>5, <1>6, <1>7
<1>8. ASSUME NEW rest \in Seq(Lock!Token), text = c \o rest
      PROVE  Len(t) <= Len(text) /\ \A k \in 1 .. Len(t) : text[k] = t[k]
  <2>1. /\ Len(text) = Len(c) + Len(rest) /\ \A k \in 1 .. Len(c) : text[k] = c[k]
    <3>1. c \in Seq(Lock!Token) /\ rest \in Seq(Lock!Token)
      BY <1>5
    <3> QED
      BY <1>8, <3>1, Joined, SMTT(30)
  <2>2. Len(rest) \in Nat
    OBVIOUS
  <2> QED
    BY <1>5, <1>6, <2>1, <2>2
<1>9. ASSUME NEW n \in 0 .. Len(c) - 1,
             text = SubSeq(c, 1, n) \/ text = SubSeq(c, 1, n) \o <<"frag">>
      PROVE  Len(t) <= Len(text) /\ \A k \in 1 .. Len(t) : text[k] = t[k]
  <2> DEFINE part == SubSeq(c, 1, n)
  <2>1. part \in Seq(Lock!Token) /\ Len(part) = n /\ \A k \in 1 .. n : part[k] = c[k]
    BY <1>5, <1>6
  <2> HIDE DEF part
  <2>2. n \in Nat /\ Len(text) \in {n, n + 1} /\ (\A k \in 1 .. n : text[k] = c[k])
        /\ (Len(text) = n + 1 => text[n + 1] = "frag")
    <3>1. n \in Nat
      BY <1>6
    <3>2. CASE text = part
      BY <2>1, <3>1, <3>2
    <3>3. CASE text = part \o <<"frag">>
      <4>1. <<"frag">> \in Seq(Lock!Token) /\ Len(<<"frag">>) = 1
        BY DEF Lock!Token
      <4> DEFINE z == <<"frag">>
      <4>2. z \in Seq(Lock!Token) /\ Len(z) = 1 /\ z[1] = "frag" /\ text = part \o z
        BY <3>3, <4>1
      <4> HIDE DEF z
      <4>3. /\ Len(text) = Len(part) + Len(z) /\ (\A k \in 1 .. Len(part) : text[k] = part[k])
            /\ \A k \in 1 .. Len(z) : text[Len(part) + k] = z[k]
        <5>1. part \in Seq(Lock!Token) /\ z \in Seq(Lock!Token)
          BY <2>1, <4>2
        <5>2. text = part \o z
          BY <4>2
        <5> QED
          BY <5>1, <5>2, Joined, SMTT(30)
      <4>4. text[n + 1] = "frag"
        BY <2>1, <4>2, <4>3
      <4> QED
        BY <2>1, <3>1, <4>2, <4>3, <4>4
    <3> QED
      BY <1>9, <3>1, <3>2, <3>3 DEF part
  <2>3. CASE n >= Len(t)
    BY <1>5, <1>6, <2>2, <2>3
  <2>4. CASE n < Len(t)
    <3>1. PICK i \in Lock!LineStarts : Lock!StoredAt(i, "source") # {}
      BY <1>2 DEF Lock!EachFieldOnce
    <3>2. PICK k \in 1 .. Len(text) : text[k] = "source"
      BY <1>1, <1>2, <3>1, OfferedStands
    <3>3. k \in 1 .. n
      BY <2>2, <3>2
    <3>4. k \in 1 .. Len(t) /\ t[k] = "source"
      BY <1>5, <1>6, <2>2, <2>4, <3>2, <3>3
    <3> QED
      BY <1>2, <3>4 DEF Rows
  <2> QED
    BY <1>6, <2>2, <2>3, <2>4
<1> QED
  BY <1>4, <1>7, <1>8, <1>9

(* So the lines before the source are whole, and name what was written.       *)
LEMMA AcceptedNames ==
  ASSUME LockInv, WrittenInv, origin \in {"written", "damaged"}, lock_phase = "accepted"
  PROVE  Lock!Names(snapshot)
<1>1. /\ Lock!TypeOK /\ Lock!EachFieldOnce /\ slot = Lock!Offered /\ text \in Seq(Lock!Token)
      /\ snapshot \in Candidates /\ Lock!SourceValid(snapshot)
  BY DEF LockInv, Lock!AcceptedIffEachFieldOnce, WrittenInv, IsWritten, Lock!TypeOK
<1>2. PICK t, p : /\ Rows(t, Lock!Field \ {"source"}, p, Shows(snapshot))
                  /\ Lock!Contents(snapshot) = t \o Lock!Line("source", Shows(snapshot)["source"])
  BY <1>1, WrittenRows
<1>3. Len(t) <= Len(text) /\ \A k \in 1 .. Len(t) : text[k] = t[k]
  BY <1>1, <1>2, BeginsLikeTheLock
<1>4. ASSUME NEW f \in Lock!Field \ {"source"}
      PROVE  slot[f] = {snapshot[f]}
  <2>1. p[f] \in Lock!LineStarts /\ Lock!StoredAt(p[f], f) = {Values(snapshot)[f]}
    <3> DEFINE D == Lock!Field \ {"source"}
    <3>1. D \in SUBSET Lock!Field /\ f \in D /\ Rows(t, D, p, Shows(snapshot))
      BY <1>2
    <3> HIDE DEF D
    <3>2. \A g \in D : /\ p[g] \in Lock!LineStarts
                       /\ Lock!StoredAt(p[g], g) = {Values(snapshot)[g]}
                       /\ \A h \in Lock!Field \ {g} : Lock!StoredAt(p[g], h) = {}
      BY <1>1, <1>3, <3>1, BeginningOffers
    <3> QED
      BY <3>1, <3>2
  <2>2. \A k \in Lock!LineStarts : Lock!StoredAt(k, f) # {} => k = p[f]
    BY <1>1, <2>1 DEF Lock!EachFieldOnce
  <2>3. UNION {Lock!StoredAt(i, f) : i \in Lock!LineStarts} = Lock!StoredAt(p[f], f)
    BY <2>1, <2>2
  <2>4. slot[f] = {Values(snapshot)[f]}
    BY <1>1, <2>1, <2>3 DEF Lock!Offered
  <2> QED
    BY <2>4 DEF Values
<1> QED
  BY <1>4 DEF Lock!Names

(* The lock itself is accepted. *)
LEMMA LockAcceptable ==
  ASSUME text \in Seq(Lock!Token), NEW s \in Candidates, Lock!SourceValid(s),
         text = Lock!Contents(s)
  PROVE  Lock!EachFieldOnce /\ Lock!Complete(Lock!Offered)
<1>1. PICK t, q : /\ Rows(t, Lock!Field \ {"source"}, q, Shows(s))
                  /\ Lock!Contents(s) = t \o Lock!Line("source", Shows(s)["source"])
  BY WrittenRows
<1>2. "source" \in Lock!Field
  BY DEF Lock!Field, Lock!StringField
<1> DEFINE p == [q EXCEPT !["source"] = Len(t) + 1]
<1>3. Rows(text, Lock!Field, p, Shows(s))
  <2>1. Rows(t \o Lock!Line("source", Shows(s)["source"]),
             (Lock!Field \ {"source"}) \cup {"source"}, p, Shows(s))
    BY <1>1, <1>2, OneMoreLine, ShownReadsBack
  <2>2. (Lock!Field \ {"source"}) \cup {"source"} = Lock!Field
    BY <1>2
  <2> HIDE DEF p
  <2> QED
    BY <1>1, <2>1, <2>2
<1> HIDE DEF p
<1>4. Len(text) \in Nat /\ DOMAIN text = 1 .. Len(text)
  OBVIOUS
<1>5. \A f \in Lock!Field : /\ p[f] \in Lock!LineStarts
                            /\ Lock!StoredAt(p[f], f) = {Values(s)[f]}
                            /\ \A g \in Lock!Field \ {f} : Lock!StoredAt(p[f], g) = {}
  <2>1. /\ Lock!Field \in SUBSET Lock!Field /\ Len(text) <= Len(text)
        /\ \A k \in 1 .. Len(text) : text[k] = text[k]
    BY <1>4
  <2> QED
    BY <1>3, <2>1, BeginningOffers
<1>6. \A i \in Lock!LineStarts : i = 1 \/ \E f \in Lock!Field : p[f] = i
  <2> TAKE i \in Lock!LineStarts
  <2>1. i \in 1 .. Len(text) /\ (i = 1 \/ text[i - 1] = "nl")
    BY <1>4 DEF Lock!LineStarts
  <2>2. SUFFICES ASSUME i # 1 PROVE \E f \in Lock!Field : p[f] = i
    OBVIOUS
  <2>3. i - 1 \in 1 .. Len(text) - 1 /\ text[i - 1] = "nl" /\ (i - 1) + 1 = i
    BY <1>4, <2>1, <2>2
  <2>4. ~(i - 1 < 4)
    <3> SUFFICES ASSUME i - 1 < 4 PROVE FALSE
      OBVIOUS
    <3>1. i - 1 = 1 \/ i - 1 = 2 \/ i - 1 = 3
      BY <2>1, <2>3
    <3> QED
      BY <1>3, <2>3, <3>1 DEF Rows
  <2> QED
    BY <1>3, <2>3, <2>4 DEF Rows
<1>7. 1 \in Lock!LineStarts /\ Lock!Blank(1)
  <2>1. Len(text) >= 4 /\ text[1] = "#" /\ text[2] # "nl" /\ text[3] # "nl" /\ text[4] = "nl"
    BY <1>3 DEF Rows
  <2>2. 1 \in 1 .. Len(text)
    BY <1>4, <2>1
  <2>3. /\ Lock!LineEnd(1) \in 1 .. Len(text) + 1
        /\ Lock!LineEnd(1) = Len(text) + 1 \/ text[Lock!LineEnd(1)] = "nl"
        /\ \A k \in 1 .. Lock!LineEnd(1) - 1 : text[k] # "nl"
    BY <2>2, LineEndExists
  <2>4. Lock!LineEnd(1) = 4
    <3> DEFINE e == Lock!LineEnd(1)
    <3> HIDE DEF e
    <3>1. e \in Nat /\ e >= 1 /\ (e = Len(text) + 1 \/ text[e] = "nl")
          /\ \A k \in 1 .. e - 1 : text[k] # "nl"
      BY <1>4, <2>3 DEF e
    <3>2. e # 1 /\ e # 2 /\ e # 3
      BY <1>4, <2>1, <3>1
    <3>3. ~(e > 4)
      <4> SUFFICES ASSUME e > 4 PROVE FALSE
        OBVIOUS
      <4>1. 4 \in 1 .. e - 1
        BY <3>1
      <4> QED
        BY <2>1, <3>1, <4>1
    <3>4. e = 4
      BY <3>1, <3>2, <3>3
    <3> QED
      BY <3>4 DEF e
  <2> DEFINE raw == SubSeq(text, 1, 3)
  <2>5. raw \in Seq(Lock!Token) /\ Len(raw) = 3 /\ raw[1] = "#"
    <3>1. raw \in Seq(Lock!Token) /\ Len(raw) = 3 - 1 + 1
          /\ \A k \in 1 .. 3 - 1 + 1 : raw[k] = text[1 + k - 1]
      BY <1>4, <2>1, Part
    <3> QED
      BY <2>1, <3>1
  <2> HIDE DEF raw
  <2>6. Lock!Before(raw, "#") = SubSeq(raw, 1, 0)
    <3> DEFINE zero == 0
               one == 1
    <3>1. zero \in Nat /\ one \in 1 .. Len(raw) /\ one = zero + 1 /\ raw[one] = "#"
          /\ \A k \in 1 .. zero : raw[k] # "#"
      BY <2>5
    <3> HIDE DEF zero, one
    <3>2. Lock!Before(raw, "#") = SubSeq(raw, 1, zero)
      BY <2>5, <3>1, BeforeIs
    <3> QED
      BY <3>2 DEF zero
  <2>7. SubSeq(raw, 1, 0) = <<>>
    BY <2>5
  <2>8. Lock!Trim(<<>>) = <<>>
    BY DEF Lock!Trim
  <2>9. 4 - 1 = 3
    OBVIOUS
  <2>10. Lock!LineAt(1) = <<>>
    BY <2>4, <2>6, <2>7, <2>8, <2>9 DEF Lock!LineAt, raw
  <2> QED
    BY <1>4, <2>2, <2>10 DEF Lock!Blank, Lock!LineStarts
<1>8. \A f \in Lock!Field : Lock!StoredAt(1, f) = {}
  BY <1>7, BlankOffersNothing
<1>9. \A f \in Lock!Field, k \in Lock!LineStarts : Lock!StoredAt(k, f) # {} <=> k = p[f]
  <2> TAKE f \in Lock!Field, k \in Lock!LineStarts
  <2>1. CASE k = 1
    BY <1>5, <1>8, <2>1
  <2>2. CASE \E g \in Lock!Field : p[g] = k
    <3>1. PICK g \in Lock!Field : p[g] = k
      BY <2>2
    <3>2. CASE g = f
      BY <1>5, <3>1, <3>2
    <3>3. CASE g # f
      <4>1. Lock!StoredAt(k, f) = {}
        BY <1>5, <3>1, <3>3
      <4> QED
        BY <1>5, <4>1
    <3> QED
      BY <3>2, <3>3
  <2> QED
    BY <1>6, <2>1, <2>2
<1>10. Lock!EachFieldOnce
  <2>1. \A i \in Lock!LineStarts : Lock!Blank(i) \/ \E f \in Lock!Field : Lock!StoredAt(i, f) # {}
    BY <1>6, <1>7, <1>9
  <2>2. \A f \in Lock!Field :
          \E i \in Lock!LineStarts : \A k \in Lock!LineStarts : Lock!StoredAt(k, f) # {} <=> k = i
    <3> TAKE f \in Lock!Field
    <3>1. p[f] \in Lock!LineStarts
      BY <1>5
    <3>2. \A k \in Lock!LineStarts : Lock!StoredAt(k, f) # {} <=> k = p[f]
      BY <1>9
    <3> QED
      BY <3>1, <3>2
  <2> QED
    BY <2>1, <2>2 DEF Lock!EachFieldOnce
<1>11. \A f \in Lock!Field : Lock!Offered[f] = {Values(s)[f]}
  <2> TAKE f \in Lock!Field
  <2>1. UNION {Lock!StoredAt(i, f) : i \in Lock!LineStarts} = Lock!StoredAt(p[f], f)
    BY <1>5, <1>9
  <2> QED
    BY <1>5, <2>1 DEF Lock!Offered
<1>12. Lock!Complete(Lock!Offered)
  <2> DEFINE r == [f \in Lock!Field |-> CHOOSE v \in Lock!Offered[f] : TRUE]
  <2>1. \A f \in Lock!Field : r[f] = Values(s)[f]
    BY <1>11
  <2> HIDE DEF r
  <2>2. /\ r["component_id"] = s["component_id"]
        /\ r["component_version"] = s["component_version"]
        /\ r["browser_version"] = s["browser_version"]
    BY <2>1 DEF Values, Lock!Field, Lock!StringField
  <2>3. Lock!SourceValid(r)
    BY <2>2 DEF Lock!SourceValid
  <2>4. Lock!Offered["source"] = {PinnedUrl}
    BY <1>2, <1>11 DEF Values
  <2> QED
    BY <1>11, <2>3, <2>4 DEF Lock!Complete, r
<1> QED
  BY <1>10, <1>12

(* What update writes, parse_source_lock reads back as the same provenance    *)
(* and version, for provenance and versions of any length; a lock that was    *)
(* cut short or lies over a longer one is refused, or nothing of it is        *)
(* missing (write_source_lock, parse_source_lock).                            *)
THEOREM LockReadsBack == FilesSpec => []ReadsWhatWasWritten
<1>1. FilesSpec => []WrittenInv
  BY LockProjection, LockInit, LockStep, WrittenInit, WrittenStep, PTL DEF Lock!Spec
<1>2. LockInv /\ WrittenInv => ReadsWhatWasWritten
  <2> SUFFICES ASSUME LockInv, WrittenInv PROVE Lock!ReadsWhatWasWritten
    BY DEF ReadsWhatWasWritten
  <2>1. origin = "written" => lock_phase # "refused"
    <3> SUFFICES ASSUME origin = "written", lock_phase = "refused" PROVE FALSE
      OBVIOUS
    <3>1. /\ text \in Seq(Lock!Token) /\ snapshot \in Candidates /\ Lock!SourceValid(snapshot)
          /\ text = Lock!Contents(snapshot)
      BY DEF LockInv, Lock!TypeOK, WrittenInv, IsWritten
    <3>2. Lock!EachFieldOnce /\ Lock!Complete(Lock!Offered)
      BY <3>1, LockAcceptable
    <3> QED
      BY <3>2 DEF LockInv, Lock!AcceptedIffEachFieldOnce
  <2>2. origin \in {"written", "damaged"} /\ lock_phase = "accepted" => Lock!Names(snapshot)
    BY AcceptedNames
  <2> QED
    BY <2>1, <2>2 DEF Lock!ReadsWhatWasWritten
<1> QED
  BY <1>1, <1>2, LockAlways, PTL

-----------------------------------------------------------------------------
(* What a message means: its fields *)

Item == [tag : Nat, at : Here, from : Here, end : Here]
ItemOver(i, b, p) ==
  [tag |-> Value(i, b - i) \div 8, at |-> b, from |-> p,
   end |-> IF Value(i, b - i) % 8 = 0 THEN p ELSE p + Value(b, p - b)]

LEMMA FieldsAtIs ==
  ASSUME NEW i, NEW j, NEW x
  PROVE  x \in FieldsAt(i, j)
           <=> \E b, p \in i + 1 .. j : /\ IsVarint(i, b) /\ IsVarint(b, p)
                                        /\ x = ItemOver(i, b, p) /\ x.end <= j
<1> DEFINE Both == {v \in (i + 1 .. j) \X (i + 1 .. j) : IsVarint(i, v[1]) /\ IsVarint(v[1], v[2])}
<1>1. FieldsAt(i, j) = {y \in {ItemOver(i, v[1], v[2]) : v \in Both} : y.end <= j}
  BY DEF FieldsAt, ItemOver
<1> HIDE DEF Both
<1>2. ASSUME NEW b \in i + 1 .. j, NEW p \in i + 1 .. j, IsVarint(i, b), IsVarint(b, p)
      PROVE  <<b, p>> \in Both
  BY <1>2 DEF Both
<1>3. ASSUME NEW v \in Both
      PROVE  /\ v[1] \in i + 1 .. j /\ v[2] \in i + 1 .. j
             /\ IsVarint(i, v[1]) /\ IsVarint(v[1], v[2])
  BY <1>3 DEF Both
<1>4. \A b, p : <<b, p>>[1] = b /\ <<b, p>>[2] = p
  OBVIOUS
<1>5. ASSUME x \in FieldsAt(i, j)
      PROVE  \E b, p \in i + 1 .. j : /\ IsVarint(i, b) /\ IsVarint(b, p)
                                      /\ x = ItemOver(i, b, p) /\ x.end <= j
  BY <1>1, <1>3, <1>5
<1>6. ASSUME NEW b \in i + 1 .. j, NEW p \in i + 1 .. j, IsVarint(i, b), IsVarint(b, p),
             x = ItemOver(i, b, p), x.end <= j
      PROVE  x \in FieldsAt(i, j)
  <2>1. x \in {ItemOver(i, v[1], v[2]) : v \in Both}
    BY <1>2, <1>4, <1>6
  <2> QED
    BY <1>1, <1>6, <2>1
<1> QED
  BY <1>5, <1>6

(* The value of what the grammar calls a varint is a number. *)
LEMMA VarintNumber ==
  ASSUME input \in Seq(0 .. 2 * Base - 1), NEW i \in Nat \ {0}, NEW b \in Int,
         b <= Len(input) + 1, IsVarint(i, b)
  PROVE  Value(i, b - i) \in Nat /\ b - i \in 1 .. VarintBytes /\ b - i \in VarintLengths(i, b)
<1> DEFINE n == b - i
<1>1. n \in Int /\ i + n = b /\ n \in 1 .. VarintBytes
  BY DEF IsVarint
<1> HIDE DEF n
<1>2. n \in VarintLengths(i, i + n)
  BY <1>1, VarintsAgree
<1>3. b \in Nat
  BY <1>1, WireAssumption
<1> QED
  BY <1>1, <1>2, <1>3, OneVarint DEF n

LEMMA FieldsAtTyped ==
  ASSUME input \in Seq(0 .. 2 * Base - 1), NEW i \in Nat \ {0}, NEW j \in Nat,
         j <= Len(input) + 1, NEW x \in FieldsAt(i, j)
  PROVE  x \in Item /\ x.end \in i + 1 .. j /\ x.from \in i + 1 .. j
<1>1. PICK b, p \in i + 1 .. j : /\ IsVarint(i, b) /\ IsVarint(b, p)
                                 /\ x = ItemOver(i, b, p) /\ x.end <= j
  BY FieldsAtIs
<1>2. b \in Nat \ {0} /\ p \in Nat \ {0} /\ b <= Len(input) + 1 /\ p <= Len(input) + 1
  BY <1>1
<1>3. Value(i, b - i) \in Nat /\ Value(b, p - b) \in Nat
  BY <1>1, <1>2, VarintNumber
<1> DEFINE v == Value(i, b - i)
           w == Value(b, p - b)
           e == IF v % 8 = 0 THEN p ELSE p + w
<1>4. x = [tag |-> v \div 8, at |-> b, from |-> p, end |-> e]
  BY <1>1 DEF ItemOver
<1> HIDE DEF v, w
<1>5. v \div 8 \in Nat /\ e \in Nat /\ e >= p
  BY <1>2, <1>3 DEF v, w
<1> HIDE DEF e
<1>6. x.end = e /\ x.from = p
  BY <1>4
<1>7. b \in Here /\ p \in Here /\ e \in Here
  BY <1>1, <1>2, <1>5, <1>6 DEF Here
<1>8. x \in Item
  BY <1>4, <1>5, <1>7 DEF Item
<1> QED
  BY <1>1, <1>2, <1>5, <1>6, <1>8

FirstOf(i, j) == CHOOSE x \in FieldsAt(i, j) : TRUE
OccursBy(f, tags, i, j) ==
  IF FieldsAt(i, j) = {} THEN <<>>
  ELSE (IF FirstOf(i, j).tag \in tags THEN <<FirstOf(i, j)>> ELSE <<>>) \o f[FirstOf(i, j).end]
FoundBy(f, tags, j) == [i \in Here |-> OccursBy(f, tags, i, j)]
Found(tags, j) == CHOOSE f : f = FoundBy(f, tags, j)

LEMMA FirstTyped ==
  ASSUME input \in Seq(0 .. 2 * Base - 1), NEW j \in Here, NEW i \in Here, FieldsAt(i, j) # {}
  PROVE  /\ FirstOf(i, j) \in FieldsAt(i, j) /\ FirstOf(i, j) \in Item
         /\ FirstOf(i, j).end \in Here /\ FirstOf(i, j).end > i
<1>1. FirstOf(i, j) \in FieldsAt(i, j)
  BY DEF FirstOf
<1>2. i \in Nat \ {0} /\ j \in Nat /\ j <= Len(input) + 1 /\ Len(input) \in Nat
  BY DEF Here
<1>3. FirstOf(i, j) \in Item /\ FirstOf(i, j).end \in i + 1 .. j
  BY <1>1, <1>2, FieldsAtTyped
<1> QED
  BY <1>1, <1>2, <1>3 DEF Here

FoundWithin(S, tags, j) == \A f \in S : FoundBy(f, tags, j) \in S
Iterates(f, n, S, none, tags, j) ==
  f[0] = none /\ \A k \in 1 .. n : f[k] = FoundBy(f[k - 1], tags, j) /\ f[k] \in S

LEMMA FoundIterates ==
  \A tags, j, S, n, none : n \in Nat /\ none \in S /\ FoundWithin(S, tags, j)
                           => \E f : Iterates(f, n, S, none, tags, j)
<1>1. ASSUME NEW tags, NEW j, NEW S, NEW n \in Nat, NEW none \in S,
             \A f \in S : FoundBy(f, tags, j) \in S
      PROVE  \E f : Iterates(f, n, S, none, tags, j)
  <2> DEFINE step == [k \in 1 .. n |-> [f \in S |-> FoundBy(f, tags, j)]]
  <2>1. /\ step \in [1 .. n -> [S -> S]]
        /\ \A k \in 1 .. n, f \in S : step[k][f] = FoundBy(f, tags, j)
    BY <1>1
  <2> HIDE DEF step
  <2>2. PICK f \in [0 .. n -> S] : f[0] = none /\ \A k \in 1 .. n : f[k] = step[k][f[k - 1]]
    BY <2>1, StepsExist
  <2>3. ASSUME NEW k \in 1 .. n
        PROVE  f[k] = FoundBy(f[k - 1], tags, j) /\ f[k] \in S
    <3>1. k - 1 \in 0 .. n /\ k \in 0 .. n
      OBVIOUS
    <3> QED
      BY <2>1, <2>2, <3>1
  <2> QED
    BY <2>2, <2>3 DEF Iterates
<1> QED
  BY <1>1 DEF FoundWithin

(* The recursive definition has a solution: its iterates agree on ever longer *)
(* ends of the input.                                                         *)
LEMMA FoundExists ==
  ASSUME Len(input) \in Nat, NEW j, NEW tags,
         \A i \in Here : FieldsAt(i, j) # {} =>
           FirstOf(i, j) \in Item /\ FirstOf(i, j).end \in Here /\ FirstOf(i, j).end > i
  PROVE  \E f \in [Here -> Seq(Item)] : f = FoundBy(f, tags, j)
<1> DEFINE n == Len(input) + 1
           S == [Here -> Seq(Item)]
           none == [i \in Here |-> <<>>]
           Same(f, g, m) == \A i \in Here : n - i < m => f[i] = g[i]
<1>1. n \in Nat /\ n # 0 /\ Len(input) \in Nat /\ none \in S
  OBVIOUS
<1>2. ASSUME NEW f \in S
      PROVE  FoundBy(f, tags, j) \in S
  <2> SUFFICES ASSUME NEW i \in Here PROVE OccursBy(f, tags, i, j) \in Seq(Item)
    BY DEF FoundBy
  <2>1. CASE FieldsAt(i, j) = {}
    BY <2>1 DEF OccursBy
  <2>2. CASE FieldsAt(i, j) # {}
    <3> DEFINE x == FirstOf(i, j)
               head == IF x.tag \in tags THEN <<x>> ELSE <<>>
    <3>1. x \in Item /\ x.end \in Here
      BY <2>2
    <3>2. head \in Seq(Item) /\ f[x.end] \in Seq(Item)
      BY <3>1
    <3>3. OccursBy(f, tags, i, j) = head \o f[x.end]
      BY <2>2 DEF OccursBy
    <3> HIDE DEF head, x
    <3> QED
      BY <3>2, <3>3
  <2> QED
    BY <2>1, <2>2
<1>5. ASSUME NEW f, NEW g, NEW m \in Nat, Same(f, g, m)
      PROVE  Same(FoundBy(f, tags, j), FoundBy(g, tags, j), m + 1)
  <2> SUFFICES ASSUME NEW i \in Here, n - i < m + 1
               PROVE  FoundBy(f, tags, j)[i] = FoundBy(g, tags, j)[i]
    OBVIOUS
  <2>1. OccursBy(f, tags, i, j) = OccursBy(g, tags, i, j)
    <3>1. CASE FieldsAt(i, j) = {}
      BY <3>1 DEF OccursBy
    <3>2. CASE FieldsAt(i, j) # {}
      <4>1. FirstOf(i, j).end \in Here /\ FirstOf(i, j).end > i
        BY <3>2
      <4>2. n - FirstOf(i, j).end < m
        BY <4>1 DEF Here
      <4>3. f[FirstOf(i, j).end] = g[FirstOf(i, j).end]
        BY <1>5, <4>1, <4>2
      <4> QED
        BY <4>3 DEF OccursBy
    <3> QED
      BY <3>1, <3>2
  <2> QED
    BY <2>1 DEF FoundBy
<1> HIDE DEF S, none, n
<1>6. PICK f : Iterates(f, n, S, none, tags, j)
  <2>1. FoundWithin(S, tags, j)
    BY <1>2 DEF FoundWithin
  <2> QED
    BY <1>1, <2>1, FoundIterates
<1>7. ASSUME NEW k \in 1 .. n
      PROVE  f[k] = FoundBy(f[k - 1], tags, j) /\ f[k] \in S
  BY <1>6 DEF Iterates
<1> DEFINE P == {k \in 0 .. n - 1 : Same(f[k], f[k + 1], k)}
<1>8. 0 \in P
  <2>1. \A i \in Here : ~(n - i < 0)
    BY DEF Here, n
  <2>2. Same(f[0], f[0 + 1], 0)
    BY <2>1
  <2> HIDE DEF Same
  <2> QED
    BY <1>1, <2>2
<1>9. ASSUME NEW k \in 1 .. n - 1, k - 1 \in P
      PROVE  k \in P
  <2> DEFINE l == k - 1
  <2>1. k \in 1 .. n /\ k + 1 \in 1 .. n /\ (k + 1) - 1 = k /\ l + 1 = k
        /\ k \in 0 .. n - 1 /\ l \in Nat /\ l \in P
    BY <1>1, <1>9
  <2> HIDE DEF Same, l
  <2>2. Same(f[l], f[k], l)
    BY <2>1
  <2>3. f[k] = FoundBy(f[l], tags, j) /\ f[k + 1] = FoundBy(f[k], tags, j)
    BY <1>7, <2>1 DEF l
  <2>4. Same(f[k], f[k + 1], l + 1)
    BY <1>5, <2>1, <2>2, <2>3
  <2> QED
    BY <2>1, <2>4
<1>10. \A k \in 0 .. n - 1 : k \in P
  <2> DEFINE m == n - 1
  <2>1. m \in Nat /\ 0 \in P /\ \A k \in 1 .. m : k - 1 \in P => k \in P
    BY <1>1, <1>8, <1>9
  <2>2. \A k \in 0 .. m : k \in P
    <3> HIDE DEF P, m
    <3> QED
      BY <2>1, UpTo
  <2> QED
    BY <2>2
<1> DEFINE m == n - 1
           g == f[n]
<1>11. m \in Nat /\ m \in P /\ m + 1 = n /\ n \in 1 .. n /\ n - 1 = m
  BY <1>1, <1>10
<1>12. Same(f[m], g, m)
  <2> HIDE DEF Same
  <2> QED
    BY <1>11
<1>13. g = FoundBy(f[m], tags, j) /\ g \in S
  BY <1>7, <1>11
<1> HIDE DEF m, g
<1>14. Same(g, FoundBy(g, tags, j), m + 1)
  <2> HIDE DEF Same
  <2> QED
    BY <1>5, <1>11, <1>12, <1>13
<1>15. \A i \in Here : n - i < m + 1
  BY <1>11 DEF Here, n
<1>16. g = FoundBy(g, tags, j)
  <2>1. FoundBy(g, tags, j) \in S
    BY <1>2, <1>13
  <2>2. \A i \in Here : g[i] = FoundBy(g, tags, j)[i]
    BY <1>14, <1>15
  <2> QED
    BY <1>13, <2>1, <2>2 DEF S
<1> QED
  BY <1>13, <1>16 DEF S

(* The only one: it is a sequence of fields everywhere. *)
LEMMA FoundTyped ==
  ASSUME input \in Seq(0 .. 2 * Base - 1), NEW j \in Here, NEW tags, NEW f, f = FoundBy(f, tags, j)
  PROVE  \A i \in Here : f[i] = OccursBy(f, tags, i, j) /\ f[i] \in Seq(Item)
<1> DEFINE n == Len(input) + 1
           P == {k \in 0 .. n : \A i \in Here : n - i < k => f[i] \in Seq(Item)}
<1>1. n \in Nat \ {0} /\ Here = 1 .. n
  BY DEF Here
<1>2. \A i \in Here : f[i] = OccursBy(f, tags, i, j)
  BY DEF FoundBy
<1>3. 0 \in P
  BY <1>1
<1> HIDE DEF n
<1>4. ASSUME NEW k \in 1 .. n, k - 1 \in P
      PROVE  k \in P
  <2>1. ASSUME NEW i \in Here, n - i < k
        PROVE  f[i] \in Seq(Item)
    <3>1. CASE FieldsAt(i, j) = {}
      <4>1. f[i] = <<>>
        BY <1>2, <3>1 DEF OccursBy
      <4> QED
        BY <4>1
    <3>2. CASE FieldsAt(i, j) # {}
      <4> DEFINE x == FirstOf(i, j)
                 head == IF x.tag \in tags THEN <<x>> ELSE <<>>
      <4>1. x \in Item /\ x.end \in Here /\ x.end > i
        BY <3>2, FirstTyped
      <4>2. f[i] = head \o f[x.end]
        BY <1>2, <3>2 DEF OccursBy
      <4>3. head \in Seq(Item)
        BY <4>1
      <4> HIDE DEF head, x
      <4>4. n - x.end < k - 1
        BY <1>1, <2>1, <4>1
      <4>5. f[x.end] \in Seq(Item)
        BY <1>4, <4>1, <4>4
      <4> QED
        BY <4>2, <4>3, <4>5
    <3> QED
      BY <3>1, <3>2
  <2> QED
    BY <1>1, <2>1
<1>5. \A k \in 0 .. n : k \in P
  <2> HIDE DEF P
  <2> QED
    BY <1>1, <1>3, <1>4, UpTo
<1>6. n \in P
  <2> HIDE DEF P
  <2> QED
    BY <1>1, <1>5
<1>7. \A i \in Here : n - i < n
  BY <1>1
<1> QED
  BY <1>2, <1>6, <1>7

(* One field after the other. *)
LEMMA OccurrencesStep ==
  ASSUME input \in Seq(0 .. 2 * Base - 1), NEW tags, NEW j \in Here, NEW i \in Here
  PROVE  /\ Occurrences(tags, i, j) \in Seq(Item)
         /\ FieldsAt(i, j) = {} => Occurrences(tags, i, j) = <<>>
         /\ FieldsAt(i, j) # {} =>
              Occurrences(tags, i, j) =
                (IF FirstOf(i, j).tag \in tags THEN <<FirstOf(i, j)>> ELSE <<>>)
                  \o Occurrences(tags, FirstOf(i, j).end, j)
<1>1. \A h : Occurrences(tags, h, j) = Found(tags, j)[h]
  BY DEF Occurrences, Found, FoundBy, OccursBy, FirstOf, Here
<1> DEFINE f == Found(tags, j)
<1>2. f = FoundBy(f, tags, j)
  <2>1. \E h : h = FoundBy(h, tags, j)
    <3>1. Len(input) \in Nat
      OBVIOUS
    <3>2. \A h \in Here : FieldsAt(h, j) # {} =>
            FirstOf(h, j) \in Item /\ FirstOf(h, j).end \in Here /\ FirstOf(h, j).end > h
      BY FirstTyped
    <3> QED
      BY <3>1, <3>2, FoundExists
  <2> QED
    BY <2>1 DEF Found
<1> HIDE DEF f
<1>3. \A h \in Here : f[h] = OccursBy(f, tags, h, j) /\ f[h] \in Seq(Item)
  BY <1>2, FoundTyped
<1>4. \A h : Occurrences(tags, h, j) = f[h]
  BY <1>1 DEF f
<1>5. FieldsAt(i, j) = {} => f[i] = <<>>
  BY <1>3 DEF OccursBy
<1>6. FieldsAt(i, j) # {} =>
        f[i] = (IF FirstOf(i, j).tag \in tags THEN <<FirstOf(i, j)>> ELSE <<>>)
                 \o f[FirstOf(i, j).end]
  BY <1>3 DEF OccursBy
<1> DEFINE x == FirstOf(i, j)
<1>7. /\ Occurrences(tags, i, j) = f[i] /\ Occurrences(tags, x.end, j) = f[x.end]
      /\ f[i] \in Seq(Item)
  BY <1>3, <1>4
<1> QED
  BY <1>5, <1>6, <1>7

(* Where the guard reads a field, it is the only one.                         *)
ItemRead(c, k, field, n) ==
  [tag |-> Value(c.pos, k) \div 8, at |-> c.pos + k, from |-> c.pos + k + n,
   end |-> EndOf(c, k, field, n)]

LEMMA VarintsBetween ==
  ASSUME input \in Seq(0 .. 2 * Base - 1), NEW i \in Nat \ {0}, NEW j \in Nat,
         j <= Len(input) + 1, NEW k \in VarintLengths(i, j)
  PROVE  /\ k \in Nat \ {0} /\ i + k \in i + 1 .. j /\ IsVarint(i, i + k)
         /\ \A b \in i + 1 .. j : IsVarint(i, b) => b = i + k
<1>1. k \in 1 .. VarintBytes /\ i + k <= j /\ VarintBytes \in Nat
  BY WireAssumption DEF VarintLengths
<1>2. k \in VarintLengths(i, i + k)
  BY <1>1, OneVarint
<1>3. IsVarint(i, i + k)
  <2>1. k \in Int /\ i + k <= Len(input) + 1
    BY <1>1
  <2> QED
    BY <1>2, <2>1, VarintsAgree
<1>4. ASSUME NEW b \in i + 1 .. j, IsVarint(i, b)
      PROVE  b = i + k
  <2> DEFINE m == b - i
  <2>1. b \in Int /\ b <= Len(input) + 1 /\ i + m = b /\ m \in Int /\ b <= j
    BY <1>4
  <2>2. m \in VarintLengths(i, b)
    BY <1>4, <2>1, VarintNumber
  <2> HIDE DEF m
  <2>3. m \in VarintLengths(i, i + m) /\ i + m <= j
    BY <2>1, <2>2
  <2>4. m \in VarintLengths(i, j)
    BY <2>1, <2>3, OneVarint
  <2>5. m = k
    BY <2>4, OneVarint
  <2> QED
    BY <2>1, <2>5
<1> QED
  BY <1>1, <1>3, <1>4

(* Where the guard reads a field, the meaning finds it and no other.          *)
LEMMA OneItem ==
  ASSUME NEW c, Nested(c), input \in Seq(0 .. 2 * Base - 1),
         NEW k \in 1 .. VarintBytes, NEW n \in 1 .. VarintBytes, NEW field \in Fields,
         FieldValid(c, k, field, n)
  PROVE  FieldsAt(c.pos, Inner(c).end) = {ItemRead(c, k, field, n)}
<1> DEFINE i == c.pos
           j == Inner(c).end
           b == i + k
           p == b + n
           e == EndOf(c, k, field, n)
<1>1. /\ i \in Nat \ {0} /\ j \in Nat /\ j <= Len(input) + 1 /\ VarintBytes \in Nat
  BY InnerEnd, WireAssumption
<1>2. /\ k \in VarintLengths(i, j) /\ n \in VarintLengths(b, j)
      /\ Value(i, k) % 8 = WireType(field) /\ e \in p .. j
      /\ e = IF WireType(field) = 0 THEN p ELSE p + Value(b, n)
  BY DEF FieldValid, EndOf, PayloadEnd
<1> HIDE DEF i, j
<1>3. /\ b \in i + 1 .. j /\ IsVarint(i, b)
      /\ \A h \in i + 1 .. j : IsVarint(i, h) => h = b
  BY <1>1, <1>2, VarintsBetween
<1>4. b \in Nat \ {0} /\ b - i = k
  BY <1>1
<1> HIDE DEF b
<1>5. /\ p \in b + 1 .. j /\ IsVarint(b, p)
      /\ \A h \in b + 1 .. j : IsVarint(b, h) => h = p
  BY <1>1, <1>2, <1>4, VarintsBetween
<1>6. p - b = n /\ p \in i + 1 .. j
  BY <1>1, <1>3, <1>4, <1>5
<1> DEFINE x == ItemRead(c, k, field, n)
<1>7. x = [tag |-> Value(i, k) \div 8, at |-> b, from |-> p, end |-> e]
  BY DEF ItemRead, i, b
<1> HIDE DEF p, e, x
<1>8. ItemOver(i, b, p) = x
  BY <1>2, <1>4, <1>6, <1>7 DEF ItemOver
<1>9. x.end <= j
  BY <1>1, <1>2, <1>7
<1>10. x \in FieldsAt(i, j)
  BY <1>3, <1>5, <1>6, <1>8, <1>9, FieldsAtIs
<1>11. ASSUME NEW y \in FieldsAt(i, j)
       PROVE  y = x
  <2>1. PICK b2, p2 \in i + 1 .. j : IsVarint(i, b2) /\ IsVarint(b2, p2) /\ y = ItemOver(i, b2, p2)
    BY <1>11, FieldsAtIs
  <2>2. b2 = b
    BY <1>3, <2>1
  <2>3. p2 - b \in 1 .. VarintBytes
    BY <2>1, <2>2 DEF IsVarint
  <2>4. p2 \in b + 1 .. j
    BY <1>1, <1>4, <2>1, <2>3
  <2> QED
    BY <1>5, <1>8, <2>1, <2>2, <2>4
<1>12. FieldsAt(i, j) = {x}
  BY <1>10, <1>11
<1> QED
  BY <1>12 DEF i, j, x

(* Where a message ends, no field begins.                                     *)
LEMMA NoItem ==
  ASSUME NEW j \in Int
  PROVE  FieldsAt(j, j) = {}
<1>1. j + 1 .. j = {}
  OBVIOUS
<1> QED
  BY <1>1, FieldsAtIs

-----------------------------------------------------------------------------
(* What a message means: its values *)

Rivals(a) == IF a[3] = "oneof" THEN Oneof ELSE {a[1]}
AttributesOf(kind, tag) == {a \in Attributes[kind] : a[1] = tag}
AttributeOf(kind, tag) == CHOOSE a \in AttributesOf(kind, tag) : TRUE
Told(messages, type, x) ==
  IF type \in MessageKind THEN messages[<<type, x.from, x.end>>]
  ELSE Scalar(type, x.at, x.from - x.at)
KeptOf(messages, a, all) ==
  IF a[3] = "repeated" THEN [x \in DOMAIN all |-> Told(messages, a[2], all[x])]
  ELSE IF all # <<>> /\ Last(all).tag = a[1] THEN <<Told(messages, a[2], Last(all))>>
  ELSE <<>>

LEMMA MessageAtIs ==
  ASSUME NEW messages, NEW kind, NEW i, NEW j
  PROVE  MessageAt(messages, kind, i, j) =
           [tag \in 1 .. 12 |->
              IF AttributesOf(kind, tag) = {} THEN <<>>
              ELSE KeptOf(messages, AttributeOf(kind, tag),
                          Occurrences(Rivals(AttributeOf(kind, tag)), i, j))]
BY DEF MessageAt, AttributesOf, AttributeOf, Told, KeptOf, Rivals

MeaningsBy(g) == [span \in Spans |-> MessageAt(g, span[1], span[2], span[3])]
Meanings == CHOOSE g : g = MeaningsBy(g)

LEMMA MeaningIs == Meaning = Meanings[<<"RootStore", 1, Len(input) + 1>>]
BY DEF Meaning, Meanings, MeaningsBy, Spans, Here

LEMMA MeaningsByIs ==
  ASSUME NEW g, NEW kind \in MessageKind, NEW i \in Here, NEW j \in Here
  PROVE  MeaningsBy(g)[<<kind, i, j>>] = MessageAt(g, kind, i, j)
<1>1. <<kind, i, j>> \in Spans
  BY DEF Spans
<1> QED
  BY <1>1 DEF MeaningsBy

(* It depends on the messages nested in it only. *)
NestedIn(kind) == {a[2] : a \in Attributes[kind]} \cap MessageKind
SameOn(g, h, kinds) ==
  \A kind \in kinds, i, j \in Here : g[<<kind, i, j>>] = h[<<kind, i, j>>]

LEMMA MeaningLocal ==
  ASSUME input \in Seq(0 .. 2 * Base - 1), NEW g, NEW h, NEW kind \in MessageKind,
         NEW i \in Here, NEW j \in Here, SameOn(g, h, NestedIn(kind))
  PROVE  MessageAt(g, kind, i, j) = MessageAt(h, kind, i, j)
<1>1. ASSUME NEW tag \in 1 .. 12, AttributesOf(kind, tag) # {}
      PROVE  KeptOf(g, AttributeOf(kind, tag), Occurrences(Rivals(AttributeOf(kind, tag)), i, j))
               = KeptOf(h, AttributeOf(kind, tag),
                        Occurrences(Rivals(AttributeOf(kind, tag)), i, j))
  <2> DEFINE a == AttributeOf(kind, tag)
             all == Occurrences(Rivals(a), i, j)
  <2>1. a \in Attributes[kind]
    BY <1>1 DEF AttributeOf, AttributesOf
  <2>2. all \in Seq(Item)
    BY OccurrencesStep
  <2> HIDE DEF a, all
  <2>3. ASSUME NEW x \in Item
        PROVE  Told(g, a[2], x) = Told(h, a[2], x)
    <3>1. x.from \in Here /\ x.end \in Here
      BY DEF Item
    <3>2. CASE a[2] \in MessageKind
      <4>1. a[2] \in NestedIn(kind)
        BY <2>1, <3>2 DEF NestedIn
      <4>2. g[<<a[2], x.from, x.end>>] = h[<<a[2], x.from, x.end>>]
        BY <3>1, <4>1 DEF SameOn
      <4> QED
        BY <4>2 DEF Told
    <3>3. CASE a[2] \notin MessageKind
      BY <3>3 DEF Told
    <3> QED
      BY <3>2, <3>3
  <2>4. all # <<>> => Last(all) \in Item
    BY <2>2 DEF Last
  <2>5. \A y \in DOMAIN all : all[y] \in Item
    BY <2>2
  <2>6. KeptOf(g, a, all) = KeptOf(h, a, all)
    BY <2>3, <2>4, <2>5 DEF KeptOf
  <2> QED
    BY <2>6 DEF a, all
<1> QED
  BY <1>1, MessageAtIs

LEMMA NestedKinds ==
  /\ NestedIn("ConstraintSet") = {}
  /\ NestedIn("TrustAnchor") \subseteq {"ConstraintSet"}
  /\ NestedIn("MtcAnchor") \subseteq {"ConstraintSet"}
  /\ NestedIn("RootStore") \subseteq {"TrustAnchor", "MtcAnchor"}
<1>1. NestedIn("ConstraintSet") = {}
  <2>1. \A a \in ConstraintSetMessage : a[2] \notin MessageKind
    BY DEF ConstraintSetMessage, MessageKind
  <2> QED
    BY <2>1 DEF NestedIn, Attributes
<1>2. NestedIn("TrustAnchor") \subseteq {"ConstraintSet"}
  <2>1. \A a \in TrustAnchorMessage : a[2] \in MessageKind => a[2] = "ConstraintSet"
    BY DEF TrustAnchorMessage, MessageKind
  <2> QED
    BY <2>1 DEF NestedIn, Attributes
<1>3. NestedIn("MtcAnchor") \subseteq {"ConstraintSet"}
  <2>1. \A a \in MtcAnchorMessage : a[2] \in MessageKind => a[2] = "ConstraintSet"
    BY DEF MtcAnchorMessage, MessageKind
  <2> QED
    BY <2>1 DEF NestedIn, Attributes
<1>4. NestedIn("RootStore") \subseteq {"TrustAnchor", "MtcAnchor"}
  <2>1. \A a \in RootStoreMessage : a[2] \in MessageKind => a[2] \in {"TrustAnchor", "MtcAnchor"}
    BY DEF RootStoreMessage, MessageKind
  <2> QED
    BY <2>1 DEF NestedIn, Attributes
<1> QED
  BY <1>1, <1>2, <1>3, <1>4

(* The schema nests three messages deep, so the recursive definition has a    *)
(* solution.                                                                  *)
LEMMA MeaningsExist ==
  ASSUME input \in Seq(0 .. 2 * Base - 1)
  PROVE  \E g : g = MeaningsBy(g)
<1> DEFINE one == MeaningsBy(<<>>)
           two == MeaningsBy(one)
           three == MeaningsBy(two)
<1>1. ASSUME NEW g, NEW h, NEW kind \in MessageKind, SameOn(g, h, NestedIn(kind))
      PROVE  SameOn(MeaningsBy(g), MeaningsBy(h), {kind})
  <2>1. ASSUME NEW i \in Here, NEW j \in Here
        PROVE  MeaningsBy(g)[<<kind, i, j>>] = MeaningsBy(h)[<<kind, i, j>>]
    BY <1>1, MeaningLocal, MeaningsByIs
  <2> QED
    BY <2>1 DEF SameOn
<1>2. \A g, h : SameOn(MeaningsBy(g), MeaningsBy(h), {"ConstraintSet"})
  <2>1. \A g, h : SameOn(g, h, NestedIn("ConstraintSet"))
    BY NestedKinds DEF SameOn
  <2> QED
    BY <1>1, <2>1 DEF MessageKind
<1>3. SameOn(one, two, {"ConstraintSet"})
  BY <1>2
<1> HIDE DEF one
<1>4. SameOn(two, three, {"TrustAnchor"}) /\ SameOn(two, three, {"MtcAnchor"})
  <2>1. SameOn(one, two, NestedIn("TrustAnchor")) /\ SameOn(one, two, NestedIn("MtcAnchor"))
    BY <1>3, NestedKinds DEF SameOn
  <2> QED
    BY <1>1, <2>1 DEF MessageKind
<1>5. SameOn(two, three, {"ConstraintSet"})
  BY <1>2
<1>6. \A kind \in MessageKind : SameOn(two, three, NestedIn(kind))
  <2> HIDE DEF two, three
  <2> QED
    BY <1>4, <1>5, NestedKinds DEF SameOn, MessageKind
<1>7. MeaningsBy(two) = MeaningsBy(three)
  <2> HIDE DEF two, three
  <2>1. ASSUME NEW span \in Spans
        PROVE  MessageAt(two, span[1], span[2], span[3])
                 = MessageAt(three, span[1], span[2], span[3])
    BY <1>6, SpanParts, MeaningLocal
  <2> QED
    BY <2>1 DEF MeaningsBy
<1> QED
  BY <1>7

(* Hence the meaning of a message is given by the meaning of those in it.     *)
LEMMA MeaningsMean ==
  ASSUME input \in Seq(0 .. 2 * Base - 1), NEW kind \in MessageKind, NEW i \in Here, NEW j \in Here
  PROVE  Meanings[<<kind, i, j>>] = MessageAt(Meanings, kind, i, j)
<1>1. Meanings = MeaningsBy(Meanings)
  BY MeaningsExist DEF Meanings
<1> QED
  BY <1>1, MeaningsByIs

(* What a field holds, as its further occurrences are read. *)
AllTold(type, all) == [x \in DOMAIN all |-> Told(Meanings, type, all[x])]
Grown(old, a, all) ==
  IF a[3] = "repeated" THEN old \o AllTold(a[2], all)
  ELSE IF all = <<>> THEN old
  ELSE IF Last(all).tag = a[1] THEN <<Told(Meanings, a[2], Last(all))>>
  ELSE <<>>
Continued(message, kind, i, j) ==
  [tag \in 1 .. 12 |->
     IF AttributesOf(kind, tag) = {} THEN message[tag]
     ELSE Grown(message[tag], AttributeOf(kind, tag),
                Occurrences(Rivals(AttributeOf(kind, tag)), i, j))]

LEMMA AllToldTyped ==
  ASSUME NEW type, NEW all \in Seq(Item)
  PROVE  AllTold(type, all) \in Seq({Told(Meanings, type, x) : x \in Item})
<1> DEFINE V == {Told(Meanings, type, x) : x \in Item}
<1>1. \A k \in 1 .. Len(all) : Told(Meanings, type, all[k]) \in V
  OBVIOUS
<1>2. DOMAIN all = 1 .. Len(all) /\ Len(all) \in Nat
  OBVIOUS
<1> HIDE DEF V
<1>3. AllTold(type, all) \in [1 .. Len(all) -> V]
  BY <1>1, <1>2 DEF AllTold
<1>4. AllTold(type, all) \in Seq(V)
  BY <1>2, <1>3
<1> QED
  BY <1>4 DEF V

LEMMA AllToldStep ==
  ASSUME NEW type, NEW x \in Item, NEW all \in Seq(Item)
  PROVE  AllTold(type, <<x>> \o all) = <<Told(Meanings, type, x)>> \o AllTold(type, all)
<1> DEFINE V == {Told(Meanings, type, y) : y \in Item}
           l == AllTold(type, <<x>> \o all)
           v == Told(Meanings, type, x)
           rest == AllTold(type, all)
           n == Len(all)
<1>1. /\ <<x>> \o all \in Seq(Item) /\ Len(<<x>> \o all) = n + 1 /\ n \in Nat
      /\ (<<x>> \o all)[1] = x /\ \A k \in 1 .. n : (<<x>> \o all)[k + 1] = all[k]
  OBVIOUS
<1>2. l \in Seq(V) /\ rest \in Seq(V)
  BY <1>1, AllToldTyped
<1>3. Len(l) = n + 1 /\ Len(rest) = n /\ v \in V
  <2>1. DOMAIN l = 1 .. n + 1 /\ DOMAIN rest = 1 .. n
    BY <1>1 DEF AllTold
  <2> HIDE DEF l, rest
  <2> QED
    BY <1>1, <1>2, <2>1
<1>4. l[1] = v
  BY <1>1 DEF AllTold
<1>5. \A k \in 1 .. n : l[k + 1] = rest[k]
  <2> TAKE k \in 1 .. n
  <2>1. k + 1 \in DOMAIN (<<x>> \o all) /\ k \in DOMAIN all
    BY <1>1
  <2> QED
    BY <1>1, <2>1 DEF AllTold
<1> HIDE DEF V, l, v, rest, n
<1>6. l = <<v>> \o rest
  <2> DEFINE r == <<v>> \o rest
  <2>1. r \in Seq(V) /\ Len(r) = n + 1 /\ r[1] = v /\ \A k \in 1 .. n : r[k + 1] = rest[k]
    BY <1>1, <1>2, <1>3
  <2> HIDE DEF r
  <2>2. \A k \in 1 .. n + 1 : l[k] = r[k]
    <3> TAKE k \in 1 .. n + 1
    <3>1. CASE k = 1
      BY <1>4, <2>1, <3>1
    <3>2. CASE k # 1
      <4>1. k - 1 \in 1 .. n /\ (k - 1) + 1 = k
        BY <1>1, <3>2
      <4> QED
        BY <1>5, <2>1, <4>1
    <3> QED
      BY <3>1, <3>2
  <2>3. l = r
    BY <1>2, <1>3, <2>1, <2>2, SameSequence
  <2> QED
    BY <2>3 DEF r
<1> QED
  BY <1>6 DEF l, v, rest

LEMMA OneMoreThenAll ==
  ASSUME NEW S, NEW old \in Seq(S), NEW v \in S, NEW rest \in Seq(S)
  PROVE  old \o (<<v>> \o rest) = Append(old, v) \o rest
OBVIOUS

(* The last of one field and others is the last of the others, if there are   *)
(* any.                                                                       *)
LEMMA LastOf ==
  ASSUME NEW x \in Item, NEW all \in Seq(Item)
  PROVE  <<x>> \o all # <<>> /\ Last(<<x>> \o all) = IF all = <<>> THEN x ELSE Last(all)
<1> DEFINE s == <<x>> \o all
<1>1. s \in Seq(Item) /\ Len(s) = Len(all) + 1 /\ Len(all) \in Nat /\ s[1] = x
  OBVIOUS
<1>2. \A k \in 1 .. Len(all) : s[k + 1] = all[k]
  OBVIOUS
<1> HIDE DEF s
<1>3. s # <<>> /\ Last(s) = s[Len(all) + 1]
  BY <1>1 DEF Last
<1>4. CASE all = <<>>
  BY <1>1, <1>3, <1>4 DEF s
<1>5. CASE all # <<>>
  <2>1. Len(all) \in 1 .. Len(all)
    BY <1>1, <1>5
  <2>2. s[Len(all) + 1] = all[Len(all)]
    BY <1>2, <2>1
  <2> QED
    BY <1>3, <1>5, <2>2 DEF s, Last
<1> QED
  BY <1>4, <1>5

LEMMA NoneTold ==
  ASSUME NEW type
  PROVE  AllTold(type, <<>>) = <<>>
<1>1. <<>> \in Seq(Item) /\ DOMAIN <<>> = 1 .. 0 /\ 1 .. 0 = {}
  OBVIOUS
<1>2. AllTold(type, <<>>) \in Seq({Told(Meanings, type, x) : x \in Item})
  BY <1>1, AllToldTyped
<1>3. DOMAIN AllTold(type, <<>>) = {}
  BY <1>1 DEF AllTold
<1> QED
  BY <1>2, <1>3

LEMMA WiderSequence ==
  ASSUME NEW S, NEW T, S \subseteq T, NEW s \in Seq(S)
  PROVE  s \in Seq(T)
OBVIOUS

OneMoreTold(old, type, x, all) ==
  old \o AllTold(type, <<x>> \o all)
    = Append(old, Told(Meanings, type, x)) \o AllTold(type, all)

LEMMA OneMoreIsTold ==
  ASSUME NEW S, NEW old \in Seq(S), NEW type, NEW x \in Item, NEW all \in Seq(Item)
  PROVE  OneMoreTold(old, type, x, all)
<1> DEFINE V == {Told(Meanings, type, y) : y \in Item}
           T == S \cup V
           v == Told(Meanings, type, x)
           rest == AllTold(type, all)
<1>1. v \in T /\ V \subseteq T /\ S \subseteq T
  OBVIOUS
<1>2. rest \in Seq(V)
  BY AllToldTyped
<1>3. AllTold(type, <<x>> \o all) = <<v>> \o rest
  BY AllToldStep
<1> HIDE DEF V, T, v, rest
<1>4. old \in Seq(T)
  BY <1>1, WiderSequence
<1>5. rest \in Seq(T)
  BY <1>1, <1>2, WiderSequence
<1>6. v \in T
  BY <1>1
<1>7. old \o (<<v>> \o rest) = Append(old, v) \o rest
  BY <1>4, <1>5, <1>6, OneMoreThenAll
<1> QED
  BY <1>3, <1>7 DEF v, rest, OneMoreTold

(* Read from where it ends, a message is complete.                            *)
LEMMA NothingMore ==
  ASSUME input \in Seq(0 .. 2 * Base - 1), NEW S, NEW m \in [1 .. 12 -> Seq(S)],
         NEW kind, NEW j \in Here
  PROVE  Continued(m, kind, j, j) = m
<1>1. ASSUME NEW tags
      PROVE  Occurrences(tags, j, j) = <<>>
  <2>1. j \in Int
    BY DEF Here
  <2>2. FieldsAt(j, j) = {}
    BY <2>1, NoItem
  <2> QED
    BY <2>2, OccurrencesStep
<1>2. ASSUME NEW a, NEW old \in Seq(S)
      PROVE  Grown(old, a, <<>>) = old
  <2>1. old \o <<>> = old
    OBVIOUS
  <2> QED
    BY <2>1, NoneTold DEF Grown
<1>3. ASSUME NEW tag \in 1 .. 12
      PROVE  Continued(m, kind, j, j)[tag] = m[tag]
  BY <1>1, <1>2 DEF Continued
<1> QED
  BY <1>3 DEF Continued

(* Read from its beginning, it is what Meaning says.                          *)
LEMMA FromNothing ==
  ASSUME input \in Seq(0 .. 2 * Base - 1), NEW kind \in MessageKind, NEW i \in Here, NEW j \in Here
  PROVE  Continued(Empty, kind, i, j) = Meanings[<<kind, i, j>>]
<1>1. ASSUME NEW tag \in 1 .. 12, NEW a, NEW all \in Seq(Item)
      PROVE  Grown(Empty[tag], a, all) = KeptOf(Meanings, a, all)
  <2>1. Empty[tag] = <<>>
    BY DEF Empty
  <2>2. <<>> \o AllTold(a[2], all) = AllTold(a[2], all)
    BY AllToldTyped
  <2> QED
    BY <2>1, <2>2 DEF Grown, KeptOf, AllTold
<1>2. ASSUME NEW tags
      PROVE  Occurrences(tags, i, j) \in Seq(Item)
  BY OccurrencesStep
<1>3. Continued(Empty, kind, i, j) = MessageAt(Meanings, kind, i, j)
  <2>1. \A tag \in 1 .. 12 : Empty[tag] = <<>>
    BY DEF Empty
  <2> DEFINE a(tag) == AttributeOf(kind, tag)
             all(tag) == Occurrences(Rivals(a(tag)), i, j)
  <2>2. \A tag \in 1 .. 12 :
          Grown(Empty[tag], a(tag), all(tag)) = KeptOf(Meanings, a(tag), all(tag))
    BY <1>1, <1>2
  <2> QED
    BY <2>1, <2>2, MessageAtIs DEF Continued
<1> QED
  BY <1>3, MeaningsMean

(* The label of a field, and which fields displace each other. *)
LEMMA Labels ==
  ASSUME NEW kind \in MessageKind, NEW a \in Attributes[kind]
  PROVE  /\ a[1] \in 1 .. 12
         /\ a[3] \in {"repeated", "single", "oneof"}
         /\ a[3] = "oneof" <=> kind = "TrustAnchor" /\ a[1] \in Oneof
<1>1. CASE kind = "RootStore"
  BY <1>1 DEF Attributes, RootStoreMessage
<1>2. CASE kind = "TrustAnchor"
  BY <1>2 DEF Attributes, TrustAnchorMessage, Oneof
<1>3. CASE kind = "ConstraintSet"
  BY <1>3 DEF Attributes, ConstraintSetMessage
<1>4. CASE kind = "MtcAnchor"
  BY <1>4 DEF Attributes, MtcAnchorMessage
<1> QED BY <1>1, <1>2, <1>3, <1>4 DEF MessageKind

LEMMA TheAttribute ==
  ASSUME NEW kind \in MessageKind, NEW tag
  PROVE  /\ AttributesOf(kind, tag) # {} =>
              /\ AttributeOf(kind, tag) \in Attributes[kind] /\ AttributeOf(kind, tag)[1] = tag
              /\ AttributesOf(kind, tag) = {AttributeOf(kind, tag)}
         /\ kind = "TrustAnchor" /\ tag \in Oneof => AttributesOf(kind, tag) # {}
<1>1. ASSUME AttributesOf(kind, tag) # {}
      PROVE  /\ AttributeOf(kind, tag) \in Attributes[kind] /\ AttributeOf(kind, tag)[1] = tag
             /\ AttributesOf(kind, tag) = {AttributeOf(kind, tag)}
  <2>1. AttributeOf(kind, tag) \in AttributesOf(kind, tag)
    BY <1>1 DEF AttributeOf
  <2> HIDE DEF AttributeOf
  <2>2. AttributeOf(kind, tag) \in Attributes[kind] /\ AttributeOf(kind, tag)[1] = tag
    BY <2>1 DEF AttributesOf
  <2> QED
    BY <2>2, AttributesByTag DEF AttributesOf
<1>2. kind = "TrustAnchor" /\ tag \in Oneof => AttributesOf(kind, tag) # {}
  <2>1. /\ <<1, "bytes", "oneof">> \in TrustAnchorMessage
        /\ <<2, "string", "oneof">> \in TrustAnchorMessage
    BY DEF TrustAnchorMessage
  <2> QED
    BY <2>1 DEF AttributesOf, Attributes, Oneof
<1> QED
  BY <1>1, <1>2

(* Reading a field and then the rest is reading all.                          *)
ReadOn(m, kind, i, j, x, a) ==
  Continued(m, kind, i, j)
    = Continued(Merge(m, x.tag, a[3], Told(Meanings, a[2], x)), kind, x.end, j)

LEMMA FieldThenRest ==
  ASSUME input \in Seq(0 .. 2 * Base - 1), NEW S, NEW m \in [1 .. 12 -> Seq(S)],
         NEW kind \in MessageKind, NEW i \in Here, NEW j \in Here,
         NEW x, FieldsAt(i, j) = {x}, NEW a, AttributesOf(kind, x.tag) = {a}
  PROVE  ReadOn(m, kind, i, j, x, a)
<1> DEFINE v == Told(Meanings, a[2], x)
           next_m == Merge(m, x.tag, a[3], v)
<1>1. a \in Attributes[kind] /\ a[1] = x.tag
  BY DEF AttributesOf
<1>2. FieldsAt(i, j) # {} /\ FirstOf(i, j) = x /\ x \in Item /\ x.end \in Here
  <2>1. FieldsAt(i, j) # {} /\ FirstOf(i, j) = x
    BY DEF FirstOf
  <2> QED
    BY <2>1, FirstTyped
<1>3. ASSUME NEW t \in 1 .. 12
      PROVE  next_m[t] = IF t = x.tag
                         THEN IF a[3] = "repeated" THEN Append(m[t], v) ELSE <<v>>
                         ELSE IF a[3] = "oneof" /\ t \in Oneof THEN <<>> ELSE m[t]
  BY DEF Merge
<1>4. ASSUME NEW tags
      PROVE  /\ Occurrences(tags, x.end, j) \in Seq(Item)
             /\ Occurrences(tags, i, j) =
                  (IF x.tag \in tags THEN <<x>> ELSE <<>>) \o Occurrences(tags, x.end, j)
  <2>1. Occurrences(tags, x.end, j) \in Seq(Item)
    BY <1>2, OccurrencesStep
  <2>2. Occurrences(tags, i, j) =
          (IF x.tag \in tags THEN <<x>> ELSE <<>>) \o Occurrences(tags, x.end, j)
    <3>1. Occurrences(tags, i, j) = (IF FirstOf(i, j).tag \in tags THEN <<FirstOf(i, j)>> ELSE <<>>)
                                      \o Occurrences(tags, FirstOf(i, j).end, j)
      BY <1>2, OccurrencesStep
    <3>2. FirstOf(i, j) = x
      BY <1>2
    <3> QED
      BY <3>1, <3>2, Zenon
  <2> QED
    BY <2>1, <2>2
<1> HIDE DEF v, next_m
<1>5. ASSUME NEW t \in 1 .. 12, AttributesOf(kind, t) = {}
      PROVE  next_m[t] = m[t]
  <2>1. t # x.tag
    BY <1>1, <1>5 DEF AttributesOf
  <2>2. ~(kind = "TrustAnchor" /\ t \in Oneof)
    BY <1>5, TheAttribute
  <2>3. ~(a[3] = "oneof" /\ t \in Oneof)
    BY <1>1, <2>2, Labels
  <2> QED
    BY <1>3, <2>1, <2>3
<1>6. ASSUME NEW t \in 1 .. 12, AttributesOf(kind, t) # {},
             NEW b, b = AttributeOf(kind, t),
             NEW all, all = Occurrences(Rivals(b), x.end, j)
      PROVE  Grown(m[t], b, Occurrences(Rivals(b), i, j)) = Grown(next_m[t], b, all)
  <2>1. /\ b \in Attributes[kind] /\ b[1] = t /\ AttributesOf(kind, t) = {b}
        /\ all \in Seq(Item) /\ m[t] \in Seq(S)
        /\ Occurrences(Rivals(b), i, j) = (IF x.tag \in Rivals(b) THEN <<x>> ELSE <<>>) \o all
    BY <1>4, <1>6, TheAttribute
  <2>2. CASE t = x.tag
    <3>1. b = a
      BY <2>1, <2>2
    <3>2. x.tag \in Rivals(b)
      BY <1>1, <3>1, Labels DEF Rivals
    <3>3. Occurrences(Rivals(b), i, j) = <<x>> \o all
      BY <2>1, <3>2
    <3>4. CASE a[3] = "repeated"
      <4>1. m[t] \o AllTold(a[2], <<x>> \o all) = Append(m[t], v) \o AllTold(a[2], all)
        <5>1. OneMoreTold(m[t], a[2], x, all)
          BY <1>2, <2>1, OneMoreIsTold
        <5> QED
          BY <5>1 DEF OneMoreTold, v
      <4>2. Grown(m[t], b, <<x>> \o all) = m[t] \o AllTold(a[2], <<x>> \o all)
        BY <3>1, <3>4 DEF Grown
      <4>3. Grown(next_m[t], b, all) = Append(m[t], v) \o AllTold(a[2], all)
        BY <1>3, <2>2, <3>1, <3>4 DEF Grown
      <4> QED
        BY <3>3, <4>1, <4>2, <4>3
    <3>5. CASE a[3] # "repeated"
      <4>1. next_m[t] = <<v>>
        BY <1>3, <2>2, <3>5
      <4>2. <<x>> \o all # <<>> /\ Last(<<x>> \o all) = IF all = <<>> THEN x ELSE Last(all)
        BY <1>2, <2>1, LastOf
      <4>3. CASE all = <<>>
        <5>1. Grown(m[t], b, <<x>> \o all) = <<v>>
          BY <1>1, <3>1, <3>5, <4>2, <4>3 DEF Grown, v
        <5>2. Grown(next_m[t], b, all) = <<v>>
          BY <3>1, <3>5, <4>1, <4>3 DEF Grown
        <5> QED
          BY <3>3, <5>1, <5>2
      <4>4. CASE all # <<>>
        <5>1. Grown(m[t], b, <<x>> \o all) = Grown(next_m[t], b, all)
          BY <3>1, <3>5, <4>2, <4>4 DEF Grown
        <5> QED
          BY <3>3, <5>1
      <4> QED
        BY <4>3, <4>4
    <3> QED
      BY <3>4, <3>5
  <2>3. CASE t # x.tag /\ x.tag \in Rivals(b)
    <3>1. b[3] = "oneof" /\ kind = "TrustAnchor" /\ x.tag \in Oneof /\ t \in Oneof
      BY <2>1, <2>3, Labels DEF Rivals
    <3>2. a[3] = "oneof"
      BY <1>1, <3>1, Labels
    <3>3. next_m[t] = <<>>
      BY <1>3, <2>3, <3>1, <3>2
    <3>4. Occurrences(Rivals(b), i, j) = <<x>> \o all
      BY <2>1, <2>3
    <3>5. <<x>> \o all # <<>> /\ Last(<<x>> \o all) = IF all = <<>> THEN x ELSE Last(all)
      BY <1>2, <2>1, LastOf
    <3>6. Grown(m[t], b, <<x>> \o all) = Grown(<<>>, b, all)
      BY <2>1, <2>3, <3>1, <3>5 DEF Grown
    <3> QED
      BY <3>3, <3>4, <3>6
  <2>4. CASE t # x.tag /\ x.tag \notin Rivals(b)
    <3>1. Occurrences(Rivals(b), i, j) = all
      BY <2>1, <2>4
    <3>2. ~(a[3] = "oneof" /\ t \in Oneof)
      BY <1>1, <2>1, <2>4, Labels DEF Rivals
    <3>3. next_m[t] = m[t]
      BY <1>3, <2>4, <3>2
    <3> QED
      BY <3>1, <3>3
  <2> QED
    BY <2>2, <2>3, <2>4
<1>7. \A t \in 1 .. 12 :
        (IF AttributesOf(kind, t) = {} THEN m[t]
         ELSE Grown(m[t], AttributeOf(kind, t), Occurrences(Rivals(AttributeOf(kind, t)), i, j)))
        = (IF AttributesOf(kind, t) = {} THEN next_m[t]
           ELSE Grown(next_m[t], AttributeOf(kind, t),
                      Occurrences(Rivals(AttributeOf(kind, t)), x.end, j)))
  BY <1>5, <1>6
<1>8. Continued(m, kind, i, j) = Continued(next_m, kind, x.end, j)
  BY <1>7 DEF Continued
<1> QED
  BY <1>8 DEF next_m, v, ReadOn

(* The meaning depends on the input alone. *)
LEMMA MeaningFrame ==
  ASSUME UNCHANGED input
  PROVE  /\ Meaning' = Meaning
         /\ \A message, kind, i, j :
              Continued(message, kind, i, j)' = Continued(message, kind, i, j)
<1>1. ASSUME NEW i, NEW j PROVE FieldsAt(i, j)' = FieldsAt(i, j)
  BY DEF FieldsAt, IsVarint, Value
<1>2. ASSUME NEW tags, NEW i, NEW j PROVE Occurrences(tags, i, j)' = Occurrences(tags, i, j)
  BY SMTT(60) DEF Occurrences, FieldsAt, IsVarint, Value
<1>3. ASSUME NEW type, NEW p, NEW n PROVE Scalar(type, p, n)' = Scalar(type, p, n)
  BY DEF Scalar, Value, Payload
<1>4. ASSUME NEW g, NEW type, NEW x PROVE Told(g, type, x)' = Told(g, type, x)
  BY <1>3 DEF Told
<1>5. ASSUME NEW g, NEW a, NEW all PROVE KeptOf(g, a, all)' = KeptOf(g, a, all)
  BY <1>4 DEF KeptOf
<1>6. ASSUME NEW g, NEW kind, NEW i, NEW j
      PROVE  MessageAt(g, kind, i, j)' = MessageAt(g, kind, i, j)
  <2> DEFINE values == [tag \in 1 .. 12 |->
               IF AttributesOf(kind, tag) = {} THEN <<>>
               ELSE KeptOf(g, AttributeOf(kind, tag),
                           Occurrences(Rivals(AttributeOf(kind, tag)), i, j))]
  <2>1. MessageAt(g, kind, i, j)' = values'
    BY DEF MessageAt, AttributesOf, AttributeOf, Told, KeptOf, Rivals
  <2>2. MessageAt(g, kind, i, j) = values
    BY MessageAtIs
  <2>3. values' = values
    BY <1>2, <1>5
  <2> QED
    BY <2>1, <2>2, <2>3
<1>7. Meanings' = Meanings
  BY <1>6 DEF Meanings, MeaningsBy, Spans, Here
<1>8. Meaning' = Meaning
  <2>1. Meaning' = (Meanings[<<"RootStore", 1, Len(input) + 1>>])'
    BY DEF Meaning, Meanings, MeaningsBy, Spans, Here
  <2>2. (Meanings[<<"RootStore", 1, Len(input) + 1>>])'
          = Meanings[<<"RootStore", 1, Len(input) + 1>>]
    BY <1>7
  <2> QED
    BY <2>1, <2>2, MeaningIs
<1>9. ASSUME NEW message, NEW kind, NEW i, NEW j
      PROVE  Continued(message, kind, i, j)' = Continued(message, kind, i, j)
  BY <1>2, <1>4, <1>7 DEF Continued, Grown, AllTold
<1> QED
  BY <1>8, <1>9

-----------------------------------------------------------------------------
(* What the decoder holds, and the meaning *)

(* Each open message, once the rest of it is read; the first is the meaning.  *)
(* What it holds by then of the message open in it counts as read.            *)
Holding(S) == [1 .. 12 -> Seq(S)]
Pending(c, p, r, l) ==
  IF l = Len(c.open) THEN p[l] ELSE Merge(p[l], c.open[l + 1].tag, "repeated", r[l + 1])
InTheEnd(c, p, r, l) ==
  r[l] = Continued(Pending(c, p, r, l), c.open[l].kind, From(c, l), c.open[l].end)
LeadsTo(c, p, r) ==
  /\ r[1] = Meaning
  /\ \A l \in 1 .. Len(c.open) : InTheEnd(c, p, r, l)

Leading(c, p) ==
  /\ \E S : p \in Seq(Holding(S))
  /\ \E r : LeadsTo(c, p, r)

(* A message that holds one more kind of value.                               *)
LEMMA MergeTyped ==
  ASSUME NEW S, NEW m \in Holding(S), NEW tag, NEW label, NEW v
  PROVE  Merge(m, tag, label, v) \in Holding(S \cup {v})
<1> DEFINE T == S \cup {v}
<1>1. S \subseteq T /\ v \in T
  OBVIOUS
<1> HIDE DEF T
<1>2. ASSUME NEW t \in 1 .. 12
      PROVE  m[t] \in Seq(T) /\ Append(m[t], v) \in Seq(T) /\ <<v>> \in Seq(T) /\ <<>> \in Seq(T)
  <2>1. m[t] \in Seq(S)
    BY DEF Holding
  <2>2. m[t] \in Seq(T)
    BY <1>1, <2>1, WiderSequence
  <2> QED
    BY <1>1, <2>2
<1>3. DOMAIN m = 1 .. 12
  BY DEF Holding
<1>4. Merge(m, tag, label, v) \in Holding(T)
  BY <1>2, <1>3 DEF Merge, Holding
<1> QED
  BY <1>4 DEF T

LEMMA WiderHolding ==
  ASSUME NEW S, NEW T, S \subseteq T
  PROVE  Holding(S) \subseteq Holding(T)
<1>1. ASSUME NEW m \in Holding(S)
      PROVE  m \in Holding(T)
  <2>1. \A t \in 1 .. 12 : m[t] \in Seq(T)
    BY WiderSequence DEF Holding
  <2> QED
    BY <2>1 DEF Holding
<1> QED
  BY <1>1

(* The decoder begins with an empty message of which all is to be read.       *)
LEMMA StartLeads ==
  ASSUME input \in Seq(0 .. 2 * Base - 1)
  PROVE  \E r : LeadsTo(Start, <<Empty>>, r)
<1> DEFINE r == <<Meaning>>
           frame == [kind |-> "RootStore", tag |-> 0, end |-> Len(input) + 1]
<1>1. /\ Start.pos = 1 /\ Start.open = <<frame>> /\ frame.kind = "RootStore"
      /\ frame.end = Len(input) + 1
  BY DEF Start
<1> HIDE DEF frame
<1>2. Len(Start.open) = 1 /\ Start.open[1] = frame /\ From(Start, 1) = 1
  BY <1>1 DEF From
<1>3. 1 \in Here /\ Len(input) + 1 \in Here /\ "RootStore" \in MessageKind
  BY DEF Here, MessageKind
<1>4. Continued(Empty, "RootStore", 1, Len(input) + 1) = Meaning
  BY <1>3, FromNothing, MeaningIs
<1>5. Pending(Start, <<Empty>>, r, 1) = Empty
  BY <1>2 DEF Pending
<1>6. InTheEnd(Start, <<Empty>>, r, 1)
  BY <1>1, <1>2, <1>4, <1>5 DEF InTheEnd
<1>7. \A l \in 1 .. 1 : l = 1
  OBVIOUS
<1>8. r[1] = Meaning
  OBVIOUS
<1> HIDE DEF r
<1>9. LeadsTo(Start, <<Empty>>, r)
  BY <1>2, <1>6, <1>7, <1>8 DEF LeadsTo
<1> QED
  BY <1>9

(* The field at c counts as read in the message that is open there.           *)
LEMMA FieldCounts ==
  ASSUME NEW c, Nested(c), input \in Seq(0 .. 2 * Base - 1),
         NEW k \in 1 .. VarintBytes, NEW n \in 1 .. VarintBytes, NEW field \in Fields,
         FieldValid(c, k, field, n), NEW a, Typed(c, Value(c.pos, k) \div 8) = {a},
         NEW S, NEW m \in Holding(S)
  PROVE  Continued(m, Inner(c).kind, c.pos, Inner(c).end)
           = Continued(Merge(m, Value(c.pos, k) \div 8, a[3],
                             Told(Meanings, a[2], ItemRead(c, k, field, n))),
                       Inner(c).kind, EndOf(c, k, field, n), Inner(c).end)
<1> DEFINE x == ItemRead(c, k, field, n)
           kind == Inner(c).kind
           i == c.pos
           j == Inner(c).end
<1>1. x.tag = Value(c.pos, k) \div 8 /\ x.end = EndOf(c, k, field, n)
  BY DEF ItemRead
<1>2. FieldsAt(i, j) = {x}
  BY OneItem
<1>3. kind \in MessageKind /\ i \in Here /\ j \in Here
  BY InnerRest
<1>4. AttributesOf(kind, x.tag) = {a}
  BY <1>1 DEF AttributesOf, Typed
<1>5. m \in [1 .. 12 -> Seq(S)]
  BY DEF Holding
<1> HIDE DEF x, kind, i, j
<1>6. ReadOn(m, kind, i, j, x, a)
  BY <1>2, <1>3, <1>4, <1>5, FieldThenRest
<1> QED
  BY <1>1, <1>6 DEF x, kind, i, j, ReadOn

(* What merging a value into the innermost message does to the stack.         *)
LEMMA TopReplaced ==
  ASSUME NEW T, NEW s \in Seq(T), Len(s) > 0, NEW x \in T
  PROVE  /\ Append(Front(s), x) \in Seq(T) /\ Len(Append(Front(s), x)) = Len(s)
         /\ Append(Front(s), x)[Len(s)] = x /\ Last(s) = s[Len(s)]
         /\ \A m \in 1 .. Len(s) : m # Len(s) => Append(Front(s), x)[m] = s[m]
<1> DEFINE f == Front(s)
<1>2. Len(s) \in Nat
  OBVIOUS
<1>1. f \in Seq(T) /\ Len(f) = Len(s) - 1 /\ \A m \in 1 .. Len(s) - 1 : f[m] = s[m]
  <2> DEFINE b == Len(s) - 1
  <2>1. f = SubSeq(s, 1, b) /\ b \in Nat /\ 1 <= b + 1 /\ b <= Len(s)
    BY <1>2 DEF Front
  <2> HIDE DEF f, b
  <2>2. SubSeq(s, 1, b) \in Seq(T) /\ Len(SubSeq(s, 1, b)) = b - 1 + 1
        /\ \A m \in 1 .. b - 1 + 1 : SubSeq(s, 1, b)[m] = s[1 + m - 1]
    BY <2>1, Part
  <2>3. b - 1 + 1 = b /\ \A m \in 1 .. b : 1 + m - 1 = m
    BY <2>1
  <2>4. f \in Seq(T) /\ Len(f) = b /\ \A m \in 1 .. b : f[m] = s[m]
    BY <2>1, <2>2, <2>3
  <2> QED
    BY <2>4 DEF b
<1> HIDE DEF f
<1>3. /\ Append(f, x) \in Seq(T) /\ Len(Append(f, x)) = Len(s) /\ Append(f, x)[Len(s)] = x
      /\ \A m \in 1 .. Len(s) : m # Len(s) => Append(f, x)[m] = s[m]
  BY <1>1, <1>2
<1> QED
  BY <1>3 DEF f, Last

(* Every nested message is an element of a repeated field, as LeaveNested     *)
(* supposes.                                                                  *)
LEMMA MessagesRepeated ==
  ASSUME NEW kind \in MessageKind, NEW a \in Attributes[kind], a[2] \in MessageKind
  PROVE  a[3] = "repeated"
<1>1. CASE kind = "RootStore"
  BY <1>1 DEF Attributes, RootStoreMessage, MessageKind
<1>2. CASE kind = "TrustAnchor"
  BY <1>2 DEF Attributes, TrustAnchorMessage, MessageKind
<1>3. CASE kind = "ConstraintSet"
  BY <1>3 DEF Attributes, ConstraintSetMessage, MessageKind
<1>4. CASE kind = "MtcAnchor"
  BY <1>4 DEF Attributes, MtcAnchorMessage, MessageKind
<1> QED BY <1>1, <1>2, <1>3, <1>4 DEF MessageKind

(* What a field is read as does not change what the messages come to.         *)
LEMMA ScalarLeads ==
  ASSUME NEW c, Nested(c), input \in Seq(0 .. 2 * Base - 1),
         NEW k \in 1 .. VarintBytes, NEW n \in 1 .. VarintBytes, NEW field \in Fields,
         FieldValid(c, k, field, n), NEW a, Typed(c, Value(c.pos, k) \div 8) = {a},
         a[2] \notin MessageKind,
         NEW S, NEW p \in Seq(Holding(S)), Len(p) = Len(c.open), NEW r, LeadsTo(c, p, r),
         NEW q, q = Append(Front(p), Merge(Last(p), Value(c.pos, k) \div 8, a[3],
                                           Scalar(a[2], c.pos + k, n)))
  PROVE  Leading(Behind(c, EndOf(c, k, field, n)), q)
<1> DEFINE l == Len(c.open)
           e == EndOf(c, k, field, n)
           d == Behind(c, e)
           tag == Value(c.pos, k) \div 8
           v == Scalar(a[2], c.pos + k, n)
           x == ItemRead(c, k, field, n)
           T == S \cup {v}
<1>1. l \in Nat \ {0} /\ Inner(c) = c.open[l]
  BY InnerRest
<1>2. d.pos = e /\ d.open = c.open
  <2>1. c \in [pos : Nat \ {0}, open : Seq(Frame) \ {<<>>}]
    BY DEF Nested, Configuration
  <2> QED
    BY <2>1 DEF Behind
<1>3. /\ q \in Seq(Holding(T)) /\ Len(q) = l /\ q[l] = Merge(p[l], tag, a[3], v)
      /\ \A m \in 1 .. l : m # l => q[m] = p[m]
  <2>1. p[l] \in Holding(S)
    BY <1>1
  <2>2. Merge(p[l], tag, a[3], v) \in Holding(T)
    BY <2>1, MergeTyped
  <2>3. p \in Seq(Holding(T))
    <3>1. S \subseteq T
      OBVIOUS
    <3>2. Holding(S) \subseteq Holding(T)
      BY <3>1, WiderHolding
    <3> QED
      BY <3>2, WiderSequence
  <2>4. Last(p) = p[l]
    BY DEF Last
  <2>5. q = Append(Front(p), Merge(p[l], tag, a[3], v))
    BY <2>4
  <2> DEFINE top == Merge(p[l], tag, a[3], v)
             H == Holding(T)
  <2>6. Len(p) = l /\ Len(p) > 0
    BY <1>1
  <2> HIDE DEF top, H, T, l
  <2>7. /\ Append(Front(p), top) \in Seq(H) /\ Len(Append(Front(p), top)) = Len(p)
        /\ Append(Front(p), top)[Len(p)] = top
        /\ \A m \in 1 .. Len(p) : m # Len(p) => Append(Front(p), top)[m] = p[m]
    BY <2>2, <2>3, <2>6, TopReplaced DEF top, H
  <2> QED
    BY <2>5, <2>6, <2>7 DEF top, H
<1>4. Told(Meanings, a[2], x) = v
  <2>1. x.at = c.pos + k /\ x.from = c.pos + k + n
    BY DEF ItemRead
  <2>2. c.pos \in Nat /\ VarintBytes \in Nat
    BY InnerEnd, WireAssumption
  <2>3. x.from - x.at = n
    BY <2>1, <2>2
  <2> HIDE DEF x
  <2> QED
    BY <2>1, <2>3 DEF Told
<1>5. r[1] = Meaning /\ \A m \in 1 .. l : InTheEnd(c, p, r, m)
  BY DEF LeadsTo
<1>6. InTheEnd(d, q, r, l)
  <2>1. r[l] = Continued(p[l], Inner(c).kind, c.pos, Inner(c).end)
    <3>1. InTheEnd(c, p, r, l)
      BY <1>1, <1>5
    <3>2. Pending(c, p, r, l) = p[l] /\ From(c, l) = c.pos
      BY DEF Pending, From
    <3> QED
      BY <1>1, <3>1, <3>2 DEF InTheEnd
  <2>2. p[l] \in Holding(S)
    BY <1>1
  <2>3. Continued(p[l], Inner(c).kind, c.pos, Inner(c).end)
          = Continued(Merge(p[l], tag, a[3], v), Inner(c).kind, e, Inner(c).end)
    BY <1>4, <2>2, FieldCounts
  <2>4. Pending(d, q, r, l) = Merge(p[l], tag, a[3], v) /\ From(d, l) = e /\ d.open[l] = Inner(c)
    BY <1>1, <1>2, <1>3 DEF Pending, From
  <2> HIDE DEF d, e, tag, v, l
  <2> QED
    BY <2>1, <2>3, <2>4 DEF InTheEnd
<1>7. ASSUME NEW m \in 1 .. l, m # l
      PROVE  InTheEnd(d, q, r, m)
  <2>1. InTheEnd(c, p, r, m)
    BY <1>5, <1>7
  <2>2. Pending(d, q, r, m) = Pending(c, p, r, m) /\ From(d, m) = From(c, m)
    BY <1>2, <1>3, <1>7 DEF Pending, From
  <2> QED
    BY <1>2, <2>1, <2>2 DEF InTheEnd
<1>8. LeadsTo(d, q, r)
  <2> HIDE DEF d
  <2> QED
    BY <1>2, <1>5, <1>6, <1>7 DEF LeadsTo
<1> HIDE DEF T, d
<1>9. Leading(d, q)
  BY <1>3, <1>8 DEF Leading
<1> QED
  BY <1>9 DEF d, e


(* Entering a nested message: it is empty, and the field counts as read.      *)
LEMMA NestedLeads ==
  ASSUME NEW c, Nested(c), input \in Seq(0 .. 2 * Base - 1),
         NEW k \in 1 .. VarintBytes, NEW n \in 1 .. VarintBytes, NEW field \in MessageKind,
         FieldValid(c, k, field, n), NEW a, Typed(c, Value(c.pos, k) \div 8) = {a}, a[2] = field,
         NEW S, NEW p \in Seq(Holding(S)), Len(p) = Len(c.open), NEW r, LeadsTo(c, p, r)
  PROVE  Leading(After(c, k, field, n), Append(p, Empty))
<1> DEFINE l == Len(c.open)
           e == EndOf(c, k, field, n)
           d == After(c, k, field, n)
           q == Append(p, Empty)
           tag == Value(c.pos, k) \div 8
           from == c.pos + k + n
           x == ItemRead(c, k, field, n)
           inner == Meanings[<<field, from, e>>]
           frame == [kind |-> field, tag |-> tag, end |-> e]
           w == [m \in 1 .. l + 1 |-> IF m = l + 1 THEN inner ELSE r[m]]
<1>0. field \in Fields
  BY DEF Fields
<1>1. /\ l \in Nat \ {0} /\ Inner(c) = c.open[l] /\ c.open \in Seq(Frame)
      /\ Inner(c).kind \in MessageKind
  BY InnerRest, InnerEnd
<1>2. d.pos = from /\ d.open = Append(c.open, frame) /\ frame.kind = field /\ frame.tag = tag
      /\ frame.end = e
  BY DEF After, Entered, EndOf
<1>3. from \in Here /\ e \in Here
  <2>1. /\ c.pos \in Nat \ {0} /\ VarintBytes \in Nat /\ Inner(c).end \in Nat
        /\ Inner(c).end <= Len(input) + 1 /\ Len(input) \in Nat
    BY InnerEnd, WireAssumption
  <2>2. from \in Nat \ {0}
    BY <2>1
  <2>3. e \in from .. Inner(c).end
    BY DEF FieldValid, EndOf
  <2> HIDE DEF from, e
  <2>4. e \in Int /\ from <= e /\ e <= Inner(c).end
    BY <2>1, <2>2, <2>3
  <2> QED
    BY <2>1, <2>2, <2>4 DEF Here
<1> HIDE DEF d, frame
<1>4. /\ Len(d.open) = l + 1 /\ d.open[l + 1] = frame
      /\ \A m \in 1 .. l : d.open[m] = c.open[m]
  BY <1>1, <1>2
<1>5. /\ q[l + 1] = Empty /\ \A m \in 1 .. l : q[m] = p[m]
      /\ q \in Seq(Holding(S)) /\ \A m \in 1 .. l : p[m] \in Holding(S)
  <2>1. Empty \in Holding(S)
    BY DEF Empty, Holding
  <2>2. Len(p) = l
    OBVIOUS
  <2> HIDE DEF l
  <2> QED
    BY <1>1, <2>1, <2>2
<1>6. w[l + 1] = inner /\ \A m \in 1 .. l : w[m] = r[m]
  <2>1. l + 1 \in 1 .. l + 1 /\ \A m \in 1 .. l : m \in 1 .. l + 1 /\ m # l + 1
    BY <1>1
  <2> HIDE DEF l, inner
  <2> QED
    BY <2>1
<1>7. r[1] = Meaning /\ \A m \in 1 .. l : InTheEnd(c, p, r, m)
  BY DEF LeadsTo
<1>8. Told(Meanings, a[2], x) = inner /\ a[3] = "repeated"
  <2>1. x.from = from /\ x.end = e
    BY DEF ItemRead
  <2>2. a \in Attributes[Inner(c).kind]
    BY DEF Typed
  <2> HIDE DEF x, from, e
  <2> QED
    BY <1>1, <2>1, <2>2, MessagesRepeated DEF Told
<1>9. Continued(Empty, field, from, e) = inner
  BY <1>3, FromNothing
<1>10. l # l + 1 /\ l \in 1 .. l /\ l + 1 # l + 2
  BY <1>1
<1> HIDE DEF q, w
<1>11. InTheEnd(d, q, w, l + 1)
  <2>1. Pending(d, q, w, l + 1) = Empty /\ From(d, l + 1) = from
    BY <1>2, <1>4, <1>5 DEF Pending, From
  <2> HIDE DEF inner, from, e
  <2> QED
    BY <1>2, <1>4, <1>6, <1>9, <2>1 DEF InTheEnd
<1>12. InTheEnd(d, q, w, l)
  <2>1. r[l] = Continued(p[l], Inner(c).kind, c.pos, Inner(c).end)
    <3>1. InTheEnd(c, p, r, l)
      BY <1>7, <1>10
    <3>2. Pending(c, p, r, l) = p[l] /\ From(c, l) = c.pos
      BY DEF Pending, From
    <3> QED
      BY <1>1, <3>1, <3>2 DEF InTheEnd
  <2>2. Continued(p[l], Inner(c).kind, c.pos, Inner(c).end)
          = Continued(Merge(p[l], tag, "repeated", inner), Inner(c).kind, e, Inner(c).end)
    <3>1. p[l] \in Holding(S)
      BY <1>5, <1>10
    <3>2. Continued(p[l], Inner(c).kind, c.pos, Inner(c).end)
            = Continued(Merge(p[l], tag, a[3], Told(Meanings, a[2], x)),
                        Inner(c).kind, e, Inner(c).end)
      BY <1>0, <3>1, FieldCounts
    <3> QED
      BY <1>8, <3>2
  <2> HIDE DEF l, inner, tag, e
  <2>3. Pending(d, q, w, l) = Merge(p[l], tag, "repeated", inner) /\ From(d, l) = e
        /\ d.open[l] = Inner(c)
    BY <1>1, <1>2, <1>4, <1>5, <1>6, <1>10 DEF Pending, From
  <2> QED
    BY <1>6, <1>10, <2>1, <2>2, <2>3 DEF InTheEnd
<1>13. ASSUME NEW m \in 1 .. l, m # l
       PROVE  InTheEnd(d, q, w, m)
  <2>1. InTheEnd(c, p, r, m)
    BY <1>7, <1>13
  <2>2. m + 1 \in 1 .. l /\ m # l + 1
    BY <1>1, <1>13
  <2> HIDE DEF inner
  <2>3. Pending(d, q, w, m) = Pending(c, p, r, m) /\ From(d, m) = From(c, m)
    BY <1>4, <1>5, <1>6, <1>13, <2>2 DEF Pending, From
  <2> QED
    BY <1>4, <1>6, <2>1, <2>3 DEF InTheEnd
<1>14. w[1] = Meaning
  <2>1. 1 \in 1 .. l
    BY <1>1
  <2> QED
    BY <1>6, <1>7, <2>1
<1>15. LeadsTo(d, q, w)
  <2>1. \A m \in 1 .. l + 1 : m \in 1 .. l \/ m = l + 1
    BY <1>1
  <2> HIDE DEF l
  <2> QED
    BY <1>4, <1>11, <1>12, <1>13, <1>14, <2>1 DEF LeadsTo
<1>16. Leading(d, q)
  BY <1>5, <1>15 DEF Leading
<1> QED
  BY <1>16 DEF q, d

(* Leaving it: what it holds is what it was to come to.                       *)
LEMMA LeaveLeads ==
  ASSUME NEW c, Nested(c), input \in Seq(0 .. 2 * Base - 1), ~Inside(c), Len(c.open) > 1,
         NEW S, NEW p \in Seq(Holding(S)), Len(p) = Len(c.open), NEW r, LeadsTo(c, p, r),
         NEW q, q = Append(SubSeq(p, 1, Len(p) - 2),
                           Merge(p[Len(p) - 1], Inner(c).tag, "repeated", Last(p)))
  PROVE  Leading(Left(c), q)
<1> DEFINE l == Len(c.open)
           d == Left(c)
           v == p[l]
           T == S \cup {v}
           top == Merge(p[l - 1], Inner(c).tag, "repeated", v)
<1>1. /\ l \in Nat \ {0} /\ l > 1 /\ Inner(c) = c.open[l] /\ c.open \in Seq(Frame)
      /\ c.pos \in Nat /\ Inner(c).end \in Nat /\ c.pos <= Inner(c).end
      /\ Inner(c).end \in Here
  BY InnerRest, InnerEnd
<1>2. c.pos = Inner(c).end
  BY <1>1 DEF Inside
<1>3. c \in [pos : Nat \ {0}, open : Seq(Frame) \ {<<>>}]
  BY DEF Nested, Configuration
<1>4. d.pos = c.pos /\ d.open = SubSeq(c.open, 1, l - 1)
  BY <1>3 DEF Left, Front
<1> HIDE DEF d
<1>5. Len(d.open) = l - 1 /\ \A m \in 1 .. l - 1 : d.open[m] = c.open[m]
  BY <1>1, <1>4
<1>6. /\ q \in Seq(Holding(T)) /\ q[l - 1] = top /\ \A m \in 1 .. l - 2 : q[m] = p[m]
  <2>1. p[l - 1] \in Holding(S)
    BY <1>1
  <2>2. top \in Holding(T)
    BY <2>1, MergeTyped
  <2>3. p \in Seq(Holding(T))
    <3>1. S \subseteq T
      OBVIOUS
    <3>2. Holding(S) \subseteq Holding(T)
      BY <3>1, WiderHolding
    <3> QED
      BY <3>2, WiderSequence
  <2>4. q = Append(SubSeq(p, 1, l - 2), top)
    BY DEF Last
  <2> DEFINE H == Holding(T)
             b == l - 2
             f == SubSeq(p, 1, b)
  <2>5. Len(p) = l /\ b \in Nat /\ 1 <= b + 1 /\ b <= Len(p) /\ l - 1 = b + 1
    BY <1>1
  <2> HIDE DEF top, H, T, b, l
  <2>6. /\ f \in Seq(H) /\ Len(f) = b - 1 + 1
        /\ \A m \in 1 .. b - 1 + 1 : f[m] = p[1 + m - 1]
    BY <2>3, <2>5, Part DEF H
  <2> HIDE DEF f
  <2>7. b - 1 + 1 = b /\ \A m \in 1 .. b : 1 + m - 1 = m
    BY <2>5
  <2>8. f \in Seq(H) /\ Len(f) = b /\ \A m \in 1 .. b : f[m] = p[m]
    BY <2>6, <2>7
  <2>9. q = Append(f, top)
    BY <2>4 DEF f, b
  <2>10. q \in Seq(H) /\ q[b + 1] = top /\ \A m \in 1 .. b : q[m] = p[m]
    BY <2>2, <2>5, <2>8, <2>9 DEF H
  <2> QED
    BY <2>5, <2>10 DEF H, b
<1>7. r[1] = Meaning /\ \A m \in 1 .. l : InTheEnd(c, p, r, m)
  BY DEF LeadsTo
<1>8. r[l] = v
  <2>1. InTheEnd(c, p, r, l) /\ p[l] \in Holding(S)
    BY <1>1, <1>7
  <2>2. Pending(c, p, r, l) = v /\ From(c, l) = c.pos
    BY DEF Pending, From
  <2>3. Continued(v, Inner(c).kind, Inner(c).end, Inner(c).end) = v
    <3>1. v \in [1 .. 12 -> Seq(S)] /\ Inner(c).end \in Here
      BY <1>1, <2>1 DEF Holding
    <3> DEFINE j == Inner(c).end
               kind == Inner(c).kind
    <3> HIDE DEF v, j, kind
    <3>2. Continued(v, kind, j, j) = v
      BY <3>1, NothingMore DEF j
    <3> QED
      BY <3>2 DEF j, kind
  <2> QED
    BY <1>1, <1>2, <2>1, <2>2, <2>3 DEF InTheEnd
<1> HIDE DEF v
<1>9. InTheEnd(d, q, r, l - 1)
  <2>1. l - 1 \in 1 .. l /\ l - 1 # l /\ (l - 1) + 1 = l /\ l - 1 \in 1 .. l - 1
    BY <1>1
  <2>2. InTheEnd(c, p, r, l - 1)
    BY <1>7, <2>1
  <2>3. Pending(c, p, r, l - 1) = top /\ From(c, l - 1) = Inner(c).end
    BY <1>1, <1>8, <2>1 DEF Pending, From
  <2> HIDE DEF top, l
  <2>4. Pending(d, q, r, l - 1) = top /\ From(d, l - 1) = c.pos
    BY <1>4, <1>5, <1>6 DEF Pending, From
  <2> QED
    BY <1>2, <1>5, <2>1, <2>2, <2>3, <2>4 DEF InTheEnd
<1>10. ASSUME NEW m \in 1 .. l - 1, m # l - 1
       PROVE  InTheEnd(d, q, r, m)
  <2>1. m \in 1 .. l /\ m # l /\ m + 1 \in 1 .. l - 1 /\ m \in 1 .. l - 2
    BY <1>1, <1>10
  <2>2. InTheEnd(c, p, r, m)
    BY <1>7, <2>1
  <2> HIDE DEF l
  <2>3. Pending(d, q, r, m) = Pending(c, p, r, m) /\ From(d, m) = From(c, m)
    BY <1>5, <1>6, <1>10, <2>1 DEF Pending, From, l
  <2> QED
    BY <1>5, <1>10, <2>2, <2>3 DEF InTheEnd
<1>11. LeadsTo(d, q, r)
  <2> HIDE DEF l
  <2> QED
    BY <1>5, <1>7, <1>9, <1>10 DEF LeadsTo
<1> HIDE DEF T
<1>12. Leading(d, q)
  BY <1>6, <1>11 DEF Leading
<1> QED
  BY <1>12 DEF d

(* At the end nothing is left to read: the one message is the meaning.        *)
LEMMA EndLeads ==
  ASSUME NEW c, Nested(c), input \in Seq(0 .. 2 * Base - 1), Closed(c),
         NEW S, NEW p \in Seq(Holding(S)), Len(p) = Len(c.open), NEW r, LeadsTo(c, p, r)
  PROVE  p = <<Meaning>>
<1>1. /\ Len(c.open) = 1 /\ Inner(c) = c.open[1] /\ c.pos = Inner(c).end /\ Inner(c).end \in Here
  <2>1. Len(c.open) = 1 /\ ~(c.pos < Inner(c).end)
    BY DEF Closed, Inside
  <2>2. /\ Inner(c) = c.open[Len(c.open)] /\ Inner(c).end \in Here
        /\ c.pos \in Nat /\ Inner(c).end \in Nat /\ c.pos <= Inner(c).end
    BY InnerRest, InnerEnd
  <2> QED
    BY <2>1, <2>2
<1>2. p[1] \in [1 .. 12 -> Seq(S)] /\ p = <<p[1]>>
  <2>1. p[1] \in Holding(S) /\ p = <<p[1]>>
    BY <1>1
  <2> QED
    BY <2>1 DEF Holding
<1>3. r[1] = Meaning /\ InTheEnd(c, p, r, 1)
  BY <1>1 DEF LeadsTo
<1>4. r[1] = Continued(p[1], Inner(c).kind, Inner(c).end, Inner(c).end)
  <2>1. Pending(c, p, r, 1) = p[1] /\ From(c, 1) = c.pos
    BY <1>1 DEF Pending, From
  <2> QED
    BY <1>1, <1>3, <2>1 DEF InTheEnd
<1>5. r[1] = p[1]
  <2> DEFINE m == p[1]
             j == Inner(c).end
             kind == Inner(c).kind
  <2>1. m \in [1 .. 12 -> Seq(S)] /\ j \in Here
    BY <1>1, <1>2
  <2> HIDE DEF m, j, kind
  <2>2. Continued(m, kind, j, j) = m
    BY <2>1, NothingMore
  <2> QED
    BY <1>4, <2>2 DEF m, j, kind
<1> QED
  BY <1>2, <1>3, <1>5

(* What the decoder holds leads to the meaning of the input.                  *)
MeaningInv == Accepted => Leading(at, partial)

(* A step that leads on from the new configuration and stack.                 *)
LEMMA LeadsOn ==
  ASSUME UNCHANGED input, NEW d, at' = d, NEW q, partial' = q, Leading(d, q)
  PROVE  MeaningInv'
<1>1. PICK r : LeadsTo(d, q, r)
  BY DEF Leading
<1>2. \A l : InTheEnd(d, q, r, l)' <=> InTheEnd(d, q, r, l)
  BY MeaningFrame DEF InTheEnd, Pending, From, Merge
<1>3. LeadsTo(d, q, r)'
  BY <1>1, <1>2, MeaningFrame DEF LeadsTo
<1>4. LeadsTo(at, partial, r)'
  BY <1>3 DEF LeadsTo, InTheEnd, Pending, From
<1>5. \E S : partial' \in Seq(Holding(S))
  BY DEF Leading
<1>6. (\E S : partial \in Seq(Holding(S)))'
  BY <1>5 DEF Holding
<1> QED
  BY <1>4, <1>6 DEF MeaningInv, Leading

LEMMA MeaningInit == Init => MeaningInv
BY DEF Init, MeaningInv, Accepted

LEMMA MeaningStep == WireInv /\ MeaningInv /\ [Next]_vars => MeaningInv'
<1> SUFFICES ASSUME WireInv, MeaningInv, [Next]_vars PROVE MeaningInv'
  OBVIOUS
<1>1. input \in Seq(0 .. 2 * Base - 1) /\ Nested(at)
  BY AtNested DEF WireInv, TypeOK
<1>2. UNCHANGED input
  BY DEF Next, vars, ScanField, ReturnNested, Refuse, Accept, DecodeField, LeaveNested,
         DecodeFails, Decoded
<1>3. ASSUME Accepted
      PROVE  \E S, r : partial \in Seq(Holding(S)) /\ LeadsTo(at, partial, r)
                         /\ Len(partial) = Len(at.open)
  <2>1. Len(partial) = Len(at.open)
    BY <1>3 DEF WireInv, TypeOK, Retraces, Accepted
  <2> QED
    BY <1>3, <2>1 DEF MeaningInv, Leading
<1>4. CASE ScanField \/ ReturnNested \/ Refuse
  BY <1>4 DEF ScanField, ReturnNested, Refuse, MeaningInv, Accepted
<1>5. CASE Accept
  <2>1. <<Empty>> \in Seq(Holding({}))
    BY DEF Empty, Holding
  <2>2. Leading(Start, <<Empty>>)
    BY <1>1, <2>1, StartLeads DEF Leading
  <2>3. PICK d : d = Start
    OBVIOUS
  <2>4. at' = d /\ partial' = <<Empty>>
    BY <1>5, <2>3 DEF Accept
  <2> QED
    BY <1>2, <2>2, <2>3, <2>4, LeadsOn
<1>6. CASE DecodeField
  <2>1. PICK k \in 1 .. VarintBytes, n \in 1 .. VarintBytes, field \in Fields :
          \E a \in Typed(at, Value(at.pos, k) \div 8) :
            /\ FieldValid(at, k, field, n)
            /\ Typed(at, Value(at.pos, k) \div 8) = {a}
            /\ Matches(a, Value(at.pos, k) \div 8, field)
            /\ at' = After(at, k, field, n)
            /\ partial' = IF field \in MessageKind THEN Append(partial, Empty)
                          ELSE MergeInner(Value(at.pos, k) \div 8, a[3],
                                          Scalar(a[2], at.pos + k, n))
    BY <1>6, FieldDecoded
  <2>2. PICK a \in Typed(at, Value(at.pos, k) \div 8) :
            /\ Typed(at, Value(at.pos, k) \div 8) = {a}
            /\ Matches(a, Value(at.pos, k) \div 8, field)
            /\ partial' = IF field \in MessageKind THEN Append(partial, Empty)
                          ELSE MergeInner(Value(at.pos, k) \div 8, a[3],
                                          Scalar(a[2], at.pos + k, n))
    BY <2>1
  <2>3. PICK S, r : partial \in Seq(Holding(S)) /\ LeadsTo(at, partial, r)
                      /\ Len(partial) = Len(at.open)
    BY <1>3, <1>6 DEF DecodeField, Accepted
  <2>5. CASE field \in MessageKind
    <3>1. a[2] = field /\ partial' = Append(partial, Empty)
      BY <2>2, <2>5 DEF Matches
    <3>2. Leading(After(at, k, field, n), Append(partial, Empty))
      BY <1>1, <2>1, <2>2, <2>3, <2>5, <3>1, NestedLeads
    <3>3. PICK d, q : d = After(at, k, field, n) /\ q = Append(partial, Empty)
      OBVIOUS
    <3> QED
      BY <1>2, <2>1, <3>1, <3>2, <3>3, LeadsOn
  <2>6. CASE field \notin MessageKind
    <3>1. PICK q : q = partial'
      OBVIOUS
    <3>2. /\ a[2] \notin MessageKind
          /\ q = Append(Front(partial), Merge(Last(partial), Value(at.pos, k) \div 8, a[3],
                                              Scalar(a[2], at.pos + k, n)))
      BY <2>2, <2>6, <3>1 DEF Matches, MergeInner
    <3>3. Leading(Behind(at, EndOf(at, k, field, n)), q)
      BY <1>1, <2>1, <2>2, <2>3, <3>2, ScalarLeads
    <3>4. PICK d : d = Behind(at, EndOf(at, k, field, n))
      OBVIOUS
    <3>5. at' = d
      BY <2>1, <2>6, <3>4 DEF After, EndOf
    <3> QED
      BY <1>2, <3>1, <3>3, <3>4, <3>5, LeadsOn
  <2> QED BY <2>5, <2>6
<1>7. CASE LeaveNested
  <2>1. PICK S, r : partial \in Seq(Holding(S)) /\ LeadsTo(at, partial, r)
                      /\ Len(partial) = Len(at.open)
    BY <1>3, <1>7 DEF LeaveNested, Accepted
  <2>2. ~Inside(at) /\ Len(at.open) > 1
    BY <1>1, <1>7, InnerEnd DEF LeaveNested, Inside
  <2>3. PICK d, q : d = Left(at) /\ q = partial'
    OBVIOUS
  <2>4. q = Append(SubSeq(partial, 1, Len(partial) - 2),
                   Merge(partial[Len(partial) - 1], Inner(at).tag, "repeated", Last(partial)))
    BY <1>7, <2>3 DEF LeaveNested
  <2>5. Leading(Left(at), q)
    BY <1>1, <2>1, <2>2, <2>4, LeaveLeads
  <2>6. at' = d /\ partial' = q /\ Leading(d, q)
    BY <1>7, <2>3, <2>5 DEF LeaveNested
  <2> QED
    BY <1>2, <2>5, <2>6, LeadsOn
<1>8. CASE DecodeFails \/ Decoded \/ UNCHANGED vars
  <2>1. /\ UNCHANGED <<at, partial>> /\ (Accepted' => Accepted)
    BY <1>8 DEF DecodeFails, Decoded, vars, Accepted
  <2>2. ASSUME Accepted
        PROVE  MeaningInv'
    <3>1. PICK d, q : d = at /\ q = partial
      OBVIOUS
    <3>2. Leading(d, q)
      BY <2>2, <3>1 DEF MeaningInv
    <3>3. at' = d /\ partial' = q
      BY <2>1, <3>1
    <3> QED
      BY <1>2, <3>2, <3>3, LeadsOn
  <2> QED
    BY <2>1, <2>2 DEF MeaningInv
<1> QED
  BY <1>4, <1>5, <1>6, <1>7, <1>8 DEF Next

LEMMA MeaningHolds == WireInv /\ MeaningInv => DecodesLastOccurrence
<1> SUFFICES ASSUME WireInv, MeaningInv, phase = "decoded" PROVE partial = <<Meaning>>
  BY DEF DecodesLastOccurrence
<1>1. input \in Seq(0 .. 2 * Base - 1) /\ Nested(at) /\ Len(partial) = Len(at.open)
  BY AtNested DEF WireInv, TypeOK, Retraces
<1>2. Closed(at)
  BY DEF WireInv, Accepted, Retraces
<1>3. PICK S, r : partial \in Seq(Holding(S)) /\ LeadsTo(at, partial, r)
  BY DEF MeaningInv, Accepted, Leading
<1> QED
  BY <1>1, <1>2, <1>3, EndLeads

(* What an accepted input is decoded to is its meaning: of every field the    *)
(* occurrences that count, in order and in the message they stand in, for     *)
(* inputs of any length and any widths (protobuf.rs:16-155, 234-245).         *)
THEOREM DecodesTheMeaning == FilesSpec => []DecodesLastOccurrence
BY WireProjection, WireInit, WireStep, MeaningInit, MeaningStep, MeaningHolds, PTL DEF Spec

=============================================================================
