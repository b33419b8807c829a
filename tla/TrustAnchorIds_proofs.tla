------------------------ MODULE TrustAnchorIds_proofs ------------------------
(******************************************************************************)
(* The two computations between the signed data and the compiled constants.   *)
(*                                                                            *)
(* The sizing pass and the filling pass of each constant function agree, for  *)
(* anchor lists and IDs of any length: no index is out of bounds, no array is *)
(* left partly unfilled, every ID ends up at its place, a reader of the bytes *)
(* gets the list back, and evaluation stops exactly at what the generator     *)
(* refuses.  A pass that sums weights is described by the history of its      *)
(* running totals (Sums); the filling pass then moves from one of them to     *)
(* the next, and so does a reader of the result.                              *)
(*                                                                            *)
(* A number literal has the value of the digits written so far, whatever the  *)
(* separators between them, and to_string writes digits of the right value.   *)
(******************************************************************************)
EXTENDS MCTrustAnchorIds, WellFoundedInduction, TLAPS

(* The total before the k-th weight, when s is the history so far. *)
At(s, total, k) == IF k \in 1 .. Len(s) THEN s[k] ELSE total

Sums(s, total, w) ==
  /\ s \in Seq(Nat) /\ total \in Nat
  /\ At(s, total, 1) = 0
  /\ \A k \in 1 .. Len(s) : At(s, total, k + 1) = At(s, total, k) + w[k]
  /\ \A j, k \in 1 .. Len(s) + 1 : j <= k => At(s, total, j) <= At(s, total, k)

(* One more weight. *)
LEMMA SumsAppend ==
  ASSUME NEW s, NEW total, NEW n \in Nat, NEW w \in [1 .. n -> Nat],
         Sums(s, total, w), Len(s) < n
  PROVE  LET i == Len(s) + 1
         IN /\ Sums(Append(s, total), total + w[i], w)
            /\ Len(Append(s, total)) = i
            /\ \A k \in 1 .. i : At(Append(s, total), total + w[i], k) = At(s, total, k)
<1> DEFINE i == Len(s) + 1
           t == Append(s, total)
           m == total + w[i]
<1>1. /\ s \in Seq(Nat) /\ total \in Nat /\ Len(s) \in Nat /\ i \in 1 .. n /\ w[i] \in Nat
      /\ m \in Nat /\ m >= total
  BY DEF Sums
<1>2. t \in Seq(Nat) /\ Len(t) = i /\ t[i] = total /\ \A k \in 1 .. Len(s) : t[k] = s[k]
  BY <1>1
<1>3. \A k \in 1 .. i : At(t, m, k) = At(s, total, k)
  BY <1>1, <1>2 DEF At
<1>4. At(t, m, i + 1) = m /\ At(t, m, i) = total
  BY <1>1, <1>2 DEF At
<1>5. At(t, m, 1) = 0
  BY <1>1, <1>3 DEF Sums
<1>6. ASSUME NEW k \in 1 .. i PROVE At(t, m, k + 1) = At(t, m, k) + w[k]
  <2>1. CASE k = i
    BY <1>4, <2>1
  <2>2. CASE k # i
    <3>1. k \in 1 .. Len(s) /\ k + 1 \in 1 .. i
      BY <1>1, <2>2
    <3> QED
      BY <1>3, <3>1 DEF Sums
  <2> QED
    BY <2>1, <2>2
<1>7. \A k \in 1 .. i : At(s, total, k) \in Nat /\ At(s, total, k) <= total
  <2>1. At(s, total, i) = total
    BY <1>1 DEF At
  <2>2. \A k \in 1 .. i : At(s, total, k) \in Nat
    BY <1>1 DEF At
  <2> QED
    BY <1>1, <2>1, <2>2 DEF Sums
<1>8. ASSUME NEW j \in 1 .. i + 1, NEW k \in 1 .. i + 1, j <= k
      PROVE At(t, m, j) <= At(t, m, k)
  <2>1. CASE k = i + 1 /\ j = i + 1
    BY <1>1, <1>4, <2>1
  <2>2. CASE k = i + 1 /\ j # i + 1
    <3>1. j \in 1 .. i
      BY <1>1, <2>2
    <3>2. At(t, m, j) \in Nat /\ At(t, m, j) <= total
      BY <1>3, <1>7, <3>1
    <3> QED
      BY <1>1, <1>4, <2>2, <3>2
  <2>3. CASE k # i + 1
    <3>1. j \in 1 .. i /\ k \in 1 .. i
      BY <1>1, <1>8, <2>3
    <3> QED
      BY <1>3, <1>8, <3>1 DEF Sums
  <2> QED
    BY <2>1, <2>2, <2>3
<1> QED
  BY <1>1, <1>2, <1>3, <1>5, <1>6, <1>8 DEF Sums

(* A history that is complete bounds every step of the second pass. *)
LEMMA SumsBound ==
  ASSUME NEW s, NEW total, NEW n \in Nat, NEW w \in [1 .. n -> Nat],
         Sums(s, total, w), Len(s) = n
  PROVE  /\ At(s, total, n + 1) = total
         /\ \A k \in 1 .. n + 1 : At(s, total, k) \in Nat
         /\ \A k \in 1 .. n : /\ At(s, total, k + 1) = At(s, total, k) + w[k]
                              /\ At(s, total, k) + w[k] <= total
         /\ \A j, k \in 1 .. n : j < k => At(s, total, j) + w[j] <= At(s, total, k)
<1>1. At(s, total, n + 1) = total
  BY DEF At
<1>2. \A k \in 1 .. n + 1 : At(s, total, k) \in Nat
  BY DEF At, Sums
<1>3. \A k \in 1 .. n : k + 1 \in 1 .. n + 1 /\ At(s, total, k + 1) = At(s, total, k) + w[k]
  BY DEF Sums
<1>4. \A k \in 1 .. n : At(s, total, k) + w[k] <= total
  BY <1>1, <1>3 DEF Sums
<1>5. \A j, k \in 1 .. n : j < k => At(s, total, j) + w[j] <= At(s, total, k)
  BY <1>3 DEF Sums
<1> QED
  BY <1>1, <1>2, <1>3, <1>4, <1>5

-----------------------------------------------------------------------------
OneEach  == [k \in 1 .. Len(anchors) |-> IF anchors[k] = None THEN 0 ELSE 1]
SizeEach == [k \in 1 .. Len(anchors) |->
               IF anchors[k] = None THEN 0 ELSE EncodedSize(anchors[k])]

Rank(k)  == At(ranks, count, k)
Start(k) == At(starts, length, k)

(* The k-th anchor's ID is where both passes of the collector put it, ...     *)
Placed(k) == anchors[k] # None => ids[Rank(k) + 1] = anchors[k]

(* ... and its length and bytes are where both passes of the encoder put them.*)
Framed(k) ==
  anchors[k] # None =>
    /\ encoded[Start(k) + 1] = Len(anchors[k])
    /\ \A j \in 1 .. Len(anchors[k]) : encoded[Start(k) + 1 + j] = anchors[k][j]

CountInv ==
  /\ Sums(ranks, count, OneEach)
  /\ Len(ranks) = IF pc = "count" THEN index - 1 ELSE Len(anchors)

CollectInv ==
  /\ pc = "count" => filled = 0
  /\ pc # "count" => Len(ids) = count
  /\ pc = "collect" => filled = Rank(index) /\ \A k \in 1 .. index - 1 : Placed(k)
  /\ pc \in {"measure", "encode", "copy", "done"} => \A k \in 1 .. Len(anchors) : Placed(k)

MeasureInv ==
  /\ Sums(starts, length, SizeEach)
  /\ pc \in {"count", "collect"} => Len(starts) = 0
  /\ pc = "measure" => Len(starts) = index - 1
  /\ pc \in {"encode", "copy", "done"} => Len(starts) = Len(anchors)
  /\ \A k \in 1 .. Len(anchors) :
       k <= Len(starts) /\ anchors[k] # None => Len(anchors[k]) \in 1 .. MaxIdBytes

EncodeInv ==
  /\ pc \in {"count", "collect", "measure"} => offset = 0
  /\ pc \in {"encode", "copy", "done"} =>
       Len(encoded) = length /\ \A k \in 1 .. index - 1 : Framed(k)
  /\ pc = "encode" => offset = Start(index)
  /\ pc = "done" => index = Len(anchors) + 1

CopyInv ==
  pc = "copy" =>
    /\ index \in 1 .. Len(anchors) /\ HasId
    /\ copied \in 0 .. Len(Id)
    /\ offset = Start(index) + 1 + copied
    /\ encoded[Start(index) + 1] = Len(Id)
    /\ \A j \in 1 .. copied : encoded[Start(index) + 1 + j] = Id[j]

IInv ==
  /\ TypeOK /\ PassesAgree
  /\ CountInv /\ CollectInv /\ MeasureInv /\ EncodeInv /\ CopyInv

-----------------------------------------------------------------------------
LEMMA Weights ==
  ASSUME TypeOK
  PROVE  /\ Len(anchors) \in Nat
         /\ OneEach \in [1 .. Len(anchors) -> Nat]
         /\ SizeEach \in [1 .. Len(anchors) -> Nat]
         /\ \A k \in 1 .. Len(anchors) :
              anchors[k] # None => anchors[k] \in Seq(Byte) /\ Len(anchors[k]) \in Nat
<1>1. anchors \in Seq(Seq(Byte) \cup {None})
  BY DEF TypeOK, Column
<1>2. Len(anchors) \in Nat /\ \A k \in 1 .. Len(anchors) : anchors[k] \in Seq(Byte) \cup {None}
  BY <1>1
<1>3. \A k \in 1 .. Len(anchors) :
        anchors[k] # None => anchors[k] \in Seq(Byte) /\ Len(anchors[k]) \in Nat
  BY <1>2
<1>4. OneEach \in [1 .. Len(anchors) -> Nat]
  BY DEF OneEach
<1>5. SizeEach \in [1 .. Len(anchors) -> Nat]
  BY <1>3 DEF SizeEach, EncodedSize
<1> QED
  BY <1>2, <1>3, <1>4, <1>5

(* What the two sizing passes have established once they are over. *)
LEMMA Ranked ==
  ASSUME TypeOK, CountInv, pc # "count"
  PROVE  /\ Rank(Len(anchors) + 1) = count
         /\ \A k \in 1 .. Len(anchors) + 1 : Rank(k) \in Nat
         /\ \A k \in 1 .. Len(anchors) :
              Rank(k + 1) = Rank(k) + (IF anchors[k] = None THEN 0 ELSE 1)
         /\ \A k \in 1 .. Len(anchors) : anchors[k] # None => Rank(k) < count
         /\ \A j, k \in 1 .. Len(anchors) :
              j < k /\ anchors[j] # None => Rank(j) < Rank(k)
<1>1. Sums(ranks, count, OneEach) /\ Len(ranks) = Len(anchors)
  BY DEF CountInv
<1>2. count \in Nat
  BY DEF TypeOK
<1>3. \A k \in 1 .. Len(anchors) : OneEach[k] = (IF anchors[k] = None THEN 0 ELSE 1)
  BY DEF OneEach
<1>4. /\ Rank(Len(anchors) + 1) = count
      /\ \A k \in 1 .. Len(anchors) + 1 : Rank(k) \in Nat
      /\ \A k \in 1 .. Len(anchors) : /\ Rank(k + 1) = Rank(k) + OneEach[k]
                                      /\ Rank(k) + OneEach[k] <= count
      /\ \A j, k \in 1 .. Len(anchors) : j < k => Rank(j) + OneEach[j] <= Rank(k)
  BY <1>1, Weights, SumsBound DEF Rank
<1>5. \A k \in 1 .. Len(anchors) : anchors[k] # None => Rank(k) < count
  BY <1>2, <1>3, <1>4
<1>6. \A j, k \in 1 .. Len(anchors) : j < k /\ anchors[j] # None => Rank(j) < Rank(k)
  BY <1>3, <1>4
<1> QED
  BY <1>3, <1>4, <1>5, <1>6

LEMMA Measured ==
  ASSUME TypeOK, MeasureInv, pc \in {"encode", "copy", "done"}
  PROVE  /\ Start(Len(anchors) + 1) = length
         /\ \A k \in 1 .. Len(anchors) + 1 : Start(k) \in Nat
         /\ \A k \in 1 .. Len(anchors) :
              IF anchors[k] = None
              THEN Start(k + 1) = Start(k)
              ELSE /\ Start(k + 1) = Start(k) + 1 + Len(anchors[k])
                   /\ Start(k) + 1 + Len(anchors[k]) <= length
         /\ \A j, k \in 1 .. Len(anchors) :
              j < k /\ anchors[j] # None => Start(j) + 1 + Len(anchors[j]) <= Start(k)
<1>1. Sums(starts, length, SizeEach) /\ Len(starts) = Len(anchors)
  BY DEF MeasureInv
<1>2. \A k \in 1 .. Len(anchors) :
        SizeEach[k] = (IF anchors[k] = None THEN 0 ELSE Len(anchors[k]) + 1)
  BY DEF SizeEach, EncodedSize
<1>3. /\ Start(Len(anchors) + 1) = length
      /\ \A k \in 1 .. Len(anchors) + 1 : Start(k) \in Nat
      /\ \A k \in 1 .. Len(anchors) : /\ Start(k + 1) = Start(k) + SizeEach[k]
                                      /\ Start(k) + SizeEach[k] <= length
      /\ \A j, k \in 1 .. Len(anchors) : j < k => Start(j) + SizeEach[j] <= Start(k)
  BY <1>1, Weights, SumsBound DEF Start
<1>4. ASSUME NEW k \in 1 .. Len(anchors), anchors[k] # None
      PROVE /\ Start(k + 1) = Start(k) + 1 + Len(anchors[k])
            /\ Start(k) + 1 + Len(anchors[k]) <= length
  <2>1. SizeEach[k] = Len(anchors[k]) + 1 /\ Len(anchors[k]) \in Nat /\ Start(k) \in Nat
    BY <1>2, <1>3, <1>4, Weights
  <2> QED
    BY <1>3, <2>1
<1>5. ASSUME NEW j \in 1 .. Len(anchors), NEW k \in 1 .. Len(anchors),
             j < k, anchors[j] # None
      PROVE Start(j) + 1 + Len(anchors[j]) <= Start(k)
  <2>1. SizeEach[j] = Len(anchors[j]) + 1 /\ Len(anchors[j]) \in Nat /\ Start(j) \in Nat
    BY <1>2, <1>3, <1>5, Weights
  <2>2. Start(j) + SizeEach[j] <= Start(k)
    BY <1>3, <1>5
  <2> QED
    BY <2>1, <2>2
<1>6. \A k \in 1 .. Len(anchors) : anchors[k] = None => Start(k + 1) = Start(k)
  BY <1>2, <1>3
<1> QED
  BY <1>3, <1>4, <1>5, <1>6

-----------------------------------------------------------------------------
LEMMA InitInv == Init => IInv
<1> SUFFICES ASSUME Init PROVE IInv
  OBVIOUS
<1>1. TypeOK
  BY WireAssumption DEF Init, TypeOK, Column, Labels
<1>2. CountInv
  BY DEF Init, CountInv, Sums, At
<1>3. MeasureInv
  BY DEF Init, MeasureInv, Sums, At
<1> QED
  BY <1>1, <1>2, <1>3
  DEF Init, IInv, PassesAgree, CollectInv, EncodeInv, CopyInv

(* What a step that leaves an array and its history alone preserves. *)
LEMMA Frames ==
  /\ UNCHANGED <<anchors, ranks, count>> =>
       (Sums(ranks, count, OneEach) <=> Sums(ranks, count, OneEach)')
         /\ \A k : Rank(k)' = Rank(k)
  /\ UNCHANGED <<anchors, starts, length>> =>
       (Sums(starts, length, SizeEach) <=> Sums(starts, length, SizeEach)')
         /\ \A k : Start(k)' = Start(k)
  /\ UNCHANGED <<anchors, ids, ranks, count>> => \A k : Placed(k)' <=> Placed(k)
  /\ UNCHANGED <<anchors, encoded, starts, length>> => \A k : Framed(k)' <=> Framed(k)
<1>1. ASSUME UNCHANGED <<anchors, ranks, count>>
      PROVE (Sums(ranks, count, OneEach) <=> Sums(ranks, count, OneEach)')
              /\ \A k : Rank(k)' = Rank(k)
  BY <1>1 DEF Sums, At, OneEach, Rank
<1>2. ASSUME UNCHANGED <<anchors, starts, length>>
      PROVE (Sums(starts, length, SizeEach) <=> Sums(starts, length, SizeEach)')
              /\ \A k : Start(k)' = Start(k)
  BY <1>2 DEF Sums, At, SizeEach, Start, EncodedSize
<1>3. ASSUME UNCHANGED <<anchors, ids, ranks, count>> PROVE \A k : Placed(k)' <=> Placed(k)
  BY <1>3 DEF Placed, Rank, At
<1>4. ASSUME UNCHANGED <<anchors, encoded, starts, length>>
      PROVE \A k : Framed(k)' <=> Framed(k)
  BY <1>4 DEF Framed, Start, At
<1> QED
  BY <1>1, <1>2, <1>3, <1>4

LEMMA CountAnchorInv == IInv /\ CountAnchor => IInv'
<1> SUFFICES ASSUME IInv, CountAnchor PROVE IInv'
  OBVIOUS
<1> USE DEF IInv
<1>1. /\ pc = "count" /\ pc' = "count" /\ index \in 1 .. Len(anchors) /\ index' = index + 1
      /\ ranks' = Append(ranks, count) /\ count' = IF HasId THEN count + 1 ELSE count
      /\ UNCHANGED <<anchors, ids, filled, length, encoded, offset, copied, starts>>
  BY DEF CountAnchor, Loop, TypeOK
<1>2. count' = count + OneEach[index] /\ Len(ranks) + 1 = index
  BY <1>1 DEF OneEach, HasId, Id, CountInv, TypeOK
<1>3. /\ Sums(ranks', count', OneEach) /\ Len(ranks') = index /\ Len(anchors) \in Nat
  <2>1. OneEach \in [1 .. Len(anchors) -> Nat] /\ Len(anchors) \in Nat
    BY Weights
  <2>2. Sums(ranks, count, OneEach) /\ Len(ranks) \in Nat /\ Len(ranks) + 1 = index
    BY <1>2 DEF CountInv, Sums
  <2>3. Len(ranks) < Len(anchors)
    BY <1>1, <2>1, <2>2
  <2>4. /\ Sums(Append(ranks, count), count + OneEach[index], OneEach)
        /\ Len(Append(ranks, count)) = index
    BY <2>1, <2>2, <2>3, SumsAppend
  <2> QED
    BY <1>1, <1>2, <2>1, <2>4
<1>4. OneEach' = OneEach
  BY <1>1 DEF OneEach
<1>5. CountInv'
  BY <1>1, <1>3, <1>4 DEF CountInv
<1>6. TypeOK'
  BY <1>1, <1>3 DEF TypeOK, Column, Labels, Sums
<1>7. MeasureInv'
  BY <1>1, Frames DEF MeasureInv
<1> QED
  BY <1>1, <1>5, <1>6, <1>7 DEF PassesAgree, CollectInv, EncodeInv, CopyInv

LEMMA CountDoneInv == IInv /\ CountDone => IInv'
<1> SUFFICES ASSUME IInv, CountDone PROVE IInv'
  OBVIOUS
<1> USE DEF IInv
<1>1. /\ pc = "count" /\ pc' = "collect" /\ index = Len(anchors) + 1 /\ index' = 1
      /\ ids' = Cells(count, <<>>) /\ Len(anchors) \in Nat /\ count \in Nat
      /\ UNCHANGED <<anchors, count, filled, length, encoded, offset, copied, ranks, starts>>
  <2>1. Len(anchors) \in Nat
    BY Weights
  <2> QED
    BY <2>1 DEF CountDone, LoopDone, TypeOK
<1>2. ids' \in Seq(Seq(Byte)) /\ Len(ids') = count
  BY <1>1 DEF Cells
<1>3. CountInv'
  BY <1>1, Frames DEF CountInv
<1>4. TypeOK'
  BY <1>1, <1>2 DEF TypeOK, Column, Labels
<1>5. MeasureInv'
  BY <1>1, Frames DEF MeasureInv
<1>6. Rank(1)' = 0
  BY <1>3 DEF CountInv, Sums, Rank
<1>7. CollectInv'
  BY <1>1, <1>2, <1>6 DEF CollectInv
<1> QED
  BY <1>1, <1>3, <1>4, <1>5, <1>7 DEF PassesAgree, EncodeInv, CopyInv

LEMMA CollectAnchorInv == IInv /\ CollectAnchor => IInv'
<1> SUFFICES ASSUME IInv, CollectAnchor PROVE IInv'
  OBVIOUS
<1> USE DEF IInv
<1>1. pc = "collect" /\ index \in 1 .. Len(anchors) /\ filled = Rank(index) /\ Len(anchors) \in Nat
  BY Weights DEF CollectAnchor, Loop, TypeOK, CollectInv
<1>2. HasId => filled < count
  BY <1>1, Ranked DEF HasId, Id
<1>3. /\ ids' = IF HasId THEN Store(ids, filled, Id) ELSE ids
      /\ filled' = IF HasId THEN filled + 1 ELSE filled
      /\ index' = index + 1 /\ pc' = "collect"
      /\ UNCHANGED <<anchors, count, length, encoded, offset, copied, ranks, starts>>
  BY <1>1, <1>2 DEF CollectAnchor
<1>4. filled' = Rank(index + 1) /\ filled \in Nat /\ filled' \in Nat
  BY <1>1, <1>3, Ranked DEF HasId, Id
<1>5. /\ ids' \in Seq(Seq(Byte)) /\ Len(ids') = count
      /\ HasId => ids'[filled + 1] = Id
      /\ \A n \in 1 .. count : ~(HasId /\ n = filled + 1) => ids'[n] = ids[n]
  <2>1. ids \in Seq(Seq(Byte)) /\ Len(ids) = count /\ count \in Nat
    BY <1>1 DEF TypeOK, CollectInv
  <2>2. CASE HasId
    <3>1. Id \in Seq(Byte) /\ filled + 1 \in 1 .. Len(ids)
      BY <1>1, <1>2, <1>4, <2>1, <2>2, Weights DEF HasId, Id
    <3> QED
      BY <1>3, <2>1, <2>2, <3>1 DEF Store
  <2>3. CASE ~HasId
    BY <1>3, <2>1, <2>3
  <2> QED
    BY <2>2, <2>3
<1>6. ASSUME NEW k \in 1 .. index, anchors[k] # None PROVE ids'[Rank(k) + 1] = anchors[k]
  <2>1. CASE k = index
    BY <1>1, <1>5, <1>6, <2>1 DEF HasId, Id
  <2>2. CASE k < index
    <3>1. ids[Rank(k) + 1] = anchors[k]
      BY <1>1, <1>6, <2>2 DEF CollectInv, Placed
    <3>2. Rank(k) \in Nat /\ Rank(k) < count /\ Rank(k) < Rank(index)
      BY <1>1, <1>6, <2>2, Ranked
    <3>3. Rank(k) + 1 \in 1 .. count /\ Rank(k) + 1 # filled + 1
      BY <1>1, <1>4, <3>2 DEF TypeOK
    <3> QED
      BY <1>5, <3>1, <3>3
  <2> QED
    BY <1>1, <2>1, <2>2
<1>7. CountInv' /\ MeasureInv' /\ \A k : Rank(k)' = Rank(k)
  BY <1>1, <1>3, Frames DEF CountInv, MeasureInv
<1>8. CollectInv'
  <2>1. index' - 1 = index /\ filled' = Rank(index)'
    BY <1>1, <1>3, <1>4, <1>7 DEF Rank
  <2>2. ASSUME NEW k \in 1 .. index PROVE Placed(k)'
    BY <1>3, <1>6, <1>7 DEF Placed
  <2> QED
    BY <1>3, <1>5, <2>1, <2>2 DEF CollectInv
<1>9. TypeOK'
  BY <1>1, <1>3, <1>4, <1>5 DEF TypeOK, Column, Labels
<1> QED
  BY <1>1, <1>3, <1>7, <1>8, <1>9 DEF PassesAgree, EncodeInv, CopyInv

LEMMA CollectDoneInv == IInv /\ CollectDone => IInv'
<1> SUFFICES ASSUME IInv, CollectDone PROVE IInv'
  OBVIOUS
<1> USE DEF IInv
<1>1. pc = "collect" /\ index = Len(anchors) + 1 /\ Len(anchors) \in Nat
  BY Weights DEF CollectDone, LoopDone, TypeOK
<1>2. filled = count
  BY <1>1, Ranked DEF CollectInv
<1>3. /\ pc' = "measure" /\ index' = 1
      /\ UNCHANGED <<anchors, count, ids, filled, length, encoded, offset, copied, ranks, starts>>
  BY <1>2 DEF CollectDone
<1>4. CountInv' /\ MeasureInv' /\ \A k : Placed(k)' <=> Placed(k)
  BY <1>1, <1>3, Frames DEF CountInv, MeasureInv
<1>5. TypeOK'
  BY <1>1, <1>3 DEF TypeOK, Column, Labels
<1>6. CollectInv'
  <2>1. \A k \in 1 .. Len(anchors) : Placed(k)
    BY <1>1 DEF CollectInv
  <2>2. \A k \in 1 .. Len(anchors) : Placed(k)'
    BY <1>4, <2>1
  <2> QED
    BY <1>1, <1>3, <2>2 DEF CollectInv
<1> QED
  BY <1>1, <1>3, <1>4, <1>5, <1>6 DEF PassesAgree, EncodeInv, CopyInv

LEMMA MeasureAnchorInv == IInv /\ MeasureAnchor => IInv'
<1> SUFFICES ASSUME IInv, MeasureAnchor PROVE IInv'
  OBVIOUS
<1> USE DEF IInv
<1>1. /\ pc = "measure" /\ pc' = "measure" /\ index \in 1 .. Len(anchors) /\ index' = index + 1
      /\ starts' = Append(starts, length)
      /\ length' = IF HasId THEN length + EncodedSize(Id) ELSE length
      /\ UNCHANGED <<anchors, count, ids, filled, encoded, offset, copied, ranks>>
  BY DEF MeasureAnchor, Loop, TypeOK
<1>2. length' = length + SizeEach[index] /\ Len(starts) + 1 = index
  BY <1>1 DEF SizeEach, HasId, Id, MeasureInv, TypeOK
<1>3. /\ Sums(starts', length', SizeEach) /\ Len(starts') = index /\ Len(anchors) \in Nat
  <2>1. SizeEach \in [1 .. Len(anchors) -> Nat] /\ Len(anchors) \in Nat
    BY Weights
  <2>2. Sums(starts, length, SizeEach) /\ Len(starts) \in Nat /\ Len(starts) + 1 = index
    BY <1>2 DEF MeasureInv, Sums
  <2>3. Len(starts) < Len(anchors)
    BY <1>1, <2>1, <2>2
  <2>4. /\ Sums(Append(starts, length), length + SizeEach[index], SizeEach)
        /\ Len(Append(starts, length)) = index
    BY <2>1, <2>2, <2>3, SumsAppend
  <2> QED
    BY <1>1, <1>2, <2>1, <2>4
<1>4. SizeEach' = SizeEach
  BY <1>1 DEF SizeEach, EncodedSize
<1>5. MeasureInv'
  <2>1. ASSUME NEW k \in 1 .. Len(anchors), k <= index, anchors[k] # None
        PROVE  Len(anchors[k]) \in 1 .. MaxIdBytes
    <3>1. CASE k = index
      <4>1. /\ anchors[k] \in Seq(Byte) /\ anchors[k] # <<>> /\ Len(anchors[k]) <= MaxIdBytes
            /\ Len(anchors[k]) \in Nat
        BY <1>1, <2>1, <3>1, Weights DEF MeasureAnchor, HasId, Id, FitsPrefix
      <4>2. Len(anchors[k]) # 0
        BY <4>1
      <4> QED
        BY <4>1, <4>2, WireAssumption
    <3>2. CASE k < index
      BY <1>2, <2>1, <3>2 DEF MeasureInv, Sums
    <3> QED
      BY <1>1, <2>1, <3>1, <3>2
  <2> QED
    BY <1>1, <1>3, <1>4, <2>1 DEF MeasureInv
<1>6. TypeOK'
  BY <1>1, <1>3 DEF TypeOK, Column, Labels, Sums
<1>7. CountInv' /\ \A k : Placed(k)' <=> Placed(k)
  BY <1>1, Frames DEF CountInv
<1>8. CollectInv'
  <2>1. \A k \in 1 .. Len(anchors) : Placed(k)'
    BY <1>1, <1>7 DEF CollectInv
  <2> QED
    BY <1>1, <2>1 DEF CollectInv
<1> QED
  BY <1>1, <1>5, <1>6, <1>7, <1>8 DEF PassesAgree, EncodeInv, CopyInv

LEMMA MeasureDoneInv == IInv /\ MeasureDone => IInv'
<1> SUFFICES ASSUME IInv, MeasureDone PROVE IInv'
  OBVIOUS
<1> USE DEF IInv
<1>1. Len(anchors) \in Nat
  BY Weights
<1>2. /\ pc = "measure" /\ pc' = "encode" /\ index = Len(anchors) + 1 /\ index' = 1
      /\ encoded' = Cells(length, 0) /\ length \in Nat
      /\ UNCHANGED <<anchors, count, ids, filled, length, offset, copied, ranks, starts>>
  BY <1>1 DEF MeasureDone, LoopDone, TypeOK
<1>3. encoded' \in Seq(Byte) /\ Len(encoded') = length
  <2>1. 0 \in Byte
    BY WireAssumption DEF Byte
  <2> QED
    BY <1>2, <2>1 DEF Cells
<1>4. TypeOK'
  BY <1>1, <1>2, <1>3 DEF TypeOK, Column, Labels
<1>5. CountInv' /\ \A k : Placed(k)' <=> Placed(k)
  BY <1>2, Frames DEF CountInv
<1>6. MeasureInv'
  BY <1>1, <1>2, Frames DEF MeasureInv
<1>7. CollectInv'
  <2>1. \A k \in 1 .. Len(anchors) : Placed(k)'
    BY <1>2, <1>5 DEF CollectInv
  <2> QED
    BY <1>2, <2>1 DEF CollectInv
<1>8. Start(1)' = 0
  BY <1>6 DEF MeasureInv, Sums, Start
<1>9. EncodeInv'
  <2>1. Start(index)' = 0
    BY <1>2, <1>8 DEF Start
  <2> QED
    BY <1>2, <1>3, <2>1 DEF EncodeInv
<1> QED
  BY <1>2, <1>4, <1>5, <1>6, <1>7, <1>9 DEF PassesAgree, CopyInv

(* The steps of the encoder leave everything but its own array alone. *)
LEMMA EncoderFrame ==
  ASSUME IInv, pc \in {"encode", "copy"}, pc' \in {"encode", "copy", "done"},
         UNCHANGED <<anchors, count, ids, filled, length, ranks, starts>>
  PROVE  CountInv' /\ CollectInv' /\ MeasureInv'
<1> USE DEF IInv
<1>1. CountInv'
  BY Frames DEF CountInv
<1>2. MeasureInv'
  BY Frames DEF MeasureInv
<1>3. \A k \in 1 .. Len(anchors) : Placed(k)'
  BY Frames DEF CollectInv
<1>4. CollectInv'
  BY <1>3 DEF CollectInv
<1> QED
  BY <1>1, <1>2, <1>4

(* One byte written at offset disturbs no frame that ends before it. *)
LEMMA WriteKeepsFrames ==
  ASSUME IInv, pc \in {"encode", "copy"}, index \in 1 .. Len(anchors),
         Start(index) <= offset, offset < length,
         NEW value \in Byte, encoded' = Store(encoded, offset, value),
         UNCHANGED <<anchors, length, starts>>
  PROVE  /\ encoded' \in Seq(Byte) /\ Len(encoded') = length
         /\ encoded'[offset + 1] = value
         /\ \A n \in 1 .. offset : encoded'[n] = encoded[n]
         /\ \A k \in 1 .. index - 1 : Framed(k)'
<1> USE DEF IInv
<1>1. encoded \in Seq(Byte) /\ Len(encoded) = length /\ length \in Nat /\ offset \in Nat
  BY DEF TypeOK, EncodeInv
<1>2. /\ encoded' \in Seq(Byte) /\ Len(encoded') = length
      /\ encoded'[offset + 1] = value
      /\ \A n \in 1 .. offset : encoded'[n] = encoded[n]
  BY <1>1 DEF Store
<1>3. ASSUME NEW k \in 1 .. index - 1, anchors[k] # None
      PROVE  /\ encoded'[Start(k) + 1] = Len(anchors[k])
             /\ \A j \in 1 .. Len(anchors[k]) : encoded'[Start(k) + 1 + j] = anchors[k][j]
  <2>1. k \in 1 .. Len(anchors) /\ k < index /\ Len(anchors) \in Nat
    BY Weights
  <2>2. /\ Start(k) \in Nat /\ Start(index) \in Nat /\ Len(anchors[k]) \in Nat
        /\ Start(k) + 1 + Len(anchors[k]) <= Start(index)
    BY <1>3, <2>1, Measured, Weights
  <2>3. /\ encoded[Start(k) + 1] = Len(anchors[k])
        /\ \A j \in 1 .. Len(anchors[k]) : encoded[Start(k) + 1 + j] = anchors[k][j]
    BY <1>3 DEF EncodeInv, Framed
  <2>4. Start(k) + 1 \in 1 .. offset
    BY <1>1, <2>2
  <2>5. \A j \in 1 .. Len(anchors[k]) : Start(k) + 1 + j \in 1 .. offset
    BY <1>1, <2>2
  <2> QED
    BY <1>2, <2>3, <2>4, <2>5
<1>4. \A k \in 1 .. index - 1 : Framed(k)'
  <2>1. \A k : Start(k)' = Start(k)
    BY Frames
  <2> QED
    BY <1>3, <2>1 DEF Framed
<1> QED
  BY <1>2, <1>4

LEMMA SkipAnchorInv == IInv /\ SkipAnchor => IInv'
<1> SUFFICES ASSUME IInv, SkipAnchor PROVE IInv'
  OBVIOUS
<1> USE DEF IInv
<1>1. Len(anchors) \in Nat
  BY Weights
<1>2. /\ pc = "encode" /\ pc' = "encode" /\ index \in 1 .. Len(anchors) /\ index' = index + 1
      /\ anchors[index] = None
      /\ UNCHANGED <<anchors, count, ids, filled, length, encoded, offset, copied, ranks, starts>>
  BY <1>1 DEF SkipAnchor, Loop, HasId, Id, TypeOK
<1>3. CountInv' /\ CollectInv' /\ MeasureInv'
  BY <1>2, EncoderFrame
<1>4. TypeOK'
  BY <1>1, <1>2 DEF TypeOK, Column, Labels
<1>5. offset = Start(index + 1)
  BY <1>2, Measured DEF EncodeInv
<1>6. \A k : Start(k)' = Start(k)
  BY <1>2, Frames
<1>7. offset' = Start(index)'
  BY <1>2, <1>5, <1>6 DEF Start
<1>8. \A k \in 1 .. index : Framed(k)
  <2>1. Framed(index)
    BY <1>2 DEF Framed
  <2> QED
    BY <1>2, <2>1 DEF EncodeInv
<1>9. \A k \in 1 .. index : Framed(k)'
  BY <1>2, <1>8, Frames
<1>10. EncodeInv'
  BY <1>2, <1>7, <1>9 DEF EncodeInv
<1> QED
  BY <1>2, <1>3, <1>4, <1>10 DEF PassesAgree, CopyInv

LEMMA WritePrefixInv == IInv /\ WritePrefix => IInv'
<1> SUFFICES ASSUME IInv, WritePrefix PROVE IInv'
  OBVIOUS
<1> USE DEF IInv
<1>1. Len(anchors) \in Nat
  BY Weights
<1>2. /\ pc = "encode" /\ index \in 1 .. Len(anchors) /\ HasId /\ anchors[index] # None
      /\ offset = Start(index) /\ Len(Id) \in Nat
      /\ WriteByte(LengthByte(Id), "copy", 0)
  BY <1>1, Weights DEF WritePrefix, Loop, HasId, Id, TypeOK, EncodeInv
<1>3. Start(index) \in Nat /\ Start(index) + 1 + Len(Id) <= length
  BY <1>2, Measured DEF Id
<1>4. offset < length
  BY <1>2, <1>3 DEF TypeOK
<1>5. /\ encoded' = Store(encoded, offset, LengthByte(Id)) /\ offset' = offset + 1
      /\ pc' = "copy" /\ copied' = 0
      /\ UNCHANGED <<anchors, index, count, ids, filled, length, ranks, starts>>
  BY <1>2, <1>4 DEF WriteByte
<1>6. LengthByte(Id) = Len(Id) /\ LengthByte(Id) \in Byte
  <2>1. Len(Id) \in 1 .. MaxIdBytes
    BY <1>1, <1>2 DEF MeasureInv, Id
  <2>2. Len(Id) \in 0 .. Base - 1 /\ Base \in Nat
    BY <1>2, <2>1, WireAssumption
  <2>3. Len(Id) % Base = Len(Id)
    BY <2>2
  <2> QED
    BY <2>2, <2>3 DEF LengthByte, Byte
<1>7. /\ encoded' \in Seq(Byte) /\ Len(encoded') = length
      /\ encoded'[offset + 1] = Len(Id)
      /\ \A k \in 1 .. index - 1 : Framed(k)'
  BY <1>2, <1>3, <1>4, <1>5, <1>6, WriteKeepsFrames
<1>8. CountInv' /\ CollectInv' /\ MeasureInv'
  BY <1>2, <1>5, EncoderFrame
<1>9. TypeOK'
  BY <1>5, <1>7 DEF TypeOK, Column, Labels
<1>10. EncodeInv'
  BY <1>2, <1>5, <1>7 DEF EncodeInv
<1>11. CopyInv'
  <2>1. Start(index)' = Start(index) /\ Id' = Id /\ HasId'
    BY <1>2, <1>5 DEF Start, At, Id, HasId
  <2>2. offset' = Start(index) + 1 + 0
    BY <1>2, <1>3, <1>5
  <2> QED
    BY <1>2, <1>5, <1>7, <2>1, <2>2 DEF CopyInv
<1> QED
  BY <1>5, <1>8, <1>9, <1>10, <1>11 DEF PassesAgree

LEMMA CopyByteInv == IInv /\ CopyByte => IInv'
<1> SUFFICES ASSUME IInv, CopyByte PROVE IInv'
  OBVIOUS
<1> USE DEF IInv
<1>1. Len(anchors) \in Nat
  BY Weights
<1>2. /\ pc = "copy" /\ index \in 1 .. Len(anchors) /\ HasId /\ anchors[index] # None
      /\ Id \in Seq(Byte) /\ Len(Id) \in Nat
      /\ copied \in 0 .. Len(Id) - 1 /\ offset = Start(index) + 1 + copied
      /\ WriteByte(Id[copied + 1], "copy", copied + 1)
  BY <1>1, Weights DEF CopyByte, CopyInv, HasId, Id
<1>3. Start(index) \in Nat /\ Start(index) + 1 + Len(Id) <= length
  BY <1>2, Measured DEF Id
<1>4. offset < length /\ Start(index) <= offset
  BY <1>2, <1>3 DEF TypeOK
<1>5. /\ encoded' = Store(encoded, offset, Id[copied + 1]) /\ offset' = offset + 1
      /\ pc' = "copy" /\ copied' = copied + 1
      /\ UNCHANGED <<anchors, index, count, ids, filled, length, ranks, starts>>
  BY <1>2, <1>4 DEF WriteByte
<1>6. Id[copied + 1] \in Byte
  BY <1>2
<1>7. /\ encoded' \in Seq(Byte) /\ Len(encoded') = length
      /\ encoded'[offset + 1] = Id[copied + 1]
      /\ \A n \in 1 .. offset : encoded'[n] = encoded[n]
      /\ \A k \in 1 .. index - 1 : Framed(k)'
  BY <1>2, <1>4, <1>5, <1>6, WriteKeepsFrames
<1>8. CountInv' /\ CollectInv' /\ MeasureInv'
  BY <1>2, <1>5, EncoderFrame
<1>9. TypeOK'
  BY <1>5, <1>7 DEF TypeOK, Column, Labels
<1>10. EncodeInv'
  BY <1>2, <1>5, <1>7 DEF EncodeInv
<1>11. CopyInv'
  <2>1. Start(index)' = Start(index) /\ Id' = Id /\ HasId'
    BY <1>2, <1>5 DEF Start, At, Id, HasId
  <2>2. offset' = Start(index) + 1 + (copied + 1) /\ copied + 1 \in 0 .. Len(Id)
    BY <1>2, <1>3, <1>5
  <2>3. encoded'[Start(index) + 1] = Len(Id)
    <3>1. Start(index) + 1 \in 1 .. offset
      BY <1>2, <1>3
    <3> QED
      BY <1>2, <1>7, <3>1 DEF CopyInv
  <2>4. ASSUME NEW j \in 1 .. copied + 1 PROVE encoded'[Start(index) + 1 + j] = Id[j]
    <3>1. CASE j = copied + 1
      <4>1. Start(index) + 1 + j = offset + 1
        BY <1>2, <1>3, <3>1
      <4> QED
        BY <1>7, <3>1, <4>1
    <3>2. CASE j # copied + 1
      <4>1. j \in 1 .. copied /\ Start(index) + 1 + j \in 1 .. offset
        BY <1>2, <1>3, <3>2
      <4> QED
        BY <1>2, <1>7, <4>1 DEF CopyInv
    <3> QED
      BY <3>1, <3>2
  <2> QED
    BY <1>2, <1>5, <2>1, <2>2, <2>3, <2>4 DEF CopyInv
<1> QED
  BY <1>5, <1>8, <1>9, <1>10, <1>11 DEF PassesAgree

LEMMA CopyDoneInv == IInv /\ CopyDone => IInv'
<1> SUFFICES ASSUME IInv, CopyDone PROVE IInv'
  OBVIOUS
<1> USE DEF IInv
<1>1. Len(anchors) \in Nat
  BY Weights
<1>2. /\ pc = "copy" /\ pc' = "encode" /\ index \in 1 .. Len(anchors) /\ index' = index + 1
      /\ anchors[index] # None /\ Len(Id) \in Nat /\ copied = Len(Id)
      /\ offset = Start(index) + 1 + copied
      /\ UNCHANGED <<anchors, count, ids, filled, length, encoded, offset, copied, ranks, starts>>
  BY <1>1, Weights DEF CopyDone, CopyInv, HasId, Id
<1>3. CountInv' /\ CollectInv' /\ MeasureInv'
  BY <1>2, EncoderFrame
<1>4. TypeOK'
  BY <1>1, <1>2 DEF TypeOK, Column, Labels
<1>5. offset = Start(index + 1)
  BY <1>2, Measured DEF Id
<1>6. \A k : Start(k)' = Start(k)
  BY <1>2, Frames
<1>7. offset' = Start(index)'
  BY <1>2, <1>5, <1>6 DEF Start
<1>8. \A k \in 1 .. index : Framed(k)
  <2>1. Framed(index)
    BY <1>2 DEF Framed, CopyInv, Id
  <2> QED
    BY <1>2, <2>1 DEF EncodeInv
<1>9. \A k \in 1 .. index : Framed(k)'
  BY <1>2, <1>8, Frames
<1>10. EncodeInv'
  BY <1>2, <1>7, <1>9 DEF EncodeInv
<1> QED
  BY <1>2, <1>3, <1>4, <1>10 DEF PassesAgree, CopyInv

LEMMA EncodeDoneInv == IInv /\ EncodeDone => IInv'
<1> SUFFICES ASSUME IInv, EncodeDone PROVE IInv'
  OBVIOUS
<1> USE DEF IInv
<1>1. Len(anchors) \in Nat
  BY Weights
<1>2. pc = "encode" /\ index = Len(anchors) + 1
  <2>1. pc = "encode" /\ index > Len(anchors)
    BY DEF EncodeDone, LoopDone
  <2>2. index \in 1 .. Len(anchors) + 1
    BY DEF TypeOK
  <2> QED
    BY <1>1, <2>1, <2>2
<1>3. offset = length
  BY <1>2, Measured DEF EncodeInv
<1>4. /\ pc' = "done"
      /\ UNCHANGED <<anchors, index, count, ids, filled, length, encoded, offset, copied,
                     ranks, starts>>
  BY <1>3 DEF EncodeDone
<1>5. CountInv' /\ CollectInv' /\ MeasureInv'
  BY <1>2, <1>4, EncoderFrame
<1>6. TypeOK'
  BY <1>1, <1>4 DEF TypeOK, Column, Labels
<1>7. \A k : Framed(k)' <=> Framed(k)
  BY <1>4, Frames
<1>8. EncodeInv'
  BY <1>2, <1>4, <1>7 DEF EncodeInv
<1> QED
  BY <1>4, <1>5, <1>6, <1>8 DEF PassesAgree, CopyInv

(* The assertions on the data end the evaluation. *)
LEMMA StopInv == IInv /\ (MeasureBadId \/ MeasureTooLong) => IInv'
<1> SUFFICES ASSUME IInv, MeasureBadId \/ MeasureTooLong PROVE IInv'
  OBVIOUS
<1> USE DEF IInv
<1>1. /\ pc = "measure" /\ pc' = "panic_measure"
      /\ UNCHANGED <<anchors, index, count, ids, filled, length, encoded, offset, copied,
                     ranks, starts>>
  BY DEF MeasureBadId, MeasureTooLong, Stop, Loop, LoopDone
<1>2. TypeOK'
  BY <1>1 DEF TypeOK, Column, Labels, Panics
<1>3. CountInv' /\ MeasureInv'
  BY <1>1, Frames DEF CountInv, MeasureInv
<1> QED
  BY <1>1, <1>2, <1>3 DEF PassesAgree, CollectInv, EncodeInv, CopyInv

LEMMA NextInv == IInv /\ [Next]_vars => IInv'
<1> SUFFICES ASSUME IInv, [Next]_vars PROVE IInv'
  OBVIOUS
<1>1. CASE UNCHANGED vars
  <2>1. UNCHANGED <<anchors, pc, index, count, ids, filled, length, encoded, offset, copied,
                    ranks, starts>>
    BY <1>1 DEF vars
  <2>2. TypeOK' /\ PassesAgree'
    BY <2>1 DEF IInv, TypeOK, PassesAgree, Column
  <2>3. CountInv' /\ MeasureInv'
    BY <2>1, Frames DEF IInv, CountInv, MeasureInv
  <2>4. (Rank(index)' = Rank(index)) /\ (Start(index)' = Start(index))
    BY <2>1 DEF Rank, Start, At
  <2>5. CollectInv'
    BY <2>1, <2>4, Frames DEF IInv, CollectInv
  <2>6. EncodeInv'
    BY <2>1, <2>4, Frames DEF IInv, EncodeInv
  <2>7. CopyInv'
    BY <2>1, <2>4 DEF IInv, CopyInv, HasId, Id
  <2> QED
    BY <2>2, <2>3, <2>5, <2>6, <2>7 DEF IInv
<1> QED
  BY <1>1, CountAnchorInv, CountDoneInv, CollectAnchorInv, CollectDoneInv, MeasureAnchorInv,
     MeasureDoneInv, StopInv, SkipAnchorInv, WritePrefixInv, CopyByteInv, CopyDoneInv,
     EncodeDoneInv
  DEF Next

LEMMA Invariance == Spec => []IInv
  BY InitInv, NextInv, PTL DEF Spec

-----------------------------------------------------------------------------
(* Type correctness for anchor lists and IDs of any length. *)
THEOREM TypeCorrect == Spec => []TypeOK
<1>1. IInv => TypeOK
  BY DEF IInv
<1> QED
  BY <1>1, Invariance, PTL

(* For every anchor list, the arrays sized by one pass are filled exactly by  *)
(* the other: the collector's and the encoder's own assertions and index      *)
(* checks never fail (lib.rs:135-151, 183-207).                               *)
THEOREM PassesAlwaysAgree == Spec => []PassesAgree
<1>1. IInv => PassesAgree
  BY DEF IInv
<1> QED
  BY <1>1, Invariance, PTL

(* When evaluation is done, every published ID stands in the collected array  *)
(* and, behind its exact length, in the encoded one, each at the place the    *)
(* anchors before it determine (lib.rs:104-207).                              *)
Complete ==
  pc = "done" => \A k \in 1 .. Len(anchors) : Placed(k) /\ Framed(k)

THEOREM EveryIdInPlace == Spec => []Complete
<1>1. IInv => Complete
  BY DEF IInv, Complete, CollectInv, EncodeInv
<1> QED
  BY <1>1, Invariance, PTL

-----------------------------------------------------------------------------
(* Functions defined by recursion on a position *)

LEMMA LeastNumber ==
  ASSUME NEW S \in SUBSET Nat, S # {}
  PROVE  \E m \in S : \A n \in S : m <= n
<1> DEFINE R == OpToRel(<, Nat)
<1>1. IsWellFoundedOn(R, Nat)
  BY NatLessThanWellFounded
<1> HIDE DEF R
<1>2. PICK m \in S : \A n \in S : <<n, m>> \notin R
  BY <1>1, WFMin
<1>3. \A n, k \in Nat : n < k => <<n, k>> \in R
  BY DEF R, OpToRel
<1>4. \A n \in S : ~(n < m)
  BY <1>2, <1>3
<1>5. m \in Nat /\ \A n \in S : n \in Nat
  OBVIOUS
<1>6. \A n \in S : m <= n
  BY <1>4, <1>5
<1> QED
  BY <1>6

(* Induction over the positions 0 .. n, for the set of those that satisfy     *)
(* something.                                                                 *)
LEMMA UpTo ==
  ASSUME NEW n \in Nat, NEW P, 0 \in P, \A k \in 1 .. n : k - 1 \in P => k \in P
  PROVE  \A k \in 0 .. n : k \in P
<1> DEFINE Q == {k \in 0 .. n : k \notin P}
<1>1. SUFFICES ASSUME Q # {} PROVE FALSE
  OBVIOUS
<1>2. PICK m \in Q : \A k \in Q : m <= k
  <2>1. Q \in SUBSET Nat
    OBVIOUS
  <2> HIDE DEF Q
  <2> QED
    BY <1>1, <2>1, LeastNumber
<1>3. m \in 1 .. n /\ m - 1 \in 0 .. n /\ m - 1 \notin Q
  BY <1>2
<1> QED
  BY <1>2, <1>3

-----------------------------------------------------------------------------
(* The limits of the generator *)

(* What the measuring pass returns is the size the generator computed. *)
LEMMA SizesAgree ==
  ASSUME IInv, Len(starts) = Len(anchors)
  PROVE  EncodedIdsLen(anchors) = length
<1> DEFINE n == Len(anchors)
           Body(f) == [k \in 0 .. n |->
                         IF k = 0 THEN 0
                         ELSE f[k - 1] + (IF anchors[k] = None THEN 0 ELSE 1 + Len(anchors[k]))]
           f == [k \in 0 .. n |-> Start(k + 1)]
           g == CHOOSE h : h = Body(h)
<1>1. /\ n \in Nat /\ SizeEach \in [1 .. n -> Nat]
      /\ Sums(starts, length, SizeEach) /\ Len(starts) = n
  BY Weights DEF IInv, MeasureInv
<1>2. /\ \A k \in 1 .. n : SizeEach[k] = (IF anchors[k] = None THEN 0 ELSE 1 + Len(anchors[k]))
  BY <1>1, Weights DEF IInv, SizeEach, EncodedSize
<1>3. /\ Start(1) = 0 /\ Start(n + 1) = length
      /\ \A k \in 1 .. n : Start(k + 1) = Start(k) + SizeEach[k]
  BY <1>1, SumsBound DEF Start, Sums
<1>4. f = Body(f)
  <2>1. ASSUME NEW k \in 0 .. n
        PROVE  f[k] = Body(f)[k]
    <3>1. CASE k = 0
      BY <1>3, <3>1
    <3>2. CASE k # 0
      <4>1. k \in 1 .. n /\ k - 1 \in 0 .. n /\ (k - 1) + 1 = k
        BY <1>1, <3>2
      <4>2. f[k] = Start(k + 1) /\ f[k - 1] = Start(k)
        BY <4>1
      <4> QED
        BY <1>2, <1>3, <3>2, <4>1, <4>2
    <3> QED
      BY <3>1, <3>2
  <2>2. f = [k \in 0 .. n |-> f[k]]
    OBVIOUS
  <2> QED
    BY <2>1, <2>2
<1>5. g = Body(g)
  BY <1>4
<1>6. EncodedIdsLen(anchors) = g[n]
  BY DEF EncodedIdsLen
<1> HIDE DEF f, g
<1> DEFINE P == {k \in 0 .. n : g[k] = f[k]}
<1>7. 0 \in P
  <2>1. 0 \in 0 .. n /\ g[0] = Body(g)[0] /\ f[0] = Body(f)[0]
    BY <1>1, <1>4, <1>5
  <2> QED
    BY <2>1
<1>8. ASSUME NEW k \in 1 .. n, k - 1 \in P
      PROVE  k \in P
  <2>1. k \in 0 .. n /\ k # 0 /\ g[k - 1] = f[k - 1]
    BY <1>1, <1>8
  <2>2. g[k] = Body(g)[k] /\ f[k] = Body(f)[k]
    BY <1>4, <1>5, <2>1
  <2> QED
    BY <2>1, <2>2
<1>9. n \in P
  <2> HIDE DEF P
  <2>1. \A k \in 0 .. n : k \in P
    BY <1>1, <1>7, <1>8, UpTo
  <2> QED
    BY <1>1, <2>1
<1>10. f[n] = length
  BY <1>1, <1>3 DEF f
<1> QED
  BY <1>6, <1>9, <1>10

Limits ==
  /\ pc = "panic_measure" => ~GeneratorAccepts(anchors)
  /\ pc \in {"encode", "copy", "done"} => length <= MaxVector

LEMMA NextLimits ==
  ASSUME IInv, Limits, [Next]_vars
  PROVE  Limits'
<1>1. CASE MeasureBadId
  <2>1. /\ pc' = "panic_measure" /\ anchors' = anchors /\ index \in 1 .. Len(anchors)
        /\ Id # None /\ (Id = <<>> \/ ~FitsPrefix(Id))
    BY <1>1 DEF MeasureBadId, Stop, Loop, HasId, IInv, TypeOK
  <2>2. index \in DOMAIN anchors /\ anchors[index] # None
        /\ Len(anchors[index]) \notin 1 .. MaxIdBytes
    <3>1. anchors \in Seq(Seq(Byte) \cup {None})
      BY DEF IInv, TypeOK, Column
    <3>2. index \in DOMAIN anchors
      BY <2>1, <3>1
    <3>3. anchors[index] = <<>> => Len(anchors[index]) = 0
      OBVIOUS
    <3> QED
      BY <2>1, <3>2, <3>3, WireAssumption DEF Id, FitsPrefix
  <2>3. ~GeneratorAccepts(anchors)
    BY <2>2 DEF GeneratorAccepts
  <2>4. GeneratorAccepts(anchors)' <=> GeneratorAccepts(anchors)
    BY <2>1 DEF GeneratorAccepts
  <2> QED
    BY <2>1, <2>3, <2>4 DEF Limits
<1>2. CASE MeasureTooLong
  <2>1. /\ pc = "measure" /\ pc' = "panic_measure" /\ anchors' = anchors
        /\ index = Len(anchors) + 1 /\ ~(length <= MaxVector)
    <3>1. Len(anchors) \in Nat
      BY Weights DEF IInv
    <3> QED
      BY <1>2, <3>1 DEF MeasureTooLong, Stop, LoopDone, FitsOuterVector, IInv, TypeOK
  <2>2. Len(starts) = Len(anchors)
    <3>1. Len(anchors) \in Nat
      BY Weights DEF IInv
    <3> QED
      BY <2>1, <3>1 DEF IInv, MeasureInv
  <2>3. ~GeneratorAccepts(anchors)
    BY <2>1, <2>2, SizesAgree DEF GeneratorAccepts
  <2>4. GeneratorAccepts(anchors)' <=> GeneratorAccepts(anchors)
    BY <2>1 DEF GeneratorAccepts
  <2> QED
    BY <2>1, <2>3, <2>4 DEF Limits
<1>3. CASE MeasureDone
  BY <1>3 DEF MeasureDone, FitsOuterVector, Limits
<1>4. CASE CountAnchor \/ CountDone \/ CollectAnchor \/ CollectDone \/ MeasureAnchor
  BY <1>4 DEF CountAnchor, CountDone, CollectAnchor, CollectDone, MeasureAnchor, Stop, Loop,
              LoopDone, Limits
<1>5. CASE SkipAnchor \/ WritePrefix \/ CopyByte \/ CopyDone \/ EncodeDone
  <2>1. pc \in {"encode", "copy"} /\ pc' # "panic_measure" /\ length' = length
    BY <1>5 DEF SkipAnchor, WritePrefix, CopyByte, CopyDone, EncodeDone, WriteByte, Stop, Loop,
                LoopDone
  <2> QED
    BY <2>1 DEF Limits
<1>6. CASE UNCHANGED vars
  <2>1. GeneratorAccepts(anchors)' <=> GeneratorAccepts(anchors)
    BY <1>6 DEF vars, GeneratorAccepts
  <2> QED
    BY <1>6, <2>1 DEF vars, Limits
<1> QED
  BY <1>1, <1>2, <1>3, <1>4, <1>5, <1>6 DEF Next

(* What the generator accepts compiles, and what compiles is within its       *)
(* limits, for columns of any length (lib.rs:155-179, generator.rs:58-70,     *)
(* certificates.rs:53-58).                                                    *)
THEOREM CompilesExactly == Spec => []CompilesIffAccepted
<1>1. Init => Limits
  BY DEF Init, Limits
<1>2. IInv /\ Limits => CompilesIffAccepted
  <2> SUFFICES ASSUME IInv, Limits PROVE CompilesIffAccepted
    OBVIOUS
  <2>1. pc \in Panics => pc = "panic_measure"
    BY DEF IInv, PassesAgree, Panics
  <2>2. ASSUME pc = "done"
        PROVE  GeneratorAccepts(anchors)
    <3>1. Len(starts) = Len(anchors) /\ length <= MaxVector
      BY <2>2 DEF IInv, MeasureInv, Limits
    <3>2. \A k \in 1 .. Len(anchors) : anchors[k] # None => Len(anchors[k]) \in 1 .. MaxIdBytes
      BY <3>1, Weights DEF IInv, MeasureInv
    <3>3. DOMAIN anchors = 1 .. Len(anchors)
      BY DEF IInv, TypeOK, Column
    <3> QED
      BY <3>1, <3>2, <3>3, SizesAgree DEF GeneratorAccepts
  <2> QED
    BY <2>1, <2>2 DEF Limits, CompilesIffAccepted
<1> QED
  BY <1>1, <1>2, InitInv, NextInv, NextLimits, PTL DEF Spec

-----------------------------------------------------------------------------
(* The round trip *)

(* What is to come of a list after one more of its elements. *)
LEMMA HeadOfRest ==
  ASSUME NEW S, NEW list \in Seq(S), NEW r \in 1 .. Len(list)
  PROVE  <<list[r]>> \o SubSeq(list, r + 1, Len(list)) = SubSeq(list, r, Len(list))
<1> DEFINE n == Len(list)
           a == SubSeq(list, r + 1, n)
           b == SubSeq(list, r, n)
<1>1. n \in Nat /\ r \in 1 .. n /\ \A k \in 1 .. n : list[k] \in S
  OBVIOUS
<1>2. a \in Seq(S) /\ Len(a) = n - r /\ \A k \in 1 .. n - r : a[k] = list[r + k]
  BY <1>1
<1>3. b \in Seq(S) /\ Len(b) = n - r + 1 /\ \A k \in 1 .. n - r + 1 : b[k] = list[r + k - 1]
  BY <1>1
<1> HIDE DEF a, b, n
<1>4. <<list[r]>> \o a \in Seq(S) /\ Len(<<list[r]>> \o a) = n - r + 1
  BY <1>1, <1>2
<1>5. ASSUME NEW k \in 1 .. n - r + 1
      PROVE  (<<list[r]>> \o a)[k] = b[k]
  <2>1. CASE k = 1
    BY <1>1, <1>2, <1>3, <2>1
  <2>2. CASE k # 1
    <3>1. k - 1 \in 1 .. n - r /\ r + (k - 1) = r + k - 1
      BY <1>1, <2>2
    <3>2. (<<list[r]>> \o a)[k] = a[k - 1]
      BY <1>1, <1>2, <3>1
    <3> QED
      BY <1>2, <1>3, <3>1, <3>2
  <2> QED
    BY <2>1, <2>2
<1> QED
  BY <1>3, <1>4, <1>5 DEF a, b, n

LEMMA OneMoreOf ==
  ASSUME NEW S, NEW list \in Seq(S), NEW k \in 0 .. Len(list) - 1
  PROVE  SubSeq(list, 1, k + 1) = Append(SubSeq(list, 1, k), list[k + 1])
OBVIOUS

(* The collector's array is the list of published IDs. *)
LEMMA CollectedAll ==
  ASSUME IInv, pc = "done"
  PROVE  ids = Published(anchors)
<1> DEFINE n == Len(anchors)
           Body(f) == [k \in 0 .. n |->
                         IF k = 0 THEN <<>>
                         ELSE IF anchors[k] = None THEN f[k - 1]
                         ELSE Append(f[k - 1], anchors[k])]
           f == [k \in 0 .. n |-> SubSeq(ids, 1, Rank(k + 1))]
           g == CHOOSE h : h = Body(h)
<1>1. /\ n \in Nat /\ ids \in Seq(Seq(Byte)) /\ Len(ids) = count /\ count \in Nat
  BY Weights DEF IInv, TypeOK, CollectInv
<1>2. /\ Rank(1) = 0 /\ Rank(n + 1) = count
      /\ \A k \in 1 .. n + 1 : Rank(k) \in Nat
      /\ \A k \in 1 .. n : Rank(k + 1) = Rank(k) + (IF anchors[k] = None THEN 0 ELSE 1)
      /\ \A k \in 1 .. n : anchors[k] # None => Rank(k) < count
  BY Ranked DEF IInv, CountInv, Sums, Rank
<1>3. \A k \in 1 .. n : anchors[k] # None => ids[Rank(k) + 1] = anchors[k]
  BY DEF IInv, CollectInv, Placed
<1>4. f = Body(f)
  <2>1. ASSUME NEW k \in 0 .. n
        PROVE  f[k] = Body(f)[k]
    <3>1. CASE k = 0
      <4>1. f[k] = SubSeq(ids, 1, 0)
        BY <1>2, <3>1
      <4>2. SubSeq(ids, 1, 0) = <<>>
        BY <1>1
      <4> QED
        BY <3>1, <4>1, <4>2
    <3>2. CASE k # 0
      <4>1. k \in 1 .. n /\ k - 1 \in 0 .. n /\ (k - 1) + 1 = k
        BY <1>1, <3>2
      <4>2. f[k] = SubSeq(ids, 1, Rank(k + 1)) /\ f[k - 1] = SubSeq(ids, 1, Rank(k))
        BY <4>1
      <4>3. CASE anchors[k] = None
        <5>1. Rank(k + 1) = Rank(k)
          BY <1>2, <4>1, <4>3
        <5> QED
          BY <3>2, <4>2, <4>3, <5>1
      <4>4. CASE anchors[k] # None
        <5>1. Rank(k + 1) = Rank(k) + 1 /\ Rank(k) \in 0 .. Len(ids) - 1
          BY <1>1, <1>2, <4>1, <4>4
        <5>2. SubSeq(ids, 1, Rank(k) + 1) = Append(SubSeq(ids, 1, Rank(k)), ids[Rank(k) + 1])
          BY <1>1, <5>1, OneMoreOf
        <5> QED
          BY <1>3, <3>2, <4>1, <4>2, <4>4, <5>1, <5>2
      <4> QED
        BY <4>3, <4>4
    <3> QED
      BY <3>1, <3>2
  <2>2. f = [k \in 0 .. n |-> f[k]]
    OBVIOUS
  <2> QED
    BY <2>1, <2>2
<1>5. g = Body(g)
  BY <1>4
<1>6. Published(anchors) = g[n]
  BY DEF Published
<1> HIDE DEF f, g
<1> DEFINE P == {k \in 0 .. n : g[k] = f[k]}
<1>7. 0 \in P
  <2>1. 0 \in 0 .. n /\ g[0] = Body(g)[0] /\ f[0] = Body(f)[0]
    BY <1>1, <1>4, <1>5
  <2> QED
    BY <2>1
<1>8. ASSUME NEW k \in 1 .. n, k - 1 \in P
      PROVE  k \in P
  <2>1. k \in 0 .. n /\ k # 0 /\ g[k - 1] = f[k - 1]
    BY <1>1, <1>8
  <2>2. g[k] = Body(g)[k] /\ f[k] = Body(f)[k]
    BY <1>4, <1>5, <2>1
  <2> QED
    BY <2>1, <2>2
<1>9. n \in P
  <2> HIDE DEF P
  <2>1. \A k \in 0 .. n : k \in P
    BY <1>1, <1>7, <1>8, UpTo
  <2> QED
    BY <1>1, <2>1
<1>10. f[n] = SubSeq(ids, 1, count) /\ SubSeq(ids, 1, count) = ids
  BY <1>1, <1>2 DEF f
<1> QED
  BY <1>6, <1>9, <1>10

(* One step of the decoder: what it makes of the bytes from position k on.    *)
Decoded(bytes, rest, k) ==
  IF k > Len(bytes) THEN <<>>
  ELSE IF bytes[k] = 0 \/ k + bytes[k] > Len(bytes) THEN <<None>>
  ELSE <<SubSeq(bytes, k + 1, k + bytes[k])>> \o rest[k + 1 + bytes[k]]

(* The decoder reads from the end, so its recursion is well-founded. *)
LEMMA DecoderExists ==
  ASSUME NEW bytes \in Seq(Byte)
  PROVE  \E f : f = [k \in 1 .. Len(bytes) + 1 |-> Decoded(bytes, f, k)]
<1> DEFINE n == Len(bytes)
           From(m) == n + 1 - m .. n + 1
           Solves(f, m) == f = [k \in From(m) |-> Decoded(bytes, f, k)]
           P == {m \in 0 .. n : \E f : Solves(f, m)}
<1>1. n \in Nat /\ \A k \in 1 .. n : bytes[k] \in Nat
  <2>1. n \in Nat /\ \A k \in 1 .. n : bytes[k] \in Byte
    OBVIOUS
  <2> QED
    BY <2>1, WireAssumption DEF Byte
<1>2. 0 \in P
  <2> DEFINE f == [k \in From(0) |-> <<>>]
  <2>1. \A k \in From(0) : k > n
    BY <1>1
  <2>2. \A k \in From(0) : Decoded(bytes, f, k) = <<>>
    BY <2>1 DEF Decoded
  <2>3. Solves(f, 0)
    BY <2>2
  <2> HIDE DEF f, Solves
  <2> QED
    BY <1>1, <2>3
<1>3. ASSUME NEW m \in 1 .. n, m - 1 \in P
      PROVE  m \in P
  <2>1. PICK f : Solves(f, m - 1)
    BY <1>3
  <2> DEFINE i == n + 1 - m
             g == [k \in From(m) |-> IF k = i THEN Decoded(bytes, f, k) ELSE f[k]]
  <2>2. /\ i \in 1 .. n /\ i \in From(m)
        /\ \A k \in From(m) : k # i => k \in From(m - 1)
        /\ \A k \in From(m - 1) : k \in From(m) /\ k # i
    BY <1>1
  <2>3. \A k \in From(m - 1) : g[k] = f[k]
    BY <2>2
  <2>4. ASSUME NEW k \in From(m)
        PROVE  Decoded(bytes, g, k) = Decoded(bytes, f, k)
    <3>1. CASE k > n
      BY <3>1 DEF Decoded
    <3>2. CASE ~(k > n)
      <4>1. k \in 1 .. n /\ bytes[k] \in Nat
        BY <1>1, <3>2
      <4>2. k + bytes[k] <= n => k + 1 + bytes[k] \in From(m - 1)
        BY <1>1, <4>1
      <4>3. k + bytes[k] <= n => g[k + 1 + bytes[k]] = f[k + 1 + bytes[k]]
        BY <2>3, <4>2
      <4>4. k + bytes[k] <= n \/ k + bytes[k] > n
        BY <1>1, <4>1
      <4> HIDE DEF g
      <4> QED
        BY <4>3, <4>4 DEF Decoded
    <3> QED
      BY <3>1, <3>2
  <2>5. ASSUME NEW k \in From(m)
        PROVE  g[k] = Decoded(bytes, g, k)
    <3>1. CASE k = i
      <4>1. g[k] = Decoded(bytes, f, k)
        BY <3>1
      <4> QED
        BY <2>4, <4>1
    <3>2. CASE k # i
      <4>1. k \in From(m - 1) /\ g[k] = f[k]
        BY <2>2, <2>3, <3>2
      <4>2. f[k] = Decoded(bytes, f, k)
        BY <2>1, <4>1
      <4> QED
        BY <2>4, <4>1, <4>2
    <3> QED
      BY <3>1, <3>2
  <2>6. g = [k \in From(m) |-> g[k]]
    OBVIOUS
  <2>7. Solves(g, m)
    <3> HIDE DEF g, From
    <3> QED
      BY <2>5, <2>6
  <2> HIDE DEF g, Solves
  <2> QED
    BY <2>7
<1>4. n \in P
  <2> HIDE DEF P
  <2>1. \A m \in 0 .. n : m \in P
    BY <1>1, <1>2, <1>3, UpTo
  <2> QED
    BY <1>1, <2>1
<1>5. From(n) = 1 .. n + 1
  BY <1>1
<1> QED
  BY <1>4, <1>5

(* What a reader makes of the encoded bytes is the collector's array: behind  *)
(* the frames of the first k - 1 anchors it reads the IDs of the others.      *)
LEMMA DecodedAll ==
  ASSUME IInv, pc = "done"
  PROVE  DecodeWireIds(encoded) = ids
<1> DEFINE n == Len(anchors)
           g == CHOOSE h : h = [k \in 1 .. Len(encoded) + 1 |-> Decoded(encoded, h, k)]
<1>1. /\ n \in Nat /\ ids \in Seq(Seq(Byte)) /\ Len(ids) = count /\ count \in Nat
      /\ encoded \in Seq(Byte) /\ Len(encoded) = length /\ length \in Nat
  <2>1. encoded \in Seq(Byte)
    BY DEF IInv, TypeOK
  <2>2. Len(encoded) = length /\ length \in Nat
    BY DEF IInv, TypeOK, EncodeInv
  <2>3. ids \in Seq(Seq(Byte)) /\ Len(ids) = count /\ count \in Nat
    BY DEF IInv, TypeOK, CollectInv
  <2>4. n \in Nat
    BY Weights DEF IInv
  <2> QED
    BY <2>1, <2>2, <2>3, <2>4
<1>2. /\ Rank(1) = 0 /\ Rank(n + 1) = count
      /\ \A k \in 1 .. n + 1 : Rank(k) \in Nat
      /\ \A k \in 1 .. n : Rank(k + 1) = Rank(k) + (IF anchors[k] = None THEN 0 ELSE 1)
      /\ \A k \in 1 .. n : anchors[k] # None => Rank(k) < count
      /\ \A k \in 1 .. n : anchors[k] # None => ids[Rank(k) + 1] = anchors[k]
  BY Ranked DEF IInv, CountInv, Sums, Rank, CollectInv, Placed
<1>3. /\ Start(1) = 0 /\ Start(n + 1) = length
      /\ \A k \in 1 .. n + 1 : Start(k) \in Nat
  BY Measured DEF IInv, MeasureInv, Sums, Start
<1>4. \A k \in 1 .. n : anchors[k] = None => Start(k + 1) = Start(k)
  BY Measured DEF IInv
<1>5. \A k \in 1 .. n : anchors[k] # None =>
        /\ Start(k + 1) = Start(k) + 1 + Len(anchors[k])
        /\ Start(k) + 1 + Len(anchors[k]) <= length
  BY Measured DEF IInv
<1>6. \A k \in 1 .. n : anchors[k] # None =>
        /\ encoded[Start(k) + 1] = Len(anchors[k])
        /\ \A j \in 1 .. Len(anchors[k]) : encoded[Start(k) + 1 + j] = anchors[k][j]
  BY DEF IInv, EncodeInv, Framed
<1>7. \A k \in 1 .. n : anchors[k] # None =>
        Len(anchors[k]) \in Nat \ {0} /\ anchors[k] \in Seq(Byte)
  BY <1>1, Weights DEF IInv, MeasureInv
<1>8. \A k \in 1 .. length + 1 : g[k] = Decoded(encoded, g, k)
  <2>1. g = [k \in 1 .. Len(encoded) + 1 |-> Decoded(encoded, g, k)]
    BY <1>1, DecoderExists
  <2> HIDE DEF g
  <2> QED
    BY <1>1, <2>1
<1>9. DecodeWireIds(encoded) = g[1]
  BY DEF DecodeWireIds, Decoded
<1> HIDE DEF g
<1> DEFINE P == {m \in 0 .. n : g[Start(n + 1 - m) + 1] = SubSeq(ids, Rank(n + 1 - m) + 1, count)}
<1>10. 0 \in P
  <2>1. Start(n + 1 - 0) = length /\ Rank(n + 1 - 0) = count
    BY <1>1, <1>2, <1>3
  <2>2. g[length + 1] = <<>>
    <3>1. length + 1 \in 1 .. length + 1 /\ length + 1 > Len(encoded)
      BY <1>1
    <3> QED
      BY <1>8, <3>1 DEF Decoded
  <2>3. SubSeq(ids, count + 1, count) = <<>>
    BY <1>1
  <2>4. g[Start(n + 1 - 0) + 1] = SubSeq(ids, Rank(n + 1 - 0) + 1, count)
    BY <2>1, <2>2, <2>3
  <2>5. 0 \in 0 .. n
    BY <1>1
  <2> HIDE DEF n
  <2> QED
    BY <2>4, <2>5
<1>11. ASSUME NEW m \in 1 .. n, m - 1 \in P
       PROVE  m \in P
  <2> DEFINE k == n + 1 - m
  <2>1. k \in 1 .. n /\ k \in 1 .. n + 1 /\ n + 1 - (m - 1) = k + 1
    BY <1>1
  <2>2. g[Start(k + 1) + 1] = SubSeq(ids, Rank(k + 1) + 1, count)
    BY <1>11, <2>1
  <2> HIDE DEF k
  <2>3. CASE anchors[k] = None
    <3>1. Start(k + 1) = Start(k) /\ Rank(k + 1) = Rank(k)
      BY <1>2, <1>4, <2>1, <2>3
    <3> QED
      BY <2>2, <3>1 DEF k
  <2>4. CASE anchors[k] # None
    <3> DEFINE a == anchors[k]
               p == Start(k) + 1
    <3>1. /\ a \in Seq(Byte) /\ Len(a) \in Nat /\ Len(a) # 0 /\ p \in Nat \ {0}
          /\ p + Len(a) <= length /\ Start(k + 1) + 1 = p + 1 + Len(a)
      <4>1. a \in Seq(Byte) /\ Len(a) \in Nat /\ Len(a) # 0
        BY <1>7, <2>1, <2>4
      <4>2. Start(k) \in Nat
        BY <1>3, <2>1
      <4>3. Start(k + 1) = Start(k) + 1 + Len(a) /\ Start(k) + 1 + Len(a) <= length
        BY <1>5, <2>1, <2>4
      <4> HIDE DEF a
      <4> QED
        BY <4>1, <4>2, <4>3
    <3>2. p \in 1 .. length + 1 /\ ~(p > Len(encoded))
      BY <1>1, <3>1
    <3>3. encoded[p] = Len(a) /\ \A j \in 1 .. Len(a) : encoded[p + j] = a[j]
      BY <1>6, <2>1, <2>4
    <3>4. Rank(k + 1) = Rank(k) + 1 /\ Rank(k) \in Nat /\ Rank(k) < count
          /\ ids[Rank(k) + 1] = a
      BY <1>2, <2>1, <2>4
    <3> HIDE DEF a, p
    <3>5. SubSeq(encoded, p + 1, p + Len(a)) = a
      BY <1>1, <3>1, <3>3
    <3>6. g[p] = <<a>> \o g[p + 1 + Len(a)]
      <4>1. g[p] = Decoded(encoded, g, p)
        BY <1>8, <3>2
      <4>2. ~(encoded[p] = 0 \/ p + encoded[p] > Len(encoded))
        BY <1>1, <3>1, <3>3
      <4> QED
        BY <3>2, <3>3, <3>5, <4>1, <4>2 DEF Decoded
    <3>7. <<ids[Rank(k) + 1]>> \o SubSeq(ids, Rank(k) + 1 + 1, Len(ids))
            = SubSeq(ids, Rank(k) + 1, Len(ids))
      <4> DEFINE r == Rank(k) + 1
      <4>1. r \in 1 .. Len(ids)
        BY <1>1, <3>4
      <4> HIDE DEF r
      <4>2. <<ids[r]>> \o SubSeq(ids, r + 1, Len(ids)) = SubSeq(ids, r, Len(ids))
        BY <1>1, <4>1, HeadOfRest
      <4> QED
        BY <4>2 DEF r
    <3>8. g[p] = SubSeq(ids, Rank(k) + 1, count)
      BY <1>1, <2>2, <3>1, <3>4, <3>6, <3>7
    <3> QED
      BY <3>8 DEF p, k
  <2> QED
    BY <2>3, <2>4
<1>12. n \in P
  <2> HIDE DEF P
  <2>1. \A m \in 0 .. n : m \in P
    BY <1>1, <1>10, <1>11, UpTo
  <2> QED
    BY <1>1, <2>1
<1>13. n + 1 - n = 1 /\ Start(1) + 1 = 1 /\ Rank(1) + 1 = 1
  BY <1>1, <1>2, <1>3
<1>14. g[1] = SubSeq(ids, 1, count)
  BY <1>12, <1>13
<1>15. SubSeq(ids, 1, count) = ids
  BY <1>1
<1> QED
  BY <1>9, <1>14, <1>15

(* The constants hold the published IDs in source order, and a reader of the  *)
(* encoded bytes gets the same list, for columns of any length and IDs up to  *)
(* the limit, whose length one byte can hold (lib.rs:104-207).                *)
THEOREM ReadBackExactly == Spec => []RoundTrip
<1>1. IInv => RoundTrip
  BY CollectedAll, DecodedAll DEF RoundTrip
<1> QED
  BY <1>1, Invariance, PTL

-----------------------------------------------------------------------------
(* The number literals *)

Digit == 0 .. Radix - 1

LEMMA Division ==
  ASSUME NEW k \in Nat
  PROVE  /\ k % Radix \in Digit
         /\ k \div Radix \in Nat
         /\ k = (k \div Radix) * Radix + (k % Radix)
         /\ k >= Radix => k \div Radix < k
<1>1. Radix \in Nat /\ Radix >= 2
  BY LiteralsAssumption
<1>2. k % Radix \in Digit
  BY <1>1 DEF Digit
<1>3. k \div Radix \in Nat
  BY <1>1
<1>4. k = (k \div Radix) * Radix + (k % Radix)
  <2>1. k = Radix * (k \div Radix) + (k % Radix)
    BY <1>1, SMTT(30)
  <2>2. \A a, b \in Int : a * b = b * a
    OBVIOUS
  <2>3. (k \div Radix) * Radix = Radix * (k \div Radix)
    BY <1>1, <1>3, <2>2
  <2> DEFINE q == k \div Radix
             r == k % Radix
  <2> HIDE DEF q, r
  <2>4. k = Radix * q + r /\ q * Radix = Radix * q
    BY <2>1, <2>3 DEF q, r
  <2>5. k = q * Radix + r
    BY <2>4
  <2> QED
    BY <2>5 DEF q, r
<1>5. ASSUME k >= Radix
      PROVE  k \div Radix < k
  <2> DEFINE q == k \div Radix
             r == k % Radix
  <2>1. q \in Nat /\ r \in Nat /\ k = q * Radix + r
    BY <1>1, <1>2, <1>3, <1>4 DEF Digit
  <2> HIDE DEF q, r
  <2>2. q * Radix >= q * 2
    BY <1>1, <2>1
  <2>3. q < k
    BY <1>1, <1>5, <2>1, <2>2
  <2> QED
    BY <2>3 DEF q
<1> QED
  BY <1>2, <1>3, <1>4, <1>5

(* A function given by its first value and its steps exists.                  *)
LEMMA StepsExist ==
  ASSUME NEW S, NEW c \in S, NEW n \in Nat, NEW step \in [1 .. n -> [S -> S]]
  PROVE  \E f \in [0 .. n -> S] : f[0] = c /\ \A k \in 1 .. n : f[k] = step[k][f[k - 1]]
<1> DEFINE Solves(f, m) == f[0] = c /\ \A k \in 1 .. m : f[k] = step[k][f[k - 1]]
           P == {m \in 0 .. n : \E f \in [0 .. m -> S] : Solves(f, m)}
<1>1. 0 \in P
  <2> DEFINE f == [k \in 0 .. 0 |-> c]
  <2>1. f \in [0 .. 0 -> S] /\ f[0] = c /\ 1 .. 0 = {}
    OBVIOUS
  <2>2. Solves(f, 0)
    BY <2>1
  <2> HIDE DEF f, Solves
  <2> QED
    BY <2>1, <2>2
<1>2. ASSUME NEW m \in 1 .. n, m - 1 \in P
      PROVE  m \in P
  <2>1. PICK f \in [0 .. m - 1 -> S] : Solves(f, m - 1)
    BY <1>2
  <2>2. f[m - 1] \in S
    OBVIOUS
  <2> DEFINE g == [k \in 0 .. m |-> IF k = m THEN step[m][f[m - 1]] ELSE f[k]]
  <2>3. step[m][f[m - 1]] \in S
    BY <2>2
  <2>4. g \in [0 .. m -> S]
    BY <2>3
  <2>5. g[m] = step[m][f[m - 1]] /\ \A k \in 0 .. m - 1 : g[k] = f[k]
    OBVIOUS
  <2> HIDE DEF g
  <2>6. ASSUME NEW k \in 1 .. m
        PROVE  g[k] = step[k][g[k - 1]]
    <3>1. CASE k = m
      <4>1. m - 1 \in 0 .. m - 1
        OBVIOUS
      <4> QED
        BY <2>5, <3>1, <4>1
    <3>2. CASE k # m
      <4>1. k \in 1 .. m - 1 /\ k - 1 \in 0 .. m - 1
        BY <3>2
      <4> QED
        BY <2>1, <2>5, <4>1
    <3> QED
      BY <3>1, <3>2
  <2>7. g[0] = c
    BY <2>1, <2>5
  <2>8. Solves(g, m)
    BY <2>6, <2>7
  <2> HIDE DEF Solves
  <2> QED
    BY <2>4, <2>8
<1>3. \A m \in 0 .. n : m \in P
  BY <1>1, <1>2, UpTo
<1> QED
  BY <1>3

Text == Seq(Digit \cup {Literals!Separator})

(* The value of a literal, digit by digit. *)
Reads(f, text) ==
  /\ f[0] = 0
  /\ \A k \in 1 .. Len(text) :
       f[k] = IF text[k] = Literals!Separator THEN f[k - 1] ELSE f[k - 1] * Radix + text[k]

LEMMA OneDigit ==
  ASSUME NEW m \in Nat, NEW d \in Digit
  PROVE  m * Radix + d \in Nat /\ d \in Nat /\ d # Literals!Separator
<1>1. Radix \in Nat /\ d \in Nat
  BY LiteralsAssumption DEF Digit
<1>2. m * Radix \in Nat
  BY <1>1
<1> QED
  BY <1>1, <1>2 DEF Literals!Separator

LEMMA MagnitudeSteps ==
  ASSUME NEW text \in Text
  PROVE  \E f \in [0 .. Len(text) -> Nat] :
           Reads(f, text) /\ Literals!Magnitude(text) = f[Len(text)]
<1> DEFINE n == Len(text)
           step == [k \in 1 .. n |-> [m \in Nat |->
                      IF text[k] = Literals!Separator THEN m ELSE m * Radix + text[k]]]
           Body(f) == [k \in 0 .. n |->
                         IF k = 0 THEN 0
                         ELSE IF text[k] = Literals!Separator THEN f[k - 1]
                         ELSE f[k - 1] * Radix + text[k]]
<1>1. n \in Nat /\ \A k \in 1 .. n : text[k] \in Digit \cup {Literals!Separator}
  BY DEF Text
<1>2. step \in [1 .. n -> [Nat -> Nat]]
  BY <1>1, OneDigit
<1>3. PICK f \in [0 .. n -> Nat] : f[0] = 0 /\ \A k \in 1 .. n : f[k] = step[k][f[k - 1]]
  <2> DEFINE T == Nat
  <2>1. n \in Nat /\ 0 \in T /\ step \in [1 .. n -> [T -> T]]
    BY <1>1, <1>2
  <2> HIDE DEF step, n, T
  <2>2. \E f \in [0 .. n -> T] : f[0] = 0 /\ \A k \in 1 .. n : f[k] = step[k][f[k - 1]]
    BY <2>1, StepsExist
  <2> QED
    BY <2>2 DEF T
<1>4. \A k \in 1 .. n : f[k - 1] \in Nat
  BY <1>1
<1>5. Reads(f, text)
  <2>1. ASSUME NEW k \in 1 .. n
        PROVE  f[k] = IF text[k] = Literals!Separator THEN f[k - 1] ELSE f[k - 1] * Radix + text[k]
    <3>1. f[k] = step[k][f[k - 1]] /\ f[k - 1] \in Nat
      BY <1>3, <1>4
    <3> QED
      BY <3>1
  <2> QED
    BY <1>3, <2>1 DEF Reads
<1>6. f = Body(f)
  <2>1. ASSUME NEW k \in 0 .. n
        PROVE  f[k] = Body(f)[k]
    <3>1. k = 0 \/ k \in 1 .. n
      BY <1>1
    <3> QED
      BY <1>5, <3>1 DEF Reads
  <2>2. f = [k \in 0 .. n |-> f[k]]
    OBVIOUS
  <2> QED
    BY <2>1, <2>2
<1> DEFINE g == CHOOSE h : h = Body(h)
<1>7. g = Body(g)
  BY <1>6
<1>8. Literals!Magnitude(text) = g[n]
  BY DEF Literals!Magnitude
<1> HIDE DEF g
<1> DEFINE P == {k \in 0 .. n : g[k] = f[k]}
<1>9. 0 \in P
  <2>1. 0 \in 0 .. n /\ g[0] = Body(g)[0] /\ f[0] = Body(f)[0]
    BY <1>1, <1>6, <1>7
  <2> QED
    BY <2>1
<1>10. ASSUME NEW k \in 1 .. n, k - 1 \in P
       PROVE  k \in P
  <2>1. k \in 0 .. n /\ k # 0 /\ g[k - 1] = f[k - 1]
    BY <1>1, <1>10
  <2>2. g[k] = Body(g)[k] /\ f[k] = Body(f)[k]
    BY <1>6, <1>7, <2>1
  <2> QED
    BY <2>1, <2>2
<1>11. n \in P
  <2> HIDE DEF P
  <2>1. \A k \in 0 .. n : k \in P
    BY <1>1, <1>9, <1>10, UpTo
  <2> QED
    BY <1>1, <2>1
<1> QED
  BY <1>1, <1>5, <1>8, <1>11

LEMMA MagnitudeTyped ==
  /\ Literals!Magnitude(<<>>) = 0
  /\ \A text \in Text : Literals!Magnitude(text) \in Nat
<1>1. ASSUME NEW text \in Text
      PROVE  Literals!Magnitude(text) \in Nat
  <2>1. Len(text) \in 0 .. Len(text)
    BY DEF Text
  <2> QED
    BY <2>1, MagnitudeSteps
<1>2. Literals!Magnitude(<<>>) = 0
  <2>1. <<>> \in Text /\ Len(<<>>) = 0
    BY DEF Text
  <2> QED
    BY <2>1, MagnitudeSteps DEF Reads
<1> QED
  BY <1>1, <1>2

LEMMA MagnitudeAppend ==
  ASSUME NEW text \in Text, NEW d \in Digit \cup {Literals!Separator}
  PROVE  /\ Append(text, d) \in Text
         /\ Literals!Magnitude(Append(text, d)) =
              IF d = Literals!Separator THEN Literals!Magnitude(text)
              ELSE Literals!Magnitude(text) * Radix + d
<1> DEFINE n == Len(text)
           longer == Append(text, d)
<1>1. /\ n \in Nat /\ Len(longer) = n + 1 /\ longer \in Text /\ longer[n + 1] = d
      /\ \A k \in 1 .. n : longer[k] = text[k]
  BY DEF Text
<1>2. PICK f : Reads(f, text) /\ Literals!Magnitude(text) = f[n]
  BY MagnitudeSteps
<1> HIDE DEF longer
<1>3. PICK g : Reads(g, longer) /\ Literals!Magnitude(longer) = g[n + 1]
  BY <1>1, MagnitudeSteps
<1> DEFINE P == {k \in 0 .. n : g[k] = f[k]}
<1>4. 0 \in P
  BY <1>1, <1>2, <1>3 DEF Reads
<1>5. ASSUME NEW k \in 1 .. n, k - 1 \in P
      PROVE  k \in P
  <2>1. k \in 1 .. n + 1 /\ longer[k] = text[k] /\ k \in 0 .. n /\ g[k - 1] = f[k - 1]
    BY <1>1, <1>5
  <2>2. g[k] = IF longer[k] = Literals!Separator THEN g[k - 1] ELSE g[k - 1] * Radix + longer[k]
    BY <1>1, <1>3, <2>1 DEF Reads
  <2>3. f[k] = IF text[k] = Literals!Separator THEN f[k - 1] ELSE f[k - 1] * Radix + text[k]
    BY <1>2 DEF Reads
  <2> QED
    BY <2>1, <2>2, <2>3
<1>6. \A k \in 0 .. n : k \in P
  <2> HIDE DEF P
  <2> QED
    BY <1>1, <1>4, <1>5, UpTo
<1>7. n + 1 \in 1 .. Len(longer) /\ n \in 0 .. n /\ (n + 1) - 1 = n
  BY <1>1
<1>8. g[n + 1] = IF longer[n + 1] = Literals!Separator THEN g[n]
                 ELSE g[n] * Radix + longer[n + 1]
  BY <1>3, <1>7 DEF Reads
<1> QED
  BY <1>1, <1>2, <1>3, <1>6, <1>7, <1>8 DEF longer

(* One step of u128::to_string. *)
NumeralOf(f, k) ==
  IF k < Radix THEN <<k>> ELSE Append(f[k \div Radix], k % Radix)

LEMMA NumeralExists ==
  ASSUME NEW n \in Nat
  PROVE  \E f : f = [k \in 0 .. n |-> NumeralOf(f, k)]
<1> DEFINE Solves(f, m) == f = [k \in 0 .. m |-> NumeralOf(f, k)]
           P == {m \in 0 .. n : \E f : Solves(f, m)}
<1>1. Radix \in Nat /\ Radix >= 2
  BY LiteralsAssumption
<1>2. 0 \in P
  <2> DEFINE f == [k \in 0 .. 0 |-> <<k>>]
  <2>1. \A k \in 0 .. 0 : NumeralOf(f, k) = <<k>>
    BY <1>1 DEF NumeralOf
  <2>2. Solves(f, 0)
    BY <2>1
  <2> HIDE DEF f, Solves
  <2> QED
    BY <2>2
<1>3. ASSUME NEW m \in 1 .. n, m - 1 \in P
      PROVE  m \in P
  <2>1. PICK f : Solves(f, m - 1)
    BY <1>3
  <2> DEFINE g == [k \in 0 .. m |-> IF k = m THEN NumeralOf(f, k) ELSE f[k]]
  <2>2. \A k \in 0 .. m - 1 : k \in 0 .. m /\ g[k] = f[k]
    OBVIOUS
  <2> HIDE DEF g
  <2>3. ASSUME NEW k \in 0 .. m
        PROVE  NumeralOf(g, k) = NumeralOf(f, k)
    <3>1. CASE k < Radix
      BY <3>1 DEF NumeralOf
    <3>2. CASE ~(k < Radix)
      <4>1. k \in Nat /\ k >= Radix
        BY <1>1, <3>2
      <4>2. k \div Radix \in Nat /\ k \div Radix < k
        BY <4>1, Division
      <4>3. k \div Radix \in 0 .. m - 1
        BY <4>2
      <4> QED
        BY <2>2, <4>3 DEF NumeralOf
    <3> QED
      BY <3>1, <3>2
  <2>4. ASSUME NEW k \in 0 .. m
        PROVE  g[k] = NumeralOf(g, k)
    <3>1. CASE k = m
      <4>1. g[k] = NumeralOf(f, k)
        BY <3>1 DEF g
      <4> QED
        BY <2>3, <4>1
    <3>2. CASE k # m
      <4>1. k \in 0 .. m - 1 /\ g[k] = f[k]
        BY <2>2, <3>2
      <4>2. f[k] = NumeralOf(f, k)
        BY <2>1, <4>1
      <4> QED
        BY <2>3, <4>1, <4>2
    <3> QED
      BY <3>1, <3>2
  <2>5. g = [k \in 0 .. m |-> g[k]]
    BY DEF g
  <2>6. Solves(g, m)
    BY <2>4, <2>5
  <2> HIDE DEF Solves
  <2> QED
    BY <2>6
<1>4. n \in P
  <2> HIDE DEF P
  <2>1. \A m \in 0 .. n : m \in P
    BY <1>2, <1>3, UpTo
  <2> QED
    BY <2>1
<1> QED
  BY <1>4

(* A numeral is a list of digits with the value of the number. *)
Denotes(s, k) ==
  s \in Seq(Digit) /\ s \in Text /\ Len(s) > 0 /\ Literals!Magnitude(s) = k

LEMMA NumeralDenotes ==
  ASSUME NEW n \in Nat
  PROVE  Denotes(Literals!Numeral(n), n)
<1> DEFINE g == CHOOSE h : h = [k \in 0 .. n |-> NumeralOf(h, k)]
<1>1. g = [k \in 0 .. n |-> NumeralOf(g, k)]
  BY NumeralExists
<1>2. Literals!Numeral(n) = g[n]
  BY DEF Literals!Numeral, NumeralOf
<1> HIDE DEF g
<1>3. \A k \in 0 .. n : g[k] = NumeralOf(g, k)
  BY <1>1
<1> DEFINE P == {k \in 0 .. n : \A j \in 0 .. k : Denotes(g[j], j)}
<1>4. Radix \in Nat /\ Radix >= 2
  BY LiteralsAssumption
<1>5. ASSUME NEW k \in 0 .. n, k < Radix
      PROVE  Denotes(g[k], k)
  <2>1. k \in Digit /\ g[k] = Append(<<>>, k) /\ <<>> \in Seq(Digit) /\ <<>> \in Text
    <3>1. k \in Digit
      BY <1>4, <1>5 DEF Digit
    <3>2. g[k] = <<k>>
      BY <1>3, <1>5 DEF NumeralOf
    <3>3. <<>> \in Seq(Digit) /\ <<>> \in Text /\ Append(<<>>, k) = <<k>>
      BY DEF Text
    <3> QED
      BY <3>1, <3>2, <3>3
  <2>2. Literals!Magnitude(<<>>) = 0 /\ k # Literals!Separator
    BY <2>1, MagnitudeTyped, OneDigit
  <2>3. g[k] \in Text /\ Literals!Magnitude(g[k]) = 0 * Radix + k
    BY <2>1, <2>2, MagnitudeAppend
  <2>4. 0 * Radix + k = k
    BY <1>4
  <2> QED
    BY <2>1, <2>3, <2>4 DEF Denotes
<1>6. ASSUME NEW k \in 0 .. n, ~(k < Radix), Denotes(g[k \div Radix], k \div Radix)
      PROVE  Denotes(g[k], k)
  <2> DEFINE q == k \div Radix
             r == k % Radix
             s == g[q]
  <2>1. r \in Digit /\ q \in Nat /\ k = q * Radix + r
    BY Division
  <2>2. g[k] = Append(s, r)
    BY <1>3, <1>6 DEF NumeralOf
  <2>3. s \in Seq(Digit) /\ s \in Text /\ Literals!Magnitude(s) = q
    BY <1>6 DEF Denotes
  <2> HIDE DEF q, r, s
  <2>4. r # Literals!Separator
    BY <2>1, OneDigit
  <2>5. g[k] \in Text /\ Literals!Magnitude(g[k]) = q * Radix + r
    BY <2>1, <2>2, <2>3, <2>4, MagnitudeAppend
  <2>6. Append(s, r) \in Seq(Digit) /\ Len(Append(s, r)) > 0
    BY <2>1, <2>3
  <2> QED
    BY <2>1, <2>2, <2>5, <2>6 DEF Denotes
<1>7. 0 \in P
  <2>1. 0 \in 0 .. n /\ \A j \in 0 .. 0 : j = 0
    OBVIOUS
  <2>2. Denotes(g[0], 0)
    BY <1>4, <1>5, <2>1
  <2> QED
    BY <2>1, <2>2
<1>8. ASSUME NEW k \in 1 .. n, k - 1 \in P
      PROVE  k \in P
  <2>1. \A j \in 0 .. k - 1 : Denotes(g[j], j)
    BY <1>8
  <2>2. Denotes(g[k], k)
    <3>1. CASE k < Radix
      BY <1>5, <3>1
    <3>2. CASE ~(k < Radix)
      <4>1. k \div Radix \in Nat /\ k \div Radix < k
        BY <1>4, <3>2, Division
      <4>2. k \div Radix \in 0 .. k - 1
        BY <4>1
      <4> QED
        BY <1>6, <2>1, <3>2, <4>2
    <3> QED
      BY <3>1, <3>2
  <2>3. \A j \in 0 .. k : j = k \/ j \in 0 .. k - 1
    OBVIOUS
  <2> QED
    BY <2>1, <2>2, <2>3
<1>9. n \in P
  <2> HIDE DEF P
  <2>1. \A m \in 0 .. n : m \in P
    BY <1>7, <1>8, UpTo
  <2> QED
    BY <2>1
<1> QED
  BY <1>2, <1>9

(* What is written of a field is what was signed. *)
Written(token, f) ==
  /\ token.field = f
  /\ IF f \in Literals!NumberField
     THEN /\ \A number \in token.value : Head(number.literal) # Literals!Separator
          /\ {Literals!Value(number) : number \in token.value} = message[f]
     ELSE token.value = message[f]

Signs == [negative : BOOLEAN, literal : Text]
Given == {m[f] : m \in Messages, f \in Literals!Field}
Token == [field : Literals!Field, value : (SUBSET Signs) \cup Given]

FieldsWritten ==
  /\ message \in Messages
  /\ phase # "convert" => constraint = message
  /\ tokens \in Seq(Token)
  /\ phase \in {"convert", "field", "digits"} => Len(tokens) < 9
  /\ phase \in {"compile", "published"} => Len(tokens) = 9
  /\ phase # "compile_error"
  /\ \A i \in DOMAIN tokens : Written(tokens[i], Literals!FieldOrder[i])

(* The literal so far has the value of the digits it was made of. *)
DigitsWritten ==
  phase = "digits" =>
    /\ Literals!Current \in Literals!NumberField
    /\ \E v \in Literals!Number(Literals!Current) :
         /\ message[Literals!Current] = {v}
         /\ Denotes(digits, Literals!UnsignedAbs(v))
    /\ Literals!Magnitude(literal) = Literals!Magnitude(SubSeq(digits, 1, digit_index))
    /\ digit_index = 0 => literal = <<>>
    /\ digit_index > 0 => literal # <<>> /\ Head(literal) # Literals!Separator

LitInv == Literals!TypeOK /\ FieldsWritten /\ DigitsWritten

LEMMA Signed ==
  ASSUME NEW f, NEW v \in Literals!Number(f)
  PROVE  /\ v \in Int
         /\ Literals!UnsignedAbs(v) \in Nat
         /\ v = IF v < 0 THEN -Literals!UnsignedAbs(v) ELSE Literals!UnsignedAbs(v)
<1>1. v \in Int
  BY DEF Literals!Number
<1> QED
  BY <1>1 DEF Literals!UnsignedAbs

(* The nine fields in their order. *)
LEMMA NineFields ==
  /\ Literals!FieldOrder \in [1 .. 9 -> Literals!Field] /\ Len(Literals!FieldOrder) = 9
  /\ \A f \in Literals!Field : \E i \in 1 .. 9 : Literals!FieldOrder[i] = f
  /\ \A i, j \in 1 .. 9 : Literals!FieldOrder[i] = Literals!FieldOrder[j] => i = j
<1> USE DEF Literals!FieldOrder, Literals!Field, Literals!NumberField, Literals!SignedField,
            Literals!UnsignedField, Literals!TextField
<1>1. \A i \in 1 .. 9 : i \in {1, 2, 3, 4, 5, 6, 7, 8, 9}
  OBVIOUS
<1>2. Literals!FieldOrder \in [1 .. 9 -> Literals!Field] /\ Len(Literals!FieldOrder) = 9
  OBVIOUS
<1>3. \A f \in Literals!Field : \E i \in 1 .. 9 : Literals!FieldOrder[i] = f
  OBVIOUS
<1>4. \A i, j \in 1 .. 9 : Literals!FieldOrder[i] = Literals!FieldOrder[j] => i = j
  BY <1>1
<1> QED
  BY <1>2, <1>3, <1>4

(* What stands behind a field is the value of the field of that name. *)
LEMMA Bound ==
  ASSUME NEW f \in Literals!Field
  PROVE  Literals!Bindings(constraint)[f] = constraint[f]
BY DEF Literals!Bindings

LEMMA LitInitInv == Literals!Init => LitInv
<1> SUFFICES ASSUME Literals!Init PROVE LitInv
  OBVIOUS
<1>1. /\ message \in Messages /\ phase = "convert" /\ tokens = <<>>
      /\ digits = <<>> /\ literal = <<>> /\ digit_index = 0 /\ next_separator = 0
  BY DEF Literals!Init
<1>2. DOMAIN message = Literals!Field
  BY <1>1, LiteralsAssumption
<1>3. Len(digits) = 0 /\ digits \in Seq(Digit) /\ literal \in Text
  BY <1>1 DEF Text
<1>4. Len(tokens) = 0 /\ tokens \in Seq(Token) /\ DOMAIN tokens = {}
  BY <1>1
<1>5. Literals!TypeOK
  BY <1>1, <1>2, <1>3, <1>4, NineFields, LiteralsAssumption DEF Literals!TypeOK, Digit, Text
<1> QED
  BY <1>1, <1>4, <1>5 DEF LitInv, FieldsWritten, DigitsWritten

(* The field being written. *)
LEMMA CurrentField ==
  ASSUME FieldsWritten, phase \in {"field", "digits"}
  PROVE  /\ Len(tokens) + 1 \in 1 .. 9 /\ Len(tokens) \in Nat
         /\ Literals!Current = Literals!FieldOrder[Len(tokens) + 1]
         /\ Literals!Current \in Literals!Field
         /\ constraint = message
         /\ Literals!Current \in Literals!NumberField =>
              message[Literals!Current] = {} \/ \E v \in Literals!Number(Literals!Current) :
                                                   message[Literals!Current] = {v}
<1>1. Len(tokens) \in Nat /\ Len(tokens) < 9 /\ message \in Messages /\ constraint = message
  BY DEF FieldsWritten
<1>2. Len(tokens) + 1 \in 1 .. 9
  BY <1>1
<1>3. /\ Literals!Current = Literals!FieldOrder[Len(tokens) + 1]
      /\ Literals!Current \in Literals!Field
  BY <1>2, NineFields DEF Literals!Current
<1> QED
  BY <1>1, <1>2, <1>3, LiteralsAssumption

(* One more field. *)
LEMMA WriteOne ==
  ASSUME LitInv, phase \in {"field", "digits"}, NEW e, Literals!Write(e),
         Written([field |-> Literals!Current, value |-> e], Literals!Current),
         [field |-> Literals!Current, value |-> e] \in Token,
         UNCHANGED <<message, constraint, digits, digit_index, next_separator, literal>>
  PROVE  LitInv'
<1> DEFINE n == Len(tokens)
           t == [field |-> Literals!Current, value |-> e]
<1>1. /\ n \in Nat /\ n + 1 \in 1 .. 9 /\ tokens \in Seq(Token)
      /\ Literals!Current = Literals!FieldOrder[n + 1] /\ constraint = message
  BY CurrentField DEF LitInv, FieldsWritten
<1>2. /\ tokens' = Append(tokens, t)
      /\ phase' = IF n + 1 = 9 THEN "compile" ELSE "field"
  BY NineFields DEF Literals!Write
<1>3. t \in Token /\ Written(t, Literals!FieldOrder[n + 1])
  BY <1>1
<1> HIDE DEF t
<1>4. /\ tokens' \in Seq(Token) /\ Len(tokens') = n + 1 /\ DOMAIN tokens' = 1 .. n + 1
      /\ DOMAIN tokens = 1 .. n
      /\ tokens'[n + 1] = t /\ \A i \in 1 .. n : tokens'[i] = tokens[i]
  BY <1>1, <1>2, <1>3
<1>5. ASSUME NEW i \in DOMAIN tokens'
      PROVE  Written(tokens'[i], Literals!FieldOrder[i])
  <2>1. CASE i = n + 1
    BY <1>3, <1>4, <2>1
  <2>2. CASE i # n + 1
    <3>1. i \in DOMAIN tokens /\ tokens'[i] = tokens[i]
      BY <1>1, <1>4, <2>2
    <3> QED
      BY <3>1 DEF LitInv, FieldsWritten
  <2> QED
    BY <2>1, <2>2
<1>6. (\A i \in DOMAIN tokens : Written(tokens[i], Literals!FieldOrder[i]))'
  BY <1>5 DEF Written
<1>7. FieldsWritten'
  <2>1. message \in Messages
    BY DEF LitInv, FieldsWritten
  <2>2. phase' \in {"field", "compile"} /\ (phase' = "field" => n + 1 < 9)
        /\ (phase' = "compile" => n + 1 = 9)
    BY <1>1, <1>2
  <2> QED
    BY <1>1, <1>4, <1>6, <2>1, <2>2 DEF FieldsWritten
<1>8. Literals!TypeOK'
  <2>1. phase' \in {"field", "compile"} /\ Len(tokens') <= Len(Literals!FieldOrder)
    BY <1>1, <1>2, <1>4, NineFields
  <2> QED
    BY <2>1 DEF LitInv, Literals!TypeOK
<1>9. DigitsWritten'
  BY <1>2 DEF DigitsWritten
<1> QED
  BY <1>7, <1>8, <1>9 DEF LitInv

LEMMA ConvertInv == LitInv /\ Literals!Convert => LitInv'
<1> SUFFICES ASSUME LitInv, Literals!Convert PROVE LitInv'
  OBVIOUS
<1>1. /\ phase = "convert" /\ phase' = "field" /\ message \in Messages
      /\ constraint' = [f \in Literals!Field |-> message[f]]
      /\ UNCHANGED <<message, digits, digit_index, next_separator, literal, tokens>>
  BY DEF Literals!Convert, Literals!ConvertConstraint, LitInv, FieldsWritten
<1>2. constraint' = message
  BY <1>1, LiteralsAssumption
<1>3. \A i \in DOMAIN tokens : Written(tokens[i], Literals!FieldOrder[i])'
  BY <1>1 DEF LitInv, FieldsWritten, Written
<1>4. FieldsWritten'
  BY <1>1, <1>2, <1>3 DEF LitInv, FieldsWritten
<1>5. Literals!TypeOK'
  BY <1>1 DEF LitInv, Literals!TypeOK
<1> QED
  BY <1>1, <1>4, <1>5 DEF LitInv, DigitsWritten

LEMMA WriteTextInv == LitInv /\ Literals!WriteText => LitInv'
<1> SUFFICES ASSUME LitInv, Literals!WriteText PROVE LitInv'
  OBVIOUS
<1> DEFINE f == Literals!Current
           e == message[f]
<1>1. /\ phase = "field" /\ f \in Literals!Field /\ constraint = message
      /\ f \in Literals!NumberField => e = {}
      /\ message \in Messages
      /\ UNCHANGED <<message, constraint, digits, digit_index, next_separator, literal>>
  <2>1. phase = "field" /\ f \in Literals!Field /\ constraint = message /\ message \in Messages
    BY CurrentField DEF Literals!WriteText, LitInv, FieldsWritten
  <2> QED
    BY <2>1, Bound DEF Literals!WriteText
<1>2. Literals!Write(e)
  BY <1>1, Bound DEF Literals!WriteText
<1>3. Written([field |-> f, value |-> e], f)
  <2>1. CASE f \in Literals!NumberField
    <3>1. e = {} /\ message[f] = {}
      BY <1>1, <2>1
    <3>2. {Literals!Value(number) : number \in e} = {}
      BY <3>1
    <3> QED
      BY <2>1, <3>1, <3>2 DEF Written
  <2>2. CASE f \notin Literals!NumberField
    BY <2>2 DEF Written
  <2> QED
    BY <2>1, <2>2
<1>4. [field |-> f, value |-> e] \in Token
  <2>1. e \in Given
    BY <1>1 DEF Given
  <2> HIDE DEF f, e
  <2> QED
    BY <1>1, <2>1 DEF Token
<1> QED
  BY <1>1, <1>2, <1>3, <1>4, WriteOne

LEMMA StartLiteralInv == LitInv /\ Literals!StartLiteral => LitInv'
<1> SUFFICES ASSUME LitInv, Literals!StartLiteral PROVE LitInv'
  OBVIOUS
<1> DEFINE f == Literals!Current
<1>1. /\ phase = "field" /\ phase' = "digits" /\ f \in Literals!NumberField
      /\ digit_index' = 0 /\ literal' = <<>>
      /\ next_separator' = Literals!FirstSeparator(Len(digits'))
      /\ UNCHANGED <<message, constraint, tokens>>
      /\ \E v \in constraint[f] : digits' = Literals!Numeral(Literals!UnsignedAbs(v))
  BY Bound DEF Literals!StartLiteral, Literals!Field
<1>2. constraint = message
  BY <1>1, CurrentField DEF LitInv
<1>3. PICK v \in Literals!Number(f) : message[f] = {v}
  BY <1>1, <1>2, CurrentField DEF LitInv
<1>4. Denotes(digits', Literals!UnsignedAbs(v))
  <2>1. digits' = Literals!Numeral(Literals!UnsignedAbs(v))
    BY <1>1, <1>2, <1>3
  <2> QED
    BY <2>1, Signed, NumeralDenotes
<1>5. digits' \in Seq(Digit) /\ Len(digits') \in Nat /\ Len(digits') > 0
  BY <1>4 DEF Denotes
<1>6. next_separator' \in 0 .. Len(digits') + Group /\ next_separator' > 0
  <2>1. Group \in Nat \ {0}
    BY LiteralsAssumption
  <2>2. Len(digits') % Group \in 0 .. Group - 1
    BY <1>5, <2>1
  <2> QED
    BY <1>1, <1>5, <2>1, <2>2 DEF Literals!FirstSeparator
<1>7. f' = f
  BY <1>1 DEF Literals!Current, Literals!FieldOrder
<1>8. Literals!TypeOK'
  <2>1. literal' \in Seq((0 .. Radix - 1) \cup {Literals!Separator}) /\ Len(tokens') = Len(tokens)
    BY <1>1
  <2> QED
    BY <1>1, <1>5, <1>6, <2>1 DEF LitInv, Literals!TypeOK, Digit
<1>9. FieldsWritten'
  <2>1. \A i \in DOMAIN tokens : Written(tokens[i], Literals!FieldOrder[i])'
    BY <1>1 DEF LitInv, FieldsWritten, Written
  <2> QED
    BY <1>1, <1>2, <2>1 DEF LitInv, FieldsWritten
<1>10. DigitsWritten'
  <2>1. SubSeq(digits', 1, 0) = <<>>
    BY <1>5
  <2>2. Literals!Magnitude(literal)' = Literals!Magnitude(SubSeq(digits, 1, digit_index))'
    BY <1>1, <2>1
  <2>3. (Literals!Current \in Literals!NumberField)'
    BY <1>1, <1>7
  <2>4. (\E w \in Literals!Number(Literals!Current) :
           /\ message[Literals!Current] = {w}
           /\ Denotes(digits, Literals!UnsignedAbs(w)))'
    BY <1>1, <1>3, <1>4, <1>7
  <2> QED
    BY <1>1, <2>2, <2>3, <2>4 DEF DigitsWritten
<1> QED
  BY <1>8, <1>9, <1>10 DEF LitInv

LEMMA Pushed ==
  ASSUME NEW text \in Text, NEW d \in Digit \cup {Literals!Separator}
  PROVE  /\ text \o <<>> \o <<d>> = Append(text, d)
         /\ text \o <<Literals!Separator>> \o <<d>> = Append(Append(text, Literals!Separator), d)
         /\ text # <<>> => Append(text, d) # <<>> /\ Head(Append(text, d)) = Head(text)
         /\ text = <<>> => Append(text, d) # <<>> /\ Head(Append(text, d)) = d
<1> DEFINE T == Digit \cup {Literals!Separator}
<1>1. text \in Seq(T) /\ d \in T /\ Literals!Separator \in T
  BY DEF Text
<1> HIDE DEF T
<1>2. text \o <<>> \o <<d>> = Append(text, d)
  BY <1>1
<1>3. text \o <<Literals!Separator>> \o <<d>> = Append(Append(text, Literals!Separator), d)
  BY <1>1
<1>4. text # <<>> => Append(text, d) # <<>> /\ Head(Append(text, d)) = Head(text)
  BY <1>1
<1>5. text = <<>> => Append(text, d) # <<>> /\ Head(Append(text, d)) = d
  BY <1>1
<1> QED
  BY <1>2, <1>3, <1>4, <1>5

LEMMA PushDigitInv == LitInv /\ Literals!PushDigit => LitInv'
<1> SUFFICES ASSUME LitInv, Literals!PushDigit PROVE LitInv'
  OBVIOUS
<1> DEFINE i == digit_index
           d == digits[i + 1]
           some == IF i = next_separator THEN Append(literal, Literals!Separator) ELSE literal
<1>1. /\ phase = "digits" /\ phase' = "digits" /\ i < Len(digits) /\ i' = i + 1
      /\ literal' = literal \o (IF i = next_separator THEN <<Literals!Separator>> ELSE <<>>)
                            \o <<d>>
      /\ next_separator' = IF i = next_separator THEN next_separator + Group ELSE next_separator
      /\ UNCHANGED <<message, constraint, digits, tokens>>
  BY DEF Literals!PushDigit
<1>2. /\ digits \in Seq(Digit) /\ Len(digits) \in Nat /\ i \in 0 .. Len(digits)
      /\ next_separator \in 0 .. Len(digits) + Group /\ next_separator > 0 /\ literal \in Text
  BY <1>1 DEF LitInv, Literals!TypeOK, Digit, Text
<1>3. d \in Digit /\ d # Literals!Separator /\ i + 1 \in 1 .. Len(digits)
  <2>1. i + 1 \in 1 .. Len(digits)
    BY <1>1, <1>2
  <2>2. d \in Digit
    BY <1>2, <2>1
  <2> HIDE DEF d
  <2>3. d # Literals!Separator
    BY <2>2, OneDigit
  <2> QED
    BY <2>1, <2>2, <2>3
<1> HIDE DEF d
<1>4. literal' = Append(some, d)
  BY <1>1, <1>2, <1>3, Pushed
<1>5. some \in Text /\ Literals!Magnitude(some) = Literals!Magnitude(literal)
  BY <1>2, MagnitudeAppend
<1>6. literal' \in Text /\ Literals!Magnitude(literal') = Literals!Magnitude(literal) * Radix + d
  <2> HIDE DEF some
  <2> QED
    BY <1>3, <1>4, <1>5, MagnitudeAppend
<1>7. Literals!Magnitude(literal') = Literals!Magnitude(SubSeq(digits, 1, i + 1))
  <2> DEFINE read == SubSeq(digits, 1, i)
  <2>1. digits \in Text
    BY <1>1 DEF LitInv, DigitsWritten, Denotes
  <2>2. read \in Text /\ SubSeq(digits, 1, i + 1) = Append(read, d)
    <3>1. SubSeq(digits, 1, i + 1) = Append(read, d)
      BY <1>1, <1>2, <1>3 DEF d
    <3>2. read \in Text
      BY <1>1, <1>2, <2>1 DEF Text
    <3> QED
      BY <3>1, <3>2
  <2>3. Literals!Magnitude(literal) = Literals!Magnitude(read)
    BY <1>1 DEF LitInv, DigitsWritten
  <2> HIDE DEF read
  <2>4. Literals!Magnitude(Append(read, d)) = Literals!Magnitude(read) * Radix + d
    BY <1>3, <2>2, MagnitudeAppend
  <2> QED
    BY <1>6, <2>2, <2>3, <2>4
<1>8. literal' # <<>> /\ Head(literal') # Literals!Separator
  <2>1. CASE i = 0
    <3>1. some = <<>> /\ literal = <<>>
      BY <1>1, <1>2, <2>1 DEF LitInv, DigitsWritten
    <3> HIDE DEF some
    <3> QED
      BY <1>3, <1>4, <1>5, <3>1, Pushed
  <2>2. CASE i # 0
    <3>1. literal # <<>> /\ Head(literal) # Literals!Separator
      BY <1>1, <1>2, <2>2 DEF LitInv, DigitsWritten
    <3>2. some # <<>> /\ Head(some) = Head(literal)
      BY <1>2, <3>1, Pushed
    <3> HIDE DEF some
    <3> QED
      BY <1>3, <1>4, <1>5, <3>1, <3>2, Pushed
  <2> QED
    BY <2>1, <2>2
<1>9. next_separator' \in 0 .. Len(digits) + Group /\ next_separator' > 0
  <2>1. Group \in Nat \ {0}
    BY LiteralsAssumption
  <2> QED
    BY <1>1, <1>2, <2>1
<1>10. Literals!TypeOK'
  <2>1. digit_index' \in 0 .. Len(digits')
    BY <1>1, <1>2
  <2> QED
    BY <1>1, <1>6, <1>9, <2>1 DEF LitInv, Literals!TypeOK, Text, Digit
<1>11. FieldsWritten'
  <2>1. \A k \in DOMAIN tokens : Written(tokens[k], Literals!FieldOrder[k])'
    BY <1>1 DEF LitInv, FieldsWritten, Written
  <2> QED
    BY <1>1, <2>1 DEF LitInv, FieldsWritten
<1>12. DigitsWritten'
  <2>1. Literals!Current' = Literals!Current
    BY <1>1 DEF Literals!Current, Literals!FieldOrder
  <2>2. (/\ Literals!Current \in Literals!NumberField
         /\ \E v \in Literals!Number(Literals!Current) :
              /\ message[Literals!Current] = {v}
              /\ Denotes(digits, Literals!UnsignedAbs(v)))'
    BY <1>1, <2>1 DEF LitInv, DigitsWritten
  <2>3. digit_index' > 0
    BY <1>1, <1>2
  <2>4. Literals!Magnitude(literal)' = Literals!Magnitude(SubSeq(digits, 1, digit_index))'
    BY <1>1, <1>7
  <2> QED
    BY <1>8, <2>2, <2>3, <2>4 DEF DigitsWritten
<1> QED
  BY <1>10, <1>11, <1>12 DEF LitInv

LEMMA FinishLiteralInv == LitInv /\ Literals!FinishLiteral => LitInv'
<1> SUFFICES ASSUME LitInv, Literals!FinishLiteral PROVE LitInv'
  OBVIOUS
<1> DEFINE f == Literals!Current
           Number(v) == [negative |-> v < 0, literal |-> Append(literal, Literals!Separator)]
<1>1. /\ phase = "digits" /\ digit_index = Len(digits)
      /\ \E v \in constraint[f] : Literals!Write({Number(v)})
      /\ UNCHANGED <<message, constraint, digits, digit_index, next_separator, literal>>
  <2>1. f \in Literals!Field
    BY CurrentField DEF Literals!FinishLiteral, LitInv
  <2> QED
    BY <2>1, Bound DEF Literals!FinishLiteral
<1>2. constraint = message /\ f \in Literals!Field /\ f \in Literals!NumberField
  BY <1>1, CurrentField DEF LitInv, DigitsWritten
<1>3. PICK v \in Literals!Number(f) :
             message[f] = {v} /\ Denotes(digits, Literals!UnsignedAbs(v))
  BY <1>1 DEF LitInv, DigitsWritten
<1> DEFINE number == Number(v)
           text == Append(literal, Literals!Separator)
<1>4. Literals!Write({number})
  BY <1>1, <1>2, <1>3
<1>5. literal \in Text
  BY DEF LitInv, Literals!TypeOK, Text, Digit
<1>6. text \in Text /\ Literals!Magnitude(text) = Literals!UnsignedAbs(v)
  <2>1. text \in Text /\ Literals!Magnitude(text) = Literals!Magnitude(literal)
    BY <1>5, MagnitudeAppend
  <2>2. SubSeq(digits, 1, digit_index) = digits
    BY <1>1, <1>3 DEF Denotes
  <2>3. Literals!Magnitude(literal) = Literals!Magnitude(digits)
    BY <1>1, <2>2 DEF LitInv, DigitsWritten
  <2> QED
    BY <1>3, <2>1, <2>3 DEF Denotes
<1>7. Head(text) # Literals!Separator
  <2>1. digit_index > 0
    BY <1>1, <1>3 DEF Denotes
  <2>2. literal # <<>> /\ Head(literal) # Literals!Separator
    BY <1>1, <2>1 DEF LitInv, DigitsWritten
  <2> QED
    BY <1>5, <2>2, Pushed
<1>8. number = [negative |-> v < 0, literal |-> text]
  OBVIOUS
<1> HIDE DEF text, number
<1>9. Literals!Value(number) = v
  BY <1>3, <1>6, <1>8, Signed DEF Literals!Value
<1>10. Written([field |-> f, value |-> {number}], f)
  <2>1. \A x \in {number} : Head(x.literal) # Literals!Separator
    BY <1>7, <1>8
  <2>2. {Literals!Value(x) : x \in {number}} = message[f]
    BY <1>3, <1>9
  <2> QED
    BY <1>2, <2>1, <2>2 DEF Written
<1>11. [field |-> f, value |-> {number}] \in Token
  <2>1. number \in Signs
    BY <1>6, <1>8 DEF Signs
  <2> HIDE DEF f
  <2> QED
    BY <1>2, <2>1 DEF Token
<1> QED
  BY <1>1, <1>4, <1>10, <1>11, WriteOne

LEMMA CompileInv == LitInv /\ Literals!Compile => LitInv'
<1> SUFFICES ASSUME LitInv, Literals!Compile PROVE LitInv'
  OBVIOUS
<1>1. /\ phase = "compile" /\ Len(tokens) = 9 /\ message \in Messages /\ tokens \in Seq(Token)
      /\ phase' = IF \A i \in DOMAIN tokens : Literals!Accepts(tokens[i])
                  THEN "published" ELSE "compile_error"
      /\ UNCHANGED <<message, constraint, digits, digit_index, next_separator, literal, tokens>>
  BY DEF Literals!Compile, LitInv, FieldsWritten
<1>2. ASSUME NEW i \in DOMAIN tokens
      PROVE  Literals!Accepts(tokens[i])
  <2> DEFINE f == Literals!FieldOrder[i]
  <2>1. i \in 1 .. 9 /\ Written(tokens[i], f)
    BY <1>1 DEF LitInv, FieldsWritten
  <2>2. f \in Literals!Field /\ tokens[i].field = f
    BY <2>1, NineFields DEF Written
  <2> HIDE DEF f
  <2>3. ASSUME f \in Literals!NumberField, NEW number \in tokens[i].value
        PROVE  Head(number.literal) # Literals!Separator
                 /\ Literals!Value(number) \in Literals!Number(f)
    <3>1. Head(number.literal) # Literals!Separator
      BY <2>1, <2>3 DEF Written
    <3>2. Literals!Value(number) \in message[f]
      BY <2>1, <2>3 DEF Written
    <3>3. message[f] = {} \/ \E v \in Literals!Number(f) : message[f] = {v}
      BY <1>1, <2>3, LiteralsAssumption
    <3> QED
      BY <3>1, <3>2, <3>3
  <2> QED
    BY <2>2, <2>3 DEF Literals!Accepts
<1>3. phase' = "published"
  BY <1>1, <1>2
<1>4. FieldsWritten'
  <2>1. \A i \in DOMAIN tokens : Written(tokens[i], Literals!FieldOrder[i])'
    BY <1>1 DEF LitInv, FieldsWritten, Written
  <2> QED
    BY <1>1, <1>3, <2>1 DEF LitInv, FieldsWritten
<1>5. Literals!TypeOK'
  BY <1>1, <1>3 DEF LitInv, Literals!TypeOK
<1> QED
  BY <1>3, <1>4, <1>5 DEF LitInv, DigitsWritten

LEMMA LitNextInv == LitInv /\ [Literals!Next]_(Literals!vars) => LitInv'
<1> SUFFICES ASSUME LitInv, [Literals!Next]_(Literals!vars) PROVE LitInv'
  OBVIOUS
<1>1. CASE UNCHANGED Literals!vars
  <2>1. UNCHANGED <<message, constraint, digits, digit_index, next_separator, literal, tokens,
                    phase>>
    BY <1>1 DEF Literals!vars
  <2>2. Literals!TypeOK'
    BY <2>1 DEF LitInv, Literals!TypeOK
  <2>3. \A k \in DOMAIN tokens : Written(tokens[k], Literals!FieldOrder[k])'
    BY <2>1 DEF LitInv, FieldsWritten, Written
  <2>4. FieldsWritten'
    BY <2>1, <2>3 DEF LitInv, FieldsWritten
  <2>5. Literals!Current' = Literals!Current
    BY <2>1 DEF Literals!Current, Literals!FieldOrder
  <2>6. DigitsWritten'
    BY <2>1, <2>5 DEF LitInv, DigitsWritten
  <2> QED
    BY <2>2, <2>4, <2>6 DEF LitInv
<1> QED
  BY <1>1, ConvertInv, WriteTextInv, StartLiteralInv, PushDigitInv, FinishLiteralInv, CompileInv
  DEF Literals!Next

(* Field by field, what the compiler reads is what was signed. *)
LEMMA SignedFollows ==
  ASSUME LitInv
  PROVE  PublishedAsSigned
<1>1. ASSUME phase = "published"
      PROVE  Literals!Compiled = message
  <2>1. /\ Len(tokens) = 9 /\ tokens \in Seq(Token) /\ message \in Messages
        /\ \A i \in 1 .. 9 : Written(tokens[i], Literals!FieldOrder[i])
    BY <1>1 DEF LitInv, FieldsWritten
  <2>2. ASSUME NEW f \in Literals!Field
        PROVE  LET written == CHOOSE i \in DOMAIN tokens : tokens[i].field = f
               IN (IF f \in Literals!NumberField
                   THEN {Literals!Value(number) : number \in tokens[written].value}
                   ELSE tokens[written].value) = message[f]
    <3> DEFINE written == CHOOSE i \in DOMAIN tokens : tokens[i].field = f
    <3>1. \E i \in DOMAIN tokens : tokens[i].field = f
      BY <2>1, NineFields DEF Written
    <3>2. written \in 1 .. 9 /\ tokens[written].field = f
      BY <2>1, <3>1
    <3> HIDE DEF written
    <3>3. Written(tokens[written], f)
      BY <2>1, <3>2 DEF Written
    <3> QED
      BY <3>3 DEF Written, written
  <2>3. message = [f \in Literals!Field |-> message[f]]
    BY <2>1, LiteralsAssumption
  <2> QED
    BY <2>2, <2>3 DEF Literals!Compiled
<1> QED
  BY <1>1 DEF LitInv, FieldsWritten, PublishedAsSigned, Literals!PublishedAsSigned

-----------------------------------------------------------------------------
(* The behaviours that TLC runs *)

(* Each computation goes its way whatever the other one does.                 *)
THEOREM IdsProjection == ConstantsSpec => Spec
<1>1. ConstantsInit => Init
  BY DEF ConstantsInit
<1>2. [EvaluateIds \/ WriteLiterals]_<<part, vars, literals>> => [Next]_vars
  BY DEF EvaluateIds, WriteLiterals
<1> QED
  BY <1>1, <1>2, PTL DEF ConstantsSpec, Spec

THEOREM LiteralsProjection == ConstantsSpec => Literals!Spec
<1>1. ConstantsInit => Literals!Init
  BY DEF ConstantsInit
<1>2. [EvaluateIds \/ WriteLiterals]_<<part, vars, literals>> => [Literals!Next]_(Literals!vars)
  BY DEF EvaluateIds, WriteLiterals, literals, Literals!vars
<1> QED
  BY <1>1, <1>2, PTL DEF ConstantsSpec, Literals!Spec

LEMMA LitInvariance == ConstantsSpec => []LitInv
  BY LiteralsProjection, LitInitInv, LitNextInv, PTL DEF Literals!Spec

(* What users compile is the signed constraint set, field by field, for every *)
(* number of the type of its field, in any radix, grouping and width          *)
(* (protobuf.rs:262-275, codegen.rs:147-243).                                 *)
THEOREM ConstraintsAsSigned == ConstantsSpec => []PublishedAsSigned
  BY LitInvariance, SignedFollows, PTL

(* Type correctness of both computations. *)
THEOREM ConstantTypes == ConstantsSpec => []TypesOK
<1>1. IInv /\ LitInv => TypesOK
  BY DEF IInv, LitInv, TypesOK
<1> QED
  BY <1>1, IdsProjection, Invariance, LitInvariance, PTL
=============================================================================
