-------------------------- MODULE RelativeOid_proofs --------------------------
(*****************************************************************************)
(* Proofs about RelativeOid, for every base above 1, every length limit and  *)
(* byte strings of any length: the byte loop of validate_trust_anchor_id     *)
(* decides Minimal, and the byte strings it accepts are exactly the          *)
(* canonical encodings of lists of components.                               *)
(*                                                                           *)
(* Encoded, Decoded and the groups of a number are recursive functions over  *)
(* data of any size. Each is shown to exist and to be unique with the        *)
(* least-number principle; after that only its recursion equation is used.   *)
(*****************************************************************************)
EXTENDS RelativeOid, WellFoundedInduction, TLAPS

(* The bytes before index have been accepted. *)
PrefixMinimal ==
  \A k \in 1 .. index - 1 : id[k] = Base => k > 1 /\ Continues(id[k - 1])

(* What the loop's one flag remembers of the byte before index. *)
FlagExact == componentStart <=> (index = 1 \/ ~Continues(id[index - 1]))

OpenInv ==
  verdict = "open" =>
    /\ LengthValid(id)
    /\ PrefixMinimal
    /\ FlagExact
    /\ index > Len(id) => ~Continues(id[Len(id)])

IInv == TypeOK /\ OpenInv /\ AcceptedIffMinimal

LEMMA InitInv == Init => IInv
<1> SUFFICES ASSUME Init PROVE IInv
  OBVIOUS
<1>1. TypeOK
  BY OidAssumption DEF Init, TypeOK
<1>2. OpenInv
  <2>1. ASSUME verdict = "open" PROVE LengthValid(id) /\ Len(id) # 0 /\ Len(id) \in Nat
    BY <1>1, <2>1 DEF Init, LengthValid, TypeOK
  <2>2. PrefixMinimal /\ FlagExact
    BY DEF Init, PrefixMinimal, FlagExact
  <2>3. index = 1
    BY DEF Init
  <2> QED
    BY <2>1, <2>2, <2>3 DEF OpenInv
<1>3. AcceptedIffMinimal
  BY DEF Init, AcceptedIffMinimal, Minimal
<1> QED
  BY <1>1, <1>2, <1>3 DEF IInv

LEMMA NextInv == IInv /\ [Next]_vars => IInv'
<1> SUFFICES ASSUME IInv, [Next]_vars PROVE IInv'
  OBVIOUS
<1> USE OidAssumption DEF IInv, TypeOK
<1>1. CASE verdict = "open" /\ index <= Len(id) /\ Accept(id[index])
  <2>1. /\ id' = id /\ verdict' = "open" /\ index' = index + 1
        /\ componentStart' = ~Continues(id[index])
        /\ index \in 1 .. Len(id)
    BY <1>1 DEF Accept, After
  <2>2. TypeOK'
    BY <2>1 DEF Continues
  <2>3. PrefixMinimal'
    <3>1. ASSUME NEW k \in 1 .. index, id[k] = Base
          PROVE k > 1 /\ Continues(id[k - 1])
      <4>1. CASE k < index
        BY <1>1, <3>1, <4>1 DEF OpenInv, PrefixMinimal
      <4>2. CASE k = index
        <5>1. ~componentStart
          BY <1>1, <3>1, <4>2 DEF Accept, RedundantGroup
        <5>2. index # 1 /\ Continues(id[index - 1])
          BY <1>1, <5>1 DEF OpenInv, FlagExact
        <5> QED
          BY <2>1, <4>2, <5>2
      <4> QED
        BY <2>1, <4>1, <4>2
    <3> QED
      BY <2>1, <3>1 DEF PrefixMinimal
  <2>4. FlagExact'
    <3>1. index' # 1 /\ id'[index' - 1] = id[index]
      BY <2>1
    <3> QED
      BY <2>1, <3>1 DEF FlagExact, Continues
  <2>5. index' > Len(id') => ~Continues(id'[Len(id')])
    BY <1>1, <2>1 DEF Accept, EndsInside
  <2>6. OpenInv'
    BY <1>1, <2>1, <2>3, <2>4, <2>5 DEF OpenInv, LengthValid, Continues
  <2> QED
    BY <2>1, <2>2, <2>6 DEF AcceptedIffMinimal
<1>2. CASE verdict = "open" /\ index <= Len(id) /\ Refuse(id[index])
  <2>1. /\ verdict' = "rejected" /\ UNCHANGED <<id, index, componentStart>>
        /\ index \in 1 .. Len(id)
    BY <1>2 DEF Refuse
  <2>2. CASE RedundantGroup(id[index])
    <3>1. id[index] = Base /\ (index = 1 \/ ~Continues(id[index - 1]))
      BY <1>2, <2>2 DEF RedundantGroup, OpenInv, FlagExact
    <3> QED
      BY <2>1, <3>1 DEF AcceptedIffMinimal, Minimal, OpenInv
  <2>3. CASE EndsInside(id[index])
    <3>1. Continues(id[Len(id)])
      BY <2>3 DEF EndsInside
    <3> QED
      BY <2>1, <3>1 DEF AcceptedIffMinimal, Minimal, OpenInv
  <2> QED
    BY <1>2, <2>2, <2>3 DEF Refuse
<1>3. CASE Return
  <2>1. /\ verdict = "open" /\ verdict' = "accepted" /\ index = Len(id) + 1
        /\ UNCHANGED <<id, index, componentStart>>
    BY <1>3 DEF Return
  <2>2. Minimal(id)
    BY <2>1 DEF OpenInv, PrefixMinimal, Minimal
  <2>3. Minimal(id)'
    BY <2>1, <2>2 DEF Minimal, LengthValid, Continues
  <2> QED
    BY <2>1, <2>3 DEF AcceptedIffMinimal, OpenInv
<1>4. CASE UNCHANGED vars
  BY <1>4 DEF vars, OpenInv, PrefixMinimal, FlagExact, LengthValid, AcceptedIffMinimal, Minimal,
             Continues
<1> QED
  BY <1>1, <1>2, <1>3, <1>4 DEF Next, NextByte

LEMMA Invariance == Spec => []IInv
  BY InitInv, NextInv, PTL DEF Spec

(* Type correctness of the loop for byte strings of any length. *)
THEOREM TypeCorrect == Spec => []TypeOK
<1>1. IInv => TypeOK
  BY DEF IInv
<1> QED
  BY <1>1, Invariance, PTL

(* One flag carried from byte to byte is enough: the loop accepts a byte      *)
(* string exactly when it is minimal (certificates.rs:53-75).                 *)
THEOREM LoopDecidesMinimal == Spec => []AcceptedIffMinimal
<1>1. IInv => AcceptedIffMinimal
  BY DEF IInv
<1> QED
  BY <1>1, Invariance, PTL

-----------------------------------------------------------------------------
(* Recursion over numbers *)

LEMMA LeastNumber ==
  ASSUME NEW S \in SUBSET Nat, S # {}
  PROVE  \E m \in S : \A n \in S : m <= n
<1> DEFINE R == OpToRel(<, Nat)
<1>1. IsWellFoundedOn(R, Nat)
  BY NatLessThanWellFounded
<1> HIDE DEF R
<1>2. PICK m \in S : \A n \in S : <<n, m>> \notin R
  BY <1>1, WFMin
<1>3. \A n, k \in Nat : n < k => <<n, k>> \in R
  BY DEF R, OpToRel
<1>4. \A n \in S : ~(n < m)
  BY <1>2, <1>3
<1>5. m \in Nat /\ \A n \in S : n \in Nat
  OBVIOUS
<1>6. \A n \in S : m <= n
  BY <1>4, <1>5
<1> QED
  BY <1>6

(* Induction over the positions 0 .. n, for the set of those that satisfy     *)
(* something.                                                                 *)
(* Induction over the positions 0 .. n, for the set of those that satisfy     *)
(* something.                                                                 *)
LEMMA UpTo ==
  ASSUME NEW n \in Nat, NEW P, 0 \in P, \A k \in 1 .. n : k - 1 \in P => k \in P
  PROVE  \A k \in 0 .. n : k \in P
<1> DEFINE Q == {k \in 0 .. n : k \notin P}
<1>1. SUFFICES ASSUME Q # {} PROVE FALSE
  OBVIOUS
<1>2. PICK m \in Q : \A k \in Q : m <= k
  <2>1. Q \in SUBSET Nat
    OBVIOUS
  <2> HIDE DEF Q
  <2> QED
    BY <1>1, <2>1, LeastNumber
<1>3. m \in 1 .. n /\ m - 1 \in 0 .. n /\ m - 1 \notin Q
  BY <1>2
<1> QED
  BY <1>2, <1>3

(* A function given by its first value and its steps exists.                  *)
(* A function given by its first value and its steps exists.                  *)
LEMMA StepsExist ==
  ASSUME NEW S, NEW c \in S, NEW n \in Nat, NEW step \in [1 .. n -> [S -> S]]
  PROVE  \E f \in [0 .. n -> S] : f[0] = c /\ \A k \in 1 .. n : f[k] = step[k][f[k - 1]]
<1> DEFINE Solves(f, m) == f[0] = c /\ \A k \in 1 .. m : f[k] = step[k][f[k - 1]]
           P == {m \in 0 .. n : \E f \in [0 .. m -> S] : Solves(f, m)}
<1>1. 0 \in P
  <2> DEFINE f == [k \in 0 .. 0 |-> c]
  <2>1. f \in [0 .. 0 -> S] /\ f[0] = c /\ 1 .. 0 = {}
    OBVIOUS
  <2>2. Solves(f, 0)
    BY <2>1
  <2> HIDE DEF f, Solves
  <2> QED
    BY <2>1, <2>2
<1>2. ASSUME NEW m \in 1 .. n, m - 1 \in P
      PROVE  m \in P
  <2>1. PICK f \in [0 .. m - 1 -> S] : Solves(f, m - 1)
    BY <1>2
  <2>2. f[m - 1] \in S
    OBVIOUS
  <2> DEFINE g == [k \in 0 .. m |-> IF k = m THEN step[m][f[m - 1]] ELSE f[k]]
  <2>3. step[m][f[m - 1]] \in S
    BY <2>2
  <2>4. g \in [0 .. m -> S]
    BY <2>3
  <2>5. g[m] = step[m][f[m - 1]] /\ \A k \in 0 .. m - 1 : g[k] = f[k]
    OBVIOUS
  <2> HIDE DEF g
  <2>6. ASSUME NEW k \in 1 .. m
        PROVE  g[k] = step[k][g[k - 1]]
    <3>1. CASE k = m
      <4>1. m - 1 \in 0 .. m - 1
        OBVIOUS
      <4> QED
        BY <2>5, <3>1, <4>1
    <3>2. CASE k # m
      <4>1. k \in 1 .. m - 1 /\ k - 1 \in 0 .. m - 1
        BY <3>2
      <4> QED
        BY <2>1, <2>5, <4>1
    <3> QED
      BY <3>1, <3>2
  <2>7. g[0] = c
    BY <2>1, <2>5
  <2>8. Solves(g, m)
    BY <2>6, <2>7
  <2> HIDE DEF Solves
  <2> QED
    BY <2>4, <2>8
<1>3. \A m \in 0 .. n : m \in P
  BY <1>1, <1>2, UpTo
<1> QED
  BY <1>3

-----------------------------------------------------------------------------
(* Division by the base *)

Group == 0 .. Base - 1

LEMMA Division ==
  ASSUME NEW k \in Nat
  PROVE  /\ k % Base \in Group
         /\ k \div Base \in Nat
         /\ k = (k \div Base) * Base + (k % Base)
<1>1. Base \in Nat /\ Base >= 2
  BY OidAssumption
<1>2. k % Base \in Group
  BY <1>1 DEF Group
<1>3. k \div Base \in Nat
  BY <1>1
<1>4. k = Base * (k \div Base) + (k % Base)
  BY <1>1, SMTT(30)
<1> DEFINE q == k \div Base
           r == k % Base
<1> HIDE DEF q, r
<1>5. q \in Nat /\ r \in Nat /\ k = Base * q + r
  BY <1>1, <1>2, <1>3, <1>4 DEF q, r, Group
<1>6. Base * q = q * Base
  BY <1>1, <1>5
<1>7. k = q * Base + r
  BY <1>5, <1>6
<1> QED
  BY <1>2, <1>3, <1>7 DEF q, r

(* Quotient and remainder are the only ones. *)
LEMMA Further ==
  ASSUME NEW p \in Nat, NEW q \in Nat, p < q
  PROVE  p * Base + Base <= q * Base
<1>1. Base \in Nat /\ p + 1 <= q
  BY OidAssumption
<1>2. (p + 1) * Base <= q * Base
  <2> DEFINE t == q - (p + 1)
  <2>1. t \in Nat /\ q = (p + 1) + t
    BY <1>1
  <2> HIDE DEF t
  <2>2. t * Base \in Nat
    BY <1>1, <2>1
  <2>3. ((p + 1) + t) * Base = (p + 1) * Base + t * Base
    BY <1>1, <2>1
  <2>4. (p + 1) * Base \in Nat
    BY <1>1
  <2> QED
    BY <2>1, <2>2, <2>3, <2>4
<1>3. (p + 1) * Base = p * Base + Base
  BY <1>1
<1> QED
  BY <1>2, <1>3

LEMMA Quotient ==
  ASSUME NEW p \in Nat, NEW d \in Group
  PROVE  /\ p * Base + d \in Nat
         /\ (p * Base + d) \div Base = p
         /\ (p * Base + d) % Base = d
         /\ p > 0 => p < p * Base + d /\ ~(p * Base + d < Base)
<1>1. Base \in Nat /\ Base >= 2 /\ d \in Nat /\ d < Base
  BY OidAssumption DEF Group
<1> DEFINE k == p * Base + d
           q == k \div Base
           r == k % Base
<1>2. p * Base \in Nat
  BY <1>1
<1>3. k \in Nat
  BY <1>1, <1>2
<1> HIDE DEF k
<1>4. q \in Nat /\ r \in Group /\ k = q * Base + r
  BY <1>3, Division
<1> HIDE DEF q, r
<1>5. r \in Nat /\ r < Base /\ q * Base \in Nat
  BY <1>1, <1>4 DEF Group
<1>6. k = p * Base + d
  BY DEF k
<1>7. ~(p < q)
  <2> SUFFICES ASSUME p < q PROVE FALSE
    OBVIOUS
  <2>1. p * Base + Base <= q * Base
    BY <1>4, Further
  <2> QED
    BY <1>1, <1>2, <1>4, <1>5, <1>6, <2>1
<1>8. ~(q < p)
  <2> SUFFICES ASSUME q < p PROVE FALSE
    OBVIOUS
  <2>1. q * Base + Base <= p * Base
    BY <1>4, Further
  <2> QED
    BY <1>1, <1>2, <1>4, <1>5, <1>6, <2>1
<1>9. q = p
  BY <1>4, <1>7, <1>8
<1>10. r = d
  BY <1>1, <1>2, <1>4, <1>5, <1>6, <1>9
<1>11. ASSUME p > 0 PROVE p < k /\ ~(k < Base)
  <2>1. 0 * Base + Base <= p * Base /\ 0 * Base = 0
    BY <1>1, <1>11, Further
  <2>2. p * 2 <= p * Base
    <3> DEFINE t == Base - 2
    <3>1. t \in Nat /\ Base = 2 + t
      BY <1>1
    <3> HIDE DEF t
    <3>2. p * t \in Nat /\ p * (2 + t) = p * 2 + p * t
      BY <3>1
    <3> QED
      BY <3>1, <3>2
  <2> QED
    BY <1>1, <1>2, <1>6, <1>11, <2>1, <2>2
<1> QED
  BY <1>3, <1>9, <1>10, <1>11 DEF k, q, r

(* The group in a byte. *)
LEMMA GroupInByte ==
  ASSUME NEW b \in Bytes
  PROVE  /\ b \in Nat /\ b % Base \in Group
         /\ Continues(b) => b = (b % Base) + Base
         /\ ~Continues(b) => b = b % Base
<1>1. Base \in Nat /\ b \in Nat /\ b < 2 * Base
  BY OidAssumption DEF Bytes
<1>2. CASE Continues(b)
  <2> DEFINE d == b - Base
  <2>1. d \in Group /\ b = 1 * Base + d
    BY <1>1, <1>2 DEF Group, Continues
  <2> HIDE DEF d
  <2>2. b % Base = d
    BY <2>1, Quotient
  <2>3. b = d + Base
    BY <1>1, <2>1 DEF Group
  <2> QED
    BY <1>1, <1>2, <2>1, <2>2, <2>3
<1>3. CASE ~Continues(b)
  <2>1. b \in Group /\ b = 0 * Base + b
    BY <1>1, <1>3 DEF Group, Continues
  <2>2. b % Base = b
    BY <2>1, Quotient
  <2> QED
    BY <1>1, <1>3, <2>1, <2>2
<1> QED
  BY <1>2, <1>3

-----------------------------------------------------------------------------
(* The groups of a number *)

GroupsBy(f, k) == IF k < Base THEN <<k>> ELSE f[k \div Base] \o <<k % Base>>

LEMMA Smaller ==
  ASSUME NEW k \in Nat, ~(k < Base)
  PROVE  k \div Base \in 0 .. k - 1
<1> DEFINE q == k \div Base
           r == k % Base
<1>1. q \in Nat /\ r \in Group /\ k = q * Base + r
  BY Division
<1> HIDE DEF q, r
<1>2. q > 0
  <2>1. q = 0 => q * Base = 0
    BY OidAssumption
  <2> QED
    BY <1>1, <2>1, OidAssumption DEF Group
<1>3. q < k
  BY <1>1, <1>2, Quotient
<1> QED
  BY <1>1, <1>3 DEF q

LEMMA GroupsExist ==
  ASSUME NEW n \in Nat
  PROVE  \E f : f = [k \in 0 .. n |-> GroupsBy(f, k)]
<1> DEFINE Solves(f, m) == f = [k \in 0 .. m |-> GroupsBy(f, k)]
           P == {m \in 0 .. n : \E f : Solves(f, m)}
<1>1. 0 \in P
  <2> DEFINE f == [k \in 0 .. 0 |-> <<k>>]
  <2>1. \A k \in 0 .. 0 : GroupsBy(f, k) = <<k>>
    BY OidAssumption DEF GroupsBy
  <2>2. Solves(f, 0)
    BY <2>1
  <2> HIDE DEF f, Solves
  <2> QED
    BY <2>2
<1>2. ASSUME NEW m \in 1 .. n, m - 1 \in P
      PROVE  m \in P
  <2>1. PICK f : Solves(f, m - 1)
    BY <1>2
  <2> DEFINE g == [k \in 0 .. m |-> IF k = m THEN GroupsBy(f, k) ELSE f[k]]
  <2>2. \A k \in 0 .. m - 1 : k \in 0 .. m /\ g[k] = f[k]
    OBVIOUS
  <2> HIDE DEF g
  <2>3. ASSUME NEW k \in 0 .. m
        PROVE  GroupsBy(g, k) = GroupsBy(f, k)
    <3>1. CASE k < Base
      BY <3>1 DEF GroupsBy
    <3>2. CASE ~(k < Base)
      <4>1. k \div Base \in 0 .. m - 1
        <5>1. k \in Nat /\ k \div Base \in 0 .. k - 1
          BY <3>2, Smaller
        <5> QED
          BY <5>1
      <4> QED
        BY <2>2, <4>1 DEF GroupsBy
    <3> QED
      BY <3>1, <3>2
  <2>4. ASSUME NEW k \in 0 .. m
        PROVE  g[k] = GroupsBy(g, k)
    <3>1. CASE k = m
      <4>1. g[k] = GroupsBy(f, k)
        BY <3>1 DEF g
      <4> QED
        BY <2>3, <4>1
    <3>2. CASE k # m
      <4>1. k \in 0 .. m - 1 /\ g[k] = f[k]
        BY <2>2, <3>2
      <4>2. f[k] = GroupsBy(f, k)
        BY <2>1, <4>1
      <4> QED
        BY <2>3, <4>1, <4>2
    <3> QED
      BY <3>1, <3>2
  <2>5. g = [k \in 0 .. m |-> g[k]]
    BY DEF g
  <2>6. Solves(g, m)
    BY <2>4, <2>5
  <2> HIDE DEF Solves
  <2> QED
    BY <2>6
<1>3. n \in P
  <2> HIDE DEF P
  <2>1. \A m \in 0 .. n : m \in P
    BY <1>1, <1>2, UpTo
  <2> QED
    BY <2>1
<1> QED
  BY <1>3

(* Two such functions agree where both are defined. *)
LEMMA GroupsUnique ==
  ASSUME NEW n \in Nat, NEW f, NEW g, NEW m \in Nat, n <= m,
         f = [k \in 0 .. n |-> GroupsBy(f, k)], g = [k \in 0 .. m |-> GroupsBy(g, k)]
  PROVE  \A k \in 0 .. n : f[k] = g[k]
<1>1. \A k \in 0 .. n : f[k] = GroupsBy(f, k)
  OBVIOUS
<1>2. \A k \in 0 .. n : g[k] = GroupsBy(g, k)
  <2>1. \A k \in 0 .. n : k \in 0 .. m
    OBVIOUS
  <2>2. \A k \in 0 .. m : g[k] = GroupsBy(g, k)
    OBVIOUS
  <2> QED
    BY <2>1, <2>2
<1> DEFINE P == {k \in 0 .. n : \A j \in 0 .. k : f[j] = g[j]}
<1>3. ASSUME NEW k \in 0 .. n, \A j \in 0 .. k - 1 : f[j] = g[j]
      PROVE  f[k] = g[k]
  <2>1. CASE k < Base
    BY <1>1, <1>2, <2>1 DEF GroupsBy
  <2>2. CASE ~(k < Base)
    <3>1. k \div Base \in 0 .. k - 1
      BY <2>2, Smaller
    <3> QED
      BY <1>1, <1>2, <1>3, <3>1 DEF GroupsBy
  <2> QED
    BY <2>1, <2>2
<1>4. 0 \in P
  <2>1. 0 \in 0 .. n /\ \A j \in 0 .. 0 : j = 0
    OBVIOUS
  <2>2. f[0] = g[0]
    <3>1. \A j \in 0 .. 0 - 1 : f[j] = g[j]
      OBVIOUS
    <3> QED
      BY <1>3, <2>1, <3>1
  <2> QED
    BY <2>1, <2>2
<1>5. ASSUME NEW k \in 1 .. n, k - 1 \in P
      PROVE  k \in P
  <2>1. \A j \in 0 .. k - 1 : f[j] = g[j]
    BY <1>5
  <2>2. f[k] = g[k]
    BY <1>3, <2>1
  <2>3. \A j \in 0 .. k : j = k \/ j \in 0 .. k - 1
    OBVIOUS
  <2> QED
    BY <2>1, <2>2, <2>3
<1>6. \A k \in 0 .. n : k \in P
  <2> HIDE DEF P
  <2> QED
    BY <1>4, <1>5, UpTo
<1> QED
  BY <1>6

LEMMA GroupsRecur ==
  \A n \in Nat : GroupsOf[n] = IF n < Base THEN <<n>> ELSE GroupsOf[n \div Base] \o <<n % Base>>
<1> DEFINE Upto(n) == CHOOSE h : h = [k \in 0 .. n |-> GroupsBy(h, k)]
           f == [n \in Nat |-> Upto(n)[n]]
           g == CHOOSE h : h = [n \in Nat |-> GroupsBy(h, n)]
<1>1. ASSUME NEW n \in Nat
      PROVE  Upto(n) = [k \in 0 .. n |-> GroupsBy(Upto(n), k)]
  BY GroupsExist
<1> HIDE DEF Upto
<1>2. ASSUME NEW n \in Nat, NEW k \in 0 .. n
      PROVE  Upto(n)[k] = f[k]
  <2>1. k \in Nat /\ k <= n /\ k \in 0 .. k
    OBVIOUS
  <2>2. Upto(k)[k] = Upto(n)[k]
    <3>1. \A j \in 0 .. k : Upto(k)[j] = Upto(n)[j]
      BY <1>1, <2>1, GroupsUnique
    <3> QED
      BY <2>1, <3>1
  <2> QED
    BY <2>1, <2>2
<1>3. ASSUME NEW n \in Nat
      PROVE  f[n] = GroupsBy(f, n)
  <2>1. n \in 0 .. n
    OBVIOUS
  <2>2. f[n] = GroupsBy(Upto(n), n)
    <3>1. Upto(n)[n] = GroupsBy(Upto(n), n)
      BY <1>1, <2>1
    <3> QED
      BY <3>1
  <2>3. GroupsBy(Upto(n), n) = GroupsBy(f, n)
    <3>1. CASE n < Base
      BY <3>1 DEF GroupsBy
    <3>2. CASE ~(n < Base)
      <4>1. n \div Base \in 0 .. n
        <5>1. n \div Base \in 0 .. n - 1
          BY <3>2, Smaller
        <5> QED
          BY <5>1
      <4>2. Upto(n)[n \div Base] = f[n \div Base]
        BY <1>2, <4>1
      <4> HIDE DEF f
      <4> QED
        BY <4>2 DEF GroupsBy
    <3> QED
      BY <3>1, <3>2
  <2> QED
    BY <2>2, <2>3
<1>4. f = [n \in Nat |-> GroupsBy(f, n)]
  <2>1. f = [n \in Nat |-> f[n]]
    OBVIOUS
  <2> HIDE DEF f
  <2> QED
    BY <1>3, <2>1
<1>5. g = [n \in Nat |-> GroupsBy(g, n)]
  BY <1>4
<1>6. GroupsOf = g
  BY DEF GroupsOf, GroupsBy
<1> HIDE DEF g
<1> QED
  BY <1>5, <1>6 DEF GroupsBy

(* All groups of n, when more groups follow. *)
Marked(n) == [k \in DOMAIN GroupsOf[n] |-> GroupsOf[n][k] + Base]

Grouped(n) ==
  /\ GroupsOf[n] \in Seq(Group)
  /\ Len(GroupsOf[n]) >= 1
  /\ n > 0 => GroupsOf[n][1] > 0

LEMMA OneGroup ==
  ASSUME NEW d \in Group
  PROVE  GroupsOf[d] = <<d>> /\ Grouped(d)
<1>1. d \in Nat /\ d < Base
  BY OidAssumption DEF Group
<1>2. GroupsOf[d] = <<d>>
  BY <1>1, GroupsRecur
<1> QED
  BY <1>2 DEF Grouped

LEMMA MoreGroups ==
  ASSUME NEW p \in Nat, p > 0, NEW d \in Group, Grouped(p)
  PROVE  GroupsOf[p * Base + d] = Append(GroupsOf[p], d) /\ Grouped(p * Base + d)
<1> DEFINE n == p * Base + d
           s == GroupsOf[p]
<1>1. n \in Nat /\ n \div Base = p /\ n % Base = d /\ ~(n < Base)
  BY Quotient
<1> HIDE DEF n
<1>2. GroupsOf[n] = s \o <<d>>
  BY <1>1, GroupsRecur
<1>3. s \in Seq(Group) /\ Len(s) >= 1 /\ s[1] > 0
  BY DEF Grouped
<1> HIDE DEF s
<1>4. s \o <<d>> = Append(s, d)
  BY <1>3
<1>5. Append(s, d) \in Seq(Group) /\ Len(Append(s, d)) >= 1 /\ Append(s, d)[1] = s[1]
  BY <1>3
<1> QED
  BY <1>2, <1>3, <1>4, <1>5 DEF n, s, Grouped

LEMMA AllGrouped ==
  ASSUME NEW n \in Nat
  PROVE  Grouped(n)
<1> DEFINE P == {k \in 0 .. n : \A j \in 0 .. k : Grouped(j)}
<1>1. ASSUME NEW k \in 0 .. n, \A j \in 0 .. k - 1 : Grouped(j)
      PROVE  Grouped(k)
  <2>1. CASE k < Base
    BY <2>1, OneGroup, OidAssumption DEF Group
  <2>2. CASE ~(k < Base)
    <3> DEFINE q == k \div Base
               r == k % Base
    <3>1. q \in 0 .. k - 1 /\ r \in Group /\ k = q * Base + r
      BY <2>2, Smaller, Division
    <3> HIDE DEF q, r
    <3>2. q > 0
      <4>1. q = 0 => q * Base = 0
        BY OidAssumption
      <4> QED
        BY <2>2, <3>1, <4>1, OidAssumption DEF Group
    <3>3. q \in Nat /\ Grouped(q)
      BY <1>1, <3>1
    <3> QED
      BY <3>1, <3>2, <3>3, MoreGroups
  <2> QED
    BY <2>1, <2>2
<1>2. 0 \in P
  <2>1. 0 \in 0 .. n /\ \A j \in 0 .. 0 : j = 0
    OBVIOUS
  <2>2. Grouped(0)
    <3>1. \A j \in 0 .. 0 - 1 : Grouped(j)
      OBVIOUS
    <3> QED
      BY <1>1, <2>1, <3>1
  <2> QED
    BY <2>1, <2>2
<1>3. ASSUME NEW k \in 1 .. n, k - 1 \in P
      PROVE  k \in P
  <2>1. \A j \in 0 .. k - 1 : Grouped(j)
    BY <1>3
  <2>2. Grouped(k)
    BY <1>1, <2>1
  <2>3. \A j \in 0 .. k : j = k \/ j \in 0 .. k - 1
    OBVIOUS
  <2> QED
    BY <2>1, <2>2, <2>3
<1>4. n \in P
  <2> HIDE DEF P
  <2>1. \A k \in 0 .. n : k \in P
    BY <1>2, <1>3, UpTo
  <2> QED
    BY <2>1
<1> QED
  BY <1>4

-----------------------------------------------------------------------------
(* The bytes of a component *)

LEMMA MarkedGroup ==
  ASSUME NEW d \in Group
  PROVE  d \in Bytes /\ d + Base \in Bytes /\ Continues(d + Base) /\ ~Continues(d)
BY OidAssumption DEF Group, Bytes, Continues

LEMMA OneByte ==
  ASSUME NEW d \in Group
  PROVE  EncodedComponent(d) = <<d>> /\ Marked(d) = <<d + Base>>
<1>1. GroupsOf[d] = <<d>>
  BY OneGroup
<1> DEFINE s == GroupsOf[d]
<1>2. s = <<d>> /\ Len(s) = 1 /\ DOMAIN s = {1} /\ s[1] = d
  BY <1>1
<1>3. EncodedComponent(d) = [k \in DOMAIN s |-> IF k = Len(s) THEN s[k] ELSE s[k] + Base]
  BY DEF EncodedComponent
<1>4. Marked(d) = [k \in DOMAIN s |-> s[k] + Base]
  BY DEF Marked
<1> HIDE DEF s
<1>5. EncodedComponent(d) = [k \in {1} |-> d]
  BY <1>2, <1>3
<1>6. Marked(d) = [k \in {1} |-> d + Base]
  BY <1>2, <1>4
<1>7. \A x : [k \in {1} |-> x] = <<x>>
  OBVIOUS
<1> QED
  BY <1>5, <1>6, <1>7

LEMMA MarkedTyped ==
  ASSUME NEW n \in Nat
  PROVE  /\ Marked(n) \in Seq(Bytes) /\ Len(Marked(n)) = Len(GroupsOf[n])
         /\ Len(GroupsOf[n]) \in Nat \ {0}
         /\ \A k \in 1 .. Len(GroupsOf[n]) :
              /\ GroupsOf[n][k] \in Group
              /\ Marked(n)[k] = GroupsOf[n][k] + Base /\ Continues(Marked(n)[k])
<1> DEFINE s == GroupsOf[n]
           l == Len(s)
<1>1. s \in Seq(Group) /\ Len(s) >= 1
  BY AllGrouped DEF Grouped
<1>2. l \in Nat \ {0} /\ DOMAIN s = 1 .. l /\ \A k \in 1 .. l : s[k] \in Group
  BY <1>1
<1>3. Marked(n) = [k \in 1 .. l |-> s[k] + Base]
  BY <1>2 DEF Marked
<1> HIDE DEF s, l
<1>4. \A k \in 1 .. l : s[k] + Base \in Bytes /\ Continues(s[k] + Base)
  BY <1>2, MarkedGroup
<1>5. Marked(n) \in [1 .. l -> Bytes]
  BY <1>3, <1>4
<1>6. Marked(n) \in Seq(Bytes) /\ Len(Marked(n)) = l
  BY <1>2, <1>5
<1>7. \A k \in 1 .. l : Marked(n)[k] = s[k] + Base
  BY <1>3
<1> QED
  BY <1>2, <1>4, <1>6, <1>7 DEF s, l

LEMMA NextByteOf ==
  ASSUME NEW p \in Nat, p > 0, NEW d \in Group
  PROVE  /\ EncodedComponent(p * Base + d) = Append(Marked(p), d)
         /\ Marked(p * Base + d) = Append(Marked(p), d + Base)
<1> DEFINE n == p * Base + d
           t == GroupsOf[n]
           s == GroupsOf[p]
           l == Len(s)
<1>1. t = Append(s, d)
  BY AllGrouped, MoreGroups
<1>2. s \in Seq(Group) /\ d \in Group
  BY AllGrouped DEF Grouped
<1>3. EncodedComponent(n) = [k \in DOMAIN t |-> IF k = Len(t) THEN t[k] ELSE t[k] + Base]
  BY DEF EncodedComponent
<1>4. Marked(n) = [k \in DOMAIN t |-> t[k] + Base]
  BY DEF Marked
<1>5. /\ Marked(p) \in Seq(Bytes) /\ Len(Marked(p)) = l /\ l \in Nat
      /\ \A k \in 1 .. l : Marked(p)[k] = s[k] + Base
  BY MarkedTyped
<1> HIDE DEF n, t, s
<1>6. /\ Len(t) = l + 1 /\ DOMAIN t = 1 .. l + 1 /\ t[l + 1] = d
      /\ \A k \in 1 .. l : t[k] = s[k]
  BY <1>1, <1>2
<1> HIDE DEF l
<1>7. ASSUME NEW x \in Bytes
      PROVE  Append(Marked(p), x) = [k \in 1 .. l + 1 |-> IF k = l + 1 THEN x ELSE s[k] + Base]
  <2> DEFINE m == Marked(p)
  <2>1. m \in Seq(Bytes) /\ Len(m) = l /\ l \in Nat /\ \A k \in 1 .. l : m[k] = s[k] + Base
    BY <1>5
  <2> HIDE DEF m
  <2> DEFINE a == Append(m, x)
  <2>2. a = [k \in 1 .. l + 1 |-> IF k = l + 1 THEN x ELSE m[k]]
    <3>1. a \in Seq(Bytes) /\ Len(a) = l + 1
      BY <2>1
    <3>2. a[l + 1] = x /\ \A k \in 1 .. l : a[k] = m[k]
      BY <2>1
    <3> HIDE DEF a
    <3>3. a = [k \in 1 .. l + 1 |-> a[k]]
      BY <3>1
    <3>4. \A k \in 1 .. l + 1 : k # l + 1 => k \in 1 .. l
      BY <2>1
    <3> QED
      BY <3>2, <3>3, <3>4
  <2>3. \A k \in 1 .. l + 1 : k # l + 1 => k \in 1 .. l
    BY <2>1
  <2> QED
    BY <2>1, <2>2, <2>3 DEF m
<1>8. d \in Bytes /\ d + Base \in Bytes
  BY MarkedGroup
<1>9. \A k \in 1 .. l + 1 : k # l + 1 => k \in 1 .. l
  BY <1>5
<1>10. EncodedComponent(n) = [k \in 1 .. l + 1 |-> IF k = l + 1 THEN d ELSE s[k] + Base]
  BY <1>3, <1>6, <1>9
<1>11. Marked(n) = [k \in 1 .. l + 1 |-> IF k = l + 1 THEN d + Base ELSE s[k] + Base]
  BY <1>4, <1>6, <1>9
<1>12. EncodedComponent(n) = Append(Marked(p), d)
  BY <1>7, <1>8, <1>10
<1>13. Marked(n) = Append(Marked(p), d + Base)
  BY <1>7, <1>8, <1>11
<1> QED
  BY <1>12, <1>13 DEF n

(* A component does not begin with a zero group, and continues up to its      *)
(* last byte.                                                                 *)
LEMMA ComponentShape ==
  ASSUME NEW n \in Nat
  PROVE  /\ EncodedComponent(n) \in Seq(Bytes)
         /\ Len(EncodedComponent(n)) \in Nat \ {0}
         /\ EncodedComponent(n)[1] # Base
         /\ \A k \in 2 .. Len(EncodedComponent(n)) : Continues(EncodedComponent(n)[k - 1])
<1> DEFINE s == GroupsOf[n]
           l == Len(s)
           c == EncodedComponent(n)
<1>1. s \in Seq(Group) /\ Len(s) >= 1 /\ (n > 0 => s[1] > 0)
  BY AllGrouped DEF Grouped
<1>2. l \in Nat \ {0} /\ DOMAIN s = 1 .. l /\ \A k \in 1 .. l : s[k] \in Group
  BY <1>1
<1>3. c = [k \in 1 .. l |-> IF k = l THEN s[k] ELSE s[k] + Base]
  BY <1>2 DEF EncodedComponent
<1>4. n = 0 => l = 1
  <2>1. ASSUME n = 0 PROVE GroupsOf[n] = <<n>>
    BY <2>1, OneGroup, OidAssumption DEF Group
  <2> QED
    BY <2>1
<1> HIDE DEF s, l, c
<1>5. \A k \in 1 .. l : s[k] \in Bytes /\ s[k] + Base \in Bytes /\ Continues(s[k] + Base)
  BY <1>2, MarkedGroup
<1>6. c \in [1 .. l -> Bytes]
  BY <1>3, <1>5
<1>7. c \in Seq(Bytes) /\ Len(c) = l
  BY <1>2, <1>6
<1>8. c[1] # Base
  <2>1. 1 \in 1 .. l /\ s[1] \in Group
    BY <1>2
  <2>2. CASE l = 1
    <3>1. c[1] = s[1]
      BY <1>3, <2>1, <2>2
    <3> QED
      BY <2>1, <3>1, OidAssumption DEF Group
  <2>3. CASE l # 1
    <3>1. c[1] = s[1] + Base
      BY <1>3, <2>1, <2>3
    <3>2. s[1] > 0
      BY <1>1, <1>4, <2>3 DEF s
    <3> QED
      BY <2>1, <3>1, <3>2, OidAssumption DEF Group
  <2> QED
    BY <2>2, <2>3
<1>9. ASSUME NEW k \in 2 .. l
      PROVE  Continues(c[k - 1])
  <2>1. k - 1 \in 1 .. l /\ k - 1 # l
    BY <1>2
  <2> QED
    BY <1>3, <1>5, <2>1
<1> QED
  BY <1>2, <1>7, <1>8, <1>9 DEF c

-----------------------------------------------------------------------------
(* Writing and reading a list of components *)

ByteStrings == Seq(Bytes)

LEMMA ByteSteps ==
  ASSUME NEW n \in Nat, NEW step \in [1 .. n -> [ByteStrings -> ByteStrings]]
  PROVE  \E f \in [0 .. n -> ByteStrings] :
           f[0] = <<>> /\ \A k \in 1 .. n : f[k] = step[k][f[k - 1]]
<1> DEFINE c == <<>>
<1>1. c \in ByteStrings
  BY DEF ByteStrings
<1> HIDE DEF c
<1>2. \E f \in [0 .. n -> ByteStrings] :
        f[0] = c /\ \A k \in 1 .. n : f[k] = step[k][f[k - 1]]
  BY <1>1, StepsExist
<1> QED
  BY <1>2 DEF c

LEMMA EncodedSteps ==
  ASSUME NEW list \in Seq(Nat)
  PROVE  \E f \in [0 .. Len(list) -> Seq(Bytes)] :
           /\ f[0] = <<>>
           /\ \A k \in 1 .. Len(list) : f[k] = f[k - 1] \o EncodedComponent(list[k])
           /\ Encoded(list) = f[Len(list)]
<1> DEFINE n == Len(list)
           step == [k \in 1 .. n |-> [x \in ByteStrings |-> x \o EncodedComponent(list[k])]]
           Body(h) == [k \in 0 .. n |->
                         IF k = 0 THEN <<>> ELSE h[k - 1] \o EncodedComponent(list[k])]
           g == CHOOSE h : h = Body(h)
<1>1. n \in Nat /\ \A k \in 1 .. n : EncodedComponent(list[k]) \in ByteStrings
  <2>1. n \in Nat /\ \A k \in 1 .. n : list[k] \in Nat
    OBVIOUS
  <2>2. \A x \in Nat : EncodedComponent(x) \in ByteStrings
    BY ComponentShape DEF ByteStrings
  <2> HIDE DEF n
  <2> QED
    BY <2>1, <2>2
<1>2. \A k \in 1 .. n : \A x \in ByteStrings : x \o EncodedComponent(list[k]) \in ByteStrings
  BY <1>1 DEF ByteStrings
<1>4. Encoded(list) = g[n]
  BY DEF Encoded
<1> HIDE DEF n
<1>5. step \in [1 .. n -> [ByteStrings -> ByteStrings]]
  BY <1>2
<1>6. \A k \in 1 .. n : \A x \in ByteStrings : step[k][x] = x \o EncodedComponent(list[k])
  OBVIOUS
<1> HIDE DEF step
<1>7. PICK f \in [0 .. n -> ByteStrings] : f[0] = <<>> /\ \A k \in 1 .. n : f[k] = step[k][f[k - 1]]
  <2>1. n \in Nat
    BY <1>1
  <2> HIDE DEF Body, g
  <2> QED
    BY <1>5, <2>1, ByteSteps
<1>8. ASSUME NEW k \in 1 .. n
      PROVE  f[k] = f[k - 1] \o EncodedComponent(list[k])
  <2>1. k - 1 \in 0 .. n
    BY <1>1
  <2>2. f[k - 1] \in ByteStrings
    BY <2>1
  <2> QED
    BY <1>6, <1>7, <2>2
<1>9. f = Body(f)
  <2>1. ASSUME NEW k \in 0 .. n
        PROVE  f[k] = Body(f)[k]
    <3>1. CASE k = 0
      BY <1>7, <3>1
    <3>2. CASE k # 0
      <4>1. k \in 1 .. n
        BY <1>1, <3>2
      <4> QED
        BY <1>8, <3>2, <4>1
    <3> QED
      BY <3>1, <3>2
  <2>2. f = [k \in 0 .. n |-> f[k]]
    OBVIOUS
  <2> QED
    BY <2>1, <2>2
<1>10. g = Body(g)
  BY <1>9
<1> HIDE DEF g
<1>11. g \in [0 .. n -> ByteStrings] /\ g[0] = <<>>
  <2> DEFINE P == {k \in 0 .. n : g[k] = f[k]}
  <2>1. 0 \in P
    <3>1. 0 \in 0 .. n /\ g[0] = Body(g)[0]
      BY <1>1, <1>10
    <3> QED
      BY <1>7, <3>1
  <2>2. ASSUME NEW k \in 1 .. n, k - 1 \in P
        PROVE  k \in P
    <3>1. k \in 0 .. n /\ k # 0 /\ g[k - 1] = f[k - 1]
      BY <1>1, <2>2
    <3>2. g[k] = Body(g)[k]
      BY <1>10, <3>1
    <3> QED
      BY <1>8, <3>1, <3>2
  <2>3. \A k \in 0 .. n : k \in P
    <3> HIDE DEF P
    <3> QED
      BY <1>1, <2>1, <2>2, UpTo
  <2>4. \A k \in 0 .. n : g[k] = f[k]
    BY <2>3
  <2>5. g = [k \in 0 .. n |-> g[k]]
    BY <1>10
  <2>6. 0 \in 0 .. n
    BY <1>1
  <2> QED
    BY <1>7, <2>4, <2>5, <2>6
<1>12. ASSUME NEW k \in 1 .. n
       PROVE  g[k] = g[k - 1] \o EncodedComponent(list[k])
  <2>1. k \in 0 .. n /\ k # 0
    BY <1>1
  <2>2. g[k] = Body(g)[k]
    BY <1>10, <2>1
  <2> QED
    BY <2>1, <2>2
<1> QED
  BY <1>4, <1>11, <1>12 DEF n, ByteStrings

LEMMA EncodedNothing == Encoded(<<>>) = <<>>
<1> DEFINE list == <<>>
<1>1. list \in Seq(Nat) /\ Len(list) = 0
  OBVIOUS
<1> HIDE DEF list
<1>2. PICK f : f[0] = <<>> /\ Encoded(list) = f[Len(list)]
  BY <1>1, EncodedSteps
<1> QED
  BY <1>1, <1>2 DEF list

LEMMA EncodedAppend ==
  ASSUME NEW list \in Seq(Nat), NEW x \in Nat
  PROVE  /\ Encoded(list) \in Seq(Bytes)
         /\ Encoded(Append(list, x)) = Encoded(list) \o EncodedComponent(x)
<1> DEFINE n == Len(list)
           more == Append(list, x)
<1>1. /\ n \in Nat /\ more \in Seq(Nat) /\ Len(more) = n + 1 /\ more[n + 1] = x
      /\ \A k \in 1 .. n : more[k] = list[k]
  OBVIOUS
<1>2. PICK f \in [0 .. n -> Seq(Bytes)] :
        /\ f[0] = <<>>
        /\ \A k \in 1 .. n : f[k] = f[k - 1] \o EncodedComponent(list[k])
        /\ Encoded(list) = f[n]
  BY EncodedSteps
<1> HIDE DEF more, n
<1>3. PICK g \in [0 .. Len(more) -> Seq(Bytes)] :
        /\ g[0] = <<>>
        /\ \A k \in 1 .. Len(more) : g[k] = g[k - 1] \o EncodedComponent(more[k])
        /\ Encoded(more) = g[Len(more)]
  BY <1>1, EncodedSteps
<1> DEFINE P == {k \in 0 .. n : g[k] = f[k]}
<1>4. 0 \in P
  BY <1>1, <1>2, <1>3
<1>5. ASSUME NEW k \in 1 .. n, k - 1 \in P
      PROVE  k \in P
  <2>1. k \in 0 .. n /\ k \in 1 .. Len(more) /\ g[k - 1] = f[k - 1]
    BY <1>1, <1>5
  <2>2. g[k] = g[k - 1] \o EncodedComponent(more[k])
    BY <1>3, <2>1
  <2> QED
    BY <1>1, <1>2, <2>1, <2>2
<1>6. n \in P
  <2> HIDE DEF P
  <2>1. \A k \in 0 .. n : k \in P
    BY <1>1, <1>4, <1>5, UpTo
  <2> QED
    BY <1>1, <2>1
<1>7. g[n + 1] = g[(n + 1) - 1] \o EncodedComponent(more[n + 1])
  <2>1. n + 1 \in 1 .. Len(more)
    BY <1>1
  <2> QED
    BY <1>3, <2>1
<1>8. (n + 1) - 1 = n /\ n \in 0 .. n
  BY <1>1
<1>9. g[n] = f[n]
  BY <1>6
<1> QED
  BY <1>1, <1>2, <1>3, <1>7, <1>8, <1>9 DEF more

Reading == [done : Seq(Nat), partial : Nat, open : BOOLEAN]

Begun == [done |-> <<>>, partial |-> 0, open |-> FALSE]

ReadByte(was, byte) ==
  LET value == was.partial * Base + (byte % Base)
  IN IF Continues(byte)
     THEN [was EXCEPT !.partial = value, !.open = TRUE]
     ELSE [done |-> Append(was.done, value), partial |-> 0, open |-> FALSE]

LEMMA ReadByteTyped ==
  ASSUME NEW was \in Reading, NEW byte \in Bytes
  PROVE  /\ ReadByte(was, byte) \in Reading
         /\ was.partial * Base + (byte % Base) \in Nat
<1> DEFINE value == was.partial * Base + (byte % Base)
<1>1. value \in Nat
  BY GroupInByte, Quotient DEF Reading
<1> HIDE DEF value
<1>2. [was EXCEPT !.partial = value, !.open = TRUE] \in Reading
  BY <1>1 DEF Reading
<1>3. [done |-> Append(was.done, value), partial |-> 0, open |-> FALSE] \in Reading
  BY <1>1 DEF Reading
<1>4. ReadByte(was, byte) = IF Continues(byte)
                            THEN [was EXCEPT !.partial = value, !.open = TRUE]
                            ELSE [done |-> Append(was.done, value), partial |-> 0, open |-> FALSE]
  BY DEF ReadByte, value
<1> QED
  BY <1>1, <1>2, <1>3, <1>4 DEF value

LEMMA DecodedSteps ==
  ASSUME NEW s \in Seq(Bytes)
  PROVE  \E f \in [0 .. Len(s) -> Reading] :
           /\ f[0] = Begun
           /\ \A k \in 1 .. Len(s) : f[k] = ReadByte(f[k - 1], s[k])
           /\ Decoded(s) = f[Len(s)]
<1> DEFINE n == Len(s)
           step == [k \in 1 .. n |-> [x \in Reading |-> ReadByte(x, s[k])]]
           Body(h) == [k \in 0 .. n |-> IF k = 0 THEN Begun ELSE ReadByte(h[k - 1], s[k])]
           g == CHOOSE h : h = Body(h)
<1>1. n \in Nat /\ \A k \in 1 .. n : s[k] \in Bytes
  OBVIOUS
<1>2. \A k \in 1 .. n : \A x \in Reading : ReadByte(x, s[k]) \in Reading
  BY <1>1, ReadByteTyped
<1>3. Begun \in Reading
  BY DEF Begun, Reading
<1>4. Decoded(s) = g[n]
  BY DEF Decoded, Begun, ReadByte
<1> HIDE DEF n
<1>5. step \in [1 .. n -> [Reading -> Reading]]
  BY <1>2
<1>6. \A k \in 1 .. n : \A x \in Reading : step[k][x] = ReadByte(x, s[k])
  OBVIOUS
<1> HIDE DEF step
<1>7. PICK f \in [0 .. n -> Reading] : f[0] = Begun /\ \A k \in 1 .. n : f[k] = step[k][f[k - 1]]
  <2>1. n \in Nat
    BY <1>1
  <2> HIDE DEF Body, g
  <2> QED
    BY <1>3, <1>5, <2>1, StepsExist
<1>8. ASSUME NEW k \in 1 .. n
      PROVE  f[k] = ReadByte(f[k - 1], s[k])
  <2>1. k - 1 \in 0 .. n
    BY <1>1
  <2>2. f[k - 1] \in Reading
    BY <2>1
  <2> QED
    BY <1>6, <1>7, <2>2
<1>9. f = Body(f)
  <2>1. ASSUME NEW k \in 0 .. n
        PROVE  f[k] = Body(f)[k]
    <3>1. CASE k = 0
      BY <1>7, <3>1
    <3>2. CASE k # 0
      <4>1. k \in 1 .. n
        BY <1>1, <3>2
      <4> QED
        BY <1>8, <3>2, <4>1
    <3> QED
      BY <3>1, <3>2
  <2>2. f = [k \in 0 .. n |-> f[k]]
    OBVIOUS
  <2> QED
    BY <2>1, <2>2
<1>10. g = Body(g)
  BY <1>9
<1> HIDE DEF g
<1> DEFINE P == {k \in 0 .. n : g[k] = f[k]}
<1>11. 0 \in P
  <2>1. 0 \in 0 .. n /\ g[0] = Body(g)[0]
    BY <1>1, <1>10
  <2> QED
    BY <1>7, <2>1
<1>12. ASSUME NEW k \in 1 .. n, k - 1 \in P
       PROVE  k \in P
  <2>1. k \in 0 .. n /\ k # 0 /\ g[k - 1] = f[k - 1]
    BY <1>1, <1>12
  <2>2. g[k] = Body(g)[k]
    BY <1>10, <2>1
  <2> QED
    BY <1>8, <2>1, <2>2
<1>13. n \in P
  <2> HIDE DEF P
  <2>1. \A k \in 0 .. n : k \in P
    BY <1>1, <1>11, <1>12, UpTo
  <2> QED
    BY <1>1, <2>1
<1>14. g[n] = f[n]
  BY <1>13
<1> QED
  BY <1>4, <1>7, <1>8, <1>14 DEF n

(* The bytes of an unfinished component. *)
Unfinished(r) == IF r.open THEN Marked(r.partial) ELSE <<>>

(* r is what a reader knows after the bytes t, and nothing of t is lost. *)
Retells(r, t) ==
  /\ t = Encoded(r.done) \o Unfinished(r)
  /\ r.open => r.partial > 0
  /\ ~r.open => r.partial = 0

LEMMA AppendToLast ==
  ASSUME NEW a \in Seq(Bytes), NEW b \in Seq(Bytes), NEW x \in Bytes
  PROVE  a \o Append(b, x) = Append(a \o b, x)
OBVIOUS

LEMMA AppendOne ==
  ASSUME NEW a \in Seq(Bytes), NEW x \in Bytes
  PROVE  a \o <<x>> = Append(a, x) /\ a \o <<>> = a
OBVIOUS

LEMMA RetellOneMore ==
  ASSUME NEW r \in Reading, NEW t, NEW b \in Bytes, Retells(r, t), ~r.open => b # Base
  PROVE  Retells(ReadByte(r, b), Append(t, b))
<1> DEFINE d == b % Base
           p == r.partial
           e == Encoded(r.done)
           value == p * Base + d
           after == ReadByte(r, b)
<1>1. /\ d \in Group /\ (Continues(b) => b = d + Base) /\ (~Continues(b) => b = d)
      /\ p \in Nat /\ r.done \in Seq(Nat) /\ r.open \in BOOLEAN
  BY GroupInByte DEF Reading
<1>2. /\ value \in Nat /\ e \in Seq(Bytes)
      /\ Encoded(Append(r.done, value)) = e \o EncodedComponent(value)
  <2>1. value \in Nat
    BY <1>1, Quotient
  <2> HIDE DEF value
  <2> QED
    BY <1>1, <2>1, EncodedAppend
<1>3. ASSUME Continues(b)
      PROVE  after.done = r.done /\ after.partial = value /\ after.open
  BY <1>1, <1>3 DEF ReadByte, Reading
<1>4. ASSUME ~Continues(b)
      PROVE  after.done = Append(r.done, value) /\ after.partial = 0 /\ ~after.open
  BY <1>4 DEF ReadByte
<1>5. CASE r.open
  <2>1. p > 0 /\ t = e \o Marked(p)
    BY <1>5 DEF Retells, Unfinished
  <2>2. Marked(p) \in Seq(Bytes)
    BY <1>1, MarkedTyped
  <2>3. /\ EncodedComponent(value) = Append(Marked(p), d)
        /\ Marked(value) = Append(Marked(p), d + Base)
    BY <1>1, <2>1, NextByteOf
  <2>4. e \o Append(Marked(p), b) = Append(t, b)
    BY <1>2, <2>1, <2>2, AppendToLast
  <2>5. CASE Continues(b)
    <3>1. Encoded(after.done) \o Unfinished(after) = e \o Marked(value)
      BY <1>3, <2>5 DEF Unfinished
    <3>2. Append(t, b) = Encoded(after.done) \o Unfinished(after)
      BY <1>1, <2>3, <2>4, <2>5, <3>1
    <3>3. value > 0
      BY <1>1, <2>1, Quotient
    <3> QED
      BY <1>3, <2>5, <3>2, <3>3 DEF Retells
  <2>6. CASE ~Continues(b)
    <3>1. Encoded(after.done) \o Unfinished(after) = (e \o EncodedComponent(value)) \o <<>>
      BY <1>2, <1>4, <2>6 DEF Unfinished
    <3>2. EncodedComponent(value) \in Seq(Bytes)
      BY <1>2, ComponentShape
    <3>3. (e \o EncodedComponent(value)) \o <<>> = e \o EncodedComponent(value)
      <4> DEFINE c == EncodedComponent(value)
      <4>1. e \in Seq(Bytes) /\ c \in Seq(Bytes)
        BY <1>2, <3>2
      <4> HIDE DEF c, e
      <4> QED
        BY <4>1
    <3>4. Append(t, b) = Encoded(after.done) \o Unfinished(after)
      BY <1>1, <2>3, <2>4, <2>6, <3>1, <3>3
    <3> QED
      BY <1>4, <2>6, <3>4 DEF Retells
  <2> QED
    BY <2>5, <2>6
<1>6. CASE ~r.open
  <2>1. p = 0 /\ t = e \o <<>> /\ b # Base
    BY <1>6 DEF Retells, Unfinished
  <2>2. t = e /\ t \in Seq(Bytes)
    BY <1>2, <2>1, AppendOne
  <2>3. value = d
    BY <1>1, <2>1, OidAssumption DEF Group
  <2>4. EncodedComponent(value) = <<d>> /\ Marked(value) = <<d + Base>>
    BY <1>1, <2>3, OneByte
  <2>5. e \o <<b>> = Append(t, b) /\ Append(t, b) \o <<>> = Append(t, b)
    <3>1. Append(t, b) \in Seq(Bytes)
      BY <2>2
    <3> QED
      BY <2>2, <3>1, AppendOne
  <2>6. CASE Continues(b)
    <3>1. Encoded(after.done) \o Unfinished(after) = e \o Marked(value)
      BY <1>3, <2>6 DEF Unfinished
    <3>2. Append(t, b) = Encoded(after.done) \o Unfinished(after)
      BY <1>1, <2>4, <2>5, <2>6, <3>1
    <3>3. value > 0
      BY <1>1, <2>1, <2>3, <2>6, OidAssumption DEF Group
    <3> QED
      BY <1>3, <2>6, <3>2, <3>3 DEF Retells
  <2>7. CASE ~Continues(b)
    <3>1. Encoded(after.done) \o Unfinished(after) = (e \o <<b>>) \o <<>>
      BY <1>1, <1>2, <1>4, <2>4, <2>7 DEF Unfinished
    <3>2. Append(t, b) = Encoded(after.done) \o Unfinished(after)
      BY <2>5, <3>1
    <3> QED
      BY <1>4, <2>7, <3>2 DEF Retells
  <2> QED
    BY <2>6, <2>7
<1> QED
  BY <1>1, <1>5, <1>6

(* A zero group stands only inside a component. *)
Shaped(s) == \A k \in 1 .. Len(s) : s[k] = Base => k > 1 /\ Continues(s[k - 1])

LEMMA Prefix ==
  ASSUME NEW s \in Seq(Bytes), NEW k \in 1 .. Len(s)
  PROVE  SubSeq(s, 1, k) = Append(SubSeq(s, 1, k - 1), s[k])
OBVIOUS

(* What a reader makes of a shaped string is another way to write it; and it  *)
(* is inside a component exactly behind a byte that continues.                *)
LEMMA ReadShaped ==
  ASSUME NEW s \in Seq(Bytes)
  PROVE  /\ Decoded(s) \in Reading
         /\ Decoded(s).open <=> Len(s) > 0 /\ Continues(s[Len(s)])
         /\ Shaped(s) => Retells(Decoded(s), s)
<1> DEFINE n == Len(s)
<1>1. n \in Nat /\ \A k \in 1 .. n : s[k] \in Bytes
  OBVIOUS
<1>2. PICK f \in [0 .. n -> Reading] :
        /\ f[0] = Begun
        /\ \A k \in 1 .. n : f[k] = ReadByte(f[k - 1], s[k])
        /\ Decoded(s) = f[n]
  BY DecodedSteps
<1>3. ASSUME NEW k \in 1 .. n
      PROVE  f[k].open <=> Continues(s[k])
  <2>1. f[k - 1] \in Reading
    <3>1. k - 1 \in 0 .. n
      BY <1>1
    <3> QED
      BY <3>1
  <2>2. f[k] = ReadByte(f[k - 1], s[k])
    BY <1>2
  <2> QED
    BY <2>1, <2>2 DEF ReadByte, Reading
<1>4. ~f[0].open
  BY <1>2 DEF Begun
<1>5. ASSUME Shaped(s)
      PROVE  Retells(f[n], SubSeq(s, 1, n))
  <2> DEFINE P == {k \in 0 .. n : Retells(f[k], SubSeq(s, 1, k))}
  <2>1. 0 \in P
    <3>1. SubSeq(s, 1, 0) = <<>> /\ 0 \in 0 .. n
      BY <1>1
    <3>2. Encoded(<<>>) = <<>> /\ <<>> \o <<>> = <<>>
      BY EncodedNothing
    <3>3. Retells(f[0], <<>>)
      BY <1>2, <3>2 DEF Retells, Unfinished, Begun
    <3> QED
      BY <3>1, <3>3
  <2>2. ASSUME NEW k \in 1 .. n, k - 1 \in P
        PROVE  k \in P
    <3>1. k - 1 \in 0 .. n /\ k \in 0 .. n /\ Retells(f[k - 1], SubSeq(s, 1, k - 1))
      BY <1>1, <2>2
    <3>2. f[k - 1] \in Reading /\ s[k] \in Bytes
      BY <1>1, <3>1
    <3>3. ~f[k - 1].open => s[k] # Base
      <4>1. CASE k = 1
        BY <1>1, <1>5, <4>1 DEF Shaped
      <4>2. CASE k # 1
        <5>1. k - 1 \in 1 .. n
          BY <1>1, <4>2
        <5> QED
          BY <1>3, <1>5, <5>1 DEF Shaped
      <4> QED
        BY <4>1, <4>2
    <3>4. Retells(ReadByte(f[k - 1], s[k]), Append(SubSeq(s, 1, k - 1), s[k]))
      BY <3>1, <3>2, <3>3, RetellOneMore
    <3>5. Retells(f[k], SubSeq(s, 1, k))
      BY <1>2, <3>4, Prefix
    <3> QED
      BY <3>1, <3>5
  <2>3. n \in P
    <3> HIDE DEF P
    <3>1. \A k \in 0 .. n : k \in P
      BY <1>1, <2>1, <2>2, UpTo
    <3> QED
      BY <1>1, <3>1
  <2> QED
    BY <2>3
<1>6. SubSeq(s, 1, n) = s
  OBVIOUS
<1>7. f[n] \in Reading
  BY <1>1
<1>8. f[n].open <=> n > 0 /\ Continues(s[n])
  <2>1. CASE n = 0
    BY <1>4, <2>1
  <2>2. CASE n # 0
    <3>1. n \in 1 .. n /\ n > 0
      BY <1>1, <2>2
    <3> QED
      BY <1>3, <3>1
  <2> QED
    BY <2>1, <2>2
<1> QED
  BY <1>2, <1>5, <1>6, <1>7, <1>8

LEMMA ShapedMore ==
  ASSUME NEW a \in Seq(Bytes), Shaped(a), NEW x \in Nat
  PROVE  Shaped(a \o EncodedComponent(x)) /\ Len(a \o EncodedComponent(x)) > 0
<1> DEFINE c == EncodedComponent(x)
           s == a \o c
<1>1. /\ c \in Seq(Bytes) /\ Len(c) \in Nat \ {0} /\ c[1] # Base
      /\ \A k \in 2 .. Len(c) : Continues(c[k - 1])
  BY ComponentShape
<1> HIDE DEF c
<1>2. /\ s \in Seq(Bytes) /\ Len(a) \in Nat /\ Len(s) = Len(a) + Len(c)
      /\ \A k \in 1 .. Len(a) : s[k] = a[k]
      /\ \A k \in 1 .. Len(c) : s[Len(a) + k] = c[k]
  BY <1>1
<1> HIDE DEF s
<1>3. ASSUME NEW k \in 1 .. Len(s), s[k] = Base
      PROVE  k > 1 /\ Continues(s[k - 1])
  <2>1. CASE k <= Len(a)
    <3>1. k \in 1 .. Len(a) /\ a[k] = Base
      BY <1>1, <1>2, <1>3, <2>1
    <3>2. k > 1 /\ Continues(a[k - 1])
      BY <3>1 DEF Shaped
    <3>3. k - 1 \in 1 .. Len(a)
      BY <1>2, <3>1, <3>2
    <3> QED
      BY <1>2, <3>2, <3>3
  <2>2. CASE ~(k <= Len(a))
    <3> DEFINE j == k - Len(a)
    <3>1. j \in 1 .. Len(c) /\ k = Len(a) + j
      BY <1>1, <1>2, <2>2
    <3> HIDE DEF j
    <3>2. c[j] = Base
      BY <1>2, <1>3, <3>1
    <3>3. j # 1
      BY <1>1, <3>2
    <3>4. j \in 2 .. Len(c) /\ j - 1 \in 1 .. Len(c)
      BY <1>1, <3>1, <3>3
    <3>5. Continues(c[j - 1])
      BY <1>1, <3>4
    <3>6. k - 1 = Len(a) + (j - 1) /\ k > 1
      BY <1>2, <3>1, <3>4
    <3> QED
      BY <1>2, <3>4, <3>5, <3>6
  <2> QED
    BY <2>1, <2>2
<1>4. Len(s) > 0
  BY <1>1, <1>2
<1> QED
  BY <1>3, <1>4 DEF Shaped, s, c

LEMMA EncodedShaped ==
  ASSUME NEW list \in Seq(Nat)
  PROVE  Shaped(Encoded(list)) /\ (list # <<>> => Len(Encoded(list)) > 0)
<1> DEFINE n == Len(list)
<1>1. n \in Nat /\ (\A k \in 1 .. n : list[k] \in Nat) /\ (list # <<>> => n > 0)
  OBVIOUS
<1>2. PICK f \in [0 .. n -> Seq(Bytes)] :
        /\ f[0] = <<>>
        /\ \A k \in 1 .. n : f[k] = f[k - 1] \o EncodedComponent(list[k])
        /\ Encoded(list) = f[n]
  BY EncodedSteps
<1> DEFINE Good(k) == Shaped(f[k]) /\ (k > 0 => Len(f[k]) > 0)
           P == {k \in 0 .. n : Good(k)}
<1> HIDE DEF n
<1>3. 0 \in P
  <2>1. Len(f[0]) = 0 /\ 0 \in 0 .. n
    BY <1>1, <1>2
  <2> QED
    BY <2>1 DEF Shaped
<1>4. ASSUME NEW k \in 1 .. n, k - 1 \in P
      PROVE  k \in P
  <2>1. k - 1 \in 0 .. n /\ k \in 0 .. n /\ Shaped(f[k - 1]) /\ list[k] \in Nat
    BY <1>1, <1>4
  <2>2. f[k - 1] \in Seq(Bytes)
    BY <2>1
  <2>3. Shaped(f[k]) /\ Len(f[k]) > 0
    BY <1>2, <2>1, <2>2, ShapedMore
  <2> QED
    BY <2>1, <2>3
<1>5. n \in P
  <2> HIDE DEF P
  <2>1. \A k \in 0 .. n : k \in P
    BY <1>1, <1>3, <1>4, UpTo
  <2> QED
    BY <1>1, <2>1
<1>6. Good(n)
  BY <1>5
<1> QED
  BY <1>1, <1>2, <1>6

Canonical(s) ==
  ~Decoded(s).open /\ Decoded(s).done # <<>> /\ Encoded(Decoded(s).done) = s

LEMMA CanonicalIffMinimal ==
  ASSUME NEW s \in Seq(Bytes), Len(s) <= MaxIdBytes
  PROVE  Minimal(s) <=> Canonical(s)
<1>1. /\ Decoded(s).open <=> Len(s) > 0 /\ Continues(s[Len(s)])
      /\ Decoded(s).done \in Seq(Nat)
      /\ Shaped(s) => Retells(Decoded(s), s)
  BY ReadShaped DEF Reading
<1>2. Len(s) \in Nat /\ (s # <<>> <=> Len(s) > 0)
  OBVIOUS
<1>3. ASSUME Minimal(s)
      PROVE  Canonical(s)
  <2>1. Len(s) > 0 /\ ~Continues(s[Len(s)]) /\ Shaped(s)
    BY <1>2, <1>3 DEF Minimal, LengthValid, Shaped
  <2>2. ~Decoded(s).open /\ s = Encoded(Decoded(s).done) \o <<>>
    BY <1>1, <2>1 DEF Retells, Unfinished
  <2>3. Encoded(Decoded(s).done) \in Seq(Bytes)
    BY <1>1, EncodedAppend
  <2>4. s = Encoded(Decoded(s).done)
    BY <2>2, <2>3, AppendOne
  <2>5. Decoded(s).done # <<>>
    BY <1>2, <2>1, <2>4, EncodedNothing
  <2> QED
    BY <2>2, <2>4, <2>5 DEF Canonical
<1>4. ASSUME Canonical(s)
      PROVE  Minimal(s)
  <2>1. Shaped(s) /\ Len(s) > 0
    BY <1>1, <1>4, EncodedShaped DEF Canonical
  <2>2. ~Continues(s[Len(s)])
    BY <1>1, <1>4, <2>1 DEF Canonical
  <2> QED
    BY <1>2, <2>1, <2>2 DEF Minimal, LengthValid, Shaped
<1> QED
  BY <1>3, <1>4

(* A byte string is accepted exactly when it is the encoding of the           *)
(* components it decodes to and short enough, for strings of any length and   *)
(* any base (certificates.rs:53-75).                                          *)
THEOREM AcceptsEncodings == Spec => []AcceptedIffEncoding
<1>1. IInv => AcceptedIffEncoding
  <2> SUFFICES ASSUME IInv PROVE AcceptedIffEncoding
    OBVIOUS
  <2>1. id \in Seq(Bytes) /\ Len(id) \in Nat /\ MaxIdBytes \in Nat
    BY OidAssumption DEF IInv, TypeOK
  <2>2. AcceptedIffEncoding <=> /\ verdict = "accepted" => Canonical(id)
                                /\ verdict = "rejected" => ~Canonical(id) \/ Len(id) > MaxIdBytes
    BY DEF AcceptedIffEncoding, Canonical
  <2>3. verdict = "accepted" => Minimal(id) /\ Len(id) <= MaxIdBytes
    BY DEF IInv, AcceptedIffMinimal, Minimal, LengthValid
  <2>4. verdict = "rejected" => ~Minimal(id)
    BY DEF IInv, AcceptedIffMinimal
  <2>5. Len(id) <= MaxIdBytes \/ Len(id) > MaxIdBytes
    BY <2>1
  <2> QED
    BY <2>1, <2>2, <2>3, <2>4, <2>5, CanonicalIffMinimal
<1> QED
  BY <1>1, Invariance, PTL

=============================================================================
