----------------------- MODULE AnchorSelection_proofs -----------------------
(*****************************************************************************)
(* Proofs about AnchorSelection: types, uniqueness and order of what is      *)
(* published, that a message is published exactly when all of it is sound,   *)
(* and exactness of the lookup by certificate; about BtlsClient: it connects *)
(* only where Chromium would.  The last section carries the results over to  *)
(* the behaviours that TLC runs.                                             *)
(*****************************************************************************)
EXTENDS MCAnchorSelection, SequenceTheorems, WellFoundedInduction, TLAPS

(* What the accumulators of validate_anchors say about the anchors seen.      *)
Selected ==
  /\ next \in 1 .. Len(anchors) + 1
  /\ phase = "parse" => anchors = <<>>
  /\ phase \in {"limit", "published"} => next = Len(anchors) + 1
  /\ seenHashes = {validated[k].der : k \in DOMAIN validated}
  /\ \A k \in DOMAIN validated : validated[k].id # None => validated[k].id \in seenIds
  /\ \A k \in 1 .. next - 1 :
       anchors[k].tls => \E j \in DOMAIN validated : validated[j] = Published(anchors[k])
  /\ \A j \in DOMAIN validated :
       \E k \in 1 .. next - 1 : anchors[k].tls /\ validated[j] = Published(anchors[k])

IInv == TypeOK /\ Selected /\ PublishedUnique

-----------------------------------------------------------------------------
(* Types *)

(* The decoded entries become anchors, and the two lists are joined. *)
LEMMA ConvertedType ==
  ASSUME NEW m \in Message, NEW kind \in Kinds, Convertible(m, kind)
  PROVE  ConvertAnchor(m, kind) \in Anchor
  BY DEF Message, Kinds, Convertible, ConvertAnchor, Anchor, Field

LEMMA ParsedType ==
  ASSUME NEW s \in Store, Parses(s)
  PROVE  ParsedAnchors(s) \in Seq(Anchor)
<1> DEFINE classical == [k \in 1 .. Len(s.roots) |-> ConvertAnchor(s.roots[k], "Root")]
<1> DEFINE extra ==
      [k \in 1 .. Len(s.additional) |-> ConvertAnchor(s.additional[k], "Additional")]
<1>1. s.roots \in Seq(Message) /\ s.additional \in Seq(Message)
  BY DEF Store
<1>2. \A k \in 1 .. Len(s.roots) : ConvertAnchor(s.roots[k], "Root") \in Anchor
  BY <1>1, ConvertedType DEF Parses, Kinds
<1>3. \A k \in 1 .. Len(s.additional) : ConvertAnchor(s.additional[k], "Additional") \in Anchor
  BY <1>1, ConvertedType DEF Parses, Kinds
<1>4. classical \in Seq(Anchor) /\ extra \in Seq(Anchor)
  BY <1>1, <1>2, <1>3, IsASeq
<1> QED
  BY <1>4, ConcatProperties DEF ParsedAnchors

LEMMA InitType == Init => TypeOK
  BY AnchorAssumption DEF Init, TypeOK, Phases

LEMMA NextType == TypeOK /\ [Next]_vars => TypeOK'
<1> SUFFICES ASSUME TypeOK, [Next]_vars PROVE TypeOK'
  OBVIOUS
<1> USE DEF TypeOK, Phases
<1>1. CASE Parse
  BY <1>1, ParsedType DEF Parse
<1>2. CASE ValidateAnchor
  <2> DEFINE a == anchors[next]
  <2>1. a \in Anchor
    BY <1>2 DEF ValidateAnchor
  <2>2. a.id # None => a.id \in Ids
    BY <2>1 DEF Anchor
  <2>3. Published(a) \in Entry /\ a.der \in Certificates
    BY <2>1 DEF Published, Anchor, Entry
  <2>4. seenIds' \subseteq Ids /\ seenHashes' \subseteq Certificates
    BY <1>2, <2>2, <2>3 DEF ValidateAnchor, SeenId
  <2>5. ids' \in Seq(Ids) /\ validated' \in Seq(Entry)
    BY <1>2, <2>2, <2>3 DEF ValidateAnchor
  <2>6. next' \in Nat \ {0} /\ UNCHANGED <<store, phase, anchors>>
    BY <1>2 DEF ValidateAnchor
  <2> QED
    BY <2>4, <2>5, <2>6
<1>3. CASE ParseFails \/ AnchorInvalid \/ AnchorsValidated \/ CheckLimit
  BY <1>3 DEF ParseFails, AnchorInvalid, AnchorsValidated, CheckLimit, Reject
<1>4. CASE UNCHANGED vars
  BY <1>4 DEF vars
<1> QED
  BY <1>1, <1>2, <1>3, <1>4 DEF Next

(* Every variable keeps its type, for any message and any certificates and    *)
(* IDs (protobuf.rs:162-260, generator.rs:54-135).                            *)
THEOREM TypeCorrect == Spec => []TypeOK
  BY InitType, NextType, PTL DEF Spec

-----------------------------------------------------------------------------
(* Uniqueness *)

LEMMA InitSelected == Init => Selected /\ PublishedUnique
  BY DEF Init, Selected, PublishedUnique

(* The step that publishes one more entry. *)
LEMMA ExtendSelected ==
  ASSUME TypeOK, Selected, PublishedUnique, ValidateAnchor, anchors[next].tls
  PROVE  Selected' /\ PublishedUnique'
<1> DEFINE a == anchors[next]
<1> DEFINE n == Len(validated)
<1>1. /\ next \in 1 .. Len(anchors) /\ a \in Anchor /\ validated \in Seq(Entry)
      /\ anchors \in Seq(Anchor)
  BY DEF TypeOK, ValidateAnchor, Selected
<1>2. /\ validated' = Append(validated, Published(a))
      /\ seenHashes' = seenHashes \cup {a.der}
      /\ seenIds' = seenIds \cup SeenId(a)
      /\ next' = next + 1 /\ anchors' = anchors /\ phase' = phase /\ phase = "validate"
  BY DEF ValidateAnchor
<1>3. a.der \notin seenHashes /\ (a.id # None => a.id \notin seenIds)
  BY DEF ValidateAnchor, HashNew, IdAccepted, IdNew
<1>4. /\ DOMAIN validated = 1 .. n /\ DOMAIN validated' = 1 .. n + 1 /\ n \in Nat
      /\ \A k \in 1 .. n : validated'[k] = validated[k]
      /\ validated'[n + 1] = Published(a)
  BY <1>1, <1>2 DEF Published, Anchor, Entry
<1>5. seenHashes' = {validated'[k].der : k \in DOMAIN validated'}
  <2>1. {validated'[k].der : k \in 1 .. n + 1} =
          {validated[k].der : k \in 1 .. n} \cup {validated'[n + 1].der}
    BY <1>4
  <2>2. validated'[n + 1].der = a.der
    BY <1>4 DEF Published
  <2> QED
    BY <1>2, <1>4, <2>1, <2>2 DEF Selected
<1>6. \A k \in DOMAIN validated' : validated'[k].id # None => validated'[k].id \in seenIds'
  <2>1. validated'[n + 1].id = a.id
    BY <1>4 DEF Published
  <2>2. a.id # None => a.id \in seenIds'
    BY <1>2 DEF SeenId
  <2> QED
    BY <1>2, <1>4, <2>1, <2>2 DEF Selected
<1>7. \A k \in 1 .. next' - 1 :
        anchors'[k].tls => \E j \in DOMAIN validated' : validated'[j] = Published(anchors'[k])
  <2>1. ASSUME NEW k \in 1 .. next - 1, anchors[k].tls
        PROVE  \E j \in DOMAIN validated' : validated'[j] = Published(anchors[k])
    BY <1>4, <2>1 DEF Selected
  <2>2. validated'[n + 1] = Published(anchors[next]) /\ n + 1 \in DOMAIN validated'
    BY <1>4
  <2> QED
    BY <1>1, <1>2, <2>1, <2>2
<1>8. \A j \in DOMAIN validated' :
        \E k \in 1 .. next' - 1 : anchors'[k].tls /\ validated'[j] = Published(anchors'[k])
  <2>1. ASSUME NEW j \in 1 .. n
        PROVE  \E k \in 1 .. next - 1 : anchors[k].tls /\ validated'[j] = Published(anchors[k])
    BY <1>4 DEF Selected
  <2>2. anchors[next].tls /\ validated'[n + 1] = Published(anchors[next])
    BY <1>4
  <2> QED
    BY <1>1, <1>2, <1>4, <2>1, <2>2
<1>9. PublishedUnique'
  <2>1. ASSUME NEW k \in 1 .. n
        PROVE  /\ validated[k].der # a.der
               /\ validated[k].id # None => validated[k].id # a.id
    <3>1. validated[k].der \in seenHashes
      BY <1>4 DEF Selected
    <3>2. validated[k].id # None => validated[k].id \in seenIds
      BY <1>4 DEF Selected
    <3> QED
      BY <1>3, <3>1, <3>2
  <2>2. validated'[n + 1].der = a.der /\ validated'[n + 1].id = a.id
    BY <1>4 DEF Published
  <2>3. ASSUME NEW j \in 1 .. n + 1, NEW k \in 1 .. n + 1, j # k
        PROVE  /\ validated'[j].der # validated'[k].der
               /\ validated'[j].id # None => validated'[j].id # validated'[k].id
    <3>1. CASE j \in 1 .. n /\ k \in 1 .. n
      BY <1>4, <2>3, <3>1 DEF PublishedUnique
    <3>2. CASE j = n + 1 /\ k \in 1 .. n
      BY <1>4, <2>1, <2>2, <3>2
    <3>3. CASE j \in 1 .. n /\ k = n + 1
      BY <1>4, <2>1, <2>2, <3>3
    <3> QED
      BY <1>4, <2>3, <3>1, <3>2, <3>3
  <2> QED
    BY <1>4, <2>3 DEF PublishedUnique
<1>10. next' \in 1 .. Len(anchors') + 1
  BY <1>1, <1>2
<1> QED
  BY <1>2, <1>5, <1>6, <1>7, <1>8, <1>9, <1>10 DEF Selected

LEMMA NextSelected == IInv /\ [Next]_vars => IInv'
<1> SUFFICES ASSUME IInv, [Next]_vars PROVE Selected' /\ PublishedUnique'
  BY NextType DEF IInv
<1> USE DEF IInv
<1>1. CASE Parse
  <2>1. /\ phase = "parse" /\ anchors = <<>> /\ phase' = "validate"
        /\ UNCHANGED <<next, seenHashes, seenIds, validated>>
    BY <1>1 DEF Parse, Selected
  <2>2. next = 1 /\ validated = <<>>
    BY <2>1 DEF Selected, TypeOK
  <2>3. anchors' \in Seq(Anchor)
    BY NextType DEF TypeOK
  <2> QED
    BY <2>1, <2>2, <2>3 DEF Selected, PublishedUnique
<1>2. CASE ValidateAnchor /\ anchors[next].tls
  BY <1>2, ExtendSelected
<1>3. CASE ValidateAnchor /\ ~anchors[next].tls
  <2>1. /\ validated' = validated /\ seenHashes' = seenHashes /\ seenIds \subseteq seenIds'
        /\ next' = next + 1 /\ next \in 1 .. Len(anchors)
        /\ anchors' = anchors /\ phase' = phase /\ phase = "validate"
    BY <1>3 DEF ValidateAnchor, TypeOK
  <2>2. Len(anchors) \in Nat
    BY DEF TypeOK
  <2>3. \A k \in 1 .. next' - 1 :
          anchors[k].tls => \E j \in DOMAIN validated : validated[j] = Published(anchors[k])
    BY <1>3, <2>1, <2>2 DEF Selected
  <2>4. \A j \in DOMAIN validated :
          \E k \in 1 .. next' - 1 : anchors[k].tls /\ validated[j] = Published(anchors[k])
    <3>1. 1 .. next - 1 \subseteq 1 .. next' - 1
      BY <2>1
    <3> QED
      BY <3>1 DEF Selected
  <2>5. next' \in 1 .. Len(anchors) + 1
    BY <2>1, <2>2
  <2>6. \A k \in DOMAIN validated : validated[k].id # None => validated[k].id \in seenIds'
    BY <2>1 DEF Selected
  <2>7. PublishedUnique'
    BY <2>1 DEF PublishedUnique
  <2>8. Selected'
    <3>1. seenHashes' = {validated'[k].der : k \in DOMAIN validated'}
      BY <2>1 DEF Selected
    <3> QED
      BY <2>1, <2>3, <2>4, <2>5, <2>6, <3>1 DEF Selected
  <2> QED
    BY <2>7, <2>8
<1>4. CASE ParseFails \/ AnchorInvalid
  BY <1>4 DEF ParseFails, AnchorInvalid, Reject, Selected, PublishedUnique
<1>5. CASE AnchorsValidated
  <2>1. next = Len(anchors) + 1
    BY <1>5 DEF AnchorsValidated, Selected, TypeOK
  <2> QED
    BY <1>5, <2>1 DEF AnchorsValidated, Reject, Selected, PublishedUnique
<1>6. CASE CheckLimit
  BY <1>6 DEF CheckLimit, Reject, Selected, PublishedUnique
<1>7. CASE UNCHANGED vars
  BY <1>7 DEF vars, Selected, PublishedUnique
<1> QED
  BY <1>1, <1>2, <1>3, <1>4, <1>5, <1>6, <1>7 DEF Next

LEMMA Invariance == Spec => []IInv
<1>1. Init => IInv
  BY InitType, InitSelected DEF IInv
<1> QED
  BY <1>1, NextSelected, PTL DEF Spec

(* No certificate and no Trust Anchor ID is ever published twice, whatever    *)
(* the message repeats (generator.rs:100-121).                                *)
THEOREM UniqueAnchors == Spec => []PublishedUnique
<1>1. IInv => PublishedUnique
  BY DEF IInv
<1> QED
  BY <1>1, Invariance, PTL

-----------------------------------------------------------------------------
(* Lookup *)

(* With unique certificates the first match is the only one. *)
LEMMA FirstMatch ==
  ASSUME PublishedUnique, TypeOK, NEW k \in DOMAIN validated
  PROVE  IdForCertificate(validated, validated[k].der) = validated[k].id
<1> DEFINE matches == {j \in DOMAIN validated : validated[j].der = validated[k].der}
<1>1. matches = {k}
  BY DEF PublishedUnique
<1>2. DOMAIN validated \subseteq Nat
  BY DEF TypeOK
<1>3. (CHOOSE i \in matches : \A j \in matches : i <= j) = k
  BY <1>1, <1>2
<1> QED
  BY <1>1, <1>3 DEF IdForCertificate

LEMMA LookupFollows == IInv => LookupExact
<1> SUFFICES ASSUME IInv, phase = "published" PROVE LookupExact
  BY DEF LookupExact
<1>1. next = Len(anchors) + 1 /\ DOMAIN anchors = 1 .. Len(anchors) /\ Len(anchors) \in Nat
  BY DEF IInv, Selected, TypeOK
<1>2. 1 .. next - 1 = DOMAIN anchors
  BY <1>1
<1>3. ASSUME NEW k \in DOMAIN anchors, anchors[k].tls
      PROVE  IdForCertificate(validated, anchors[k].der) = anchors[k].id
  <2>1. PICK j \in DOMAIN validated : validated[j] = Published(anchors[k])
    BY <1>2, <1>3 DEF IInv, Selected
  <2>2. validated[j].der = anchors[k].der /\ validated[j].id = anchors[k].id
    BY <2>1 DEF Published
  <2> QED
    BY <2>2, FirstMatch DEF IInv
<1>4. ASSUME NEW der \in Certificates,
             \A k \in DOMAIN anchors : anchors[k].tls => anchors[k].der # der
      PROVE  IdForCertificate(validated, der) = None
  <2>1. ASSUME NEW j \in DOMAIN validated PROVE validated[j].der # der
    <3>1. PICK k \in DOMAIN anchors : anchors[k].tls /\ validated[j] = Published(anchors[k])
      BY <1>2 DEF IInv, Selected
    <3> QED
      BY <1>4, <3>1 DEF Published
  <2> QED
    BY <2>1 DEF IdForCertificate
<1> QED
  BY <1>3, <1>4 DEF LookupExact

(* In the published library a certificate leads to the ID of its own TLS      *)
(* entry, and one that no TLS entry carries leads to none                     *)
(* (chromium-roots/src/lib.rs:209-242 on generator.rs:82-135).                *)
THEOREM ExactLookup == Spec => []LookupExact
  BY LookupFollows, Invariance, PTL

-----------------------------------------------------------------------------
(* Lists defined step by step *)

LEMMA LeastNumber ==
  ASSUME NEW S \in SUBSET Nat, S # {}
  PROVE  \E m \in S : \A n \in S : m <= n
<1> DEFINE R == OpToRel(<, Nat)
<1>1. IsWellFoundedOn(R, Nat)
  BY NatLessThanWellFounded
<1> HIDE DEF R
<1>2. PICK m \in S : \A n \in S : <<n, m>> \notin R
  BY <1>1, WFMin
<1>3. \A n, k \in Nat : n < k => <<n, k>> \in R
  BY DEF R, OpToRel
<1>4. \A n \in S : ~(n < m)
  BY <1>2, <1>3
<1>5. m \in Nat /\ \A n \in S : n \in Nat
  OBVIOUS
<1>6. \A n \in S : m <= n
  BY <1>4, <1>5
<1> QED
  BY <1>6

(* Induction over the positions 0 .. n, for the set of those that satisfy     *)
(* something.                                                                 *)
LEMMA UpTo ==
  ASSUME NEW n \in Nat, NEW P, 0 \in P, \A k \in 1 .. n : k - 1 \in P => k \in P
  PROVE  \A k \in 0 .. n : k \in P
<1> DEFINE Q == {k \in 0 .. n : k \notin P}
<1>1. SUFFICES ASSUME Q # {} PROVE FALSE
  OBVIOUS
<1>2. PICK m \in Q : \A k \in Q : m <= k
  <2>1. Q \in SUBSET Nat
    OBVIOUS
  <2> HIDE DEF Q
  <2> QED
    BY <1>1, <2>1, LeastNumber
<1>3. m \in 1 .. n /\ m - 1 \in 0 .. n /\ m - 1 \notin Q
  BY <1>2
<1> QED
  BY <1>2, <1>3

(* A function given by its first value and its steps exists.                  *)
LEMMA StepsExist ==
  ASSUME NEW S, NEW c \in S, NEW n \in Nat, NEW step \in [1 .. n -> [S -> S]]
  PROVE  \E f \in [0 .. n -> S] : f[0] = c /\ \A k \in 1 .. n : f[k] = step[k][f[k - 1]]
<1> DEFINE Solves(f, m) == f[0] = c /\ \A k \in 1 .. m : f[k] = step[k][f[k - 1]]
           P == {m \in 0 .. n : \E f \in [0 .. m -> S] : Solves(f, m)}
<1>1. 0 \in P
  <2> DEFINE f == [k \in 0 .. 0 |-> c]
  <2>1. f \in [0 .. 0 -> S] /\ f[0] = c /\ 1 .. 0 = {}
    OBVIOUS
  <2>2. Solves(f, 0)
    BY <2>1
  <2> HIDE DEF f, Solves
  <2> QED
    BY <2>1, <2>2
<1>2. ASSUME NEW m \in 1 .. n, m - 1 \in P
      PROVE  m \in P
  <2>1. PICK f \in [0 .. m - 1 -> S] : Solves(f, m - 1)
    BY <1>2
  <2>2. f[m - 1] \in S
    OBVIOUS
  <2> DEFINE g == [k \in 0 .. m |-> IF k = m THEN step[m][f[m - 1]] ELSE f[k]]
  <2>3. step[m][f[m - 1]] \in S
    BY <2>2
  <2>4. g \in [0 .. m -> S]
    BY <2>3
  <2>5. g[m] = step[m][f[m - 1]] /\ \A k \in 0 .. m - 1 : g[k] = f[k]
    OBVIOUS
  <2> HIDE DEF g
  <2>6. ASSUME NEW k \in 1 .. m
        PROVE  g[k] = step[k][g[k - 1]]
    <3>1. CASE k = m
      <4>1. m - 1 \in 0 .. m - 1
        OBVIOUS
      <4> QED
        BY <2>5, <3>1, <4>1
    <3>2. CASE k # m
      <4>1. k \in 1 .. m - 1 /\ k - 1 \in 0 .. m - 1
        BY <3>2
      <4> QED
        BY <2>1, <2>5, <4>1
    <3> QED
      BY <3>1, <3>2
  <2>7. g[0] = c
    BY <2>1, <2>5
  <2>8. Solves(g, m)
    BY <2>6, <2>7
  <2> HIDE DEF Solves
  <2> QED
    BY <2>4, <2>8
<1>3. \A m \in 0 .. n : m \in P
  BY <1>1, <1>2, UpTo
<1> QED
  BY <1>3

(* The recursion of Keep has the values it describes.                         *)
KeepsUpTo(f, list, kept) ==
  /\ f[0] = <<>>
  /\ \A k \in 1 .. Len(list) :
       f[k] = IF k \in kept THEN Append(f[k - 1], list[k]) ELSE f[k - 1]

LEMMA KeepSteps ==
  ASSUME NEW S, NEW list \in Seq(S), NEW kept
  PROVE  \E f \in [0 .. Len(list) -> Seq(S)] :
           KeepsUpTo(f, list, kept) /\ Keep(list, kept) = f[Len(list)]
<1> DEFINE n == Len(list)
           step == [k \in 1 .. n |-> [s \in Seq(S) |->
                      IF k \in kept THEN Append(s, list[k]) ELSE s]]
           Body(f) == [k \in 0 .. n |->
                         IF k = 0 THEN <<>>
                         ELSE IF k \in kept THEN Append(f[k - 1], list[k]) ELSE f[k - 1]]
<1>1. n \in Nat /\ \A k \in 1 .. n : list[k] \in S
  OBVIOUS
<1>2. step \in [1 .. n -> [Seq(S) -> Seq(S)]]
  BY <1>1
<1>3. <<>> \in Seq(S)
  OBVIOUS
<1>4. PICK f \in [0 .. n -> Seq(S)] :
             f[0] = <<>> /\ \A k \in 1 .. n : f[k] = step[k][f[k - 1]]
  <2> DEFINE T == Seq(S)
  <2>1. n \in Nat /\ <<>> \in T /\ step \in [1 .. n -> [T -> T]]
    BY <1>1, <1>2, <1>3
  <2> HIDE DEF step, n, T
  <2>2. \E f \in [0 .. n -> T] : f[0] = <<>> /\ \A k \in 1 .. n : f[k] = step[k][f[k - 1]]
    BY <2>1, StepsExist
  <2> QED
    BY <2>2 DEF T
<1>5. \A k \in 1 .. n : f[k - 1] \in Seq(S)
  BY <1>1
<1>6. KeepsUpTo(f, list, kept)
  <2>1. ASSUME NEW k \in 1 .. n
        PROVE  f[k] = IF k \in kept THEN Append(f[k - 1], list[k]) ELSE f[k - 1]
    <3>1. f[k] = step[k][f[k - 1]] /\ f[k - 1] \in Seq(S)
      BY <1>4, <1>5
    <3> QED
      BY <3>1
  <2> QED
    BY <1>4, <2>1 DEF KeepsUpTo
<1>7. f = Body(f)
  <2>1. ASSUME NEW k \in 0 .. n
        PROVE  f[k] = Body(f)[k]
    <3>1. k = 0 \/ k \in 1 .. n
      BY <1>1
    <3> QED
      BY <1>6, <3>1 DEF KeepsUpTo
  <2>2. f = [k \in 0 .. n |-> f[k]]
    OBVIOUS
  <2> QED
    BY <2>1, <2>2
<1> DEFINE g == CHOOSE h : h = Body(h)
<1>8. g = Body(g)
  BY <1>7
<1>9. Keep(list, kept) = g[n]
  BY DEF Keep
<1> HIDE DEF g
<1>10. g[0] = f[0] /\ \A k \in 1 .. n : g[k - 1] = f[k - 1] => g[k] = f[k]
  <2>1. g[0] = <<>> /\ f[0] = <<>>
    BY <1>1, <1>6, <1>8 DEF KeepsUpTo
  <2>2. ASSUME NEW k \in 1 .. n, g[k - 1] = f[k - 1]
        PROVE  g[k] = f[k]
    <3>1. k # 0 /\ k \in 0 .. n
      BY <1>1
    <3>2. g[k] = IF k \in kept THEN Append(g[k - 1], list[k]) ELSE g[k - 1]
      <4>1. g[k] = Body(g)[k]
        BY <1>8
      <4> QED
        BY <3>1, <4>1
    <3> QED
      BY <1>6, <2>2, <3>2 DEF KeepsUpTo
  <2> QED
    BY <2>1, <2>2
<1> DEFINE P == {k \in 0 .. n : g[k] = f[k]}
<1>11. \A k \in 0 .. n : k \in P
  <2>1. 0 \in P /\ \A k \in 1 .. n : k - 1 \in P => k \in P
    BY <1>1, <1>10
  <2> HIDE DEF P
  <2> QED
    BY <1>1, <2>1, UpTo
<1> QED
  BY <1>1, <1>6, <1>9, <1>11

LEMMA KeepTyped ==
  ASSUME NEW S, NEW list \in Seq(S), NEW kept
  PROVE  Keep(list, kept) \in Seq(S)
<1>1. Len(list) \in 0 .. Len(list)
  OBVIOUS
<1> QED
  BY <1>1, KeepSteps

LEMMA KeepNothing ==
  ASSUME NEW kept
  PROVE  Keep(<<>>, kept) = <<>>
<1>1. <<>> \in Seq({}) /\ Len(<<>>) = 0
  OBVIOUS
<1>2. \A list : list \in Seq({}) => \E f : f[0] = <<>> /\ Keep(list, kept) = f[Len(list)]
  BY KeepSteps DEF KeepsUpTo
<1> QED
  BY <1>1, <1>2

(* One more element at the end of the list.                                   *)
LEMMA KeepAppend ==
  ASSUME NEW S, NEW list \in Seq(S), NEW x \in S, NEW kept, NEW more,
         \A k \in 1 .. Len(list) : k \in kept <=> k \in more
  PROVE  Keep(Append(list, x), more) =
           IF Len(list) + 1 \in more THEN Append(Keep(list, kept), x) ELSE Keep(list, kept)
<1> DEFINE n == Len(list)
           longer == Append(list, x)
<1>1. /\ n \in Nat /\ Len(longer) = n + 1 /\ longer \in Seq(S) /\ longer[n + 1] = x
      /\ \A k \in 1 .. n : longer[k] = list[k]
  OBVIOUS
<1>2. PICK f : KeepsUpTo(f, list, kept) /\ Keep(list, kept) = f[n]
  BY KeepSteps
<1> HIDE DEF longer
<1>3. PICK g : KeepsUpTo(g, longer, more) /\ Keep(longer, more) = g[n + 1]
  BY <1>1, KeepSteps
<1> DEFINE P == {k \in 0 .. n : g[k] = f[k]}
<1>4. 0 \in P
  BY <1>1, <1>2, <1>3 DEF KeepsUpTo
<1>5. ASSUME NEW k \in 1 .. n, k - 1 \in P
      PROVE  k \in P
  <2>1. k \in 1 .. n + 1 /\ longer[k] = list[k] /\ (k \in kept <=> k \in more)
    BY <1>1
  <2>2. g[k] = IF k \in more THEN Append(g[k - 1], longer[k]) ELSE g[k - 1]
    BY <1>1, <1>3, <2>1 DEF KeepsUpTo
  <2>3. f[k] = IF k \in kept THEN Append(f[k - 1], list[k]) ELSE f[k - 1]
    BY <1>2 DEF KeepsUpTo
  <2> QED
    BY <1>1, <1>5, <2>1, <2>2, <2>3
<1>6. \A k \in 0 .. n : k \in P
  <2> HIDE DEF P
  <2> QED
    BY <1>1, <1>4, <1>5, UpTo
<1>7. n + 1 \in 1 .. n + 1 /\ n \in 0 .. n
  BY <1>1
<1>8. g[n + 1] = IF n + 1 \in more THEN Append(g[n], longer[n + 1]) ELSE g[n]
  BY <1>1, <1>3, <1>7 DEF KeepsUpTo
<1> QED
  BY <1>1, <1>2, <1>3, <1>6, <1>7, <1>8 DEF longer

-----------------------------------------------------------------------------
(* The order of publication *)

Entries(messages) ==
  [k \in DOMAIN messages |-> [der |-> messages[k].certificate, id |-> messages[k].id]]

LEMMA IdsOfAppend ==
  ASSUME NEW list \in Seq(Entry), NEW e \in Entry
  PROVE  IdsOf(Append(list, e)) =
           IF e.id # None THEN Append(IdsOf(list), e.id) ELSE IdsOf(list)
<1> DEFINE n == Len(list)
           longer == Append(list, e)
           all == [k \in DOMAIN list |-> list[k].id]
           kept == {k \in DOMAIN list : list[k].id # None}
           more == {k \in DOMAIN longer : longer[k].id # None}
<1>1. /\ n \in Nat /\ DOMAIN list = 1 .. n /\ DOMAIN longer = 1 .. n + 1
      /\ longer[n + 1] = e /\ \A k \in 1 .. n : longer[k] = list[k]
  OBVIOUS
<1>2. \A k \in 1 .. n : list[k] \in Entry /\ list[k].id \in Ids \cup {None}
  <2>1. \A k \in 1 .. n : list[k] \in Entry
    OBVIOUS
  <2> QED
    BY <2>1 DEF Entry
<1>3. all \in Seq(Ids \cup {None}) /\ Len(all) = n /\ e.id \in Ids \cup {None}
  BY <1>1, <1>2 DEF Entry
<1>4. [k \in DOMAIN longer |-> longer[k].id] = Append(all, e.id)
  BY <1>1
<1>5. \A k \in 1 .. Len(all) : k \in kept <=> k \in more
  BY <1>1, <1>3
<1>6. n + 1 \in more <=> e.id # None
  BY <1>1
<1>7. Keep(Append(all, e.id), more) =
        IF Len(all) + 1 \in more THEN Append(Keep(all, kept), e.id) ELSE Keep(all, kept)
  <2> DEFINE x == e.id
             T == Ids \cup {None}
  <2>1. all \in Seq(T) /\ x \in T
    BY <1>3
  <2> HIDE DEF all, kept, more, x, T
  <2>2. Keep(Append(all, x), more) =
          IF Len(all) + 1 \in more THEN Append(Keep(all, kept), x) ELSE Keep(all, kept)
    BY <1>5, <2>1, KeepAppend
  <2> QED
    BY <2>2 DEF x
<1> QED
  BY <1>3, <1>4, <1>6, <1>7 DEF IdsOf

LEMMA EntriesAppend ==
  ASSUME NEW messages \in Seq(Message), NEW m \in Message
  PROVE  Entries(Append(messages, m)) =
           Append(Entries(messages), [der |-> m.certificate, id |-> m.id])
BY DEF Entries

(* The entries of the first n anchors that are to be published.               *)
Marked(s) == {k \in DOMAIN s.additional : s.additional[k].tls = TRUE}
Sofar(s, n) ==
  IF n <= Len(s.roots) THEN SubSeq(s.roots, 1, n)
  ELSE s.roots \o Keep(SubSeq(s.additional, 1, n - Len(s.roots)), Marked(s))

LEMMA Joined ==
  ASSUME NEW A, NEW a \in Seq(A), NEW B, NEW b \in Seq(B)
  PROVE  /\ Len(a) \in Nat /\ Len(b) \in Nat
         /\ Len(a \o b) = Len(a) + Len(b)
         /\ \A k \in 1 .. Len(a) : (a \o b)[k] = a[k]
         /\ \A k \in Len(a) + 1 .. Len(a) + Len(b) : (a \o b)[k] = b[k - Len(a)]
<1>1. a \in Seq(A \cup B) /\ b \in Seq(A \cup B)
  OBVIOUS
<1> QED
  BY <1>1

(* The position of the n-th anchor in its list. *)
LEMMA InSecondList ==
  ASSUME NEW r \in Nat, NEW e \in Nat, NEW n \in 0 .. r + e, n > r
  PROVE  n - r \in 1 .. e /\ n \in r + 1 .. r + e
OBVIOUS

LEMMA Lengths ==
  ASSUME NEW s \in Store
  PROVE  /\ s.roots \in Seq(Message) /\ s.additional \in Seq(Message)
         /\ Len(s.roots) \in Nat /\ Len(s.additional) \in Nat
<1>1. s.roots \in Seq(Message) /\ s.additional \in Seq(Message)
  BY DEF Store
<1> QED
  BY <1>1

LEMMA SofarTyped ==
  ASSUME NEW s \in Store, NEW n \in 0 .. Len(s.roots) + Len(s.additional)
  PROVE  Sofar(s, n) \in Seq(Message)
<1>1. /\ s.roots \in Seq(Message) /\ s.additional \in Seq(Message)
      /\ Len(s.roots) \in Nat /\ Len(s.additional) \in Nat
  BY Lengths
<1>2. CASE n <= Len(s.roots)
  BY <1>1, <1>2 DEF Sofar
<1>3. CASE n > Len(s.roots)
  <2>0. n - Len(s.roots) \in 1 .. Len(s.additional)
    BY <1>1, <1>3, InSecondList
  <2>1. SubSeq(s.additional, 1, n - Len(s.roots)) \in Seq(Message)
    BY <1>1, <2>0
  <2>2. Keep(SubSeq(s.additional, 1, n - Len(s.roots)), Marked(s)) \in Seq(Message)
    BY <2>1, KeepTyped
  <2> QED
    BY <1>1, <1>3, <2>2 DEF Sofar
<1> QED
  BY <1>1, <1>2, <1>3

(* The n-th anchor: what entry it is made of.                                 *)
LEMMA AnchorOf ==
  ASSUME NEW s \in Store, Parses(s), NEW n \in 1 .. Len(s.roots) + Len(s.additional)
  PROVE  /\ Len(ParsedAnchors(s)) = Len(s.roots) + Len(s.additional)
         /\ n <= Len(s.roots) =>
              /\ s.roots[n] \in Message /\ s.roots[n].tls = None
              /\ ParsedAnchors(s)[n] = ConvertAnchor(s.roots[n], "Root")
              /\ ParsedAnchors(s)[n].tls
         /\ n > Len(s.roots) =>
              LET m == s.additional[n - Len(s.roots)]
              IN /\ m \in Message
                 /\ ParsedAnchors(s)[n] = ConvertAnchor(m, "Additional")
                 /\ ParsedAnchors(s)[n].tls <=> m.tls = TRUE
<1>1. s.roots \in Seq(Message) /\ s.additional \in Seq(Message)
  BY Lengths
<1> DEFINE r == Len(s.roots)
           t == Len(s.additional)
           classical == [k \in 1 .. r |-> ConvertAnchor(s.roots[k], "Root")]
           extra == [k \in 1 .. t |-> ConvertAnchor(s.additional[k], "Additional")]
<1>2. r \in Nat /\ t \in Nat /\ n \in 1 .. r + t /\ n \in 0 .. r + t
  <2>1. r \in Nat /\ t \in Nat /\ n \in 1 .. r + t
    BY Lengths
  <2> HIDE DEF r, t
  <2> QED
    BY <2>1
<1> DEFINE A == {ConvertAnchor(s.roots[k], "Root") : k \in 1 .. r}
           B == {ConvertAnchor(s.additional[k], "Additional") : k \in 1 .. t}
<1>3. classical \in Seq(A) /\ extra \in Seq(B) /\ Len(classical) = r /\ Len(extra) = t
  BY <1>2, IsASeq
<1> DEFINE both == classical \o extra
<1>4. /\ Len(both) = r + t
      /\ \A k \in 1 .. r : both[k] = classical[k]
      /\ \A k \in r + 1 .. r + t : both[k] = extra[k - r]
  <2> HIDE DEF classical, extra, r, t, A, B
  <2> QED
    BY <1>3, Joined
<1>5. both = ParsedAnchors(s)
  BY DEF ParsedAnchors
<1> HIDE DEF both
<1>6. CASE n <= r
  <2>1. n \in 1 .. r
    BY <1>2, <1>6
  <2>2. both[n] = ConvertAnchor(s.roots[n], "Root")
    BY <1>4, <2>1
  <2>3. s.roots[n] \in Message /\ s.roots[n].tls = None
    BY <1>1, <2>1 DEF Parses, Convertible
  <2>4. ~(n > r)
    BY <1>2, <1>6
  <2>5. ConvertAnchor(s.roots[n], "Root").tls
    BY <2>3 DEF ConvertAnchor, Field
  <2> HIDE DEF classical, extra
  <2> QED
    BY <1>4, <1>5, <1>6, <2>2, <2>3, <2>4, <2>5
<1>7. CASE n > r
  <2> DEFINE m == s.additional[n - r]
  <2>1. n - r \in 1 .. t /\ n \in r + 1 .. r + t
    <3> HIDE DEF r, t
    <3> QED
      BY <1>2, <1>7, InSecondList
  <2>2. both[n] = ConvertAnchor(m, "Additional")
    BY <1>4, <2>1
  <2>3. m \in Message
    BY <1>1, <2>1
  <2>4. ConvertAnchor(m, "Additional").tls <=> m.tls = TRUE
    BY <2>3, AnchorAssumption DEF ConvertAnchor, Field, Message
  <2>5. ~(n <= r)
    BY <1>2, <1>7
  <2> HIDE DEF classical, extra
  <2> QED
    BY <1>4, <1>5, <1>7, <2>2, <2>3, <2>4, <2>5
<1>8. n <= r \/ n > r
  BY <1>2
<1> QED
  BY <1>6, <1>7, <1>8

LEMMA ConcatAppend ==
  ASSUME NEW S, NEW a \in Seq(S), NEW b \in Seq(S), NEW x \in S
  PROVE  a \o Append(b, x) = Append(a \o b, x)
OBVIOUS

LEMMA ParsedLength ==
  ASSUME NEW s \in Store
  PROVE  Len(ParsedAnchors(s)) = Len(s.roots) + Len(s.additional)
<1> DEFINE r == Len(s.roots)
           t == Len(s.additional)
           classical == [k \in 1 .. r |-> ConvertAnchor(s.roots[k], "Root")]
           extra == [k \in 1 .. t |-> ConvertAnchor(s.additional[k], "Additional")]
           A == {ConvertAnchor(s.roots[k], "Root") : k \in 1 .. r}
           B == {ConvertAnchor(s.additional[k], "Additional") : k \in 1 .. t}
<1>1. r \in Nat /\ t \in Nat
  BY Lengths
<1>2. classical \in Seq(A) /\ extra \in Seq(B) /\ Len(classical) = r /\ Len(extra) = t
  BY <1>1, IsASeq
<1>3. Len(classical \o extra) = r + t
  <2> HIDE DEF classical, extra, r, t, A, B
  <2> QED
    BY <1>2, Joined
<1> QED
  BY <1>3 DEF ParsedAnchors

LEMMA OneMoreOf ==
  ASSUME NEW S, NEW list \in Seq(S), NEW k \in 1 .. Len(list)
  PROVE  /\ SubSeq(list, 1, k - 1) \in Seq(S) /\ Len(SubSeq(list, 1, k - 1)) = k - 1
         /\ list[k] \in S
         /\ SubSeq(list, 1, k) = Append(SubSeq(list, 1, k - 1), list[k])
OBVIOUS

LEMMA RootsThen ==
  ASSUME NEW s \in Store, NEW b \in Seq(Message), NEW m \in Message
  PROVE  s.roots \o Append(b, m) = Append(s.roots \o b, m)
<1> DEFINE a == s.roots
<1>1. a \in Seq(Message)
  BY Lengths
<1> HIDE DEF a
<1>2. a \o Append(b, m) = Append(a \o b, m)
  BY <1>1, ConcatAppend
<1> QED
  BY <1>2 DEF a

(* What the loop publishes with the n-th anchor is the next entry of the list *)
(* to be published.                                                           *)
LEMMA SofarStep ==
  ASSUME NEW s \in Store, Parses(s), NEW n \in 1 .. Len(s.roots) + Len(s.additional)
  PROVE  LET a == ParsedAnchors(s)[n]
         IN Entries(Sofar(s, n)) = IF a.tls THEN Append(Entries(Sofar(s, n - 1)), Published(a))
                                   ELSE Entries(Sofar(s, n - 1))
<1> DEFINE r == Len(s.roots)
           t == Len(s.additional)
           a == ParsedAnchors(s)[n]
<1>1. /\ s.roots \in Seq(Message) /\ s.additional \in Seq(Message) /\ r \in Nat /\ t \in Nat
      /\ n \in 1 .. r + t
  BY Lengths
<1>2. n - 1 \in 0 .. r + t
  <2> HIDE DEF r, t
  <2> QED
    BY <1>1
<1>3. Sofar(s, n - 1) \in Seq(Message)
  BY <1>2, SofarTyped
<1>4. CASE n <= r
  <2>1. n \in 1 .. r /\ n - 1 <= r
    BY <1>1, <1>4
  <2>2. /\ s.roots[n] \in Message /\ a = ConvertAnchor(s.roots[n], "Root") /\ a.tls
    BY <1>1, <1>4, AnchorOf
  <2>3. Sofar(s, n) = Append(Sofar(s, n - 1), s.roots[n])
    BY <1>1, <1>4, <2>1, OneMoreOf DEF Sofar
  <2>4. Published(a) = [der |-> s.roots[n].certificate, id |-> s.roots[n].id]
    BY <2>2 DEF Published, ConvertAnchor
  <2> QED
    BY <1>3, <2>2, <2>3, <2>4, EntriesAppend
<1>5. CASE n > r
  <2> DEFINE j == n - r
             m == s.additional[j]
             before == Keep(SubSeq(s.additional, 1, j - 1), Marked(s))
  <2>1. j \in 1 .. t /\ j \in 0 .. t /\ ~(n <= r)
    <3> HIDE DEF r, t
    <3> QED
      BY <1>1, <1>5
  <2>2. /\ m \in Message /\ a = ConvertAnchor(m, "Additional") /\ (a.tls <=> m.tls = TRUE)
    BY <1>1, <1>5, AnchorOf
  <2>3. /\ SubSeq(s.additional, 1, j - 1) \in Seq(Message)
        /\ Len(SubSeq(s.additional, 1, j - 1)) = j - 1
        /\ SubSeq(s.additional, 1, j) = Append(SubSeq(s.additional, 1, j - 1), m)
    <3> HIDE DEF j
    <3> QED
      BY <1>1, <2>1, OneMoreOf
  <2>4. j \in Marked(s) <=> m.tls = TRUE
    BY <1>1, <2>1 DEF Marked
  <2>5. Keep(SubSeq(s.additional, 1, j), Marked(s)) =
          IF j \in Marked(s) THEN Append(before, m) ELSE before
    <3> DEFINE some == SubSeq(s.additional, 1, j - 1)
    <3>1. some \in Seq(Message) /\ m \in Message /\ Len(some) + 1 = j
      <4> HIDE DEF j
      <4> QED
        BY <2>1, <2>2, <2>3
    <3>2. SubSeq(s.additional, 1, j) = Append(some, m) /\ before = Keep(some, Marked(s))
      BY <2>3
    <3> HIDE DEF some, m, before, j
    <3>3. Keep(Append(some, m), Marked(s)) =
            IF Len(some) + 1 \in Marked(s) THEN Append(Keep(some, Marked(s)), m)
            ELSE Keep(some, Marked(s))
      BY <3>1, KeepAppend
    <3> QED
      BY <3>1, <3>2, <3>3
  <2>6. before \in Seq(Message)
    BY <2>3, KeepTyped
  <2>7. Sofar(s, n) = s.roots \o Keep(SubSeq(s.additional, 1, j), Marked(s))
    BY <2>1 DEF Sofar
  <2>8. Sofar(s, n - 1) = s.roots \o before
    <3>1. CASE j = 1
      <4>1. n - 1 = r /\ r <= r
        <5> HIDE DEF r, t
        <5> QED
          BY <1>1, <3>1
      <4>2. Sofar(s, n - 1) = s.roots
        <5>1. SubSeq(s.roots, 1, r) = s.roots
          BY <1>1
        <5> QED
          BY <4>1, <5>1 DEF Sofar
      <4>3. SubSeq(s.additional, 1, j - 1) = <<>>
        BY <1>1, <3>1
      <4>4. before = <<>>
        BY <4>3, KeepNothing
      <4> QED
        BY <1>1, <4>2, <4>4, ConcatEmptySeq
    <3>2. CASE j # 1
      <4>1. ~(n - 1 <= r) /\ n - 1 - r = j - 1
        BY <1>1, <1>5, <2>1, <3>2
      <4> QED
        BY <4>1 DEF Sofar
    <3> QED
      BY <3>1, <3>2
  <2>9. Published(a) = [der |-> m.certificate, id |-> m.id]
    BY <2>2 DEF Published, ConvertAnchor
  <2>10. Sofar(s, n) = IF a.tls THEN Append(Sofar(s, n - 1), m) ELSE Sofar(s, n - 1)
    <3>1. s.roots \o Append(before, m) = Append(s.roots \o before, m)
      BY <2>2, <2>6, RootsThen
    <3> QED
      BY <2>2, <2>4, <2>5, <2>7, <2>8, <3>1
  <2> QED
    BY <1>3, <2>2, <2>9, <2>10, EntriesAppend
<1>6. n <= r \/ n > r
  BY <1>1
<1> QED
  BY <1>4, <1>5, <1>6

LEMMA SofarAll ==
  ASSUME NEW s \in Store
  PROVE  Sofar(s, Len(s.roots) + Len(s.additional)) = TlsMessages(s)
<1> DEFINE r == Len(s.roots)
           t == Len(s.additional)
<1>1. /\ s.roots \in Seq(Message) /\ s.additional \in Seq(Message) /\ r \in Nat /\ t \in Nat
  BY Lengths
<1>2. SubSeq(s.additional, 1, t) = s.additional /\ SubSeq(s.roots, 1, r) = s.roots
  BY <1>1
<1>3. CASE t = 0
  <2>1. s.additional = <<>> /\ r + t = r /\ r <= r
    BY <1>1, <1>3
  <2>2. TlsAdditional(s) = <<>>
    BY <2>1, KeepNothing DEF TlsAdditional
  <2> QED
    BY <1>1, <1>2, <2>1, <2>2 DEF Sofar, TlsMessages
<1>4. CASE t # 0
  <2>1. ~(r + t <= r) /\ (r + t) - r = t
    <3> HIDE DEF r, t
    <3> QED
      BY <1>1, <1>4
  <2> QED
    BY <1>2, <2>1 DEF Sofar, TlsMessages, TlsAdditional, Marked
<1> QED
  BY <1>3, <1>4

(* IDs are all that IdsOf looks at. *)
LEMMA SameIds ==
  ASSUME NEW messages \in Seq(Message)
  PROVE  IdsOf(Entries(messages)) = IdsOf(messages)
<1> DEFINE e == Entries(messages)
<1>1. DOMAIN e = DOMAIN messages /\ \A k \in DOMAIN messages : e[k].id = messages[k].id
  BY DEF Entries
<1> HIDE DEF e
<1>2. [k \in DOMAIN e |-> e[k].id] = [k \in DOMAIN messages |-> messages[k].id]
  BY <1>1
<1>3. {k \in DOMAIN e : e[k].id # None} = {k \in DOMAIN messages : messages[k].id # None}
  BY <1>1
<1> QED
  BY <1>2, <1>3 DEF IdsOf, e

Loaded == phase \in {"validate", "limit", "published"}

Ordered ==
  /\ Loaded => /\ Parses(store) /\ anchors = ParsedAnchors(store)
               /\ validated = Entries(Sofar(store, next - 1))
  /\ ids = IdsOf(validated)

LEMMA InitOrdered == Init => Ordered
<1> SUFFICES ASSUME Init PROVE Ordered
  OBVIOUS
<1>1. [k \in DOMAIN validated |-> validated[k].id] = <<>>
  BY DEF Init
<1>2. IdsOf(validated) = <<>>
  BY <1>1, KeepNothing DEF IdsOf
<1> QED
  BY <1>2 DEF Init, Ordered, Loaded

LEMMA NextOrdered ==
  ASSUME IInv, Ordered, [Next]_vars
  PROVE  Ordered'
<1>1. TypeOK /\ Selected /\ store \in Store
  BY DEF IInv, TypeOK
<1>2. CASE Parse
  <2>1. /\ phase = "parse" /\ Parses(store) /\ anchors' = ParsedAnchors(store)
        /\ UNCHANGED <<store, next, ids, validated>>
    BY <1>2 DEF Parse
  <2>2. next = 1 /\ validated = <<>>
    BY <1>1, <2>1 DEF Selected, TypeOK
  <2>3. Entries(Sofar(store, 0)) = <<>>
    <3>1. 0 <= Len(store.roots) /\ SubSeq(store.roots, 1, 0) = <<>>
      BY <1>1, Lengths
    <3> QED
      BY <3>1 DEF Sofar, Entries
  <2>4. Parses(store)' /\ ParsedAnchors(store)' = ParsedAnchors(store)
        /\ Entries(Sofar(store, next - 1))' = Entries(Sofar(store, 0))
    BY <2>1, <2>2 DEF Parses, ParsedAnchors, Entries, Sofar, Marked
  <2>5. IdsOf(validated)' = IdsOf(validated)
    BY <2>1 DEF IdsOf
  <2> QED
    BY <2>1, <2>2, <2>3, <2>4, <2>5 DEF Ordered
<1>3. CASE ValidateAnchor
  <2> DEFINE a == anchors[next]
  <2>1. /\ phase = "validate" /\ next \in Nat \ {0} /\ next <= Len(anchors) /\ next' = next + 1
        /\ ids' = IF a.tls /\ a.id # None THEN Append(ids, a.id) ELSE ids
        /\ validated' = IF a.tls THEN Append(validated, Published(a)) ELSE validated
        /\ UNCHANGED <<store, phase, anchors>>
    BY <1>1, <1>3 DEF ValidateAnchor, TypeOK
  <2>2. /\ Parses(store) /\ anchors = ParsedAnchors(store)
        /\ validated = Entries(Sofar(store, next - 1))
    BY <2>1 DEF Ordered, Loaded
  <2>3. Len(anchors) = Len(store.roots) + Len(store.additional)
    <3>1. next \in 1 .. Len(anchors) /\ Len(anchors) \in Nat
      BY <1>1, <2>1 DEF TypeOK
    <3> QED
      BY <1>1, <2>2, ParsedLength
  <2>4. next \in 1 .. Len(store.roots) + Len(store.additional)
    <3>1. next \in 1 .. Len(anchors)
      BY <1>1, <2>1 DEF TypeOK
    <3> QED
      BY <2>3, <3>1
  <2>5. validated' = Entries(Sofar(store, next))
    BY <1>1, <2>1, <2>2, <2>4, SofarStep
  <2>6. Entries(Sofar(store, next - 1))' = Entries(Sofar(store, next))
    <3>1. next' - 1 = next /\ store' = store
      BY <2>1
    <3> QED
      BY <3>1
  <2>7. Parses(store)' /\ ParsedAnchors(store)' = ParsedAnchors(store)
    BY <2>1, <2>2 DEF Parses, ParsedAnchors
  <2>8. ids' = IdsOf(validated')
    <3>1. a \in Anchor /\ validated \in Seq(Entry)
      BY <1>1, <2>1 DEF TypeOK
    <3>4. Published(a) \in Entry /\ Published(a).id = a.id
      BY <3>1 DEF Published, Anchor, Entry
    <3>2. IdsOf(Append(validated, Published(a))) =
            IF a.id # None THEN Append(IdsOf(validated), a.id) ELSE IdsOf(validated)
      BY <3>1, <3>4, IdsOfAppend
    <3>3. ids = IdsOf(validated)
      BY DEF Ordered
    <3> QED
      BY <2>1, <3>2, <3>3
  <2> QED
    BY <2>1, <2>2, <2>5, <2>6, <2>7, <2>8 DEF Ordered, IdsOf, Keep
<1>4. ASSUME UNCHANGED <<store, anchors, next, ids, validated>>, Loaded' => Loaded
      PROVE  Ordered'
  <2>1. /\ Parses(store)' <=> Parses(store)
        /\ ParsedAnchors(store)' = ParsedAnchors(store)
        /\ Entries(Sofar(store, next - 1))' = Entries(Sofar(store, next - 1))
        /\ IdsOf(validated)' = IdsOf(validated)
    BY <1>4 DEF Parses, ParsedAnchors, Entries, Sofar, Marked, IdsOf
  <2> QED
    BY <1>4, <2>1 DEF Ordered
<1>5. CASE ParseFails \/ AnchorInvalid \/ AnchorsValidated \/ CheckLimit
  BY <1>4, <1>5 DEF ParseFails, AnchorInvalid, AnchorsValidated, CheckLimit, Reject, Loaded
<1>6. CASE UNCHANGED vars
  BY <1>4, <1>6 DEF vars, Loaded
<1> QED
  BY <1>2, <1>3, <1>5, <1>6 DEF Next

LEMMA OrderFollows ==
  ASSUME IInv, Ordered
  PROVE  PublishedInSourceOrder
<1> SUFFICES ASSUME phase = "published" PROVE PublishedInSourceOrder
  BY DEF PublishedInSourceOrder
<1>1. store \in Store /\ next = Len(anchors) + 1
  BY DEF IInv, TypeOK, Selected
<1>2. validated = Entries(Sofar(store, next - 1)) /\ anchors = ParsedAnchors(store)
  BY DEF Ordered, Loaded
<1>3. next - 1 = Len(store.roots) + Len(store.additional)
  <2>1. Len(anchors) = Len(store.roots) + Len(store.additional)
    BY <1>1, <1>2, ParsedLength
  <2>2. Len(anchors) \in Nat
    BY DEF IInv, TypeOK
  <2> QED
    BY <1>1, <2>1, <2>2
<1>4. validated = Entries(TlsMessages(store))
  BY <1>1, <1>2, <1>3, SofarAll
<1> QED
  BY <1>4 DEF Ordered, PublishedInSourceOrder, Entries

(* The library lists the roots and then the additional certificates marked    *)
(* for TLS in the order of the message, and the IDs whose length was checked  *)
(* are theirs, for messages of any length (generator.rs:58-128,               *)
(* codegen.rs:54-65).                                                         *)
THEOREM SourceOrder == Spec => []PublishedInSourceOrder
<1>1. Init => IInv
  BY InitType, InitSelected DEF IInv
<1>2. IInv /\ Ordered => PublishedInSourceOrder
  BY OrderFollows
<1> QED
  BY <1>1, <1>2, InitOrdered, NextSelected, NextOrdered, PTL DEF Spec

-----------------------------------------------------------------------------
(* Soundness of what is published *)

(* StoreSound, for the list of anchors instead of the two lists of entries.   *)
Judged(list, n) ==
  /\ \A k \in 1 .. n : CertificateValid(list[k]) /\ list[k].id \in ValidIds \cup {None}
  /\ \A j, k \in 1 .. n :
       j # k => /\ list[j].id = None \/ list[j].id # list[k].id
                /\ list[j].tls /\ list[k].tls => list[j].der # list[k].der

Accepted ==
  /\ Loaded => Judged(anchors, next - 1)
  /\ seenIds = {anchors[k].id : k \in 1 .. next - 1} \ {None}
  /\ phase \in {"limit", "published"} => validated # <<>>
  /\ phase = "published" => FitsVector(ids)
  /\ phase = "rejected" => ~StoreSound(store)

(* The entry behind the n-th anchor. *)
SlotOf(s, n) ==
  IF n <= Len(s.roots) THEN <<"Root", n>> ELSE <<"Additional", n - Len(s.roots)>>

LEMMA SlotOfAnchor ==
  ASSUME NEW s \in Store, Parses(s), NEW n \in 1 .. Len(s.roots) + Len(s.additional)
  PROVE  /\ SlotOf(s, n) \in Slots(s)
         /\ At(s, SlotOf(s, n)).certificate = ParsedAnchors(s)[n].der
         /\ At(s, SlotOf(s, n)).id = ParsedAnchors(s)[n].id
         /\ Tls(s, SlotOf(s, n)) <=> ParsedAnchors(s)[n].tls
<1> DEFINE r == Len(s.roots)
           t == Len(s.additional)
           a == ParsedAnchors(s)[n]
<1>1. /\ r \in Nat /\ t \in Nat /\ n \in 1 .. r + t
      /\ DOMAIN s.roots = 1 .. r /\ DOMAIN s.additional = 1 .. t
  <2>1. r \in Nat /\ t \in Nat /\ DOMAIN s.roots = 1 .. r /\ DOMAIN s.additional = 1 .. t
    BY Lengths
  <2> QED
    BY <2>1
<1>2. CASE n <= r
  <2>1. a = ConvertAnchor(s.roots[n], "Root") /\ a.tls
    BY <1>2, AnchorOf
  <2>2. SlotOf(s, n) = <<"Root", n>> /\ n \in DOMAIN s.roots
    <3>1. n \in 1 .. r
      BY <1>1, <1>2
    <3> QED
      BY <1>1, <1>2, <3>1 DEF SlotOf
  <2>3. At(s, SlotOf(s, n)) = s.roots[n]
    BY <2>2 DEF At
  <2>4. a.der = s.roots[n].certificate /\ a.id = s.roots[n].id
    BY <2>1 DEF ConvertAnchor
  <2>5. Tls(s, SlotOf(s, n)) /\ SlotOf(s, n) \in Slots(s)
    BY <2>2 DEF Tls, Slots
  <2> QED
    BY <2>1, <2>3, <2>4, <2>5
<1>3. CASE n > r
  <2> DEFINE j == n - r
             m == s.additional[j]
  <2>1. a = ConvertAnchor(m, "Additional") /\ (a.tls <=> m.tls = TRUE)
    BY <1>3, AnchorOf
  <2>2. j \in 1 .. t /\ ~(n <= r)
    <3> HIDE DEF r, t
    <3> QED
      BY <1>1, <1>3
  <2>3. SlotOf(s, n) = <<"Additional", j>> /\ j \in DOMAIN s.additional
    BY <1>1, <2>2 DEF SlotOf
  <2>4. At(s, SlotOf(s, n)) = m
    BY <2>3 DEF At
  <2>5. a.der = m.certificate /\ a.id = m.id
    BY <2>1 DEF ConvertAnchor
  <2>6. (Tls(s, SlotOf(s, n)) <=> m.tls = TRUE) /\ SlotOf(s, n) \in Slots(s)
    BY <2>3, <2>4 DEF Tls, Slots
  <2> QED
    BY <2>1, <2>4, <2>5, <2>6
<1>4. n <= r \/ n > r
  BY <1>1
<1> QED
  BY <1>2, <1>3, <1>4

LEMMA EverySlot ==
  ASSUME NEW s \in Store, NEW slot \in Slots(s)
  PROVE  \E n \in 1 .. Len(s.roots) + Len(s.additional) : SlotOf(s, n) = slot
<1> DEFINE r == Len(s.roots)
           t == Len(s.additional)
<1>1. r \in Nat /\ t \in Nat /\ DOMAIN s.roots = 1 .. r /\ DOMAIN s.additional = 1 .. t
  BY Lengths
<1>2. CASE \E k \in DOMAIN s.roots : slot = <<"Root", k>>
  <2>1. PICK k \in 1 .. r : slot = <<"Root", k>>
    BY <1>1, <1>2
  <2>2. k \in 1 .. r + t /\ k <= r
    <3> HIDE DEF r, t
    <3> QED
      BY <1>1
  <2> QED
    BY <2>1, <2>2 DEF SlotOf
<1>3. CASE \E k \in DOMAIN s.additional : slot = <<"Additional", k>>
  <2>1. PICK k \in 1 .. t : slot = <<"Additional", k>>
    BY <1>1, <1>3
  <2>2. k + r \in 1 .. r + t /\ ~(k + r <= r) /\ (k + r) - r = k
    <3> HIDE DEF r, t
    <3> QED
      BY <1>1
  <2> QED
    BY <2>1, <2>2 DEF SlotOf
<1> QED
  BY <1>2, <1>3 DEF Slots

LEMMA SlotsDiffer ==
  ASSUME NEW s \in Store,
         NEW j \in 1 .. Len(s.roots) + Len(s.additional),
         NEW k \in 1 .. Len(s.roots) + Len(s.additional), j # k
  PROVE  SlotOf(s, j) # SlotOf(s, k)
<1> DEFINE r == Len(s.roots)
           t == Len(s.additional)
<1>1. r \in Nat /\ t \in Nat /\ j \in 1 .. r + t /\ k \in 1 .. r + t
  BY Lengths
<1>2. j \in Int /\ k \in Int /\ j - r # k - r
  <2> HIDE DEF r, t
  <2> QED
    BY <1>1
<1>3. "Root" # "Additional"
  OBVIOUS
<1> QED
  BY <1>2, <1>3 DEF SlotOf

(* The conditions of the conversion are part of soundness. *)
LEMMA SoundParses ==
  ASSUME NEW s \in Store, StoreSound(s)
  PROVE  Parses(s)
<1>1. /\ s.roots \in Seq(Message) /\ s.additional \in Seq(Message) /\ s.mtc \in Seq(Mtc)
  BY DEF Store
<1>2. ASSUME NEW k \in DOMAIN s.mtc
      PROVE  MtcValid(s.mtc[k])
  <2> DEFINE m == s.mtc[k]
  <2>1. /\ m.tls \in BOOLEAN \cup {None}
        /\ m.crsRootId \in Int \cup {None}
    <3>1. m \in Mtc
      BY <1>1
    <3> HIDE DEF m
    <3> QED
      BY <3>1 DEF Mtc
  <2>2. /\ m.logId \in ValidIds \/ (m.logId = None /\ m.tls # TRUE)
        /\ m.crsRootId = None \/ m.crsRootId >= 3
    BY DEF StoreSound
  <2> HIDE DEF m
  <2>3. IF m.logId # None THEN m.logId \in ValidIds ELSE ~Field(m.tls, FALSE)
    <3>1. m.logId \in ValidIds => m.logId # None
      BY AnchorAssumption
    <3>2. m.tls # TRUE => Field(m.tls, FALSE) = FALSE
      BY <2>1 DEF Field
    <3> QED
      BY <2>2, <3>1, <3>2
  <2>4. CrsRootIdValid(m.crsRootId)
    BY <2>1, <2>2 DEF CrsRootIdValid
  <2> QED
    BY <2>3, <2>4 DEF MtcValid, m
<1>3. ASSUME NEW k \in DOMAIN s.roots
      PROVE  Convertible(s.roots[k], "Root")
  <2> DEFINE slot == <<"Root", k>>
  <2>1. slot \in Slots(s) /\ At(s, slot) = s.roots[k] /\ slot[1] = "Root" /\ Tls(s, slot)
    BY DEF Slots, At, Tls
  <2>2. s.roots[k] \in Message
    BY <1>1
  <2>3. s.roots[k].certificate \in Authorities /\ s.roots[k].tls = None
        /\ (s.roots[k].crsRootId = None \/ s.roots[k].crsRootId >= 3)
    BY <2>1 DEF StoreSound
  <2>4. s.roots[k].certificate \in Certificates
    BY <2>3, AnchorAssumption
  <2> QED
    BY <2>2, <2>3, <2>4 DEF Convertible, CrsRootIdValid, Message
<1>4. ASSUME NEW k \in DOMAIN s.additional
      PROVE  Convertible(s.additional[k], "Additional")
  <2> DEFINE slot == <<"Additional", k>>
  <2>1. slot \in Slots(s) /\ At(s, slot) = s.additional[k]
    BY DEF Slots, At
  <2>2. s.additional[k] \in Message
    BY <1>1
  <2>3. s.additional[k].certificate \in Parseable \cup Authorities
        /\ (s.additional[k].crsRootId = None \/ s.additional[k].crsRootId >= 3)
    BY <2>1 DEF StoreSound
  <2>4. s.additional[k].certificate \in Certificates
    BY <2>3, AnchorAssumption
  <2> QED
    BY <2>2, <2>3, <2>4 DEF Convertible, CrsRootIdValid, Message
<1> QED
  BY <1>2, <1>3, <1>4 DEF Parses, StoreSound

(* A message that converts is sound when its list of anchors is, some of them *)
(* are trusted, and the IDs of those fit.                                     *)
LEMMA SoundIff ==
  ASSUME NEW s \in Store, Parses(s)
  PROVE  StoreSound(s) <=>
           LET n == Len(s.roots) + Len(s.additional)
           IN /\ Judged(ParsedAnchors(s), n)
              /\ \E k \in 1 .. n : ParsedAnchors(s)[k].tls
              /\ FitsVector(IdsOf(TlsMessages(s)))
<1> DEFINE n == Len(s.roots) + Len(s.additional)
           A == ParsedAnchors(s)
           Same(k, slot) == /\ At(s, slot).certificate = A[k].der
                            /\ At(s, slot).id = A[k].id
                            /\ Tls(s, slot) <=> A[k].tls
<1>1. \A k \in 1 .. n : SlotOf(s, k) \in Slots(s) /\ Same(k, SlotOf(s, k))
  BY SlotOfAnchor
<1>2. \A slot \in Slots(s) : \E k \in 1 .. n : SlotOf(s, k) = slot
  BY EverySlot
<1>3. \A j, k \in 1 .. n : j # k => SlotOf(s, j) # SlotOf(s, k)
  BY SlotsDiffer
<1>4. FitsVector(IdsOf(TlsMessages(s))) <=> EncodedLength(IdsOf(TlsMessages(s))) <= MaxVector
  BY DEF FitsVector
<1> HIDE DEF n, A
<1>5. ASSUME StoreSound(s)
      PROVE  Judged(A, n) /\ \E k \in 1 .. n : A[k].tls
  <2>1. ASSUME NEW k \in 1 .. n
        PROVE  CertificateValid(A[k]) /\ A[k].id \in ValidIds \cup {None}
    <3> DEFINE slot == SlotOf(s, k)
    <3>1. /\ At(s, slot).certificate \in (IF Tls(s, slot) THEN Authorities ELSE Parseable)
          /\ At(s, slot).id \in ValidIds \cup {None}
      BY <1>1, <1>5 DEF StoreSound
    <3> QED
      BY <1>1, <3>1 DEF CertificateValid
  <2>2. ASSUME NEW j \in 1 .. n, NEW k \in 1 .. n, j # k
        PROVE  /\ A[j].id = None \/ A[j].id # A[k].id
               /\ A[j].tls /\ A[k].tls => A[j].der # A[k].der
    <3> DEFINE a == SlotOf(s, j)
               b == SlotOf(s, k)
    <3>1. a \in Slots(s) /\ b \in Slots(s) /\ a # b /\ Same(j, a) /\ Same(k, b)
      BY <1>1, <1>3, <2>2
    <3> HIDE DEF a, b
    <3>2. /\ At(s, a).id = None \/ At(s, a).id # At(s, b).id
          /\ Tls(s, a) /\ Tls(s, b) => At(s, a).certificate # At(s, b).certificate
      BY <1>5, <3>1 DEF StoreSound
    <3> QED
      BY <3>1, <3>2
  <2>3. \E k \in 1 .. n : A[k].tls
    <3>1. PICK slot \in Slots(s) : Tls(s, slot)
      BY <1>5 DEF StoreSound
    <3>2. PICK k \in 1 .. n : SlotOf(s, k) = slot
      BY <1>2
    <3> QED
      BY <1>1, <3>1, <3>2
  <2> QED
    BY <2>1, <2>2, <2>3 DEF Judged
<1>6. ASSUME Judged(A, n), NEW i \in 1 .. n, A[i].tls, FitsVector(IdsOf(TlsMessages(s)))
      PROVE  StoreSound(s)
  <2>1. ASSUME NEW k \in DOMAIN s.mtc
        PROVE  /\ s.mtc[k].logId \in ValidIds \/ (s.mtc[k].logId = None /\ s.mtc[k].tls # TRUE)
               /\ s.mtc[k].crsRootId = None \/ s.mtc[k].crsRootId >= 3
    <3> DEFINE m == s.mtc[k]
    <3>1. MtcValid(m) /\ m \in Mtc
      BY DEF Parses, Store
    <3> HIDE DEF m
    <3>2. m.tls \in BOOLEAN \cup {None} /\ m.crsRootId \in Int \cup {None}
      BY <3>1 DEF Mtc
    <3>3. m.tls # TRUE \/ m.logId # None
      BY <3>1, AnchorAssumption DEF MtcValid, Field
    <3>4. m.logId # None => m.logId \in ValidIds
      BY <3>1 DEF MtcValid
    <3>5. m.crsRootId = None \/ m.crsRootId >= 3
      BY <3>1, <3>2 DEF MtcValid, CrsRootIdValid
    <3> QED
      BY <3>3, <3>4, <3>5 DEF m
  <2>2. ASSUME NEW slot \in Slots(s)
        PROVE  /\ At(s, slot).certificate \in (IF Tls(s, slot) THEN Authorities ELSE Parseable)
               /\ slot[1] = "Root" => At(s, slot).tls = None
               /\ At(s, slot).crsRootId = None \/ At(s, slot).crsRootId >= 3
               /\ At(s, slot).id \in ValidIds \cup {None}
    <3>1. PICK k \in 1 .. n : SlotOf(s, k) = slot
      BY <1>2
    <3>2. Same(k, slot) /\ CertificateValid(A[k]) /\ A[k].id \in ValidIds \cup {None}
      BY <1>1, <1>6, <3>1 DEF Judged
    <3>3. Convertible(At(s, slot), slot[1]) /\ At(s, slot) \in Message
      <4>1. s.roots \in Seq(Message) /\ s.additional \in Seq(Message)
        BY Lengths
      <4>2. CASE \E j \in DOMAIN s.roots : slot = <<"Root", j>>
        BY <4>1, <4>2 DEF Parses, At
      <4>3. CASE \E j \in DOMAIN s.additional : slot = <<"Additional", j>>
        BY <4>1, <4>3 DEF Parses, At
      <4> QED
        BY <4>2, <4>3 DEF Slots
    <3>4. At(s, slot).crsRootId \in Int \cup {None}
      BY <3>3 DEF Message
    <3>5. At(s, slot).crsRootId = None \/ At(s, slot).crsRootId >= 3
      BY <3>3, <3>4 DEF Convertible, CrsRootIdValid
    <3>6. slot[1] = "Root" => At(s, slot).tls = None
      BY <3>3 DEF Convertible
    <3> QED
      BY <3>2, <3>5, <3>6 DEF CertificateValid
  <2>3. ASSUME NEW a \in Slots(s), NEW b \in Slots(s), a # b
        PROVE  /\ At(s, a).id = None \/ At(s, a).id # At(s, b).id
               /\ Tls(s, a) /\ Tls(s, b) => At(s, a).certificate # At(s, b).certificate
    <3>1. PICK j \in 1 .. n : SlotOf(s, j) = a
      BY <1>2
    <3>2. PICK k \in 1 .. n : SlotOf(s, k) = b
      BY <1>2
    <3>3. j # k /\ Same(j, a) /\ Same(k, b)
      BY <1>1, <2>3, <3>1, <3>2
    <3> QED
      BY <1>6, <3>3 DEF Judged
  <2>4. \E slot \in Slots(s) : Tls(s, slot)
    BY <1>1, <1>6
  <2>5. s.version > 0
    BY DEF Parses
  <2> QED
    BY <1>4, <1>6, <2>1, <2>2, <2>3, <2>4, <2>5 DEF StoreSound
<1>7. StoreSound(s) => FitsVector(IdsOf(TlsMessages(s)))
  BY <1>4 DEF StoreSound
<1> QED
  BY <1>5, <1>6, <1>7 DEF n, A

(* The list of IDs whose length is checked. *)
LEMMA CheckedIds ==
  ASSUME IInv, Ordered, Loaded, next = Len(anchors) + 1
  PROVE  ids = IdsOf(TlsMessages(store))
<1> DEFINE n == Len(store.roots) + Len(store.additional)
<1>1. /\ store \in Store /\ Parses(store) /\ anchors = ParsedAnchors(store)
      /\ validated = Entries(Sofar(store, next - 1)) /\ ids = IdsOf(validated)
  BY DEF IInv, TypeOK, Ordered
<1>2. next - 1 = n /\ n \in 0 .. n
  <2>1. Len(anchors) = n
    BY <1>1, ParsedLength
  <2>2. Len(anchors) \in Nat
    BY DEF IInv, TypeOK
  <2> HIDE DEF n
  <2> QED
    BY <2>1, <2>2
<1>3. Sofar(store, n) = TlsMessages(store) /\ Sofar(store, n) \in Seq(Message)
  BY <1>1, <1>2, SofarAll, SofarTyped
<1> QED
  BY <1>1, <1>2, <1>3, SameIds

(* What the accumulators say of the anchors before the next one. *)
LEMMA SeenSofar ==
  ASSUME IInv, Accepted
  PROVE  /\ \A k \in 1 .. next - 1 : anchors[k].id # None => anchors[k].id \in seenIds
         /\ \A id \in seenIds : \E k \in 1 .. next - 1 : anchors[k].id = id /\ id # None
         /\ \A k \in 1 .. next - 1 : anchors[k].tls => anchors[k].der \in seenHashes
         /\ \A der \in seenHashes : \E k \in 1 .. next - 1 : anchors[k].tls /\ anchors[k].der = der
         /\ validated # <<>> <=> \E k \in 1 .. next - 1 : anchors[k].tls
<1>1. seenIds = {anchors[k].id : k \in 1 .. next - 1} \ {None}
  BY DEF Accepted
<1>2. seenHashes = {validated[k].der : k \in DOMAIN validated}
  BY DEF IInv, Selected
<1>3. \A k \in 1 .. next - 1 :
        anchors[k].tls => \E j \in DOMAIN validated : validated[j] = Published(anchors[k])
  BY DEF IInv, Selected
<1>4. \A j \in DOMAIN validated :
        \E k \in 1 .. next - 1 : anchors[k].tls /\ validated[j] = Published(anchors[k])
  BY DEF IInv, Selected
<1>5. \A a : Published(a).der = a.der
  BY DEF Published
<1>6. validated # <<>> <=> DOMAIN validated # {}
  <2>1. validated \in Seq(Entry)
    BY DEF IInv, TypeOK
  <2>2. DOMAIN validated = 1 .. Len(validated) /\ Len(validated) \in Nat
    BY <2>1
  <2>3. validated = <<>> <=> Len(validated) = 0
    BY <2>1, EmptySeq
  <2> QED
    BY <2>2, <2>3
<1>7. /\ \A k \in 1 .. next - 1 : anchors[k].id # None => anchors[k].id \in seenIds
      /\ \A id \in seenIds : \E k \in 1 .. next - 1 : anchors[k].id = id /\ id # None
  BY <1>1
<1>8. \A k \in 1 .. next - 1 : anchors[k].tls => anchors[k].der \in seenHashes
  BY <1>2, <1>3, <1>5
<1>9. \A der \in seenHashes : \E k \in 1 .. next - 1 : anchors[k].tls /\ anchors[k].der = der
  BY <1>2, <1>4, <1>5
<1>10. validated # <<>> <=> \E k \in 1 .. next - 1 : anchors[k].tls
  BY <1>3, <1>4, <1>6
<1> QED
  BY <1>7, <1>8, <1>9, <1>10

LEMMA InitAccepted == Init => Accepted
<1> SUFFICES ASSUME Init PROVE Accepted
  OBVIOUS
<1>1. next = 1 /\ 1 .. next - 1 = {} /\ seenIds = {} /\ phase = "parse"
  BY DEF Init
<1> QED
  BY <1>1 DEF Accepted, Loaded

LEMMA NextAccepted ==
  ASSUME IInv, Ordered, Accepted, [Next]_vars
  PROVE  Accepted'
<1> DEFINE N == Len(store.roots) + Len(store.additional)
<1>1. /\ TypeOK /\ Selected /\ store \in Store /\ anchors \in Seq(Anchor)
      /\ next \in Nat \ {0} /\ Len(anchors) \in Nat /\ next \in 1 .. Len(anchors) + 1
  BY DEF IInv, TypeOK, Selected
<1>2. Loaded => /\ Parses(store) /\ anchors = ParsedAnchors(store) /\ Len(anchors) = N
                /\ (StoreSound(store) <=>
                      /\ Judged(anchors, N)
                      /\ \E k \in 1 .. N : anchors[k].tls
                      /\ FitsVector(IdsOf(TlsMessages(store))))
  BY <1>1, SoundIff, ParsedLength DEF Ordered
<1> HIDE DEF N
<1>3. CASE Parse
  <2>1. /\ phase' = "validate" /\ next' = next /\ seenIds' = seenIds /\ phase = "parse"
    BY <1>3 DEF Parse
  <2>2. next = 1 /\ 1 .. next - 1 = {}
    BY <1>1, <2>1 DEF Selected
  <2>3. seenIds = {}
    BY <2>2 DEF Accepted
  <2>4. Judged(anchors', next' - 1)
    BY <2>1, <2>2 DEF Judged
  <2>5. Judged(anchors, next - 1)'
    BY <2>1, <2>2 DEF Judged
  <2> QED
    BY <2>1, <2>2, <2>3, <2>5 DEF Accepted
<1>4. CASE ParseFails
  <2>1. ~StoreSound(store)
    BY <1>1, <1>4, SoundParses DEF ParseFails
  <2>2. phase' = "rejected" /\ UNCHANGED <<store, anchors, next, seenIds>>
    BY <1>4 DEF ParseFails, Reject
  <2> QED
    BY <2>1, <2>2 DEF Accepted, Loaded, StoreSound
<1>5. CASE ValidateAnchor
  <2> DEFINE a == anchors[next]
  <2>1. /\ phase = "validate" /\ phase' = phase /\ next' = next + 1 /\ next \in 1 .. Len(anchors)
        /\ UNCHANGED <<store, anchors>> /\ seenIds' = seenIds \cup SeenId(a)
        /\ CertificateValid(a) /\ IdAccepted(a) /\ HashNew(a)
    BY <1>1, <1>5 DEF ValidateAnchor
  <2>2. Judged(anchors, next - 1) /\ a \in Anchor
    BY <1>1, <2>1 DEF Accepted, Loaded
  <2>3. next' - 1 = next /\ 1 .. next = (1 .. next - 1) \cup {next}
    BY <1>1, <2>1
  <2>4. ASSUME NEW k \in 1 .. next - 1
        PROVE  /\ anchors[k].id = None \/ anchors[k].id # a.id
               /\ anchors[k].tls /\ a.tls => anchors[k].der # a.der
    <3>1. anchors[k].id # None => anchors[k].id \in seenIds
      BY SeenSofar
    <3>2. anchors[k].tls => anchors[k].der \in seenHashes
      BY SeenSofar
    <3> QED
      BY <2>1, <3>1, <3>2 DEF IdAccepted, IdNew, HashNew
  <2>5. Judged(anchors, next)
    <3>1. \A k \in 1 .. next :
             CertificateValid(anchors[k]) /\ anchors[k].id \in ValidIds \cup {None}
      BY <2>1, <2>2, <2>3 DEF Judged, IdAccepted
    <3>2. ASSUME NEW j \in 1 .. next, NEW k \in 1 .. next, j # k
          PROVE  /\ anchors[j].id = None \/ anchors[j].id # anchors[k].id
                 /\ anchors[j].tls /\ anchors[k].tls => anchors[j].der # anchors[k].der
      <4>1. CASE j \in 1 .. next - 1 /\ k \in 1 .. next - 1
        BY <2>2, <3>2, <4>1 DEF Judged
      <4>2. CASE j \in 1 .. next - 1 /\ k = next
        BY <2>4, <4>2
      <4>3. CASE j = next /\ k \in 1 .. next - 1
        BY <2>4, <4>3
      <4> QED
        BY <2>3, <3>2, <4>1, <4>2, <4>3
    <3> QED
      BY <3>1, <3>2 DEF Judged
  <2>6. Judged(anchors, next - 1)'
    BY <2>1, <2>3, <2>5 DEF Judged, CertificateValid
  <2>7. seenIds' = {anchors[k].id : k \in 1 .. next} \ {None}
    <3>1. {anchors[k].id : k \in 1 .. next} = {anchors[k].id : k \in 1 .. next - 1} \cup {a.id}
      BY <2>3
    <3>2. seenIds = {anchors[k].id : k \in 1 .. next - 1} \ {None}
      BY DEF Accepted
    <3> QED
      BY <2>1, <3>1, <3>2 DEF SeenId
  <2>8. (seenIds = {anchors[k].id : k \in 1 .. next - 1} \ {None})'
    BY <2>1, <2>3, <2>7
  <2> QED
    BY <2>1, <2>6, <2>8 DEF Accepted
<1>6. CASE AnchorInvalid
  <2> DEFINE a == anchors[next]
  <2>1. /\ phase = "validate" /\ phase' = "rejected" /\ UNCHANGED <<store, anchors, next, seenIds>>
        /\ next \in 1 .. Len(anchors) /\ ~(CertificateValid(a) /\ IdAccepted(a) /\ HashNew(a))
    BY <1>1, <1>6 DEF AnchorInvalid, Reject
  <2>2. ASSUME StoreSound(store)
        PROVE  FALSE
    <3>1. Judged(anchors, N) /\ Len(anchors) = N
      BY <1>2, <2>1, <2>2 DEF Loaded
    <3>2. next \in 1 .. N /\ \A k \in 1 .. next - 1 : k \in 1 .. N /\ k # next
      BY <1>1, <2>1, <3>1
    <3>3. CertificateValid(a) /\ a.id \in ValidIds \cup {None}
      BY <3>1, <3>2 DEF Judged
    <3>4. \A k \in 1 .. next - 1 :
             /\ anchors[k].id = None \/ anchors[k].id # a.id
             /\ anchors[k].tls /\ a.tls => anchors[k].der # a.der
      BY <3>1, <3>2 DEF Judged
    <3>5. a.id # None => a.id \notin seenIds
      BY <3>4, SeenSofar
    <3>6. a.tls => a.der \notin seenHashes
      BY <3>4, SeenSofar
    <3> QED
      BY <2>1, <3>3, <3>5, <3>6 DEF IdAccepted, IdNew, HashNew
  <2> QED
    BY <2>1, <2>2 DEF Accepted, Loaded, StoreSound
<1>7. CASE AnchorsValidated
  <2>1. /\ phase = "validate" /\ next = Len(anchors) + 1
        /\ UNCHANGED <<store, anchors, next, seenIds, validated>>
        /\ phase' = IF validated # <<>> THEN "limit" ELSE "rejected"
    BY <1>1, <1>7 DEF AnchorsValidated, Reject
  <2>2. Judged(anchors, next - 1)'
    BY <2>1 DEF Accepted, Loaded, Judged, CertificateValid
  <2>3. validated = <<>> => ~StoreSound(store)
    <3>1. next - 1 = N
      BY <1>1, <1>2, <2>1 DEF Loaded
    <3>2. validated = <<>> => ~\E k \in 1 .. N : anchors[k].tls
      BY <3>1, SeenSofar
    <3> QED
      BY <1>2, <2>1, <3>2 DEF Loaded
  <2>4. StoreSound(store)' <=> StoreSound(store)
    BY <2>1 DEF StoreSound
  <2> QED
    BY <2>1, <2>2, <2>3, <2>4 DEF Accepted
<1>8. CASE CheckLimit
  <2>1. /\ phase = "limit" /\ UNCHANGED <<store, anchors, next, seenIds, validated, ids>>
        /\ phase' = IF FitsVector(ids) THEN "published" ELSE "rejected"
    BY <1>8 DEF CheckLimit, Reject
  <2>2. Judged(anchors, next - 1)'
    BY <2>1 DEF Accepted, Loaded, Judged, CertificateValid
  <2>3. next = Len(anchors) + 1 /\ Loaded
    BY <1>1, <2>1 DEF Selected, Loaded
  <2>4. ~FitsVector(ids) => ~StoreSound(store)
    BY <1>2, <2>3, CheckedIds
  <2>5. (StoreSound(store)' <=> StoreSound(store)) /\ (FitsVector(ids)' <=> FitsVector(ids))
    BY <2>1 DEF StoreSound, FitsVector
  <2> QED
    BY <2>1, <2>2, <2>4, <2>5 DEF Accepted
<1>9. CASE UNCHANGED vars
  <2>1. Judged(anchors, next - 1)' <=> Judged(anchors, next - 1)
    BY <1>9 DEF vars, Judged, CertificateValid
  <2>2. (StoreSound(store)' <=> StoreSound(store)) /\ (FitsVector(ids)' <=> FitsVector(ids))
    BY <1>9 DEF vars, StoreSound, FitsVector
  <2> QED
    BY <1>9, <2>1, <2>2 DEF vars, Accepted, Loaded
<1> QED
  BY <1>3, <1>4, <1>5, <1>6, <1>7, <1>8, <1>9 DEF Next

LEMMA SoundnessFollows ==
  ASSUME IInv, Ordered, Accepted
  PROVE  PublishedIffSound
<1>1. CASE phase = "published"
  <2>1. /\ Loaded /\ next = Len(anchors) + 1 /\ store \in Store
        /\ Judged(anchors, next - 1) /\ validated # <<>> /\ FitsVector(ids)
    BY <1>1 DEF Accepted, Loaded, IInv, Selected, TypeOK
  <2>2. anchors = ParsedAnchors(store) /\ Parses(store)
    BY <2>1 DEF Ordered
  <2>3. next - 1 = Len(store.roots) + Len(store.additional)
    <3>1. Len(anchors) = Len(store.roots) + Len(store.additional)
      BY <2>1, <2>2, ParsedLength
    <3>2. Len(anchors) \in Nat
      BY DEF IInv, TypeOK
    <3> QED
      BY <2>1, <3>1, <3>2
  <2>4. \E k \in 1 .. next - 1 : anchors[k].tls
    BY <2>1, SeenSofar
  <2>5. FitsVector(IdsOf(TlsMessages(store)))
    BY <2>1, CheckedIds
  <2>6. StoreSound(store)
    BY <2>1, <2>2, <2>3, <2>4, <2>5, SoundIff
  <2> QED
    BY <1>1, <2>6 DEF PublishedIffSound
<1>2. CASE phase = "rejected"
  BY <1>2 DEF Accepted, PublishedIffSound
<1>3. CASE phase \notin {"published", "rejected"}
  BY <1>3 DEF PublishedIffSound
<1> QED
  BY <1>1, <1>2, <1>3

(* A message of any length is published exactly when all of it is sound: no   *)
(* fault in an entry that is not published slips through, and no sound        *)
(* message is refused (protobuf.rs:162-260, generator.rs:54-135).             *)
THEOREM PublicationSound == Spec => []PublishedIffSound
<1>1. Init => IInv
  BY InitType, InitSelected DEF IInv
<1> QED
  BY <1>1, InitOrdered, InitAccepted, NextSelected, NextOrdered, NextAccepted,
     SoundnessFollows, PTL DEF Spec

-----------------------------------------------------------------------------
(* The TLS client *)

(* The certificates added to the store are those of anchors without flags,    *)
(* and verification runs with the parameters of the connection.               *)
ClientInv ==
  /\ tls_anchors \in AnchorLists
  /\ tls_phase \in {"build", "handshake", "callback", "verify", "connected", "refused",
                    "reported", "error"}
  /\ tls_next \in 1 .. Len(tls_anchors) + 1
  /\ tls_store = {tls_anchors[i].der :
                    i \in {k \in 1 .. tls_next - 1 : ~Client!Flagged(tls_anchors[k])}}
  /\ constrained = {tls_anchors[i].der :
                      i \in {k \in 1 .. tls_next - 1 : Client!Flagged(tls_anchors[k])}}
  /\ parameters \in BOOLEAN
  /\ tls_phase \in {"verify", "connected"} => parameters
  /\ tls_phase = "connected" => Client!Reachable

LEMMA ClientInit == Client!Init => ClientInv
<1> SUFFICES ASSUME Client!Init PROVE ClientInv
  OBVIOUS
<1>1. tls_anchors \in AnchorLists /\ Len(tls_anchors) \in Nat
  BY PublishedAssumption DEF Client!Init
<1>2. 1 .. tls_next - 1 = {}
  BY DEF Client!Init
<1>3. /\ {tls_anchors[i].der :
             i \in {k \in 1 .. tls_next - 1 : ~Client!Flagged(tls_anchors[k])}} = {}
      /\ {tls_anchors[i].der :
             i \in {k \in 1 .. tls_next - 1 : Client!Flagged(tls_anchors[k])}} = {}
  BY <1>2
<1>4. tls_next \in 1 .. Len(tls_anchors) + 1
  BY <1>1 DEF Client!Init
<1>5. /\ tls_store = {} /\ constrained = {} /\ parameters = FALSE /\ tls_phase = "build"
  BY DEF Client!Init
<1> QED
  BY <1>1, <1>3, <1>4, <1>5 DEF ClientInv

(* A step that looks at one more anchor of the list. *)
LEMMA AnchorPlaced ==
  ASSUME ClientInv, Client!Building, tls_next' = tls_next + 1,
         UNCHANGED <<tls_anchors, parameters, tls_phase>>,
         tls_store' = IF Client!Flagged(Client!Anchor) THEN tls_store
                      ELSE tls_store \cup {Client!Anchor.der},
         constrained' = IF Client!Flagged(Client!Anchor) THEN constrained \cup {Client!Anchor.der}
                        ELSE constrained
  PROVE  ClientInv'
<1>1. Len(tls_anchors) \in Nat /\ tls_next \in 1 .. Len(tls_anchors) /\ tls_phase = "build"
  BY PublishedAssumption DEF ClientInv, Client!Building
<1>2. 1 .. tls_next' - 1 = (1 .. tls_next - 1) \cup {tls_next}
  BY <1>1
<1>3. tls_next' \in 1 .. Len(tls_anchors) + 1
  BY <1>1
<1>4. \A a : Client!Flagged(a)' <=> Client!Flagged(a)
  BY DEF Client!Flagged
<1> DEFINE Seen(i) == {k \in 1 .. i - 1 : Client!Flagged(tls_anchors[k])}
           Plainly(i) == {k \in 1 .. i - 1 : ~Client!Flagged(tls_anchors[k])}
<1>5. CASE Client!Flagged(tls_anchors[tls_next])
  <2>1. Seen(tls_next') = Seen(tls_next) \cup {tls_next} /\ Plainly(tls_next') = Plainly(tls_next)
    BY <1>1, <1>2, <1>5
  <2> QED
    BY <1>1, <1>3, <1>5, <2>1 DEF ClientInv, Client!Anchor
<1>6. CASE ~Client!Flagged(tls_anchors[tls_next])
  <2>1. Plainly(tls_next') = Plainly(tls_next) \cup {tls_next} /\ Seen(tls_next') = Seen(tls_next)
    BY <1>1, <1>2, <1>6
  <2> QED
    BY <1>1, <1>3, <1>6, <2>1 DEF ClientInv, Client!Anchor
<1> QED
  BY <1>5, <1>6

LEMMA ClientStep ==
  ASSUME ClientInv, [Client!Next]_(Client!vars)
  PROVE  ClientInv'
<1>1. CASE Client!AddCert
  BY <1>1, AnchorPlaced DEF Client!AddCert
<1>2. CASE Client!PushConstrained
  BY <1>2, AnchorPlaced DEF Client!PushConstrained
<1>3. CASE \/ Client!CannotRepresent \/ Client!CertificateRejected \/ Client!Connect
           \/ Client!CopyFails \/ Client!Report
  BY <1>3 DEF ClientInv, Client!CannotRepresent, Client!CertificateRejected, Client!Building,
              Client!Connect, Client!CopyFails, Client!Report
<1>4. ASSUME NEW l \in Leaves, NEW p \in Intermediates, Client!ServerCertificate(l, p)
      PROVE  ClientInv'
  BY <1>4 DEF ClientInv, Client!ServerCertificate
<1>5. CASE Client!CopyParameters
  BY <1>5 DEF ClientInv, Client!CopyParameters
<1>6. CASE Client!VerifyCert
  <2>1. Client!Reachable' <=> Client!Reachable
    BY <1>6 DEF Client!VerifyCert, Client!Reachable, Client!Chains, Client!Accepts,
                Client!Untrusted
  <2> QED
    BY <1>6, <2>1 DEF ClientInv, Client!VerifyCert
<1>7. CASE UNCHANGED Client!vars
  <2>1. UNCHANGED <<tls_anchors, tls_next, tls_store, constrained, tls_leaf, peer, parameters,
                    tls_phase>>
    BY <1>7 DEF Client!vars
  <2>2. Client!Reachable' <=> Client!Reachable
    BY <2>1 DEF Client!Reachable, Client!Chains, Client!Accepts, Client!Untrusted
  <2> QED
    BY <2>1, <2>2 DEF ClientInv
<1>8. CASE Client!Next
  BY <1>1, <1>2, <1>3, <1>4, <1>5, <1>6, <1>8 DEF Client!Next
<1> QED
  BY <1>7, <1>8

(* More certificates to choose from only add chains. *)
LEMMA MoreChains ==
  ASSUME NEW few, NEW many, few \subseteq many
  PROVE  Client!Chains(few) \subseteq Client!Chains(many)
<1>1. ASSUME NEW n \in 2 .. 4, NEW c \in [1 .. n -> few \cup {tls_leaf}]
      PROVE  c \in [1 .. n -> many \cup {tls_leaf}]
  BY <1>1
<1> QED
  BY <1>1 DEF Client!Chains

(* A chain the legacy verifier accepts is one for Chromium's anchors.         *)
LEMMA AcceptedIsAnchored ==
  ASSUME ClientInv, parameters, Client!Reachable
  PROVE  Client!ChromiumAccepts
<1> DEFINE ders == {tls_anchors[i].der : i \in DOMAIN tls_anchors}
<1>1. Len(tls_anchors) \in Nat /\ DOMAIN tls_anchors = 1 .. Len(tls_anchors)
  BY PublishedAssumption DEF ClientInv
<1>2. 1 .. tls_next - 1 \subseteq DOMAIN tls_anchors
  BY <1>1 DEF ClientInv
<1>3. tls_store \subseteq ders /\ constrained \subseteq ders
  BY <1>2 DEF ClientInv
<1>4. Client!Untrusted \cup tls_store \subseteq peer \cup ders
  BY <1>3 DEF Client!Untrusted
<1>5. PICK chain \in Client!Chains(Client!Untrusted \cup tls_store) : Client!Accepts(chain)
  BY DEF Client!Reachable
<1>6. chain \in Client!Chains(peer \cup ders)
  BY <1>4, <1>5, MoreChains
<1>7. Client!Anchored(chain)
  <2>1. PICK i \in {k \in 1 .. tls_next - 1 : ~Client!Flagged(tls_anchors[k])} :
               chain[Len(chain)] = tls_anchors[i].der
    BY <1>5 DEF Client!Accepts, ClientInv
  <2> QED
    BY <1>2, <1>5, <2>1 DEF Client!Anchored, Client!Accepts, Client!Flagged
<1> QED
  BY <1>5, <1>6, <1>7 DEF Client!ChromiumAccepts, Client!Accepts

-----------------------------------------------------------------------------
(* Both *)

(* Every behaviour of the composition is, in its variables, one of the        *)
(* selection (protobuf.rs, generator.rs).                                     *)
THEOREM SelectionProjection == AnchorsSpec => Spec
<1>1. AnchorsInit => Init
  BY DEF AnchorsInit
<1>2. [Select \/ UseAnchors]_<<part, vars, client>> => [Next]_vars
  BY DEF Select, UseAnchors
<1> QED
  BY <1>1, <1>2, PTL DEF AnchorsSpec, Spec

(* And one of the client (examples/btls.rs).                                  *)
THEOREM ClientProjection == AnchorsSpec => Client!Spec
<1>1. AnchorsInit => Client!Init
  BY DEF AnchorsInit
<1>2. [Select \/ UseAnchors]_<<part, vars, client>> => [Client!Next]_(Client!vars)
  BY DEF Select, UseAnchors, client, Client!vars
<1> QED
  BY <1>1, <1>2, PTL DEF AnchorsSpec, Client!Spec

LEMMA ClientAlways == AnchorsSpec => []ClientInv
BY ClientProjection, ClientInit, ClientStep, PTL DEF Client!Spec

(* examples/btls.rs: for any published list and any server, a connection is   *)
(* made only to the host and over a chain that Chromium's anchors accept.     *)
THEOREM ConnectionsAreChromiums == AnchorsSpec => []ConnectedOnlyIfChromiumAccepts
<1>1. ClientInv => ConnectedOnlyIfChromiumAccepts
  BY AcceptedIsAnchored
  DEF ClientInv, ConnectedOnlyIfChromiumAccepts, Client!ConnectedOnlyIfChromiumAccepts
<1> QED
  BY <1>1, ClientAlways, PTL

LEMMA ClientTypes == ClientInv => Client!TypeOK
<1> SUFFICES ASSUME ClientInv PROVE Client!TypeOK
  OBVIOUS
<1>1. /\ Len(tls_anchors) \in Nat /\ DOMAIN tls_anchors = 1 .. Len(tls_anchors)
      /\ \A i, k \in DOMAIN tls_anchors : tls_anchors[i].der = tls_anchors[k].der => i = k
  BY PublishedAssumption DEF ClientInv
<1>2. 1 .. tls_next - 1 \subseteq DOMAIN tls_anchors
  BY <1>1 DEF ClientInv
<1>3. tls_store \cap constrained = {}
  BY <1>1, <1>2 DEF ClientInv
<1>4. tls_store \cup constrained = {tls_anchors[i].der : i \in 1 .. tls_next - 1}
  BY DEF ClientInv
<1> QED
  BY <1>3, <1>4 DEF ClientInv, Client!TypeOK

(* Types of both: every anchor the client has looked at is trusted directly   *)
(* or offered as an intermediate, never both.                                 *)
THEOREM AnchorTypes == AnchorsSpec => []TypesOK
<1>1. TypeOK /\ ClientInv => TypesOK
  BY ClientTypes DEF TypesOK
<1> QED
  BY <1>1, SelectionProjection, TypeCorrect, ClientAlways, PTL
=============================================================================
