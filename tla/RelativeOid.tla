----------------------------- MODULE RelativeOid -----------------------------
(******************************************************************************)
(* validate_trust_anchor_id: the loop that decides whether a byte string is   *)
(* the content of a DER relative object identifier, one byte per step.        *)
(*                                                                            *)
(* A byte is a number below 2 * Base; those from Base up carry the            *)
(* continuation bit, and Base itself (0x80) is a zero group that continues.   *)
(* In the code Base is 128 and MaxIdBytes 255.                                *)
(******************************************************************************)
EXTENDS Integers, Sequences

CONSTANTS
  Base,         \* the values of one base-128 group
  MaxIdBytes,   \* longest identifier
  Inputs        \* the byte strings validated

Bytes == 0 .. 2 * Base - 1

ASSUME OidAssumption ==
  /\ Base \in Nat /\ Base > 1
  /\ MaxIdBytes \in Nat
  /\ Inputs \subseteq Seq(Bytes)

VARIABLES
  id,              \* the argument
  index,           \* the byte the loop looks at next
  componentStart,  \* is it the first byte of a component?
  verdict          \* "open" until the function returns

vars == <<id, index, componentStart, verdict>>

-----------------------------------------------------------------------------
(* for (index, byte) in id.iter().copied().enumerate() *)
SkipOne(k) == k + 2
After(k) == k + 1

(* byte & 0x80 *)
Continues(byte) == byte >= Base

LengthValid(s) == s # <<>> /\ Len(s) <= MaxIdBytes

ZeroGroupAnywhere(byte) == byte = Base
RedundantGroup(byte) == componentStart /\ byte = Base

LastContinuesUnseen(byte) == FALSE
EndsInside(byte) == index = Len(id) /\ Continues(byte)

-----------------------------------------------------------------------------
Init ==
  /\ id \in Inputs
  /\ index = 1
  /\ componentStart = TRUE
  /\ verdict = IF LengthValid(id) THEN "open" ELSE "rejected"

Accept(byte) ==
  /\ ~RedundantGroup(byte)
  /\ ~EndsInside(byte)
  /\ index' = After(index)
  /\ componentStart' = ~Continues(byte)
  /\ UNCHANGED <<id, verdict>>

Refuse(byte) ==
  /\ RedundantGroup(byte) \/ EndsInside(byte)
  /\ verdict' = "rejected"
  /\ UNCHANGED <<id, index, componentStart>>

NextByte ==
  /\ verdict = "open"
  /\ index <= Len(id)
  /\ Accept(id[index]) \/ Refuse(id[index])

Return ==
  /\ verdict = "open"
  /\ index > Len(id)
  /\ verdict' = "accepted"
  /\ UNCHANGED <<id, index, componentStart>>

Next == NextByte \/ Return

Spec == Init /\ [][Next]_vars

-----------------------------------------------------------------------------
(* The encoding the function is about: a component is written in base Base,   *)
(* most significant group first, without leading zero groups, and every group *)
(* but its last carries the continuation bit.                                 *)

GroupsOf[n \in Nat] ==
  IF n < Base THEN <<n>> ELSE GroupsOf[n \div Base] \o <<n % Base>>

EncodedComponent(n) ==
  LET groups == GroupsOf[n]
  IN [k \in DOMAIN groups |-> IF k = Len(groups) THEN groups[k] ELSE groups[k] + Base]

Encoded(components) ==
  LET upTo[k \in 0 .. Len(components)] ==
        IF k = 0 THEN <<>> ELSE upTo[k - 1] \o EncodedComponent(components[k])
  IN upTo[Len(components)]

(* Reading a byte string back, with no regard for minimality: the components  *)
(* finished so far and the value of the unfinished one.                       *)
Decoded(s) ==
  LET upTo[k \in 0 .. Len(s)] ==
        IF k = 0 THEN [done |-> <<>>, partial |-> 0, open |-> FALSE]
        ELSE LET was   == upTo[k - 1]
                 value == was.partial * Base + (s[k] % Base)
             IN IF Continues(s[k])
                THEN [was EXCEPT !.partial = value, !.open = TRUE]
                ELSE [done |-> Append(was.done, value), partial |-> 0, open |-> FALSE]
  IN upTo[Len(s)]

(* What the loop establishes, byte by byte. *)
Minimal(s) ==
  /\ LengthValid(s)
  /\ ~Continues(s[Len(s)])
  /\ \A k \in 1 .. Len(s) : s[k] = Base => k > 1 /\ Continues(s[k - 1])

-----------------------------------------------------------------------------
(* Properties *)

TypeOK ==
  /\ id \in Seq(Bytes)
  /\ index \in 1 .. Len(id) + 1
  /\ componentStart \in BOOLEAN
  /\ verdict \in {"open", "accepted", "rejected"}

(* A byte string is accepted exactly when it ends a component and has a zero  *)
(* group only inside a component, and its length fits the one-byte prefix of  *)
(* the TLS vector (certificates.rs:53-75).                                    *)
AcceptedIffMinimal ==
  /\ verdict = "accepted" => Minimal(id)
  /\ verdict = "rejected" => ~Minimal(id)

(* Acceptance by bytes is acceptance by meaning: an accepted string is the    *)
(* encoding of the components it decodes to, so no two accepted strings mean  *)
(* the same identifier and comparing bytes compares identifiers, which is     *)
(* what the duplicate check (generator.rs:98-104) and the TLS peer rely on;   *)
(* and no encoding short enough is rejected.                                  *)
AcceptedIffEncoding ==
  LET read == Decoded(id)
      canonical == ~read.open /\ read.done # <<>> /\ Encoded(read.done) = id
  IN /\ verdict = "accepted" => canonical
     /\ verdict = "rejected" => ~canonical \/ Len(id) > MaxIdBytes
=============================================================================
