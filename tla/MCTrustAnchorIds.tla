--------------------------- MODULE MCTrustAnchorIds ---------------------------
(******************************************************************************)
(* The two computations between the signed data and the constants of the      *)
(* compiled chromium-roots: the passes of TrustAnchorIds over the IDs, and    *)
(* the number literals of ConstraintLiterals.  They share no state: a         *)
(* behaviour is of one of them, and the other stays where it starts.          *)
(*                                                                            *)
(* Columns of up to three anchors, bytes below 4, IDs of up to three bytes:   *)
(* no ID, the invalid empty and four-byte IDs, and IDs whose bytes look       *)
(* like length prefixes.  Eight bytes of vector hold two long IDs exactly.    *)
(*                                                                            *)
(* Constraint sets with numbers of nine bits in base 2: all values in one     *)
(* field, and the values around the boundaries in every pair of fields.       *)
(******************************************************************************)
EXTENDS TrustAnchorIds

CONSTANTS
  Messages, Radix, Group, Width  \* of ConstraintLiterals

VARIABLES
  part,  \* "ids" or "literals"
  message, constraint, digits, digit_index, next_separator, literal, tokens, phase

Literals == INSTANCE ConstraintLiterals WITH Base <- Radix, index <- digit_index

(* An optional number is at most one number of its type; the code has Radix   *)
(* 10, Group 3 and Width 64.                                                  *)
ASSUME LiteralsAssumption ==
  /\ Radix \in Nat \ {0, 1} /\ Group \in Nat \ {0} /\ Width \in Nat \ {0}
  /\ \A m \in Messages :
       /\ m = [f \in Literals!Field |-> m[f]]
       /\ \A f \in Literals!NumberField : m[f] = {} \/ \E v \in Literals!Number(f) : m[f] = {v}

literals == <<message, constraint, digits, digit_index, next_separator, literal, tokens, phase>>

MCIds == {<<>>, <<1>>, <<2>>, <<0, 1>>, <<3, 1, 2>>, <<1, 1, 1, 1>>}
MCLists == UNION {[1 .. n -> MCIds \cup {None}] : n \in 0 .. 3}

(* The fields of a constraint set, and the numbers of nine bits.              *)
SignedFields == {"sct_not_after_sec", "sct_all_after_sec",
                 "validity_starts_not_after_sec", "validity_starts_after_sec"}
UnsignedFields == {"index_not_after", "index_after"}
TextFields == {"min_version", "max_version_exclusive", "permitted_dns_names"}
Numbers(f) == IF f \in SignedFields THEN -256 .. 255 ELSE 0 .. 511
Edges(f) == Numbers(f) \cap {0, 1, -1, 5, 255, -256, 511}

Unconstrained ==
  [f \in SignedFields \cup UnsignedFields \cup TextFields |->
     IF f = "permitted_dns_names" THEN <<>> ELSE {}]

MCMessages ==
  LET fields == SignedFields \cup UnsignedFields
  IN {Unconstrained} \cup
     UNION {{[Unconstrained EXCEPT ![f] = {v}] : v \in Numbers(f)} : f \in fields} \cup
     UNION {{[Unconstrained EXCEPT ![f] = {v}, ![g] = {w}, !["min_version"] = {"a"},
                                   !["permitted_dns_names"] = <<"b", "c">>] :
               v \in Edges(f), w \in Edges(g)} : f, g \in fields}

ConstantsInit ==
  \/ part = "ids" /\ Literals!Init /\ message = Unconstrained /\ Init
  \/ part = "literals" /\ Init /\ anchors = <<>> /\ Literals!Init

EvaluateIds == part = "ids" /\ Next /\ UNCHANGED <<part, literals>>
WriteLiterals == part = "literals" /\ Literals!Next /\ UNCHANGED <<part, vars>>

ConstantsSpec == ConstantsInit /\ [][EvaluateIds \/ WriteLiterals]_<<part, vars, literals>>

(* The types of both computations.                                            *)
TypesOK == TypeOK /\ Literals!TypeOK

(* The property of ConstraintLiterals (protobuf.rs:262-275,                   *)
(* codegen.rs:147-243).                                                       *)
PublishedAsSigned == Literals!PublishedAsSigned
=============================================================================
