-------------------------- MODULE ConstraintLiterals --------------------------
(******************************************************************************)
(* A constraint set on its way from the signed payload into Rust source and   *)
(* back: convert_constraint of protobuf.rs, constraint_tokens of codegen.rs   *)
(* with its loop over the digits of each number, and the compiler, which      *)
(* reads the tokens of generated.rs.                                          *)
(*                                                                            *)
(* An optional value is the set of at most one value.  Numbers have Base      *)
(* digits instead of ten and Width bits instead of 64; a string is a value.   *)
(******************************************************************************)
EXTENDS Integers, Sequences

CONSTANTS
  Base, Group,  \* digits are written in groups of Group (3)
  Width,
  Messages      \* the constraint sets considered

SignedField == {"sct_not_after_sec", "sct_all_after_sec",
                "validity_starts_not_after_sec", "validity_starts_after_sec"}
UnsignedField == {"index_not_after", "index_after"}
TextField == {"min_version", "max_version_exclusive", "permitted_dns_names"}
NumberField == SignedField \cup UnsignedField
Field == NumberField \cup TextField

MaxSigned == 2 ^ (Width - 1) - 1
Number(f) == IF f \in SignedField THEN (-MaxSigned - 1) .. MaxSigned ELSE 0 .. 2 ^ Width - 1

VARIABLES
  message,         \* ConstraintSetMessage
  constraint,      \* ConstraintSet
  digits,          \* the digits of the number being written
  index,           \* how many of them are written
  next_separator,  \* where the next separator goes
  literal,         \* what is written of the literal
  tokens,          \* the fields of RootConstraint written so far
  phase

vars == <<message, constraint, digits, index, next_separator, literal, tokens, phase>>

-----------------------------------------------------------------------------
(* The order of the fields in RootConstraint { .. }. *)
FieldOrder ==
  <<"sct_not_after_sec", "sct_all_after_sec", "min_version", "max_version_exclusive",
    "permitted_dns_names", "index_not_after", "index_after",
    "validity_starts_not_after_sec", "validity_starts_after_sec">>

SwappedIndexes(m) ==
  [m EXCEPT !["index_after"] = m["index_not_after"], !["index_not_after"] = m["index_after"]]
ConvertConstraint(m) == [f \in Field |-> m[f]]

(* What stands behind each field of RootConstraint { .. }: the bindings of    *)
(* constraint_tokens, nine copies by name again.                              *)
Bindings(c) == [f \in Field |-> c[f]]

(* i128::from(value).unsigned_abs() *)
SaturatingAbs(v) == IF v >= 0 THEN v ELSE IF -v > MaxSigned THEN MaxSigned ELSE -v
UnsignedAbs(v) == IF v < 0 THEN -v ELSE v

(* u128::to_string *)
Numeral(n) ==
  LET numeral[k \in 0 .. n] ==
        IF k < Base THEN <<k>> ELSE Append(numeral[k \div Base], k % Base)
  IN numeral[n]

Separator == -1
RemainderOnly(length) == length % Group
FirstSeparator(length) == IF length % Group = 0 THEN Group ELSE length % Group

-----------------------------------------------------------------------------
Init ==
  /\ message \in Messages
  /\ constraint = <<>>
  /\ digits = <<>>
  /\ index = 0
  /\ next_separator = 0
  /\ literal = <<>>
  /\ tokens = <<>>
  /\ phase = "convert"

Convert ==
  /\ phase = "convert"
  /\ constraint' = ConvertConstraint(message)
  /\ phase' = "field"
  /\ UNCHANGED <<message, digits, index, next_separator, literal, tokens>>

Current == FieldOrder[Len(tokens) + 1]

Write(expression) ==
  /\ tokens' = Append(tokens, [field |-> Current, value |-> expression])
  /\ phase' = IF Len(tokens) + 1 = Len(FieldOrder) THEN "compile" ELSE "field"

(* quote!(None), or the strings as they are. *)
WriteText ==
  /\ phase = "field"
  /\ Current \in NumberField => Bindings(constraint)[Current] = {}
  /\ Write(Bindings(constraint)[Current])
  /\ UNCHANGED <<message, constraint, digits, index, next_separator, literal>>

(* integer_literal begins. *)
StartLiteral ==
  /\ phase = "field"
  /\ Current \in NumberField
  /\ \E v \in Bindings(constraint)[Current] : digits' = Numeral(UnsignedAbs(v))
  /\ index' = 0
  /\ next_separator' = FirstSeparator(Len(digits'))
  /\ literal' = <<>>
  /\ phase' = "digits"
  /\ UNCHANGED <<message, constraint, tokens>>

PushDigit ==
  /\ phase = "digits"
  /\ index < Len(digits)
  /\ literal' = literal \o (IF index = next_separator THEN <<Separator>> ELSE <<>>)
                        \o <<digits[index + 1]>>
  /\ next_separator' = IF index = next_separator THEN next_separator + Group ELSE next_separator
  /\ index' = index + 1
  /\ UNCHANGED <<message, constraint, digits, tokens, phase>>

(* The suffix is the type of the field; a negative number gets its sign.      *)
FinishLiteral ==
  /\ phase = "digits"
  /\ index = Len(digits)
  /\ \E v \in Bindings(constraint)[Current] :
       Write({[negative |-> v < 0, literal |-> Append(literal, Separator)]})
  /\ UNCHANGED <<message, constraint, digits, index, next_separator, literal>>

-----------------------------------------------------------------------------
(* rustc: separators do not count, a literal outside its type is an error     *)
(* (of a negated one the magnitude may be one larger).                        *)
Magnitude(text) ==
  LET upTo[k \in 0 .. Len(text)] ==
        IF k = 0 THEN 0
        ELSE IF text[k] = Separator THEN upTo[k - 1] ELSE upTo[k - 1] * Base + text[k]
  IN upTo[Len(text)]

Value(number) == IF number.negative THEN -Magnitude(number.literal) ELSE Magnitude(number.literal)

Accepts(token) ==
  token.field \in NumberField =>
    \A number \in token.value :
      Head(number.literal) # Separator /\ Value(number) \in Number(token.field)

Compiled ==
  [f \in Field |->
     LET written == CHOOSE i \in DOMAIN tokens : tokens[i].field = f
     IN IF f \in NumberField THEN {Value(number) : number \in tokens[written].value}
        ELSE tokens[written].value]

Compile ==
  /\ phase = "compile"
  /\ phase' = IF \A i \in DOMAIN tokens : Accepts(tokens[i]) THEN "published" ELSE "compile_error"
  /\ UNCHANGED <<message, constraint, digits, index, next_separator, literal, tokens>>

Next == Convert \/ WriteText \/ StartLiteral \/ PushDigit \/ FinishLiteral \/ Compile

Spec == Init /\ [][Next]_vars

-----------------------------------------------------------------------------
(* Properties *)

(* Types: digits are digits, and the cursor is inside them.                   *)
TypeOK ==
  /\ DOMAIN message = Field
  /\ phase \in {"convert", "field", "digits", "compile", "published", "compile_error"}
  /\ digits \in Seq(0 .. Base - 1)
  /\ index \in 0 .. Len(digits)
  /\ next_separator \in 0 .. Len(digits) + Group
  /\ phase = "digits" => next_separator > 0
  /\ literal \in Seq((0 .. Base - 1) \cup {Separator})
  /\ Len(tokens) <= Len(FieldOrder)

(* What users compile is the signed constraint set, field by field: absent    *)
(* and zero differ, the smallest number keeps its magnitude, no field has     *)
(* another one's value, and generated.rs does compile.                        *)
PublishedAsSigned ==
  /\ phase # "compile_error"
  /\ phase = "published" => Compiled = message
=============================================================================
