------------------------------ MODULE LockText ------------------------------
(******************************************************************************)
(* The fields of chromium-crs/data/SOURCE.toml and the texts it may hold.     *)
(*                                                                            *)
(* A text is a sequence of characters, except that a field name is one        *)
(* token and "frag" is a proper prefix of one.  The digits "0" and "1"        *)
(* stand for the ten digits, with "a" and "A" for the hexadecimal ones, and   *)
(* "sp" for any white space inside a line.                                    *)
(******************************************************************************)
EXTENDS Integers, SequencesExt

CONSTANTS
  PinnedId,           \* PKI_METADATA_COMPONENT_ID
  PinnedUrl,          \* COMPONENT_UPDATE_URL
  HashDigits,         \* digits of a SHA-256 value (64)
  BrowserComponents,  \* components of a Chrome version (4)
  MaxVersion,         \* i64::MAX
  Decimal,            \* the numeral of each positive i64
  Candidates,         \* what a download may report, valid or not
  NoSnapshot,         \* before update has written one
  HandWritten         \* texts nobody generated

Digit == {"0", "1"}
Nibble == [c \in {"0", "1", "a", "A"} |->
             CASE c = "0" -> 0 [] c = "1" -> 1 [] OTHER -> 2]
HexChar == [n \in 0 .. 2 |-> CASE n = 0 -> "0" [] n = 1 -> "1" [] OTHER -> "a"]

StringField == {"component_id", "component_version", "browser_version", "source"}
HashField == {"crx_sha256", "crs_sha256"}
Field == StringField \cup HashField \cup {"root_store_version"}

Plain == Digit \cup {"a", "A", ".", "-", "/", "x"}
Token == Plain \cup Field \cup {"frag", "+", "=", "quote", "backslash", "#", "sp", "nl"}

Snapshot == [component_id : Seq(Token), component_version : Seq(Token),
             browser_version : Seq(Token), crx_sha256 : [1 .. HashDigits -> 0 .. 2],
             crs_sha256 : [1 .. HashDigits -> 0 .. 2], root_store_version : 1 .. MaxVersion]

(* The number that digits denote. *)
Denoted(digits) == FoldLeft(LAMBDA n, d : 2 * n + Nibble[d], 0, digits)

ASSUME LockAssumption ==
  /\ PinnedId \in Seq(Plain)
  /\ PinnedUrl \in Seq(Plain)
  /\ HashDigits \in Nat
  /\ BrowserComponents \in Nat
  /\ MaxVersion \in Nat
  /\ Decimal \in [1 .. MaxVersion -> Seq(Digit) \ {<<>>}]
  /\ \A n \in 1 .. MaxVersion : Denoted(Decimal[n]) = n
  /\ Candidates \subseteq Snapshot
  /\ HandWritten \subseteq Seq(Token)
=============================================================================
