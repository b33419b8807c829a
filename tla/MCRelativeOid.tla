---------------------------- MODULE MCRelativeOid ----------------------------
(******************************************************************************)
(* Every byte string of up to five bytes in base 3 (six byte values), for a   *)
(* limit of four bytes: components of up to four groups, zero groups in       *)
(* every position, and strings just over the limit.                           *)
(******************************************************************************)
EXTENDS RelativeOid

MCInputs == UNION {[1 .. n -> 0 .. 5] : n \in 0 .. 5}
=============================================================================
