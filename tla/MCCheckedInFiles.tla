-------------------------- MODULE MCCheckedInFiles --------------------------
(******************************************************************************)
(* The two files that `generate` reads: the text of SOURCE.toml through       *)
(* parse_source_lock, and the bytes of crs.pb through the guard and the       *)
(* decoder.  The parsers share no state, so what they do in any order         *)
(* projects onto what each does alone: a behaviour is one file's, and the     *)
(* other parser stays where it starts.                                        *)
(*                                                                            *)
(* crs.pb: real bytes (Base 128), varints of at most three bytes and 16-bit   *)
(* widths scaled from 64: every short string over the bytes that begin,       *)
(* continue or end something, and Root Stores built from whole fields,        *)
(* several of them in one message, with keys, lengths and payloads that are   *)
(* right, non-minimal, too long or undeclared.                                *)
(*                                                                            *)
(* SOURCE.toml: two base-2 digits instead of ten, Chrome versions of two      *)
(* components and digests of two digits.                                      *)
(******************************************************************************)
EXTENDS RootStoreWire, LockText

VARIABLES
  read,                                          \* "crs.pb" or "SOURCE.toml"
  snapshot, text, origin, next, slot, lock_phase \* those of SourceLock

Lock == INSTANCE SourceLock WITH phase <- lock_phase
lock == <<snapshot, text, origin, next, slot, lock_phase>>

FilesInit ==
  \/ read = "crs.pb" /\ Init /\ Lock!Init
  \/ read = "SOURCE.toml" /\ Init /\ input = <<>> /\ Lock!Init

ReadCrs == read = "crs.pb" /\ Next /\ UNCHANGED <<read, lock>>
ReadSourceLock == read = "SOURCE.toml" /\ Lock!Next /\ UNCHANGED <<read, vars>>

FilesSpec == FilesInit /\ [][ReadCrs \/ ReadSourceLock]_<<read, vars, lock>>

(* The types of both parsers.                                                 *)
TypesOK == TypeOK /\ Lock!TypeOK

(* The properties of SourceLock (generator.rs:172-270, component.rs:91-117).  *)
ReadsWhatWasWritten == Lock!ReadsWhatWasWritten
AcceptedIffEachFieldOnce == Lock!AcceptedIffEachFieldOnce

-----------------------------------------------------------------------------
(* crs.pb *)

MCIsText(s) == \A k \in DOMAIN s : s[k] < 128

Delimited(tag, body) == <<8 * tag + 2, Len(body)>> \o body
Number(tag, varint) == <<8 * tag>> \o varint

(* Minimal, non-minimal, largest and just too large varints. *)
Numbers == {<<0>>, <<1>>, <<2>>, <<129, 0>>, <<128, 128, 0>>, <<255, 255, 1>>}
BadNumbers == {<<128, 128, 2>>, <<255, 255, 255, 0>>, <<130>>}

AnchorFields ==
  {Delimited(tag, body) : tag \in {1, 2}, body \in {<<>>, <<65>>}}
    \cup {Delimited(tag, <<65>>) : tag \in {3, 5, 11}}
    \cup {<<18, 1, 200>>, <<90, 129, 0, 7>>, <<88, 1>>, <<218, 0, 1, 7>>}
    \cup {Delimited(4, body) : body \in {<<>>, <<8, 1>>, <<64, 1>>, <<56, 1>>}}
    \cup {Number(tag, n) : tag \in {6, 8, 12}, n \in {<<0>>, <<1>>, <<132, 128, 1>>}}
    \cup {Number(10, n) : n \in Numbers \cup BadNumbers}
    \cup {Number(7, <<1>>), Number(9, <<1>>)}

ConstraintFields ==
  {Number(tag, n) : tag \in {1, 8}, n \in Numbers \cup {<<128, 128, 2>>}}
    \cup {Number(tag, <<3>>) : tag \in {2, 6, 9, 10, 11}}
    \cup {Delimited(tag, <<65>>) : tag \in 3 .. 7} \cup {<<26, 1, 255>>, <<42, 2, 65>>}

MtcFields ==
  {Delimited(1, <<1>>), Delimited(1, <<>>), Delimited(2, <<>>), Delimited(2, <<80, 1>>),
   Number(3, <<1>>), Number(3, <<0>>), Number(4, <<131, 128, 1>>), Number(4, <<1>>),
   Number(5, <<1>>), Delimited(3, <<1>>)}

Pairs(set) == {a \o b : a, b \in set}

RawBytes == {0, 1, 2, 8, 10, 16, 18, 34, 127, 128, 129, 255}

MCInputs ==
  UNION {UNION {[1 .. n -> RawBytes] : n \in 0 .. 4},
         {Delimited(1, body) : body \in AnchorFields \cup Pairs(AnchorFields)},
         {Delimited(3, a) \o Delimited(1, b) : a, b \in AnchorFields},
         {Delimited(1, Delimited(4, body)) : body \in Pairs(ConstraintFields)},
         {Delimited(4, body) \o <<16, 1>> : body \in Pairs(MtcFields)}}

-----------------------------------------------------------------------------
(* SOURCE.toml *)

MCPinnedId == <<"a", "x">>
MCPinnedUrl == <<"x", "/", "/">>

LockNumeral[n \in 0 .. MaxVersion] ==
  IF n < 2 THEN <<IF n = 0 THEN "0" ELSE "1">>
  ELSE LockNumeral[n \div 2] \o LockNumeral[n % 2]
MCDecimal == [n \in 1 .. MaxVersion |-> LockNumeral[n]]

(* Versions of a manifest, some of them not dotted numbers. *)
Versions == {<<"1">>, <<"1", ".", "0">>, <<"1", "0", ".", "1">>, <<>>, <<"1", ".">>,
             <<".", ".">>, <<"1", "#">>, <<"quote", "1">>, <<"backslash">>}

MCCandidates ==
  [component_id : {MCPinnedId}, component_version : Versions,
   browser_version : {<<"1", ".", "0">>, <<"1", "0", ".", "1">>, <<"1">>},
   crx_sha256 : {<<0, 2>>, <<1, 1>>}, crs_sha256 : {<<1, 2>>}, root_store_version : {1, 2, 7}]
  \cup {[component_id |-> <<"x", "x">>, component_version |-> <<"1">>,
        browser_version |-> <<"1", ".", "0">>, crx_sha256 |-> <<0, 2>>,
        crs_sha256 |-> <<1, 2>>, root_store_version |-> 1]}

TextLine(name, value) == <<name, "sp", "=", "sp">> \o value \o <<"nl">>

(* A lock of seven lines, and hand-made variations: two lines replaced by, or *)
(* one line inserted from, a list of odd lines.                               *)
GoodLines ==
  <<TextLine("component_id", <<"quote", "a", "x", "quote">>),
   TextLine("component_version", <<"quote", "1", "quote">>),
   TextLine("browser_version", <<"quote", "1", ".", "1", "quote">>),
   TextLine("crx_sha256", <<"quote", "0", "a", "quote">>),
   TextLine("crs_sha256", <<"quote", "1", "1", "quote">>),
   TextLine("root_store_version", <<"1", "0">>),
   TextLine("source", <<"quote", "x", "/", "/", "quote">>)>>

OddLines ==
  {<<>>, <<"nl">>, <<"sp", "nl">>, <<"#", "source", "=", "nl">>, <<"x", "nl">>, <<"=", "nl">>,
   <<"frag", "=", "1", "nl">>, <<"sp", "root_store_version", "=", "1", "sp", "#", "nl">>,
   TextLine("root_store_version", <<"-", "1", "0", "0", "0">>),
   TextLine("root_store_version", <<"+", "1">>), TextLine("root_store_version", <<"-">>),
   TextLine("root_store_version", <<"1", "0", "0", "0">>),
   TextLine("root_store_version", <<>>), TextLine("root_store_version", <<"quote", "1", "quote">>),
   TextLine("source", <<"quote", "x", "#", "/", "quote">>),
   TextLine("source", <<"quote", "x", "quote">>),
   TextLine("source", <<"quote", "x", "/", "/", "quote">>), TextLine("source", <<"quote">>),
   TextLine("crx_sha256", <<"quote", "A", "0", "quote">>),
   TextLine("crx_sha256", <<"quote", "A", "quote">>),
   TextLine("crx_sha256", <<"quote", "x", "0", "quote">>),
   TextLine("crs_sha256", <<"quote", "1", "1", "quote">>),
   TextLine("browser_version", <<"quote", "1", "quote">>),
   TextLine("component_version", <<"quote", "1", ".", "quote">>),
   TextLine("component_version", <<"quote", "quote", "quote">>),
   TextLine("component_version", <<"quote", "=", "quote">>),
   TextLine("component_id", <<"quote", "x", "quote">>)}

MCHandWritten ==
  {FlattenSeq(InsertAt(GoodLines, i, odd)) : i \in 1 .. 8, odd \in OddLines} \cup
  {FlattenSeq([GoodLines EXCEPT ![i] = odd1, ![k] = odd2]) :
     i \in {2, 4, 6, 7}, k \in 1 .. 7, odd1 \in OddLines,
     odd2 \in {<<>>, GoodLines[6], GoodLines[7]}}
=============================================================================
