----------------------------- MODULE SourceLock -----------------------------
(******************************************************************************)
(* chromium-crs/data/SOURCE.toml between write_source_lock, which update      *)
(* calls, and parse_source_lock, with which generate, check and               *)
(* check-latest begin.  Between the two the file may have been cut short by   *)
(* a failed write, written over a longer lock by a concurrent update, or      *)
(* edited by hand: the parser decides which of these texts the other          *)
(* commands work with.                                                        *)
(******************************************************************************)
EXTENDS LockText, Integers, SequencesExt, FiniteSetsExt

VARIABLES
  snapshot,  \* what update wrote last
  text,      \* the contents of SOURCE.toml
  origin,    \* how they came about
  next,      \* the first character of the next line
  slot,      \* for each field the set of values stored so far
  phase      \* "write", "parse", "accepted" or "refused"

vars == <<snapshot, text, origin, next, slot, phase>>

-----------------------------------------------------------------------------
(* SourceMetadata::new *)

AnyVersion(version) == TRUE
DottedVersion(version) ==
  LET dotted == <<".">> \o version \o <<".">>
  IN \A i \in 1 .. Len(dotted) - 1 :
       /\ dotted[i] \in Digit \cup {"."}
       /\ ~(dotted[i] = "." /\ dotted[i + 1] = ".")

Components(version) == 1 + Cardinality({i \in DOMAIN version : version[i] = "."})

SourceValid(s) ==
  /\ s.component_id = PinnedId
  /\ DottedVersion(s.component_version)
  /\ DottedVersion(s.browser_version)
  /\ Components(s.browser_version) = BrowserComponents

-----------------------------------------------------------------------------
(* write_source_lock *)

(* {:?} of a string. *)
Escaped(s) ==
  IF \A i \in DOMAIN s : s[i] \notin {"quote", "backslash"} THEN s
  ELSE FlattenSeq([i \in DOMAIN s |-> IF s[i] \in {"quote", "backslash"}
                                      THEN <<"backslash", s[i]>> ELSE <<s[i]>>])
Quoted(s) == <<"quote">> \o Escaped(s) \o <<"quote">>
Hex(hash) == [i \in DOMAIN hash |-> HexChar[hash[i]]]

Line(name, value) == <<name, "sp", "=", "sp">> \o value \o <<"nl">>

VersionLast(s) ==
  <<"#", "sp", "x", "nl">>
  \o Line("component_id", Quoted(s.component_id))
  \o Line("component_version", Quoted(s.component_version))
  \o Line("browser_version", Quoted(s.browser_version))
  \o Line("crx_sha256", Quoted(Hex(s.crx_sha256)))
  \o Line("crs_sha256", Quoted(Hex(s.crs_sha256)))
  \o Line("source", Quoted(PinnedUrl))
  \o Line("root_store_version", Decimal[s.root_store_version])

Contents(s) ==
  <<"#", "sp", "x", "nl">>
  \o Line("component_id", Quoted(s.component_id))
  \o Line("component_version", Quoted(s.component_version))
  \o Line("browser_version", Quoted(s.browser_version))
  \o Line("crx_sha256", Quoted(Hex(s.crx_sha256)))
  \o Line("crs_sha256", Quoted(Hex(s.crs_sha256)))
  \o Line("root_store_version", Decimal[s.root_store_version])
  \o Line("source", Quoted(PinnedUrl))

-----------------------------------------------------------------------------
(* One line of parse_source_lock *)

(* contents.lines(): the end of the line that starts at i. *)
EndOfLine(contents, i) ==
  CHOOSE j \in i .. Len(contents) + 1 :
    /\ j = Len(contents) + 1 \/ contents[j] = "nl"
    /\ \A k \in i .. j - 1 : contents[k] # "nl"
LineEnd(i) == EndOfLine(text, i)

(* The part of a sequence before the first c: all of it if there is none.     *)
Before(s, c) ==
  LET stops == {i \in DOMAIN s : s[i] = c}
  IN IF stops = {} THEN s ELSE SubSeq(s, 1, Min(stops) - 1)

Trim(s) ==
  LET kept == {i \in DOMAIN s : s[i] # "sp"}
  IN IF kept = {} THEN <<>> ELSE SubSeq(s, Min(kept), Max(kept))

LineAt(i) == Trim(Before(SubSeq(text, i, LineEnd(i) - 1), "#"))
Blank(i) == LineAt(i) = <<>>

(* The two sides of the first "=".                                            *)
Name(i) == Trim(Before(LineAt(i), "="))
ValueText(i) ==
  Trim(SubSeq(LineAt(i), Len(Before(LineAt(i), "=")) + 2, Len(LineAt(i))))

(* What the parsers of a value return: nothing or one value.                  *)
ParseLockString(value) ==
  IF /\ Len(value) >= 2
     /\ value[1] = "quote"
     /\ value[Len(value)] = "quote"
     /\ \A i \in 2 .. Len(value) - 1 : value[i] \notin {"quote", "backslash"}
  THEN {SubSeq(value, 2, Len(value) - 1)}
  ELSE {}

ParseLockHash(value) ==
  {[i \in DOMAIN hex |-> Nibble[hex[i]]] :
     hex \in {h \in ParseLockString(value) :
                Len(h) = HashDigits /\ \A i \in DOMAIN h : h[i] \in DOMAIN Nibble}}

(* str::parse::<i64>: an optional sign, digits, and the result in range.      *)
ParseUnbounded(value) ==
  LET digits == IF value # <<>> /\ Head(value) \in {"-", "+"} THEN Tail(value) ELSE value
  IN IF digits # <<>> /\ \A i \in DOMAIN digits : digits[i] \in Digit
     THEN {IF Head(value) = "-" THEN -Denoted(digits) ELSE Denoted(digits)}
     ELSE {}
ParseVersion(value) == ParseUnbounded(value) \cap (-MaxVersion - 1) .. MaxVersion

Parsed(f, value) ==
  CASE f \in StringField -> ParseLockString(value)
    [] f \in HashField   -> ParseLockHash(value)
    [] OTHER             -> ParseVersion(value)

(* What the line that starts at i offers the field f: nothing, if it is not a *)
(* line of f or does not parse.                                               *)
StoredAt(i, f) ==
  IF "=" \in Range(LineAt(i)) /\ Name(i) = <<f>> THEN Parsed(f, ValueText(i)) ELSE {}

-----------------------------------------------------------------------------
Init ==
  /\ snapshot = NoSnapshot
  /\ text = <<>>
  /\ origin = "none"
  /\ next = 1
  /\ slot = [f \in Field |-> {}]
  /\ phase = "write"

Leave(contents, how) ==
  /\ text' = contents
  /\ origin' = how
  /\ phase' = "parse"
  /\ UNCHANGED <<next, slot>>

(* update has checked what it downloaded with SourceMetadata::new. *)
WriteSourceLock(s) ==
  /\ SourceValid(s)
  /\ snapshot' = s
  /\ Leave(Contents(s), "written")

(* The write stops after n characters, possibly inside a name. *)
CutShort(s, n) ==
  LET whole == Contents(s)
  IN /\ SourceValid(s)
     /\ snapshot' = s
     /\ n < Len(whole)
     /\ \/ Leave(SubSeq(whole, 1, n), "damaged")
        \/ whole[n + 1] \in Field /\ Leave(SubSeq(whole, 1, n) \o <<"frag">>, "damaged")

(* Another update filled the file after both had truncated it.                *)
WriteOver(s, other) ==
  LET mine == Contents(s)
      theirs == Contents(other)
  IN /\ SourceValid(s)
     /\ SourceValid(other)
     /\ snapshot' = s
     /\ Len(mine) < Len(theirs)
     /\ Leave(mine \o SubSeq(theirs, Len(mine) + 1, Len(theirs)), "damaged")

EditByHand(contents) == Leave(contents, "edited") /\ UNCHANGED snapshot

MoreLines == phase = "parse" /\ next <= Len(text)

(* An empty line or a comment. *)
SkipLine ==
  /\ MoreLines
  /\ Blank(next)
  /\ next' = LineEnd(next) + 1
  /\ UNCHANGED <<snapshot, text, origin, slot, phase>>

(* set_once: the slot must be free.                                           *)
AlwaysFree(f) == TRUE
SlotFree(f) == slot[f] = {}

ReadField(f) ==
  /\ MoreLines
  /\ StoredAt(next, f) # {}
  /\ SlotFree(f)
  /\ slot' = [slot EXCEPT ![f] = StoredAt(next, f)]
  /\ next' = LineEnd(next) + 1
  /\ UNCHANGED <<snapshot, text, origin, phase>>

(* No "=", an unknown name, a value that does not parse, or a duplicate. *)
RefuseLine ==
  /\ MoreLines
  /\ ~Blank(next)
  /\ \A f \in Field : StoredAt(next, f) # {} => ~SlotFree(f)
  /\ phase' = "refused"
  /\ UNCHANGED <<snapshot, text, origin, next, slot>>

(* What the slots must hold behind the loop. *)
Complete(values) ==
  /\ \A f \in Field : values[f] # {}
  /\ values["source"] = {PinnedUrl}
  /\ SourceValid([f \in Field |-> CHOOSE v \in values[f] : TRUE])

LinesDone ==
  /\ phase = "parse"
  /\ next > Len(text)
  /\ phase' = IF Complete(slot) THEN "accepted" ELSE "refused"
  /\ UNCHANGED <<snapshot, text, origin, next, slot>>

Next ==
  \/ phase = "write" /\ \E s \in Candidates :
       \/ WriteSourceLock(s)
       \/ \E n \in 0 .. Len(Contents(s)) : CutShort(s, n)
       \/ \E other \in Candidates : WriteOver(s, other)
  \/ phase = "write" /\ \E contents \in HandWritten : EditByHand(contents)
  \/ SkipLine \/ (\E f \in Field : ReadField(f)) \/ RefuseLine \/ LinesDone

Spec == Init /\ [][Next]_vars

-----------------------------------------------------------------------------
(* Properties *)

(* Types: what was written is valid provenance, and a stored version fits an  *)
(* i64.                                                                       *)
TypeOK ==
  /\ origin \in {"written", "damaged"} => snapshot \in Snapshot /\ SourceValid(snapshot)
  /\ text \in Seq(Token)
  /\ origin \in {"none", "written", "damaged", "edited"}
  /\ next \in Nat \ {0}
  /\ DOMAIN slot = Field
  /\ slot["root_store_version"] \subseteq (-MaxVersion - 1) .. MaxVersion
  /\ phase \in {"write", "parse", "accepted", "refused"}

(* The parser returns the lock that update wrote. *)
Names(s) == \A f \in Field \ {"source"} : slot[f] = {s[f]}

(* What update writes reads back as the same provenance and version: none of  *)
(* the validated values is cut at a "#", escaped by the formatter, or out of  *)
(* the parser's range.  A lock that was cut short or written over a longer    *)
(* one is refused, or nothing of it is missing: no truncated number passes    *)
(* for a version.                                                             *)
ReadsWhatWasWritten ==
  /\ origin = "written" => phase # "refused"
  /\ origin \in {"written", "damaged"} /\ phase = "accepted" => Names(snapshot)

(* The loop over the lines and set_once decide, in any order of the lines:    *)
(* every line is blank or a field, every field is on exactly one line.        *)
LineStarts == {i \in DOMAIN text : i = 1 \/ text[i - 1] = "nl"}
Offered == [f \in Field |-> UNION {StoredAt(i, f) : i \in LineStarts}]

EachFieldOnce ==
  /\ \A i \in LineStarts : Blank(i) \/ \E f \in Field : StoredAt(i, f) # {}
  /\ \A f \in Field :
       \E i \in LineStarts : \A k \in LineStarts : StoredAt(k, f) # {} <=> k = i

(* A text is accepted exactly if each field is on one line of its own, with   *)
(* the values that the pinned endpoint and the version formats demand, and    *)
(* what is then in the slots is what these lines say.                         *)
AcceptedIffEachFieldOnce ==
  /\ phase = "accepted" => EachFieldOnce /\ Complete(Offered) /\ slot = Offered
  /\ phase = "refused" => ~(EachFieldOnce /\ Complete(Offered))
=============================================================================
