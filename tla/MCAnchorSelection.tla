-------------------------- MODULE MCAnchorSelection --------------------------
(******************************************************************************)
(* Messages for TLC: every combination of two entries over all the field      *)
(* values the code distinguishes, and of three entries over those that        *)
(* interact (same certificate, same ID, trusted or not).  The three valid     *)
(* IDs have lengths 1, 2 and 3 against a vector of 6 bytes, so pairs of       *)
(* them fit, fit exactly and do not fit.                                      *)
(*                                                                            *)
(* For the TLS client of BtlsClient, which reads a list of published          *)
(* anchors and shares no state with the selection: a root R, a subordinate    *)
(* CA S (issued by R, by an unknown CA U, or by itself) and a leaf L issued   *)
(* by either.  A behaviour is of the selection or of the client, and the      *)
(* other one stays where it starts.                                           *)
(******************************************************************************)
EXTENDS AnchorSelection, TLC

CONSTANTS
  ca1, ca2, leaf, junk, id1, id2, id3, badId,
  AnchorLists, Leaves, Intermediates  \* of BtlsClient

(* What codegen emits names no certificate twice: PublishedUnique.            *)
ASSUME PublishedAssumption ==
  \A list \in AnchorLists :
    /\ Len(list) \in Nat /\ DOMAIN list = 1 .. Len(list)
    /\ \A i, k \in DOMAIN list : list[i].der = list[k].der => i = k

VARIABLES
  part,  \* "selection" or "client"
  tls_anchors, tls_next, tls_store, constrained, tls_leaf, peer, parameters, tls_phase

Client == INSTANCE BtlsClient WITH anchors <- tls_anchors, next <- tls_next, store <- tls_store,
                                   leaf <- tls_leaf, phase <- tls_phase
client == <<tls_anchors, tls_next, tls_store, constrained, tls_leaf, peer, parameters, tls_phase>>

MCCertificates == {ca1, ca2, leaf, junk}
MCParseable == {ca1, ca2, leaf}
MCAuthorities == {ca1, ca2}
MCIds == {id1, id2, id3, badId}
MCValidIds == {id1, id2, id3}
MCIdLength == (id1 :> 1) @@ (id2 :> 2) @@ (id3 :> 3) @@ (badId :> 0)

Plain(certificates, idSet) ==
  [certificate : certificates, tls : {None, TRUE, FALSE}, id : idSet \cup {None},
   crsRootId : {None}]

OddMessages ==
  {[certificate |-> c, tls |-> None, id |-> id1, crsRootId |-> n] :
     c \in {"sha256_hex", None, ca1}, n \in {-1, 2, 3}}

Messages == Plain(MCCertificates, MCIds) \cup OddMessages
CoreMessages == Plain({ca1, ca2}, {id1, id2}) \cup Plain({ca1}, {id3})

Lists(set, n) == UNION {[1 .. k -> set] : k \in 0 .. n}

Classical(roots, additional) ==
  [version : {1}, mtc : {<<>>}, roots : roots, additional : additional]

MtcMessages ==
  [logId : {id1, badId, None}, tls : {None, TRUE, FALSE}, crsRootId : {None, 2, 3}]

(* The parts of a message that no entry depends on. *)
SoundRoot == [certificate |-> ca1, tls |-> None, id |-> id1, crsRootId |-> 3]
Headers ==
  [version : {-1, 0, 1}, mtc : Lists(MtcMessages, 1), roots : {<<SoundRoot>>},
   additional : {<<>>}]

MCStores ==
  UNION {Headers,
         Classical(Lists(Messages, 1), Lists(Messages, 1)),
         Classical(Lists(CoreMessages, 1), [1 .. 2 -> CoreMessages]),
         Classical([1 .. 2 -> CoreMessages], Lists(CoreMessages, 1))}

-----------------------------------------------------------------------------
(* The TLS client *)

Certificate(name, issuer, expired, violated) ==
  [name |-> name, issuer |-> issuer, expired |-> expired, violated |-> violated,
   for_host |-> FALSE]

Roots == {Certificate("R", "R", e, e) : e \in BOOLEAN}
Subordinates(issuers) ==
  {Certificate("S", i, e, v) : i \in issuers, e \in BOOLEAN, v \in BOOLEAN}

AnchorsOf(certificates) ==
  [der : certificates, kind : {"Root", "Additional"},
   enforce_anchor_expiry : BOOLEAN, enforce_anchor_constraints : BOOLEAN]

ListsOf(subordinates) ==
  LET roots == AnchorsOf(Roots)
      others == AnchorsOf(subordinates)
  IN {<<>>} \cup {<<s>> : s \in others} \cup
     {<<r, s>> : r \in roots, s \in others} \cup {<<s, r>> : r \in roots, s \in others}

MCAnchorLists == ListsOf(Subordinates({"R", "U", "S"}))

MCLeaves == {[Certificate("L", i, FALSE, FALSE) EXCEPT !.for_host = h] :
               i \in {"R", "S"}, h \in BOOLEAN}
MCIntermediates ==
  {{}} \cup {{s} : s \in Subordinates({"R", "U"})}

-----------------------------------------------------------------------------
AnchorsInit ==
  \/ part = "selection" /\ Client!Init /\ tls_anchors = <<>> /\ Init
  \/ part = "client" /\ Init /\ store.version = 0 /\ store.mtc = <<>> /\ Client!Init

Select == part = "selection" /\ Next /\ UNCHANGED <<part, client>>
UseAnchors == part = "client" /\ Client!Next /\ UNCHANGED <<part, vars>>

AnchorsSpec == AnchorsInit /\ [][Select \/ UseAnchors]_<<part, vars, client>>

(* The types of both.                                                         *)
TypesOK == TypeOK /\ Client!TypeOK

(* The property of BtlsClient (examples/btls.rs:61-152).                    *)
ConnectedOnlyIfChromiumAccepts == Client!ConnectedOnlyIfChromiumAccepts
=============================================================================
