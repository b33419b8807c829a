--------------------------- MODULE MCCrx3Verifier ---------------------------
(******************************************************************************)
(* Packages for TLC, in four families around one sound package: prefixes at   *)
(* their boundaries; every pair of an RSA and an ECDSA proof over all key     *)
(* and signature values, with every signed header; longer lists of the        *)
(* proofs that interact; and archives of up to three entries whose declared   *)
(* and actual sizes straddle the limits 2 (manifest), 3 (crs.pb), 6 (all).    *)
(******************************************************************************)
EXTENDS Crx3Verifier

CONSTANTS pinned, otherRsa, ec, junkKey, ourId, otherId

MCRsaKeys == {pinned, otherRsa}
MCEcdsaKeys == {ec}

Lists(set, n) == UNION {[1 .. k -> set] : k \in 0 .. n}

Plain(name, size, actual, contents) ==
  [name |-> name, enclosed |-> TRUE, encrypted |-> FALSE, file |-> TRUE, intact |-> TRUE,
   size |-> size, actual |-> actual, contents |-> contents]
Manifest == Plain("manifest.json", 2, 2, "pki_metadata")
Payload == Plain("crs.pb", 3, 3, "root_store")
Archive == <<Manifest, Payload>>
OtherArchive == <<Payload, Manifest>>

SignedData == {None, Garbled} \cup [crxId : {None, ourId, otherId}]
Ours == [crxId |-> ourId]

Over(data, archive) == [signedData |-> data, archive |-> archive]
Proof(key, by, covers) == [public_key |-> key, signature |-> [by |-> by, covers |-> covers]]
Pinned(archive) == Proof(pinned, pinned, Over(Ours, archive))

Package(data, rsa, ecdsa, archive) ==
  [size |-> 20, magic |-> TRUE, version |-> 3, headerSize |-> 2, zipMarker |-> FALSE,
   header |-> [signedData |-> data, rsa |-> rsa, ecdsa |-> ecdsa], archive |-> archive]

Prefixes ==
  [size : {11, 12, 13, 14, 15, 20}, magic : BOOLEAN, version : {2, 3}, headerSize : 0 .. 3,
   zipMarker : BOOLEAN,
   header : {Package(Ours, <<Pinned(Archive)>>, <<>>, Archive).header, Garbled},
   archive : {Archive}]

Covers == {Over(Ours, Archive), Over([crxId |-> otherId], Archive), Over(Ours, OtherArchive)}
AnyProof ==
  [public_key : {None, pinned, otherRsa, ec, junkKey},
   signature : {None} \cup [by : {pinned, otherRsa, ec}, covers : Covers]]

Pairs ==
  {Package(Ours, rsa, ecdsa, Archive) : rsa \in Lists(AnyProof, 1), ecdsa \in Lists(AnyProof, 1)}
    \cup {Package(data, <<Proof(pinned, pinned, Over(data, archive))>>, <<>>, archive) :
             data \in SignedData, archive \in {Archive, Garbled}}

CoreRsa ==
  {Pinned(Archive), Pinned(OtherArchive), Proof(otherRsa, otherRsa, Over(Ours, Archive)),
   Proof(pinned, otherRsa, Over(Ours, Archive))}
CoreEcdsa == {Proof(ec, ec, Over(Ours, Archive)), Proof(ec, pinned, Over(Ours, Archive))}

Longer ==
  {Package(Ours, rsa, ecdsa, Archive) : rsa \in Lists(CoreRsa, 3), ecdsa \in Lists(CoreEcdsa, 2)}

Contents(actual, contents) == IF actual = 0 THEN "empty" ELSE contents
Manifests ==
  {Plain("manifest.json", n, m, Contents(m, c)) :
     n \in {1, 2, 3}, m \in {0, 2, 3, 4}, c \in {"pki_metadata", "unversioned", "foreign"}}
Payloads ==
  {Plain("crs.pb", n, m, Contents(m, "root_store")) : n \in {0, 3, 4, 5}, m \in {0, 1, 3, 4, 5}}
Odd(entry) ==
  {[entry EXCEPT !.enclosed = FALSE], [entry EXCEPT !.encrypted = TRUE],
   [entry EXCEPT !.file = FALSE], [entry EXCEPT !.intact = FALSE]}
Extras == {Plain("extra", n, n, "other") : n \in {0, 1, 2}} \cup Odd(Plain("extra", 0, 0, "other"))

Archives ==
  UNION {
    {<<m, c>> : m \in Manifests, c \in Payloads},
    {<<c, m>> : m \in Odd(Manifest) \cup {Manifest}, c \in Odd(Payload) \cup {Payload}},
    {<<m, x, c>> : m \in {Manifest}, c \in Payloads, x \in Extras},
    [1 .. 3 -> {Manifest, Payload, Plain("manifest.json", 1, 1, "foreign")}],
    Lists({Manifest, Payload}, 1)}

Unzipped == {Package(Ours, <<Pinned(a)>>, <<>>, a) : a \in Archives}

MCPackages == UNION {Prefixes, Pairs, Longer, Unzipped}
=============================================================================
