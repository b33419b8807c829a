----------------------------- MODULE BtlsClient -----------------------------
(*****************************************************************************)
(* examples/btls.rs of chromium-roots: a TLS client on BoringSSL's legacy    *)
(* X509_STORE, which knows no flags of a trust anchor.  Anchors whose        *)
(* validity or constraints Chromium enforces are therefore not trusted but   *)
(* offered as untrusted intermediates, and verification runs a second time   *)
(* inside the callback.                                                      *)
(*                                                                           *)
(* A certificate has a name, the name of its issuer, and two verdicts: is    *)
(* it expired, and do its X.509 constraints forbid the leaf?                 *)
(*****************************************************************************)
EXTENDS Integers, SequencesExt

CONSTANTS
  AnchorLists,    \* values of TLS_TRUST_ANCHORS
  Leaves,         \* server certificates, with the verdict on HOST
  Intermediates   \* lists of certificates a server sends with its own

VARIABLES
  anchors,      \* TLS_TRUST_ANCHORS
  next,         \* the anchor build_certificate_store looks at
  store,        \* certificates trusted directly
  constrained,  \* certificates of constrained_anchors
  leaf, peer,   \* what the server presents
  parameters,   \* does the inner verifier have the connection's parameters?
  phase

vars == <<anchors, next, store, constrained, leaf, peer, parameters, phase>>

NoLeaf == "none"

-----------------------------------------------------------------------------
(* build_certificate_store *)

BothFlags(a) == a.enforce_anchor_expiry /\ a.enforce_anchor_constraints
Flagged(a) == a.enforce_anchor_expiry \/ a.enforce_anchor_constraints
Representable(a) == BothFlags(a) /\ a.kind = "Additional"

Init ==
  /\ anchors \in AnchorLists
  /\ next = 1
  /\ store = {}
  /\ constrained = {}
  /\ leaf = NoLeaf
  /\ peer = {}
  /\ parameters = FALSE
  /\ phase = "build"

Anchor == anchors[next]
Building == phase = "build" /\ next <= Len(anchors)

AddCert ==
  /\ Building
  /\ ~Flagged(Anchor)
  /\ store' = store \cup {Anchor.der}
  /\ next' = next + 1
  /\ UNCHANGED <<anchors, constrained, leaf, peer, parameters, phase>>

(* The list of untrusted certificates filled as well as, not instead of, the store. *)
PushAndAdd ==
  /\ Building
  /\ Flagged(Anchor)
  /\ Representable(Anchor)
  /\ constrained' = constrained \cup {Anchor.der}
  /\ store' = store \cup {Anchor.der}
  /\ next' = next + 1
  /\ UNCHANGED <<anchors, leaf, peer, parameters, phase>>

PushConstrained ==
  /\ Building
  /\ Flagged(Anchor)
  /\ Representable(Anchor)
  /\ constrained' = constrained \cup {Anchor.der}
  /\ next' = next + 1
  /\ UNCHANGED <<anchors, store, leaf, peer, parameters, phase>>

CannotRepresent ==
  /\ Building
  /\ Flagged(Anchor)
  /\ ~Representable(Anchor)
  /\ phase' = "error"
  /\ UNCHANGED <<anchors, next, store, constrained, leaf, peer, parameters>>

(* X509::from_der fails on the certificate, or add_cert on the store.         *)
CertificateRejected ==
  /\ Building
  /\ phase' = "error"
  /\ UNCHANGED <<anchors, next, store, constrained, leaf, peer, parameters>>

(* The connector is configured, unless BoringSSL rejects the encoded IDs, and *)
(* the connection is opened or fails.                                         *)
Connect ==
  /\ phase = "build"
  /\ next > Len(anchors)
  /\ phase' \in {"handshake", "error"}
  /\ UNCHANGED <<anchors, next, store, constrained, leaf, peer, parameters>>

ServerCertificate(l, p) ==
  /\ phase = "handshake"
  /\ leaf' = l
  /\ peer' = p
  /\ phase' = "callback"
  /\ UNCHANGED <<anchors, next, store, constrained, parameters>>

-----------------------------------------------------------------------------
(* verify_with_constrained_anchors *)

(* copy_verification_parameters; without it, no verification. *)
CopyParameters ==
  /\ phase = "callback"
  /\ parameters' = TRUE
  /\ phase' = "verify"
  /\ UNCHANGED <<anchors, next, store, constrained, leaf, peer>>

CopyFails ==
  /\ phase = "callback"
  /\ phase' = "refused"
  /\ UNCHANGED <<anchors, next, store, constrained, leaf, peer, parameters>>

Untrusted == peer \cup constrained

(* Chains from the leaf, each certificate issued by the next one.             *)
Chains(pool) ==
  {c \in UNION {[1 .. n -> pool \cup {leaf}] : n \in 2 .. 4} :
     /\ c[1] = leaf
     /\ \A i, k \in DOMAIN c : c[i] = c[k] => i = k
     /\ \A i \in 1 .. Len(c) - 1 : c[i].issuer = c[i + 1].name}

(* The verifier checks every certificate of a chain but the last, the trusted *)
(* root; the parameters say which host the leaf must be for.                  *)
Sound(c) == ~c.expired /\ ~c.violated
SelfSigned(c) == c.issuer = c.name
Accepts(chain) ==
  /\ \A i \in 1 .. Len(chain) - 1 : Sound(chain[i])
  /\ chain[Len(chain)] \in store
  /\ SelfSigned(chain[Len(chain)])
  /\ parameters => leaf.for_host

Reachable == \E chain \in Chains(Untrusted \cup store) : Accepts(chain)

(* It follows one chain only, so it may also miss an acceptable one.          *)
VerifyCert ==
  /\ phase = "verify"
  /\ phase' \in (IF Reachable THEN {"connected", "refused"} ELSE {"refused"})
  /\ UNCHANGED <<anchors, next, store, constrained, leaf, peer, parameters>>

(* The endpoint answers and its report has every published ID, or not. *)
Report ==
  /\ phase = "connected"
  /\ phase' \in {"reported", "error"}
  /\ UNCHANGED <<anchors, next, store, constrained, leaf, peer, parameters>>

Next ==
  \/ AddCert \/ PushConstrained \/ CannotRepresent \/ CertificateRejected \/ Connect
  \/ \E l \in Leaves, p \in Intermediates : ServerCertificate(l, p)
  \/ CopyParameters \/ CopyFails \/ VerifyCert \/ Report

Spec == Init /\ [][Next]_vars

-----------------------------------------------------------------------------
(* Properties *)

(* Types: each anchor seen so far is trusted or untrusted, not both.          *)
TypeOK ==
  /\ phase \in {"build", "handshake", "callback", "verify", "connected", "refused",
                "reported", "error"}
  /\ next \in 1 .. Len(anchors) + 1
  /\ store \cup constrained = {anchors[i].der : i \in 1 .. next - 1}
  /\ store \cap constrained = {}
  /\ parameters \in BOOLEAN

(* What Chromium makes of the anchors: a chain ends at any of them, and an    *)
(* anchor is itself checked as far as its flags say (lib.rs, TrustAnchor).    *)
Anchored(chain) ==
  /\ \A i \in 1 .. Len(chain) - 1 : Sound(chain[i])
  /\ \E i \in DOMAIN anchors :
       LET a == anchors[i]
       IN /\ a.der = chain[Len(chain)]
          /\ a.enforce_anchor_expiry => ~a.der.expired
          /\ a.enforce_anchor_constraints => ~a.der.violated

ChromiumAccepts ==
  /\ leaf.for_host
  /\ \E chain \in Chains(peer \cup {anchors[i].der : i \in DOMAIN anchors}) : Anchored(chain)

(* A connection is only made to the host, over a chain that Chromium accepts  *)
(* too: no expired or constrained anchor is used as if it were a plain root.  *)
ConnectedOnlyIfChromiumAccepts == phase = "connected" => ChromiumAccepts
=============================================================================
