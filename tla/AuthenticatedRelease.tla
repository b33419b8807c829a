------------------------ MODULE AuthenticatedRelease ------------------------
(*****************************************************************************)
(* What the maintenance commands promise about the one file that users of    *)
(* chromium-roots compile, generated.rs: whenever it holds a library, that   *)
(* library was generated from one package the Chrome component service has   *)
(* offered, with the provenance of that same package, and from a payload     *)
(* that passed validation.  It may be absent or damaged by an interrupted    *)
(* write; it never mixes the payload of one package with the provenance of   *)
(* another.                                                                  *)
(*                                                                           *)
(* chromium-roots/src/lib.rs:4-8, certificates.rs:3-4.                       *)
(*****************************************************************************)
EXTENDS Integers

CONSTANTS
  LastPackage,   \* packages are numbered 1 .. LastPackage in publication order
  PayloadOf,     \* the crs.pb inside each package
  Publishable,   \* the payloads that parse and validate
  Browsers,      \* the Chrome Stable versions a request may name
  Unusable       \* contents of generated.rs that are no library

VARIABLES
  offered,       \* the newest package the component service has offered
  shipped        \* the contents of generated.rs

vars == <<offered, shipped>>

LibraryOf(pkg, b) ==
  [source  |-> [crx |-> pkg, browser |-> b, crs |-> PayloadOf[pkg]],
   payload |-> PayloadOf[pkg]]

Authentic(upTo) ==
  {LibraryOf(pkg, b) : pkg \in {k \in 1 .. upTo : PayloadOf[k] \in Publishable},
                       b \in Browsers}

Init ==
  /\ offered \in 1 .. LastPackage
  /\ shipped \in Authentic(offered) \cup Unusable

Offer ==
  /\ offered < LastPackage
  /\ offered' = offered + 1
  /\ UNCHANGED shipped

Damage ==
  /\ shipped' \in Unusable
  /\ UNCHANGED offered

Ship ==
  /\ shipped' \in Authentic(offered)
  /\ UNCHANGED offered

Next == Offer \/ Damage \/ Ship

Spec == Init /\ [][Next]_vars
=============================================================================
