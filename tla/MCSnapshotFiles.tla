--------------------------- MODULE MCSnapshotFiles ---------------------------
(*****************************************************************************)
(* Instances of SnapshotFiles for TLC.  Four payloads cover the cases the    *)
(* commands tell apart: a first version, a later one, a change that keeps    *)
(* the version number, and one the validation rejects.                       *)
(*****************************************************************************)
EXTENDS SnapshotFiles, TLC

CONSTANTS first, later, sameVersion, invalid

MCPayloads == {first, later, sameVersion, invalid}
MCPublishable == MCPayloads \ {invalid}
MCVersionOf == (first :> 1) @@ (later :> 2) @@ (sameVersion :> 2) @@ (invalid :> 3)

(* The first package is republished unchanged before the payload moves on.*)
MCPayloadOf == <<first, first, later>>

(* For concurrent commands: republished, then changed under the same version  *)
(* number, so that only the digest tells the payloads apart.                  *)
MCPayloadOfRace == <<later, later, sameVersion, invalid>>

(* Every kind of payload, the newest one with an unchanged version number.*)
MCPayloadOfLong == <<first, first, later, invalid, sameVersion>>

(* A repository with its first snapshot in place, all three files consistent. *)
CheckedInSpec == Init /\ tree # Nothing /\ [][Next]_vars

Symmetry == Permutations(Procs)
=============================================================================
