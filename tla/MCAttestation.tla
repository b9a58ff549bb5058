--------------------------- MODULE MCAttestation ---------------------------
(* The host of the runs: the IDE, its language server and an unknown helper. *)
EXTENDS Attestation, TLC

CONSTANTS s1, s2, v1, v2
Interchangeable == Permutations({s1, s2}) \cup Permutations({v1, v2})
=============================================================================
