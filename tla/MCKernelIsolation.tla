------------------------- MODULE MCKernelIsolation -------------------------
(* Small instances of KernelIsolation for TLC.                             *)
EXTENDS KernelIsolation, TLC

CONSTANTS l1, l2, l3, alice, bob

\* Alice launches twice; Bob is another desktop user.
MCUserOf == l1 :> alice @@ l2 :> alice @@ l3 :> bob

RelaunchSymmetry == Permutations({l1, l2})
=============================================================================
