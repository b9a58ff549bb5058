------------------------- MODULE MCVerifiedInstall -------------------------
(* Small instances of VerifiedInstall for TLC.                             *)
EXTENDS VerifiedInstall, TLC

\* As 1.13.1 and 1.13.10: the first is found in the text of the second.
MCContained == {<<1, 2>>}

RequestSymmetry == Permutations(Requests)
=============================================================================
