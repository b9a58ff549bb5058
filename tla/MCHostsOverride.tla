-------------------------- MODULE MCHostsOverride --------------------------
(* Small instances of HostsOverride for TLC.                               *)
EXTENDS HostsOverride, TLC

HostsSymmetry == Permutations(IPs) \cup Permutations(Requests)
=============================================================================
