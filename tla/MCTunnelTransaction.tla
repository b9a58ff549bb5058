------------------------ MODULE MCTunnelTransaction ------------------------
(* Small instances of TunnelTransaction for TLC.                           *)
EXTENDS TunnelTransaction, TLC

\* Processes are interchangeable, and so are the PIDs they run under.
PidSymmetry == Permutations(Pids)
=============================================================================
