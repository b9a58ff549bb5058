--------------------------- MODULE MCControlPlane ---------------------------
(* Small instances of ControlPlane for TLC.                                *)
EXTENDS ControlPlane, TLC

\* Requests are interchangeable, and so are configurations.
Interchangeable == Permutations(Requests) \cup Permutations(Configs)

\* No step tells two configurations apart: to begin with one of them is enough.
\* (A symmetry set would not do, the run has a liveness property.)
InitWithOneConfig == Init /\ settings.cfg = (CHOOSE c \in Configs : TRUE)

FairFromOneConfig ==
    InitWithOneConfig /\ [][Next]_vars /\ Fairness

\* New may make any configuration of the one that was saved.
AnyLoad == [c \in Configs |-> Configs]
=============================================================================
