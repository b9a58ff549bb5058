SPECIFICATION Spec
CONSTANTS
    Pids = {p1, p2}
    NoPid = NoPid
    Reserved = {r1}
    Foreign = {f1}
    MaxOps = 1
    MaxBorn = 2
    Absent = Absent
    Corrupt = Corrupt
    Faults = {"crash", "corruption"}
SYMMETRY PidSymmetry
INVARIANT OwnedStateStaysOpen
