SPECIFICATION FairSpec
CONSTANTS
    Pids = {p1, p2}
    NoPid = NoPid
    Reserved = {r1, r2}
    Foreign = {f1}
    MaxOps = 2
    MaxBorn = 2
    Absent = Absent
    Corrupt = Corrupt
    Faults = {"crash", "orphan", "io", "eperm", "proxy", "reuse"}
INVARIANTS
    OwnedStateIsJournaled
    FinalizedLeavesNothing
PROPERTIES
    StartLeavesActive
    ImplementsLease
    StopReleases
    
