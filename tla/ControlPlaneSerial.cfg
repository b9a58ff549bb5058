SPECIFICATION Spec
CONSTANTS
    Requests = {q1}
    Boot = Boot
    Free = Free
    Configs = {c1, c2}
    Nil = Nil
    LoadsAs <- AnyLoad
    MaxServed = 3
    MaxStarted = 3
    Faults = {"crash", "orphan", "foreign"}
SYMMETRY Interchangeable
INVARIANTS
    FileHoldsCommittedConfig
    AutoStartFollowsLastOperation
