SPECIFICATION Spec
CONSTANTS
    Pids = {p1, p2}
    NoPid = NoPid
    Reserved = {r1}
    Foreign = {f1}
    MaxOps = 2
    MaxBorn = 2
    Absent = Absent
    Corrupt = Corrupt
    Faults = {"crash", "io", "eperm", "orphan", "stranded", "reuse", "corruption", "foreign"}
SYMMETRY PidSymmetry
INVARIANTS
    TypeOK
    LoadableJournalIsLatest
PROPERTIES
    NoMutationUnderRecordedHelper
    RefusalIsCautious
    PreexistingEntriesSurvive
