SPECIFICATION Spec
CONSTANTS
    Requests = {q1, q2}
    Versions = {1, 2}
    Contained <- MCContained
    None = None
    MaxOps = 3
    MaxEdits = 1
    Faults = {"crash", "net", "io", "broker"}
SYMMETRY RequestSymmetry
INVARIANTS
    ProvenanceIsHonest
    InstalledIsAsked
    CapabilitiesAreVouchedFor
PROPERTIES
    StartRunsConfigured
CHECK_DEADLOCK FALSE
