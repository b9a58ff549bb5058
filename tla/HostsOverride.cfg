SPECIFICATION Spec
CONSTANTS
    Requests = {q1, q2}
    IPs = {ip1, ip2}
    None = None
    TTL = 2
    MaxTime = 6
    Faults = {"crash", "io", "eperm"}
SYMMETRY HostsSymmetry
INVARIANTS
    OverrideIsRecorded
PROPERTIES
    YoungOverrideSurvives
    ExpiredOverrideIsRemoved
