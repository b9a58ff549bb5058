SPECIFICATION Spec
CONSTANTS
    Requests = {q1}
    IPs = {ip1, ip2}
    None = None
    TTL = 2
    MaxTime = 6
    Faults = {}
INVARIANT StartIsNeverRefused
