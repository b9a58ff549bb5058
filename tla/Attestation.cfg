SPECIFICATION Spec
CONSTANTS
    Requests = {r1}
    Procs = {ide, server, helper}
    Roots = {ide}
    Known = {ide, server}
    Looks = {ide, server}
    s1 = s1
    s2 = s2
    v1 = v1
    v2 = v2
    Sources = {s1, s2}
    VPNs = {v1, v2}
    Nobody = Nobody
    Faults = {"list", "procs", "sockets", "api", "observer"}
    MaxChanges = 4
SYMMETRY Interchangeable
PROPERTIES
    LastingAnomalyIsReported
    EvidenceIsOfThisDataPlane
