SPECIFICATION Spec
CONSTANTS
    l1 = l1
    l2 = l2
    l3 = l3
    alice = alice
    bob = bob
    Launchers = {l1, l2, l3}
    Users = {alice, bob}
    UserOf <- MCUserOf
    Nobody = Nobody
    Faults = {"crash", "io"}
SYMMETRY RelaunchSymmetry
INVARIANTS
    ApplicationIsConfined
    SurvivorsBlockRelaunch
    StateFileMeansEnforced
    NothingIsLeft
    ForwardingIsRestored
PROPERTIES
    RoutesLostOnlyToAnotherUser
CHECK_DEADLOCK FALSE
