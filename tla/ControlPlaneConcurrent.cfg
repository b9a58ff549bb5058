SPECIFICATION FairFromOneConfig
CONSTANTS
    Requests = {q1, q2}
    Boot = Boot
    Free = Free
    Configs = {c1, c2}
    Nil = Nil
    LoadsAs <- AnyLoad
    MaxServed = 2
    MaxStarted = 2
    Faults = {"io", "sync"}
INVARIANTS
    RunningMatchesConfig
    SettingsMatchManager
    ConfirmationIsCurrent
PROPERTIES
    StartProvesThisProcess
    StopReleasesEverything
    LaunchedThroughCheckedProxy
    
CHECK_DEADLOCK FALSE
