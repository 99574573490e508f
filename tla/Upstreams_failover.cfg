SPECIFICATION FairSpec
CONSTANTS
    N = 2
    Finders = {f1}
    Threshold = 2
    Window = 2
    FaultKinds = {"mute", "status", "reject"}
    MaxFaults = 2
CHECK_DEADLOCK FALSE
INVARIANTS
    TypeOK
    NoHealthyExit
PROPERTIES
    MuteExits
    FollowsHealthy
