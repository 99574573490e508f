SPECIFICATION FairSpec
CONSTANTS
    Conns = {c1, c2}
    Nonces = {n1}
    MaxJobs = 2
    ChanCap = 1
    SameHeight = FALSE
    MaxTips = 1
    MaxCalls = 1
    MaxRequests = 1
    FaultKinds = {"send"}
    MaxFaults = 1
INVARIANTS
    ProcessedOnce
PROPERTIES
    BroadcastEnds
