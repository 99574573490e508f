SPECIFICATION FairSpec
CONSTANTS
    Conns = {c1}
    Nonces = {}
    MaxJobs = 2
    ChanCap = 1
    SameHeight = TRUE
    MaxTips = 2
    MaxCalls = 2
    MaxRequests = 2
    FaultKinds = {}
    MaxFaults = 0
INVARIANTS
    TypeOK
    GivenJobFindable
PROPERTIES
    BroadcastReaches
