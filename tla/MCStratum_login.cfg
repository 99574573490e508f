SPECIFICATION FairSpec
CONSTANTS
    Conns = {c1}
    Nonces = {}
    MaxJobs = 2
    ChanCap = 1
    SameHeight = FALSE
    MaxTips = 2
    MaxCalls = 1
    MaxRequests = 1
    FaultKinds = {}
    MaxFaults = 0
PROPERTIES
    NewJobsSent
