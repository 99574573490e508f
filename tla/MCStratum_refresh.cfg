SPECIFICATION FairSpec
CONSTANTS
    Conns = {c1}
    Nonces = {n1}
    MaxJobs = 2
    ChanCap = 1
    SameHeight = TRUE
    MaxTips = 2
    MaxCalls = 1
    MaxRequests = 1
    FaultKinds = {"rpc"}
    MaxFaults = 1
PROPERTIES
    TemplateCatchesUp
