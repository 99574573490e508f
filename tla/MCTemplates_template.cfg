SPECIFICATION Spec
CONSTANTS
    Base = 4
    U32Len = 2
    W64 = 1024
    HashLen = 2
    Prevs <- MCPrevs
    Timestamps = {4, 15}
    TimestampLen = 2
    Heights = {3, 4}
    Amounts = {4, 511}
    TxCounts = {0, 2, 3}
    MinerNonces = {62}
    InstanceId <- MCInstanceId
    MaxJobs = 1
    Diff1 = 63
    TargetUnit = 8
    Hash <- MCHash
    BlockDifficulty = 9
    Difficulty = 3
    FaultKinds = {"hex"}
    MaxFaults = 1
INVARIANTS
    Repacks
    RewardRead
    SubmitsOfferedBlock
    HonestShareAccepted
    HashOfBlock
    TargetSufficient
    SubmitsMonerodsBlocks
