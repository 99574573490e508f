SPECIFICATION Spec
CONSTANTS
    b1 = b1
    b2 = b2
    n1 = n1
    n2 = n2
    n3 = n3
    m1 = m1
    m2 = m2
    feeAddr = feeAddr
    feeAddrLower = feeAddrLower
    Foreign = Foreign
    NoAddress = NoAddress
    NoHash = NoHash
    ZeroHash = ZeroHash
    Sessions = {s1, s2}
    Logins = {m1}
    Shares = {p1}
    Blocks = {b1, b2}
    Nonces = {n1, n2, n3}
    NonceOf <- DistinctNonces
    FirstHeight = 4
    MaxHeight = 8
    MaxReorg = 0
    MaxLag = 1
    MaxWork = 2
    Depth = 2
    ImmatureDepth = 1
    CoinBase = 9
    TxFee = 1
    ForeignReward = 10
    ShareDiff = 1
    PowWindow = 3
    Word = 64
    FeeNum = 1
    FeeDen = 100
    KeepTxFees = FALSE
    PoolFeeAddress = NoAddress
    LowerCase <- MCLowerCase
    FaultKinds = {}
    MaxFaults = 0
SYMMETRY SessionSymmetry
INVARIANTS
    RoundIntact
    SharesConserved
    PowRemembered
