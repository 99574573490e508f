SPECIFICATION FairSpec
CONSTANTS
    Sessions = {s1, s2}
    Second = 2
    Day = 1
    EstimationWindow = 0
    LuckWindow = 1
    LuckLargeWindow = 2
    MaxNow = 4
    MaxShares = 2
INVARIANTS
    TypeOK
    SharesKept
    BlocksKept
    RoundsAddUp
PROPERTIES
    LoginEnds
