SPECIFICATION Spec
CONSTANTS
    Pools = {p1, p2}
    MaxBlock = 3
    StartBlock = 1
    BatchSizes = {1, 2}
    WaitTimes = {0}
    HeadLag = 1
    ChannelCap = 1
    MaxSubmissions = 2
SYMMETRY PoolSymmetry
INVARIANTS
    TypeOK
    ExactlyOnce
    NoEventSkipped
    ChangeReflected
    NoDuplicatePending
PROPERTIES
    AnnouncedOnce
    FollowsChain
