SPECIFICATION Spec
CONSTANTS
    Pools = {p1}
    MaxBlock = 2
    StartBlock = 0
    BatchSizes = {1}
    WaitTimes = {1}
    HeadLag = 0
    ChannelCap = 1
    MaxSubmissions = 1
INVARIANTS
    NotAdvancedOnError
