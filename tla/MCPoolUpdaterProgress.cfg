SPECIFICATION FairSpec
CONSTANTS
    Pools = {p1, p2}
    MaxBlock = 2
    StartBlock = 0
    BatchSizes = {1}
    WaitTimes = {1}
    HeadLag = 1
    ChannelCap = 1
    MaxSubmissions = 2
ACTION_CONSTRAINT FewEvents
PROPERTIES
    CatchesUp
    PendingServed
