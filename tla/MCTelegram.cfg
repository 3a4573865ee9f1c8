SPECIFICATION FairSpec
CONSTANTS
    p1 = p1
    p2 = p2
    Paths <- MCPaths
    ToldBefore <- MCToldBefore
    MaxTasks = 3
    Durations = {1, 2}
    MaxPresses = 2
    Interval = 1
    MaxNow = 3
    None = None
CHECK_DEADLOCK FALSE
INVARIANTS
    ErrorsThrottled
PROPERTIES
    MutesHold
    NothingPends
