SPECIFICATION FairSpec
CONSTANTS
    n1 = n1  n2 = n2  p1 = p1  r1 = r1
    Networks = {n1, n2}
    Pools = {p1}
    Paths = {r1}
    On <- OnBoth
    MaxTime = 2
    MaxWrites = 3
CHECK_DEADLOCK FALSE
INVARIANTS
    StampCovers
PROPERTIES
    HandedOnOnce
    Delivered
