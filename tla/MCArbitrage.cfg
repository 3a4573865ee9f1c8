SPECIFICATION FairSpec
CONSTANTS
    a = a  b = b  d = d
    la = la  lb = lb
    east = east  west = west
    Networks = {east, west}
    Pools = {a, b, d}
    Legs = {la, lb}
    PoolsOf <- PoolsOfLegs
    NetworkOf <- NetworkOfLegs
    Prices = {1, 4, Dry}
    Dry = Dry
    MinProfit = 1
    OppCap = 1
    MaxChanges = 2
CHECK_DEADLOCK FALSE
INVARIANTS
    FreshInputs
    ExecutingOwned
PROPERTIES
    Detected
    ExecutionEnds
