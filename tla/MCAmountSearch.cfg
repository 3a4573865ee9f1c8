SPECIFICATION SearchSpec
CONSTANTS
    Curves <- Tents
    Profit <- TentProfit
    Fails <- BelowDust
    MaxAmounts = {1, 7, 17, 50, 101, 230, 1700}
    Budgets = {4, 14, 20}
    LogSteps = 3
    Peaks = {0, 1, 9, 14, 15, 16, 17, 18, 29, 30, 31, 44, 60, 61, 90, 100, 107, 110, 150, 211, 900, 1000, 1699}
    Slopes <- FlatSteepGentleValley
    Costs = {0, 12}
    Dusts = {0, 8}
CHECK_DEADLOCK FALSE
INVARIANTS
    BestOfEvaluated
    PeakKept
