SPECIFICATION PoolsSpec
CONSTANTS
    WordBits = 15
    RatioBits = 8
    PriceBits = 6
    FactorBits = 14
    Factors <- MCFactors
    InverseSteps = 2
    LogBits = 4
    LogDigits = 3
    TicksPerLog = 33
    LowSlack = 3
    HighSlack = 80
    FeeUnit = 100
    MinTick <- Lowest
    MaxTick = 2
    Ranges <- MCRanges
    Amounts = {0, 20, 40}
    Prices <- MCPrices
    FeePips = {0, 10}
    RamsesFactor = 100
    Measured = 30
    Specified <- MCSpecified
    WordTicks = 2
    W = 9
    MaxPerTick = 60
    MaxEvents = 4
    MaxQuoted = 2
    LogCap = 2
    FeeDenominator = 20
    Exp18 = 100
    GetFeeMax = 10
    GetFeeMultiplier = 2
    ReverseFeeMax = 5
    MaxRounds = 12
    DefaultFee = 1
    Fees = {0, 3}
    Scales <- MCScales
    Reserves <- MCReserves
    PairAmounts <- MCPairAmounts
    MaxSteps = 3
CHECK_DEADLOCK FALSE
INVARIANTS
    InStep
    RejectsOnlyAfterLoss
    SwapRepairs
    Quotable
    Executable
    PairInStep
    PairExecutable
    PairNoPump
