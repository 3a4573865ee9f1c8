SPECIFICATION Spec
CONSTANTS
    Documents <- MCDocuments
    Content <- MCContent
    Bad = "bad"
    Absent = "absent"
    Multicall3 = "multicall3"
    NoRpcs = "no rpcs"
    Tokens = {"t", "u"}
    ProfitTokens = {"t"}
    Pools <- MCPools
    TokensOf <- MCTokensOf
    MaxUpdates = 3
INVARIANTS
    AppliedInOrder
    CopiesAgree
    NoTokenForgotten
PROPERTIES
    PricesOfTheName
    PricesFollow
CHECK_DEADLOCK FALSE
