SPECIFICATION Spec
CONSTANTS
    Chains <- MCChains
    Pools <- MCPools
    Tokens <- MCTokens
    Known <- MCKnown
    Documents <- MCDocuments
    Content <- MCContent
INVARIANTS
    InstalledVerified
    FoundFromBothSides
    SourcesPriced
CHECK_DEADLOCK FALSE
