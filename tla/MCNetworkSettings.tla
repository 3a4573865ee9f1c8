------------------------- MODULE MCNetworkSettings -------------------------
(* A bounded instance of NetworkSettings: documents that differ in         *)
(* everything, in one of two values compared together, or fail midway.     *)
EXTENDS NetworkSettings

Plain(v) == [name |-> v, rpcs |-> v, wrap |-> v, minProfit |-> v,
             aero |-> v, fees |-> v, multicall |-> v, wait |-> v, batch |-> v]
MCContent ==
    [a         |-> Plain("a"),
     b         |-> [Plain("b") EXCEPT !.multicall = "absent"],
     fees      |-> [Plain("a") EXCEPT !.fees = "b"],
     wrap      |-> [Plain("b") EXCEPT !.wrap = "bad"],
     aero      |-> [Plain("b") EXCEPT !.aero = "bad"],
     multicall |-> [Plain("b") EXCEPT !.multicall = "bad"],
     noRpcs    |-> [Plain("b") EXCEPT !.rpcs = "no rpcs"]]
MCDocuments == DOMAIN MCContent
MCTokensOf == [p |-> {"t", "u"}]
MCPools == DOMAIN MCTokensOf
=============================================================================
