---------------------------- MODULE MCArbitrage ----------------------------
(* A small instance of Arbitrage for TLC: a leg of one pool on one network *)
(* against a leg of two on another.                                        *)
EXTENDS Arbitrage, TLC

CONSTANTS a, b, d, la, lb, east, west

PoolsOfLegs == la :> <<a>> @@ lb :> <<b, d>>
NetworkOfLegs == la :> east @@ lb :> west
=============================================================================
