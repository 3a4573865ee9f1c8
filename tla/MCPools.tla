------------------------------ MODULE MCPools ------------------------------
(* A small pool of either kind for TLC.                                    *)
EXTENDS Pools

(* Nested and adjacent ranges, and a gap. *)
MCRanges == {<<-2, 2>>, <<-2, -1>>, <<0, 1>>, <<1, 2>>}
MCPrices == {40, 64, 80}
Lowest == -2

(* 2 ^ 14 times 1.4 ^ -(1 and 2).  1 / log_2(1.4) is 2.0600...: 33 / 16 is  *)
(* as near as four fraction bits come, and no whole number is.             *)
MCFactors == <<11703, 8359>>
MCSpecified == {1, 30, 200, -6, -25}

(* A denominator of 20 and a scale of 100 keep every product within TLC's  *)
(* integers and leave all divisions inexact.                               *)
MCReserves == {<<30, 32>>, <<110, 13>>, <<5, 6>>, <<0, 12>>}
MCScales == {<<100, 100>>, <<50, 50>>, <<50, 100>>}
MCPairAmounts == {0, 3, 40}
=============================================================================
