--------------------------- MODULE MCAmountSearch ---------------------------
(* Instances of AmountSearch for TLC: a curve rises to a peak with one     *)
(* slope and falls with another (or stays level, or it is a valley), less  *)
(* a fixed cost; below some amount the simulation panics.                  *)
EXTENDS AmountSearch

CONSTANTS Peaks, Slopes, Costs, Dusts

Tents == [peak : Peaks, slopes : Slopes, cost : Costs, dust : Dusts]
TentProfit(c, x) ==
    (IF x <= c.peak THEN c.slopes[1] * x
                    ELSE c.slopes[1] * c.peak - c.slopes[2] * (x - c.peak)) - c.cost
BelowDust(c, x) == x < c.dust

FlatSteepGentleValley == {<<1, 0>>, <<1, 5>>, <<3, 1>>, <<-1, -2>>}
=============================================================================
