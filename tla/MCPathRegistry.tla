--------------------------- MODULE MCPathRegistry ---------------------------
(* Bounded instances of PathRegistry: two known chains and one unknown.    *)
EXTENDS PathRegistry

MCChains == {"A", "B", "X"}
MCKnown == {"A", "B"}
MCPools == {"p1", "p2", "q1", "q2", "x1"}
MCTokens == {"t", "u", "v"}

Leg1(p) == <<[pool |-> p, tokenIn |-> "t", tokenOut |-> "u"]>>
Leg2(p, q) == Leg1(p) \o <<[pool |-> q, tokenIn |-> "u", tokenOut |-> "v"]>>
Leg3(p, q, joint) ==
    Leg1(p) \o <<[pool |-> q, tokenIn |-> joint, tokenOut |-> "v"],
                 [pool |-> p, tokenIn |-> "v", tokenOut |-> "u"]>>
BadEnd(p, q) == Leg1(p) \o <<[pool |-> q, tokenIn |-> "v", tokenOut |-> "u"]>>
At(c, a, legs) == [chain |-> c, anchor |-> a, legs |-> legs]

(* good: two legs with one first pool; shares: files p1 again; the others  *)
(* fail on the second path (late), on a joint, on a wrong end that nothing *)
(* notices, for want of another chain, or by a panic.                      *)
MCContent ==
    [good    |-> <<At("A", "t", <<Leg1("p1"), Leg2("p1", "p2")>>), At("B", "t", <<Leg1("q1"), Leg1("q2")>>)>>,
     three   |-> <<At("A", "t", <<Leg3("p2", "p1", "u")>>), At("B", "t", <<>>)>>,
     shares  |-> <<At("B", "t", <<Leg1("q2")>>), At("A", "t", <<Leg1("p1")>>)>>,
     late    |-> <<At("A", "t", <<Leg1("p2")>>), At("B", "u", <<Leg1("q1")>>)>>,
     joint   |-> <<At("A", "t", <<Leg3("p2", "p1", "v")>>), At("B", "t", <<Leg1("q2")>>)>>,
     badEnd  |-> <<At("A", "t", <<BadEnd("p2", "p1")>>), At("B", "t", <<Leg1("q1")>>)>>,
     single  |-> <<At("A", "t", <<Leg1("p2")>>)>>,
     unknown |-> <<At("A", "t", <<Leg1("p1")>>), At("X", "t", <<Leg1("x1")>>)>>,
     noLegs  |-> <<At("B", "t", <<Leg1("q2")>>), At("X", "t", <<>>)>>,
     empty   |-> <<At("A", "t", <<Leg1("p2")>>), At("B", "t", << <<>> >>)>>]
MCDocuments == DOMAIN MCContent
=============================================================================
