---------------------------- MODULE AmountSearch ----------------------------
(***************************************************************************)
(* handle_path: the search for the amount that a path earns most with.     *)
(* Some sample amounts are simulated in ascending order, then a ternary    *)
(* search narrows a window around the best sample.  What a simulation      *)
(* returns is a curve, an external parameter: the profit per amount; a     *)
(* simulation may panic, because simulate_amount unwraps calculate_output, *)
(* and a V2 pool rejects an amount that a smaller one before it rounded to *)
(* zero.  One run of the function; a step is one turn of a loop.           *)
(***************************************************************************)
EXTENDS Integers, FiniteSets, FiniteSetsExt

CONSTANTS
    Curves,            \* the profits per amount a path can have
    Profit(_, _),      \* Profit(c, x): what curve c pays for the amount x
    Fails(_, _),       \* Fails(c, x): the simulation of x panics
    MaxAmounts,        \* values of max_amount
    Budgets,           \* values of max_iterations
    LogSteps           \* bound: factors of 100 in the logarithmic samples

Smallest == 100
Higher(a, b) == IF a >= b THEN a ELSE b
Amounts(m) == 0..Higher(m, Smallest)

ASSUME SearchAssumption ==
    /\ MaxAmounts \subseteq Nat /\ Budgets \subseteq Nat
    /\ LogSteps \in Nat /\ \A k \in 0..LogSteps : 100 ^ k \in Nat
    /\ \A c \in Curves, m \in MaxAmounts : \A x \in Amounts(m) : Profit(c, x) \in Int

VARIABLES
    curve, maxAmount, maxIterations,   \* the arguments
    pc,
    left,                \* sample_points not simulated yet
    iterations,
    best,                \* best_amount_in, best_profit
    window,              \* low, high
    search,              \* search_low, search_high
    evaluated            \* history: the amounts simulated so far

arguments == <<curve, maxAmount, maxIterations>>
searchVars == <<arguments, pc, left, iterations, best, window, search, evaluated>>

Lower(a, b) == IF a <= b THEN a ELSE b
Ended == {"none", "found", "panicked"}
Interval == [low : Nat, high : Nat \cup {-1}]
-----------------------------------------------------------------------------
Fractions(m) ==
    {m, m \div 2} \cup {(m * k) \div 8 : k \in {1, 3, 5, 7}}
        \cup {m \div 4, (m * 3) \div 4, m \div 16, (m * 15) \div 16}
LogPoints(m) == {p \in {10 * 100 ^ k : k \in 0..LogSteps} : m > 16 /\ p < m \div 16}
KeyPoints(m) == {Smallest} \cup Fractions(m) \cup LogPoints(m)

MinSamples == 8

(* Evenly spaced points if there are fewer than min_samples. *)
Filling(m) ==
    LET needed == MinSamples - Cardinality(KeyPoints(m))
        step == m \div (needed + 1)
    IN  IF needed > 0 /\ m > Smallest
        THEN {x \in {step * i : i \in 1..needed} : x > 1 /\ x < m}
        ELSE {}

SamplePoints(m) == KeyPoints(m) \cup Filling(m)

(* The window around the best sample b: two thirds of b to either side. *)
Radius(b) == IF b > 4 THEN (b * 2) \div 3 ELSE 1
Window(b, m) ==
    [low |-> IF b > Radius(b) THEN b - Radius(b) ELSE 1,
     high |-> Lower(b + Radius(b), m)]

Mid1(s) == s.low + (s.high - s.low) \div 3
Mid2(s) == s.low + ((s.high - s.low) * 2) \div 3

(* best after x was simulated: a later amount must pay strictly more.      *)
Better(old, x) ==
    IF Profit(curve, x) > old.profit
    THEN [amount |-> x, profit |-> Profit(curve, x)]
    ELSE old
BetterOfFirst(old, s) == Better(old, Mid1(s))
BetterOfBoth(old, s) == Better(Better(old, Mid1(s)), Mid2(s))

-----------------------------------------------------------------------------
SearchTypeOK ==
    /\ curve \in Curves /\ maxAmount \in MaxAmounts /\ maxIterations \in Budgets
    /\ pc \in {"start", "sample", "focus", "narrow"} \cup Ended
    /\ left \subseteq SamplePoints(maxAmount)
    /\ iterations \in 0..maxIterations + 1
    /\ best.amount \in Nat /\ best.profit \in Nat
    /\ window \in Interval /\ search \in Interval
    /\ evaluated \subseteq Amounts(maxAmount)

SearchInit ==
    /\ curve \in Curves /\ maxAmount \in MaxAmounts /\ maxIterations \in Budgets
    /\ pc = "start" /\ left = {} /\ iterations = 0
    /\ best = [amount |-> 0, profit |-> 0]
    /\ window = [low |-> 1, high |-> 0] /\ search = [low |-> 1, high |-> 0]
    /\ evaluated = {}

(* "If max_amount is too small, return early" *)
Begin ==
    /\ pc = "start"
    /\ IF maxAmount <= 1
       THEN pc' = "none" /\ UNCHANGED left
       ELSE pc' = "sample" /\ left' = SamplePoints(maxAmount)
    /\ UNCHANGED <<arguments, iterations, best, window, search, evaluated>>

SimulateSample(x) ==
    /\ pc = "sample" /\ left # {} /\ x = Min(left)
    /\ iterations < maxIterations /\ ~Fails(curve, x)
    /\ iterations' = iterations + 1
    /\ best' = Better(best, x)
    /\ left' = left \ {x} /\ evaluated' = evaluated \cup {x}
    /\ UNCHANGED <<arguments, pc, window, search>>

(* calculate_output(..).unwrap() on an Err. *)
SamplePanics(x) ==
    /\ pc = "sample" /\ left # {} /\ x = Min(left)
    /\ iterations < maxIterations /\ Fails(curve, x)
    /\ pc' = "panicked"
    /\ UNCHANGED <<arguments, left, iterations, best, window, search, evaluated>>

(* All samples simulated, or the budget is spent and the rest left out.    *)
SamplesDone ==
    /\ pc = "sample" /\ (left = {} \/ iterations = maxIterations)
    /\ pc' = IF best.profit = 0 THEN "none" ELSE "focus"
    /\ iterations' = IF left = {} THEN iterations ELSE iterations + 1
    /\ UNCHANGED <<arguments, left, best, window, search, evaluated>>

(* The best sample is the first of the stable descending sort: the smallest *)
(* of those that pay most, and so best.amount.                             *)
Focus ==
    /\ pc = "focus"
    /\ IF iterations < maxIterations
       THEN LET w == Window(best.amount, maxAmount)
            IN  /\ window' = w /\ search' = w
                /\ pc' = IF w.high > w.low + 10 THEN "narrow" ELSE "found"
       ELSE pc' = "found" /\ UNCHANGED <<window, search>>
    /\ UNCHANGED <<arguments, left, iterations, best, evaluated>>

Goes == search.low <= search.high /\ iterations < maxIterations

(* What remains once mid1 and mid2 are compared.                           *)
DropWrongSide(s) ==
    IF Profit(curve, Mid1(s)) >= Profit(curve, Mid2(s))
    THEN [s EXCEPT !.low = Mid1(s) + 1]
    ELSE [s EXCEPT !.high = Mid2(s) - 1]
Narrowed(s) ==
    IF Profit(curve, Mid1(s)) >= Profit(curve, Mid2(s))
    THEN [s EXCEPT !.high = Mid2(s) - 1]
    ELSE [s EXCEPT !.low = Mid1(s) + 1]

Narrow ==
    /\ pc = "narrow" /\ Goes /\ search.low # search.high
    /\ ~Fails(curve, Mid1(search)) /\ ~Fails(curve, Mid2(search))
    /\ iterations' = iterations + 1
    /\ best' = BetterOfBoth(best, search)
    /\ evaluated' = evaluated \cup {Mid1(search), Mid2(search)}
    /\ search' = Narrowed(search)
    /\ UNCHANGED <<arguments, pc, left, window>>

NarrowToOne ==
    /\ pc = "narrow" /\ Goes /\ search.low = search.high
    /\ ~Fails(curve, search.low)
    /\ iterations' = iterations + 1
    /\ best' = Better(best, search.low)
    /\ evaluated' = evaluated \cup {search.low}
    /\ pc' = "found"
    /\ UNCHANGED <<arguments, left, window, search>>

NarrowPanics ==
    /\ pc = "narrow" /\ Goes
    /\ Fails(curve, Mid1(search)) \/ Fails(curve, Mid2(search))
    /\ pc' = "panicked"
    /\ UNCHANGED <<arguments, left, iterations, best, window, search, evaluated>>

NarrowDone ==
    /\ pc = "narrow" /\ ~Goes
    /\ pc' = "found"
    /\ UNCHANGED <<arguments, left, iterations, best, window, search, evaluated>>

SearchNext ==
    \/ Begin
    \/ \E x \in left : SimulateSample(x) \/ SamplePanics(x)
    \/ SamplesDone \/ Focus
    \/ Narrow \/ NarrowToOne \/ NarrowPanics \/ NarrowDone

SearchSpec == SearchInit /\ [][SearchNext]_searchVars
-----------------------------------------------------------------------------
(* Properties. *)

(* The answer is an amount that was simulated, pays what is said, and pays *)
(* at least as much as every other amount that was simulated; and          *)
(* max_iterations bounds their number: a turn simulates at most two.       *)
BestOfEvaluated ==
    /\ Cardinality(evaluated) <= 2 * maxIterations
    /\ best.profit > 0 => best.amount \in evaluated /\ best.profit = Profit(curve, best.amount)
    /\ \A x \in evaluated : Profit(curve, x) <= best.profit

Gain(x) == Profit(curve, x + 1) - Profit(curve, x)
Concave(s) == \A x \in s.low .. s.high - 2 : Gain(x) >= Gain(x + 1)

(* On a concave curve the ternary search loses nothing: an amount of the   *)
(* window that pays more than the best one so far is still searched,       *)
(* or lies next to an amount that was simulated.  (The neighbour: with two *)
(* amounts left mid1 = mid2, and the upper one is never looked at.)        *)
PeakKept ==
    pc \in {"narrow", "found"} /\ window.high > window.low + 10 /\ Concave(window) =>
        \A x \in window.low .. window.high :
            Profit(curve, x) > best.profit =>
                \/ x \in search.low .. search.high
                \/ x - 1 \in evaluated
=============================================================================
