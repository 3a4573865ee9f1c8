------------------------------ MODULE V3Quote ------------------------------
(***************************************************************************)
(* Quotes from a pool that V3Pool keeps in step: the loop of v3_swap, one  *)
(* action per turn, with the fee and the factor the pool was fetched with, *)
(* against the swap of the contract.  A quote works on a clone, so the     *)
(* rest waits for it.                                                      *)
(***************************************************************************)
EXTENDS V3Pool

CONSTANTS
    FeePips,         \* what contracts charge
    RamsesFactor,    \* the ratio_conversion_factor that changes nothing
    Measured,        \* the amount it is measured with
    Specified,       \* amounts quoted: of input, negative: of output
    WordTicks,       \* ticks a word of the contract's tick bitmap spans
    MaxQuoted        \* bound: events after which pools are still quoted

ASSUME QuoteAssumption ==
    /\ FeePips \subseteq 0 .. FeeUnit - 1 /\ Specified \subseteq 1 - Word .. Word - 1
    /\ \A fee \in FeePips : UMax * Q * fee <= (Word - 1) * (FeeUnit - fee)
    /\ {RamsesFactor, Measured, WordTicks} \subseteq Nat \ {0} /\ MaxQuoted \in Nat
    /\ RamsesFactor < Word

VARIABLE quote       \* the loop of v3_swap that runs, or Idle

quoteVars == <<vars, quote>>

Idle == [end |-> "idle"]

(* A contract charges by direction; what its fee() tells is the truth but  *)
(* for RamsesV2.                                                           *)
Charging(kind, told, charged) == [kind |-> kind, told |-> told, charged |-> charged]
Contracts ==
    {Charging("UniswapV3", f, [down \in BOOLEAN |-> f]) : f \in FeePips}
        \cup {Charging("AlgebraTwoSideFee", 0, c) : c \in [BOOLEAN -> FeePips]}
        \cup {Charging("RamsesV2", f, [down \in BOOLEAN |-> g]) : f, g \in FeePips}

(* fetch_v3_pool: of two fees the higher one. *)
FetchedLowerFee(contract) ==
    IF contract.kind = "AlgebraTwoSideFee"
    THEN Min({contract.charged[down] : down \in BOOLEAN})
    ELSE contract.told
FetchedFee(contract) ==
    IF contract.kind = "AlgebraTwoSideFee"
    THEN Max({contract.charged[down] : down \in BOOLEAN})
    ELSE contract.told

(* v3_swap *)

Limit(down) == IF down THEN PriceAt(MinTick) + 1 ELSE PriceAt(MaxTick) - 1

(* next_initialized_tick_within_one_word; without one, the tick itself.    *)
(* v3_swap clamps it to Ticks, where a walk inside the limits stays.       *)
AheadStrictly(t, down) == {u \in DOMAIN pool.ticks : IF down THEN u < t ELSE u > t}
Ahead(t, down) == {u \in DOMAIN pool.ticks : IF down THEN u <= t ELSE u > t}
NextTick(t, down) ==
    IF Ahead(t, down) = {} THEN t ELSE IF down THEN Max(Ahead(t, down)) ELSE Min(Ahead(t, down))

(* add_delta: an Err if the sum is no u128. *)
Crossed(s, next) ==
    IF Ahead(s.tick, s.down) = {}
    THEN s.liquidity
    ELSE s.liquidity + (IF s.down THEN -1 ELSE 1) * pool.ticks[next].net

Onto(next, down) == IF down THEN next - 1 ELSE next

(* What a step takes and gives is booked: of an input what is left, of an  *)
(* output what is still missing (negative).                                *)
Booked(s, step) ==
    IF s.specified >= 0
    THEN [s EXCEPT !.price = step.price, !.left = @ - step.in - step.fee, !.calculated = @ + step.out]
    ELSE [s EXCEPT !.price = step.price, !.left = @ + step.out, !.calculated = @ + step.in + step.fee]

(* At the price of the next tick the tick is crossed. *)
Moved(s, from, next) ==
    IF s.price = PriceAt(next)
    THEN [s EXCEPT !.tick = Onto(next, s.down), !.liquidity = Crossed(s, next)]
    ELSE IF s.price # from THEN [s EXCEPT !.tick = GetTickAtSqrtRatio(s.price)] ELSE s

Checked(s, crossed) ==
    [s EXCEPT !.end =
        IF s.liquidity \notin 0..UMax \/ s.tick = NoTick THEN "error"
        ELSE IF crossed /\ s.liquidity = 0 THEN "dry"
        ELSE IF s.left = 0 THEN "filled"
        ELSE IF s.price = Limit(s.down) THEN "limit"
        ELSE "no"]

Settled(s, next, step) ==
    IF Err \in {step.price, step.in, step.out, step.fee}
    THEN [s EXCEPT !.end = "error"]
    ELSE Checked(Moved([Booked(s, step) EXCEPT !.turns = @ + 1], s.price, next),
                 step.price = PriceAt(next))

Target(next, down) ==
    IF down THEN Max({PriceAt(next), Limit(TRUE)}) ELSE Min({PriceAt(next), Limit(FALSE)})

TurnTo(s, next) ==
    Settled(s, next, ComputeSwapStep(s.price, Target(next, s.down), s.liquidity, s.left, s.fee))
Turn(s) == TurnTo(s, NextTick(s.tick, s.down))

(* "RATIO_CURRENT": an Err if the price is at the limit already.           *)
Start(contract, down, specified) ==
    [contract |-> contract, fee |-> FetchedFee(contract),
     down |-> down, specified |-> specified, turns |-> 0,
     price |-> pool.price, tick |-> pool.tick, liquidity |-> pool.liquidity,
     left |-> specified, calculated |-> 0,
     end |-> IF pool.price = Limit(down) THEN "error"
             ELSE IF specified = 0 THEN "filled" ELSE "no"]

(* As many turns as a walk over every tick can take, with what has ended   *)
(* left as it is.                                                          *)
Turns == Cardinality(Ticks) + 1
Result(contract, down, specified) ==
    LET walk[n \in 0..Turns] ==
            IF n = 0 THEN Start(contract, down, specified)
            ELSE LET s == walk[n - 1] IN IF s.end = "no" THEN Turn(s) ELSE s
    IN  walk[Turns]

InStepNow == whole /\ log = <<>>

(* Only pools in step are quoted: nothing is promised of the others.       *)
BeginQuote(contract, down, specified) ==
    /\ quote = Idle /\ InStepNow /\ events <= MaxQuoted
    /\ quote' = Start(contract, down, specified)
    /\ UNCHANGED vars

QuoteTurn ==
    /\ quote.end = "no" /\ quote.turns <= Turns
    /\ quote' = Turn(quote)
    /\ UNCHANGED vars

EndQuote ==
    /\ quote.end \notin {"idle", "no"}
    /\ quote' = Idle
    /\ UNCHANGED vars

QuoteInit == Init /\ quote = Idle

QuoteNext ==
    \/ quote = Idle /\ Next /\ UNCHANGED quote
    \/ \E down \in BOOLEAN, specified \in Specified, contract \in Contracts :
        BeginQuote(contract, down, specified)
    \/ QuoteTurn
    \/ EndQuote

QuoteSpec == QuoteInit /\ [][QuoteNext]_quoteVars
-----------------------------------------------------------------------------
(* The contract's swap (external), in exact fractions: it stops at every   *)
(* border of a word of its bitmap, initialized or not, and walks on over   *)
(* ranges without liquidity.                                               *)

Cost(l, from, to) ==
    IF to <= from THEN DivCeil(l * Q * (from - to), from * to) ELSE DivCeil(l * (to - from), Q)

(* As far as the price goes for an input that does not pay for the target. *)
Reaches(net, l, from, down) ==
    IF down THEN DivCeil(l * Q * from, l * Q + net * from) ELSE from + (net * Q) \div l

Gain(l, from, to) ==
    IF to <= from THEN (l * (from - to)) \div Q ELSE (l * Q * (to - from)) \div (from * to)

WordOf(t, down) == (IF down THEN t ELSE t + 1) \div WordTicks
ContractStop(t, down) ==
    LET border == IF down THEN Max({WordOf(t, down) * WordTicks, MinTick})
                  ELSE Min({(WordOf(t, down) + 1) * WordTicks - 1, MaxTick})
        ahead == {u \in Ticks : Gross(u) > 0
                    /\ IF down THEN u \in border..t ELSE u \in t + 1 .. border}
    IN  IF ahead = {} THEN border ELSE IF down THEN Max(ahead) ELSE Min(ahead)

ContractGoes(s, next, to, left) ==
    [s EXCEPT
        !.price = to, !.left = left,
        !.tick = IF to = PriceAt(next) THEN Onto(next, s.down) ELSE TickOf(to),
        !.liquidity = IF to = PriceAt(next) THEN Active(Onto(next, s.down)) ELSE @,
        !.calculated = @ + Gain(s.liquidity, s.price, to),
        !.end = IF left = 0 \/ to = Limit(s.down) THEN "filled" ELSE "no"]

WithFee(cost, fee) == cost + DivCeil(cost * fee, FeeUnit - fee)
ContractStep(s, next, target, net, cost) ==
    IF cost <= net
    THEN ContractGoes(s, next, target, s.left - WithFee(cost, s.fee))
    ELSE ContractGoes(s, next, Reaches(net, s.liquidity, s.price, s.down), 0)

ContractTo(s, next, target) ==
    ContractStep(s, next, target, (s.left * (FeeUnit - s.fee)) \div FeeUnit,
                 Cost(s.liquidity, s.price, target))

ContractTurn(s) ==
    LET next == ContractStop(s.tick, s.down) IN ContractTo(s, next, Target(next, s.down))

Paid(contract, down, specified) ==
    LET walk[n \in 0 .. 2 * Turns] ==
            IF n = 0
            THEN [Start(contract, down, specified) EXCEPT
                    !.fee = contract.charged[down], !.price = price, !.tick = tick, !.liquidity = Active(tick)]
            ELSE LET s == walk[n - 1] IN IF s.end = "no" THEN ContractTurn(s) ELSE s
    IN  walk[2 * Turns]
-----------------------------------------------------------------------------
Ended == quote.end \in {"filled", "limit", "dry"}

(* calculate_ratio_conversion_factor: what the quoter of the factory pays  *)
(* for Measured, compared with the estimate.  A pool in step is what a     *)
(* fetch returns, so the factor is that of a pool just fetched.  The       *)
(* largest word stands for an estimate of nothing, and comes out of 0 - 1  *)
(* as well.                                                                *)
MeasuredFactor(contract, down) ==
    LET out == Paid(contract, down, Measured).calculated
        estimate == Result(contract, down, Measured).calculated
    IN  IF estimate = 0 THEN Word - 1
        ELSE IF out = estimate THEN RamsesFactor
        ELSE ((out * RamsesFactor) \div estimate - 1) % Word

RatioConversionFactor(contract) ==
    LET factors == {MeasuredFactor(contract, down) : down \in BOOLEAN}
    IN  IF factors = {Word - 1} THEN RamsesFactor ELSE Min(factors)

(* calculate_exact_input *)
Quoted ==
    IF quote.contract.kind = "RamsesV2"
    THEN (quote.calculated * RatioConversionFactor(quote.contract)) \div RamsesFactor
    ELSE quote.calculated
-----------------------------------------------------------------------------
(* Properties. *)

(* A quote from a pool in step is an error only if the price is at the     *)
(* limit already.  It ends in as many turns as there are ticks, and after  *)
(* each of them liquidity, tick and price belong together: the liquidity   *)
(* is that of the ranges over the tick, the price is between its borders.  *)
Quotable ==
    /\ quote.end = "error" => pool.price = Limit(quote.down)
    /\ quote.end \notin {"idle", "error"} =>
        /\ quote.turns <= Turns
        /\ quote.liquidity = Active(quote.tick)
        /\ PriceAt(quote.tick) <= quote.price
        /\ quote.tick < MaxTick => quote.price <= PriceAt(quote.tick + 1)

(* Each word of the bitmap a quote comes past is a border at which the     *)
(* contract rounds once more: a unit of output less, and of input what a   *)
(* cost in two parts takes more, a unit with its fee and a unit of fee.    *)
WordsPassed == Abs(WordOf(quote.tick, quote.down) - WordOf(pool.tick, quote.down))
MoreInTwoParts(fee) == WithFee(1, fee) + 1

(* No product of price and amount leaves the word (beyond it both round    *)
(* a price more coarsely than the fractions here).                         *)
Roomy(input) == \A t \in Ticks : Active(t) * Q + input * pool.price < Word

PaidFor(input) == Paid(quote.contract, quote.down, input).calculated

(* What a quote for an input promises is paid, but for that rounding.  For *)
(* RamsesV2, whose fee() misleads, this is what the measured factor is     *)
(* for: it holds for the amount the factor was measured with, provided     *)
(* that the quoter pays at all.                                            *)
QuotePaid ==
    Ended /\ quote.specified >= 0 =>
        /\ quote.contract.kind # "RamsesV2" =>
            quote.calculated <= WordsPassed
                + PaidFor(quote.specified
                    + WordsPassed * MoreInTwoParts(quote.contract.charged[quote.down]))
        /\ /\ quote.contract.kind = "RamsesV2" /\ quote.specified = Measured
           /\ quote.calculated <= PaidFor(Measured) * RamsesFactor
           => Quoted <= PaidFor(Measured)

(* Where the fee is known, a quote that did not run dry promises all that  *)
(* is paid.                                                                *)
QuoteTight ==
    /\ Ended /\ quote.specified >= 0 /\ Roomy(quote.specified)
    /\ quote.contract.kind = "UniswapV3" /\ quote.end # "dry"
    => PaidFor(quote.specified) <= quote.calculated

(* An input quoted for an output buys that output.                         *)
QuoteBuys ==
    quote.end = "filled" /\ quote.specified < 0 /\ Roomy(quote.calculated) =>
        Result(quote.contract, quote.down, quote.calculated).calculated >= -quote.specified

(* So a quote is what a trader gets, in either direction and for either    *)
(* side of the trade.                                                      *)
Executable == QuotePaid /\ QuoteTight /\ QuoteBuys
=============================================================================
