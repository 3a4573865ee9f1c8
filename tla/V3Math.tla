------------------------------- MODULE V3Math -------------------------------
(***************************************************************************)
(* The fixed-point library of the V3 pools: full_math, tick_math,          *)
(* sqrt_price_math and compute_swap_step, over words, prices and factors   *)
(* of any width.  An Err is -1, that of a tick NoTick; every other number  *)
(* is a natural one.                                                       *)
(***************************************************************************)
EXTENDS Integers, Sequences, FiniteSets, FiniteSetsExt

CONSTANTS
    WordBits,        \* of a U256: 256
    RatioBits,       \* of a sqrt price: 160
    PriceBits,       \* fraction bits of a sqrt price: 96
    FactorBits,      \* fraction bits of the factors: 128
    Factors,         \* Factors[n] is sqrt(1.0001) ^ -(2 ^ (n - 1))
    InverseSteps,    \* Newton steps from an inverse of 4 bits to a word: 6
    LogBits,         \* fraction bits of a logarithm and of TicksPerLog: 64
    LogDigits,       \* of them computed, the others stay 0: 14
    TicksPerLog,     \* 1 / log_2(sqrt(1.0001)), in units of 2 ^ -LogBits
    LowSlack,        \* how far the logarithm may lead to a tick below or above
    HighSlack,       \* the right one, in units of 2 ^ -(2 * LogBits)
    FeeUnit,         \* a fee of everything: 1000000 pips
    MinTick, MaxTick

Err == -1
NoTick == MaxTick + 1
Word == 2 ^ WordBits
Q == 2 ^ PriceBits
Ticks == MinTick .. MaxTick
Abs(n) == IF n < 0 THEN -n ELSE n
Try(result, Then(_)) == IF result = Err THEN Err ELSE Then(result)

ASSUME MathAssumption ==
    /\ {WordBits, RatioBits, PriceBits, FactorBits, FeeUnit, TicksPerLog} \subseteq Nat \ {0}
    /\ {InverseSteps, LogBits, LowSlack, HighSlack} \subseteq Nat
    /\ LogDigits \in 0..LogBits
    /\ LowSlack + HighSlack < 2 ^ (2 * LogBits)
    /\ Factors \in Seq(1 .. 2 ^ FactorBits)
    /\ MinTick \in Int /\ MaxTick \in Int /\ MinTick < MaxTick
    /\ \A t \in Ticks : Abs(t) < 2 ^ Len(Factors)
    /\ WordBits >= 4 /\ InverseSteps <= WordBits /\ WordBits <= 4 * 2 ^ InverseSteps
    /\ RatioBits <= WordBits /\ RatioBits <= 2 * PriceBits /\ FeeUnit < Word

(* A law of arithmetic, for as many powers as the proofs need.             *)
ASSUME PowersOfTwo ==
    2 ^ 0 = 1 /\ \A n \in 0 .. 2 * WordBits - 1 : 2 ^ n \in Nat /\ 2 ^ (n + 1) = 2 * 2 ^ n
-----------------------------------------------------------------------------
(* full_math.  The product of two words is a high and a low word, the      *)
(* residues modulo Word - 1 and Word give both.                            *)

Low(a, b) == (a * b) % Word
HighOf(mm, low) == (mm - low - (IF mm < low THEN 1 ELSE 0)) % Word
High(a, b) == HighOf((a * b) % (Word - 1), Low(a, b))

(* The inverse of an odd number modulo Word: the seed (3 d) XOR 2 has four *)
(* right bits, a Newton step doubles them.                                 *)
Inverse2(odd) ==
    LET seed == (3 * odd) % Word
        inv[n \in 0..InverseSteps] ==
            IF n = 0 THEN IF (seed \div 2) % 2 = 1 THEN seed - 2 ELSE seed + 2
            ELSE LET i == inv[n - 1] IN (i * ((2 - odd * i) % Word)) % Word
    IN  inv[InverseSteps]

(* The remainder makes the division exact; the powers of two are divided   *)
(* out of it, the rest is a multiplication by the inverse.                 *)
DividedBy(odd, twos, exactHigh, exactLow) ==
    LET joined == (exactLow \div twos + exactHigh * ((Word - twos) \div twos + 1)) % Word
    IN  (joined * Inverse2(odd)) % Word
Divided(high, low, r, d) ==
    LET twos == 2 ^ Cardinality({n \in 1 .. WordBits - 1 : d % 2 ^ n = 0})
    IN  DividedBy(d \div twos, twos, high - (IF r > low THEN 1 ELSE 0), (low - r) % Word)

Quotient(high, low, r, d) == IF high = 0 THEN low \div d ELSE Divided(high, low, r, d)
MulDiv(a, b, d) ==
    IF d <= High(a, b) THEN Err ELSE Quotient(High(a, b), Low(a, b), (a * b) % d, d)

MulDivRoundingUp(a, b, d) ==
    Try(MulDiv(a, b, d), LAMBDA result :
        IF (a * b) % d = 0 THEN result ELSE IF result = Word - 1 THEN Err ELSE result + 1)

MulDivQ96(a, b) ==
    IF High(a, b) >= Q THEN Err ELSE Low(a, b) \div Q + High(a, b) * (Word \div Q)

DivCeil(a, d) == a \div d + (IF a % d = 0 THEN 0 ELSE 1)
-----------------------------------------------------------------------------
(* tick_math *)

SqrtRatioAt(t) ==
    LET set(n) == (Abs(t) \div 2 ^ (n - 1)) % 2 = 1
        ratio[n \in 0..Len(Factors)] ==
            IF n = 0 THEN 2 ^ FactorBits
            ELSE IF set(n) THEN (ratio[n - 1] * Factors[n]) \div 2 ^ FactorBits
            ELSE ratio[n - 1]
        abs == ratio[Len(Factors)]
        unit == 2 ^ (FactorBits - PriceBits)
    IN  ((IF t > 0 THEN (2 ^ (2 * FactorBits) - 1) \div abs ELSE abs) + unit - 1) \div unit

SqrtRatios == [t \in Ticks |-> SqrtRatioAt(t)]
GetSqrtRatioAtTick(t) == IF t \in Ticks THEN SqrtRatios[t] ELSE Err

MostSignificantBit(x) == Cardinality({n \in 1..RatioBits : 2 ^ n <= x})

(* log_2 of a price with LogDigits digits: squaring doubles it, and what   *)
(* reaches two yields a digit.  The digits are the highest of LogBits.     *)
Log2(price) ==
    LET msb == MostSignificantBit(price)
        one == 2 ^ (FactorBits - 1)
        digit(r) == IF (r * r) \div one >= 2 * one THEN 1 ELSE 0
        at[n \in 0..LogDigits] ==
            IF n = 0 THEN [r |-> (price * one) \div 2 ^ msb, log |-> msb - PriceBits]
            ELSE LET last == at[n - 1]
                     bit == digit(last.r)
                 IN  [r |-> (last.r * last.r) \div (one * 2 ^ bit), log |-> 2 * last.log + bit]
    IN  at[LogDigits].log * 2 ^ (LogBits - LogDigits)

GetTickAtSqrtRatio(price) ==
    LET ticks == Log2(price) * TicksPerLog
        low == (ticks - LowSlack) \div 2 ^ (2 * LogBits)
        high == (ticks + HighSlack) \div 2 ^ (2 * LogBits)
    IN  IF price < SqrtRatios[MinTick] \/ price >= SqrtRatios[MaxTick] THEN NoTick
        ELSE IF low = high \/ SqrtRatioAt(high) <= price THEN high
        ELSE high - 1
-----------------------------------------------------------------------------
(* sqrt_price_math.  Prices of token0 are rounded up and of token1 down,   *)
(* away from what the trader would like.                                   *)

AsRatio(price) == IF price < 2 ^ RatioBits THEN price ELSE Err

Amount0Added(price, amount, numerator, product) ==
    LET denominator == (numerator + product) % Word
    IN  IF product \div amount = price /\ denominator >= numerator
        THEN MulDivRoundingUp(numerator, price, denominator)
        ELSE DivCeil(numerator, numerator \div price + amount)

Amount0Removed(price, amount, numerator, product) ==
    IF product \div amount = price /\ numerator > product
    THEN AsRatio(MulDivRoundingUp(numerator, price, numerator - product))
    ELSE Err

GetNextSqrtPriceFromAmount0RoundingUp(price, liquidity, amount, add) ==
    IF amount = 0 THEN price
    ELSE IF add THEN Amount0Added(price, amount, liquidity * Q, (amount * price) % Word)
    ELSE Amount0Removed(price, amount, liquidity * Q, (amount * price) % Word)

GetNextSqrtPriceFromAmount1RoundingDown(price, liquidity, amount, add) ==
    IF add THEN AsRatio(price + (amount * Q) \div liquidity)
    ELSE IF price > DivCeil(amount * Q, liquidity)
    THEN price - DivCeil(amount * Q, liquidity)
    ELSE Err

GetNextSqrtPriceFromInput(price, liquidity, amount, zeroForOne) ==
    IF price = 0 \/ liquidity = 0 THEN Err
    ELSE IF zeroForOne
    THEN GetNextSqrtPriceFromAmount0RoundingUp(price, liquidity, amount, TRUE)
    ELSE GetNextSqrtPriceFromAmount1RoundingDown(price, liquidity, amount, TRUE)

GetNextSqrtPriceFromOutput(price, liquidity, amount, zeroForOne) ==
    IF price = 0 \/ liquidity = 0 THEN Err
    ELSE IF zeroForOne
    THEN GetNextSqrtPriceFromAmount1RoundingDown(price, liquidity, amount, FALSE)
    ELSE GetNextSqrtPriceFromAmount0RoundingUp(price, liquidity, amount, FALSE)

(* The tokens a position of this liquidity holds between two prices. *)
GetAmount0Delta(a, b, liquidity, roundUp) ==
    LET lower == Min({a, b})
        upper == Max({a, b})
    IN  IF lower = 0 THEN Err
        ELSE IF roundUp
        THEN Try(MulDivRoundingUp(liquidity * Q, upper - lower, upper),
                 LAMBDA n : DivCeil(n, lower))
        ELSE Try(MulDiv(liquidity * Q, upper - lower, upper), LAMBDA n : n \div lower)

GetAmount1Delta(a, b, liquidity, roundUp) ==
    LET carry == IF roundUp /\ (liquidity * Abs(a - b)) % Q > 0 THEN 1 ELSE 0
    IN  Try(MulDivQ96(liquidity, Abs(a - b)), LAMBDA n : n + carry)
-----------------------------------------------------------------------------
(* compute_swap_step: the direction is read off the prices.                *)

AmountIn(from, to, liquidity, zeroForOne) ==
    IF zeroForOne THEN GetAmount0Delta(to, from, liquidity, TRUE)
    ELSE GetAmount1Delta(from, to, liquidity, TRUE)

AmountOut(from, to, liquidity, zeroForOne) ==
    IF zeroForOne THEN GetAmount1Delta(to, from, liquidity, FALSE)
    ELSE GetAmount0Delta(from, to, liquidity, FALSE)

FeeOf(in, fee) == MulDivRoundingUp(in, fee, FeeUnit - fee)

Step(next, in, out, fee) == [price |-> next, in |-> in, out |-> out, fee |-> fee]

(* What is left less its fee pays for all up to the target, or is spent on *)
(* the way there.                                                          *)
StepExactIn(from, target, liquidity, remaining, fee) ==
    LET zeroForOne == from >= target
        lessFee == MulDiv(remaining, FeeUnit - fee, FeeUnit)
        Reached(all) ==
            Step(target, all, AmountOut(from, target, liquidity, zeroForOne), FeeOf(all, fee))
        Short(next) ==
            Step(next, lessFee, AmountOut(from, next, liquidity, zeroForOne), remaining - lessFee)
        Stepped(all) ==
            IF lessFee >= all THEN Reached(all)
            ELSE Short(GetNextSqrtPriceFromInput(from, liquidity, lessFee, zeroForOne))
    IN  Stepped(AmountIn(from, target, liquidity, zeroForOne))

StepExactOut(from, target, liquidity, remaining, fee) ==
    LET zeroForOne == from >= target
        Paying(next, in, out) == Step(next, in, out, FeeOf(in, fee))
        Until(next, out) == Paying(next, AmountIn(from, next, liquidity, zeroForOne), out)
        Stepped(all) ==
            IF remaining >= all THEN Until(target, all)
            ELSE Until(GetNextSqrtPriceFromOutput(from, liquidity, remaining, zeroForOne), remaining)
    IN  Stepped(AmountOut(from, target, liquidity, zeroForOne))

ComputeSwapStep(from, target, liquidity, remaining, fee) ==
    IF remaining >= 0 THEN StepExactIn(from, target, liquidity, remaining, fee)
    ELSE StepExactOut(from, target, liquidity, -remaining, fee)
=============================================================================
