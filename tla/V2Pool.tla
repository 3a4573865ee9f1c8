------------------------------- MODULE V2Pool -------------------------------
(***************************************************************************)
(* A cached Uniswap-V2 pool, on the constant-product or on the stable      *)
(* curve.  It is fetched once with its fee, follows the Sync events of the *)
(* pair contract, is quoted in both directions, and snapshots of it        *)
(* (clone_box) take quoted swaps with apply_swap.                          *)
(*                                                                         *)
(* All divisions round down as U256 divisions do.  The 256-bit width is    *)
(* not modelled: the contract evaluates the same products with overflow    *)
(* checks, so reserves at which they overflow are not traded.              *)
(***************************************************************************)
EXTENDS Integers, Sequences, FiniteSets, Functions

CONSTANTS
    FeeDenominator, Exp18, GetFeeMax, GetFeeMultiplier, ReverseFeeMax,
    MaxRounds,       \* iterations get_y may take
    DefaultFee,      \* default_factory_fee_by_chain_id
    Fees,            \* fees pairs charge, in units of 1 / GetFeeMax
    Scales,          \* pairs of 10 ^ decimals of the tokens
    Reserves,        \* pairs of reserves the contract can have
    Amounts,         \* amounts quoted
    MaxSteps         \* bound: changes of the contract's reserves, and swaps
                     \* applied to snapshots

V2Constants ==
    /\ {FeeDenominator, Exp18, GetFeeMax, GetFeeMultiplier} \subseteq Nat \ {0}
    /\ FeeDenominator = GetFeeMax * GetFeeMultiplier
    /\ ReverseFeeMax \in 0..GetFeeMax - 1 /\ DefaultFee \in 0..FeeDenominator - 1
    /\ Fees \subseteq 0..GetFeeMax - 1
    /\ Scales \subseteq (Nat \ {0}) \X (Nat \ {0}) /\ Reserves \subseteq Nat \X Nat
    /\ Amounts \subseteq Nat /\ {MaxRounds, MaxSteps} \subseteq Nat

Directions == {0, 1}     \* token0 -> token1 and token1 -> token0

VARIABLES
    pair,            \* the contract
    log,             \* its events not applied yet
    steps,           \* bound: changes and swaps so far
    pool,            \* the cached UniswapV2Pool
    stale,           \* history: a Sync was lost and none applied since
    snapshot         \* a clone of the pool with swaps applied, and its origin

vars == <<pair, log, steps, pool, stale, snapshot>>
-----------------------------------------------------------------------------
(* The curves.  Failed is an Err, Panics the division by zero in get_y and *)
(* Wraps a difference below zero.                                          *)

Failed == -1
Panics == -2
Wraps == -3

F(x, y) ==
    LET a == (x * y) \div Exp18
        b == (x * x) \div Exp18 + (y * y) \div Exp18
    IN  (a * b) \div Exp18

D(x, y) ==
    (3 * x * ((y * y) \div Exp18)) \div Exp18 + (((x * x) \div Exp18) * x) \div Exp18

Scaled(r, scale) == (r * Exp18) \div scale

K(p, x, y) == IF p.stable THEN F(Scaled(x, p.scale[1]), Scaled(y, p.scale[2])) ELSE x * y

TurnDown(p, x, xy, y) ==
    LET k == F(x, y)
        d == D(x, y)
        dy == ((IF k < xy THEN xy - k ELSE k - xy) * Exp18) \div d
    IN  IF d = 0 THEN [done |-> TRUE, y |-> Panics]
        ELSE [done |-> dy = 0, y |-> IF k < xy THEN y + dy ELSE y - dy - (IF k > xy /\ dy = 0 THEN 1 ELSE 0)]

(* One turn of get_y: an answer or the next y.                             *)
Turn(p, x, xy, y) ==
    LET k == F(x, y)
        d == D(x, y)
        short == k < xy
        dy == ((IF short THEN xy - k ELSE k - xy) * Exp18) \div d
        step == IF dy = 0 THEN 1 ELSE dy
    IN  IF d = 0 THEN [done |-> TRUE, y |-> Panics]
        ELSE IF short
        THEN IF dy = 0 /\ K(p, x, y + 1) > xy
             THEN [done |-> TRUE, y |-> y + 1]
             ELSE [done |-> FALSE, y |-> y + step]
        ELSE IF dy = 0 /\ (k = xy \/ F(x, y - 1) < xy)
             THEN [done |-> TRUE, y |-> y]
             ELSE IF step > y THEN [done |-> TRUE, y |-> Wraps]
             ELSE [done |-> FALSE, y |-> y - step]

GetY(p, x, xy, from) ==
    LET after[n \in 0..MaxRounds] ==
            IF n = 0 THEN [done |-> FALSE, y |-> from]
            ELSE LET last == after[n - 1]
                 IN  IF last.done THEN last ELSE Turn(p, x, xy, last.y)
        end == after[MaxRounds]
    IN  IF end.done THEN end.y ELSE Failed

(* From and Into are the sides of the reserves a swap pays into and out of. *)
From(dir) == dir + 1
Into(dir) == 2 - dir

ProductOutput(p, dir, a) ==
    LET x == p.reserves[From(dir)]
        y == p.reserves[Into(dir)]
        paid == a * (FeeDenominator - p.fee)
        out == (paid * y) \div (x * FeeDenominator + paid)
    IN  IF out >= y THEN Failed ELSE out

StableOutput(p, dir, a) ==
    LET side(n) == Scaled(p.reserves[n], p.scale[n])
        paid == (a * (FeeDenominator - p.fee)) \div FeeDenominator
        x == Scaled(paid, p.scale[From(dir)]) + side(From(dir))
        y == GetY(p, x, K(p, p.reserves[1], p.reserves[2]), side(Into(dir)))
    IN  IF y < 0 THEN y
        ELSE IF y > side(Into(dir)) THEN Wraps
        ELSE ((side(Into(dir)) - y) * p.scale[Into(dir)]) \div Exp18

Valid(p) == 0 \notin Range(p.reserves)

CalculateOutput(p, dir, a) ==
    IF a = 0 \/ ~Valid(p) THEN Failed
    ELSE IF p.stable THEN StableOutput(p, dir, a) ELSE ProductOutput(p, dir, a)

Moved(reserves, dir, in, out) ==
    [reserves EXCEPT ![From(dir)] = @ + in, ![Into(dir)] = @ - out]

AppliedOut(p, dir, in, out) == [p EXCEPT !.reserves[Into(dir)] = @ - out]

(* apply_swap; an output of the whole reserve is refused.                  *)
CanApply(p, dir, out) == out < p.reserves[Into(dir)]
Applied(p, dir, in, out) == [p EXCEPT !.reserves = Moved(@, dir, in, out)]
-----------------------------------------------------------------------------
(* Fetching.  "tells" holds what each place that may know the fee answers. *)

(* fee() of some contracts answers with what is left after the fee.        *)
Unreversed(fee) == IF fee > ReverseFeeMax THEN GetFeeMax - fee ELSE fee

(* get_v2_fee_from_factory asks the factory, then the Aero factories that  *)
(* know the pair; after them comes the default of the chain.               *)
FactoryFee(tells) ==
    IF "factory" \in DOMAIN tells THEN tells["factory"] * GetFeeMultiplier ELSE DefaultFee

(* get_v2_factory_fee: the built-in table, in the pool's own units.        *)
TableFee(tells) == IF "table" \in DOMAIN tells THEN tells["table"] ELSE FactoryFee(tells)

(* First the pair's fee(), its getFee() or swapFee(), then factory_to_fee. *)
FetchedFee(tells) ==
    IF "fee" \in DOMAIN tells THEN Unreversed(tells["fee"]) * GetFeeMultiplier
    ELSE IF "getFee" \in DOMAIN tells THEN tells["getFee"] * GetFeeMultiplier
    ELSE IF "config" \in DOMAIN tells THEN tells["config"]
    ELSE TableFee(tells)

Fetched(p) ==
    [stable |-> p.stable, scale |-> p.scale, reserves |-> p.reserves, fee |-> FetchedFee(p.tells)]

(* What the places answer for a pair that charges fee: the pair itself, in *)
(* either notation, whatever the configuration says; else a list; else the *)
(* factory; else nobody.                                                   *)
Only(place, answer) == [p \in {place} |-> answer]
Configured(t) ==
    [p \in DOMAIN t \cup {"config"} |-> IF p \in DOMAIN t THEN t[p] ELSE DefaultFee]
Answers(fee) ==
    LET own == {Only("fee", fee), Only("getFee", fee)}
                 \cup (IF GetFeeMax - fee > ReverseFeeMax THEN {Only("fee", GetFeeMax - fee)} ELSE {})
        listed == {Only(place, fee * GetFeeMultiplier) : place \in {"config", "table"}}
    IN  own \cup {Configured(t) : t \in own} \cup listed \cup {Only("factory", fee), <<>>}

(* Which of the two Sync events the contract emits: uint112 or uint256.    *)
Kinds == {"IUniswapV2Pair", "IV2PairUint256"}

Clone(p) == [pool |-> p, first |-> p.reserves]

Init ==
    /\ \E stable \in BOOLEAN, scale \in Scales, reserves \in Reserves, fee \in Fees :
        \E tells \in Answers(fee), kind \in Kinds :
            pair = [stable |-> stable, scale |-> scale, reserves |-> reserves,
                    fee |-> fee, tells |-> tells, kind |-> kind]
    /\ pool = Fetched(pair) /\ snapshot = Clone(pool)
    /\ log = <<>> /\ steps = 0 /\ stale = FALSE
-----------------------------------------------------------------------------
(* The contract (external): every change of the reserves emits a Sync, a   *)
(* swap a Swap after it.                                                   *)
Change(reserves, swap) ==
    /\ steps < MaxSteps
    /\ steps' = steps + 1 /\ pair' = [pair EXCEPT !.reserves = reserves]
    /\ log' = log \o <<[topic |-> pair.kind, reserves |-> reserves]>>
                  \o (IF swap THEN <<[topic |-> "Swap"]>> ELSE <<>>)
    /\ UNCHANGED <<pool, stale, snapshot>>

SyncedUint112(p, event) ==
    IF event.topic = "IUniswapV2Pair" THEN [p EXCEPT !.reserves = event.reserves] ELSE p

(* apply_log *)
Synced(p, event) ==
    IF event.topic \in Kinds THEN [p EXCEPT !.reserves = event.reserves] ELSE p

ApplyLog ==
    /\ log # <<>>
    /\ pool' = Synced(pool, Head(log)) /\ log' = Tail(log)
    /\ stale' = (stale /\ Head(log).topic \notin Kinds)
    /\ UNCHANGED <<pair, steps, snapshot>>

(* The batch with the oldest event is given up. *)
Lose ==
    /\ log # <<>>
    /\ log' = Tail(log) /\ stale' = (stale \/ Head(log).topic \in Kinds)
    /\ UNCHANGED <<pair, steps, pool, snapshot>>

Snapshot ==
    /\ snapshot' = Clone(pool)
    /\ UNCHANGED <<pair, log, steps, pool, stale>>

(* A swap the snapshot quotes and takes. *)
Swap(dir, a) ==
    LET out == CalculateOutput(snapshot.pool, dir, a)
    IN  /\ steps < MaxSteps /\ out >= 0 /\ CanApply(snapshot.pool, dir, out)
        /\ steps' = steps + 1
        /\ snapshot' = [snapshot EXCEPT !.pool = Applied(@, dir, a, out)]
        /\ UNCHANGED <<pair, log, pool, stale>>

Next ==
    \/ \E reserves \in Reserves, swap \in BOOLEAN : Change(reserves, swap)
    \/ ApplyLog \/ Lose \/ Snapshot
    \/ \E dir \in Directions, a \in Amounts : Swap(dir, a)

Spec == Init /\ [][Next]_vars
-----------------------------------------------------------------------------
(* The types; the log holds events of this pair only. *)
IsPool(p) ==
    /\ p.reserves \in Nat \X Nat /\ p.scale \in Scales /\ p.stable \in BOOLEAN
    /\ p.fee \in 0..FeeDenominator - 1

TypeOK ==
    /\ pair.reserves \in Reserves /\ pair.fee \in Fees
    /\ IsPool(pool) /\ IsPool(snapshot.pool) /\ snapshot.first \in Nat \X Nat
    /\ steps \in 0..MaxSteps /\ stale \in BOOLEAN
    /\ \A n \in DOMAIN log : log[n].topic \in {pair.kind, "Swap"}

(* A pool with no Sync on its way, and none lost since the last one that   *)
(* arrived, has the contract's reserves: apply_log needs nothing but Sync, *)
(* and one Sync repairs whatever was missed.                               *)
InStep ==
    ~stale /\ (\A n \in DOMAIN log : log[n].topic = "Swap")
        => pool.reserves = pair.reserves

(* What the contract (external) checks of a swap: the product, or the      *)
(* stable curve, must not fall once the fee is taken out of the input.     *)
Accepts(p, dir, a, out) ==
    LET fee == p.fee * GetFeeMultiplier
        x == p.reserves[From(dir)]
        y == p.reserves[Into(dir)]
        net == a - (a * fee) \div FeeDenominator
        after == Moved(p.reserves, dir, net, out)
    IN  /\ out \in 1..y - 1
        /\ IF p.stable
           THEN K(p, after[1], after[2]) >= K(p, p.reserves[1], p.reserves[2])
           ELSE (x * FeeDenominator + a * (FeeDenominator - fee)) * (y - out)
                    >= x * y * FeeDenominator

Priced(p) == Valid(p) /\ K(p, p.reserves[1], p.reserves[2]) > 0

(* Quotes are taken from a pool in step with a contract whose fee somebody *)
(* knows; in a stable pool, of tokens of equal decimals: get_y compares a  *)
(* curve of scaled reserves with one that scales them again.               *)
Quotes(Holds(_, _, _)) ==
    pool.reserves = pair.reserves /\ pair.tells # <<>>
        /\ (pair.stable => Priced(pool) /\ pool.scale[1] = pool.scale[2])
        => \A dir \in Directions, a \in Amounts :
               LET out == CalculateOutput(pool, dir, a) IN out > 0 => Holds(dir, a, out)

(* What calculate_output quotes the contract pays: whoever told the fee,   *)
(* in whatever notation, and however the divisions round.  On the constant *)
(* product it would pay no unit more.                                      *)
Executable ==
    Quotes(LAMBDA dir, a, out :
        /\ Accepts(pair, dir, a, out)
        /\ pair.stable \/ ~Accepts(pair, dir, a, out + 1))

(* Newton's iteration in get_y divides by zero, or runs below zero or      *)
(* beyond the reserve, only in a pool whose curve is rounded down to       *)
(* nothing.                                                                *)
PricedQuotesSound ==
    Priced(pool) => \A dir \in Directions, a \in Amounts :
        CalculateOutput(pool, dir, a) \notin {Panics, Wraps}

(* One unit less on either side lowers the curve.  In a pool of dust on    *)
(* the stable curve its divisions hide some units.                         *)
Sharp(p) ==
    /\ Valid(p)
    /\ \A dir \in Directions :
           LET less == Moved(p.reserves, dir, 0, 1)
           IN  K(p, less[1], less[2]) < K(p, p.reserves[1], p.reserves[2])

(* No sequence of quoted swaps takes tokens out of a pool and pays nothing *)
(* for them, but for units the curve does not see.                         *)
NoPump ==
    LET first == snapshot.first
        now == snapshot.pool.reserves
    IN  Sharp([snapshot.pool EXCEPT !.reserves = first])
            => ~(now[1] <= first[1] /\ now[2] <= first[2] /\ now # first)
=============================================================================
