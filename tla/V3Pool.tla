------------------------------- MODULE V3Pool -------------------------------
(***************************************************************************)
(* A cached Uniswap-V3 pool that follows its contract.  The chain holds    *)
(* positions and emits an event per Mint, Burn and Swap; apply_log         *)
(* rebuilds from them price, tick, liquidity and the table of initialized  *)
(* ticks.  A follower may lose an event (a batch given up).  u128 and i128 *)
(* are numbers of W bits.  V3Quote quotes from the pool.                   *)
(***************************************************************************)
EXTENDS V3Math, Functions

CONSTANTS
    Ranges,          \* ranges <<lower, upper>> positions can have
    Amounts,         \* what one Mint or Burn may add or take
    Prices,          \* where a swap may leave the price
    W,               \* width of the liquidity integers
    MaxPerTick,      \* maxLiquidityPerTick of the pool contract
    MaxEvents,       \* bound: events the chain emits
    LogCap           \* bound: events on their way

PriceAt(t) == SqrtRatios[t]
TickOf(p) == Max({t \in Ticks : PriceAt(t) <= p})
UMax == 2 ^ W - 1
IMax == 2 ^ (W - 1) - 1

ASSUME V3Assumption ==
    /\ Ranges \subseteq {r \in Ticks \X Ticks : r[1] < r[2]}
    /\ Amounts \subseteq Nat /\ W \in Nat \ {0} /\ W + PriceBits <= WordBits
    /\ Prices \subseteq PriceAt(MinTick) + 1 .. PriceAt(MaxTick) - 1
    /\ 2 ^ W \in Nat /\ 2 ^ (W - 1) \in Nat
    /\ MaxPerTick \in 1..IMax
    /\ MaxPerTick * Cardinality(Ticks) <= UMax
    /\ MaxEvents \in Nat /\ LogCap \in Nat

(* What the constants of tick_math are chosen for: a price for every tick, *)
(* no two of them alike, and of every price the tick it lies in.           *)
ASSUME TickMathAssumption ==
    /\ SqrtRatios \in [Ticks -> 1 .. 2 ^ RatioBits - 1]
    /\ \A t \in MinTick .. MaxTick - 1 : PriceAt(t) < PriceAt(t + 1)
    /\ \A p \in PriceAt(MinTick) .. PriceAt(MaxTick) - 1 : GetTickAtSqrtRatio(p) = TickOf(p)

VARIABLES
    positions,       \* the chain: liquidity of each range
    price, tick,     \* the chain: slot0
    log,             \* events emitted and not applied yet
    events,          \* bound: events so far
    pool,            \* the cached UniswapV3Pool
    whole,           \* history: no event was lost
    exact,           \* history: none was lost or rejected since the last
                     \* Swap applied, or ever
    rejected         \* history: apply_log has returned an Err

chain == <<positions, price, tick, events>>
vars == <<chain, log, pool, whole, exact, rejected>>

Over(r, t) == r[1] <= t /\ t < r[2]
Sum(S) == MapThenSumSet(LAMBDA r : positions[r], S)
Active(t) == Sum({r \in Ranges : Over(r, t)})
Gross(t) == Sum({r \in Ranges : t \in {r[1], r[2]}})
Net(t) == Sum({r \in Ranges : r[1] = t}) - Sum({r \in Ranges : r[2] = t})

Table == [t \in {u \in Ticks : Gross(u) > 0} |-> [net |-> Net(t), gross |-> Gross(t)]]

Slots ==
    {slot \in Prices \X Ticks :
        slot[2] = TickOf(slot[1]) \/ (slot[2] < MaxTick /\ slot[1] = PriceAt(slot[2] + 1))}

TypeOK ==
    /\ positions \in [Ranges -> Nat] /\ <<price, tick>> \in Slots
    /\ events \in 0..MaxEvents /\ Len(log) <= LogCap
    /\ <<pool.price, pool.tick>> \in Slots /\ pool.liquidity \in 0..UMax
    /\ DOMAIN pool.ticks \subseteq Ticks
    /\ \A t \in DOMAIN pool.ticks :
        pool.ticks[t].gross \in 1..UMax /\ pool.ticks[t].net \in -IMax - 1 .. IMax
    /\ {whole, exact, rejected} \subseteq BOOLEAN

(* fetch_v3_pool and fetch_v3_ticks: the contract's state at one block.    *)
Fetched == [price |-> price, tick |-> tick, liquidity |-> Active(tick), ticks |-> Table]

Init ==
    /\ \E r \in Ranges, a \in {n \in Amounts : n <= MaxPerTick} :
        positions = [q \in Ranges |-> IF q = r THEN a ELSE 0]
    /\ \E slot \in Slots : price = slot[1] /\ tick = slot[2]
    /\ log = <<>> /\ events = 0 /\ pool = Fetched
    /\ whole = TRUE /\ exact = TRUE /\ rejected = FALSE
-----------------------------------------------------------------------------
(* The chain (external). *)

Emit(event) ==
    /\ events < MaxEvents /\ Len(log) < LogCap
    /\ events' = events + 1 /\ log' = Append(log, event)
    /\ UNCHANGED <<pool, whole, exact, rejected>>

Provide(r, a) ==
    /\ a > 0 /\ Gross(r[1]) + a <= MaxPerTick /\ Gross(r[2]) + a <= MaxPerTick
    /\ positions' = [positions EXCEPT ![r] = @ + a]
    /\ UNCHANGED <<price, tick>>
    /\ Emit([kind |-> "mint", range |-> r, amount |-> a])

(* An amount of 0 pokes a position that exists. *)
Withdraw(r, a) ==
    /\ positions[r] > 0 /\ a <= positions[r]
    /\ positions' = [positions EXCEPT ![r] = @ - a]
    /\ UNCHANGED <<price, tick>>
    /\ Emit([kind |-> "burn", range |-> r, amount |-> a])

Trade(slot) ==
    /\ price' = slot[1] /\ tick' = slot[2]
    /\ UNCHANGED positions
    /\ Emit([kind |-> "swap", price |-> slot[1], tick |-> slot[2], liquidity |-> Active(slot[2])])

(* The batch with the oldest event is given up. *)
Lose ==
    /\ log # <<>>
    /\ log' = Tail(log) /\ whole' = FALSE /\ exact' = FALSE
    /\ UNCHANGED <<chain, pool, rejected>>

-----------------------------------------------------------------------------
(* apply_log. *)

SatU(x) == Min({Max({x, 0}), UMax})
SatI(x) == Min({Max({x, -IMax - 1}), IMax})
AsSigned(a) == IF a <= IMax THEN a ELSE a - 2 ^ W

(* update_tick removes a tick without gross liquidity. *)
UpdateTick(ticks, t, entry) ==
    IF entry.gross = 0
    THEN Restrict(ticks, DOMAIN ticks \ {t})
    ELSE [u \in DOMAIN ticks \cup {t} |-> IF u = t THEN entry ELSE ticks[u]]

Minted(ticks, t, net, amount) ==
    IF t \in DOMAIN ticks
    THEN [ticks EXCEPT ![t] = [net |-> SatI(@.net + net), gross |-> SatU(@.gross + amount)]]
    ELSE UpdateTick(ticks, t, [net |-> net, gross |-> amount])

BurnedIfCancelled(ticks, t, net, amount) ==
    LET entry == [net |-> SatI(ticks[t].net + net), gross |-> SatU(ticks[t].gross - amount)]
    IN  IF entry.net = 0
        THEN Restrict(ticks, DOMAIN ticks \ {t})
        ELSE [ticks EXCEPT ![t] = entry]
Burned(ticks, t, net, amount) ==
    UpdateTick(ticks, t, [net |-> SatI(ticks[t].net + net), gross |-> SatU(ticks[t].gross - amount)])

InRangeClosed(t, r) == r[1] <= t /\ t <= r[2]
InRange(t, r) == r[1] <= t /\ t < r[2]

ApplyMint ==
    /\ log # <<>> /\ Head(log).kind = "mint"
    /\ LET r == Head(log).range
           a == Head(log).amount
       IN  pool' = [pool EXCEPT
              !.ticks = Minted(Minted(@, r[1], AsSigned(a), a), r[2], -AsSigned(a), a),
              !.liquidity = IF InRange(pool.tick, r) THEN SatU(@ + a) ELSE @]
    /\ log' = Tail(log)
    /\ UNCHANGED <<chain, whole, exact, rejected>>

ApplyBurn ==
    /\ log # <<>> /\ Head(log).kind = "burn"
    /\ LET r == Head(log).range
           a == Head(log).amount
       IN  /\ {r[1], r[2]} \subseteq DOMAIN pool.ticks
           /\ pool' = [pool EXCEPT
                !.ticks = Burned(Burned(@, r[1], -AsSigned(a), a), r[2], AsSigned(a), a),
                !.liquidity = IF InRange(pool.tick, r) THEN SatU(@ - a) ELSE @]
    /\ log' = Tail(log)
    /\ UNCHANGED <<chain, whole, exact, rejected>>

(* "Burn attempted on uninitialized tick": an Err; with the lower tick     *)
(* there, its part of the event has been applied.  The follower goes on.   *)
RejectBurn ==
    /\ log # <<>> /\ Head(log).kind = "burn"
    /\ LET r == Head(log).range
           a == Head(log).amount
       IN  /\ ~({r[1], r[2]} \subseteq DOMAIN pool.ticks)
           /\ pool' = IF r[1] \in DOMAIN pool.ticks
                      THEN [pool EXCEPT !.ticks = Burned(@, r[1], -AsSigned(a), a)]
                      ELSE pool
    /\ log' = Tail(log)
    /\ rejected' = TRUE /\ exact' = FALSE
    /\ UNCHANGED <<chain, whole>>

(* update_state *)
TradedInRange(e) == [pool EXCEPT !.price = e.price, !.tick = e.tick]
Traded(e) == [pool EXCEPT !.price = e.price, !.tick = e.tick, !.liquidity = e.liquidity]

ApplySwap ==
    /\ log # <<>> /\ Head(log).kind = "swap"
    /\ pool' = Traded(Head(log))
    /\ log' = Tail(log)
    /\ exact' = TRUE
    /\ UNCHANGED <<chain, whole, rejected>>

Next ==
    \/ \E r \in Ranges, a \in Amounts : Provide(r, a) \/ Withdraw(r, a)
    \/ \E slot \in Slots : Trade(slot)
    \/ Lose
    \/ ApplyMint \/ ApplyBurn \/ RejectBurn \/ ApplySwap

Spec == Init /\ [][Next]_vars
-----------------------------------------------------------------------------
(* Properties. *)

(* A pool that has taken in every event is the contract: price, tick,      *)
(* liquidity and the whole table of ticks.                                 *)
InStep == whole /\ log = <<>> => pool = Fetched

(* apply_log rejects no event of a pool that has lost none.                *)
RejectsOnlyAfterLoss == rejected => ~whole

(* A lost event spoils price, tick and liquidity only until the next Swap: *)
(* from there on they are the contract's again, through later Mints and    *)
(* Burns too, until one is rejected.                                       *)
SwapRepairs ==
    exact /\ log = <<>> =>
        pool.price = price /\ pool.tick = tick /\ pool.liquidity = Active(tick)
=============================================================================
