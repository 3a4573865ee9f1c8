------------------------------- MODULE Pools -------------------------------
(***************************************************************************)
(* PoolInterface: what the registry caches of a contract, of either kind.  *)
(* identify_pool_type asks for liquidity(), which only the contracts of    *)
(* Uniswap V3 answer; the kind stays, and decides which apply_log takes    *)
(* the events and which calculate_output quotes.                           *)
(***************************************************************************)
EXTENDS V3Quote

CONSTANTS
    PairAmounts,                       \* amounts quoted from a pair
    FeeDenominator, Exp18, GetFeeMax, GetFeeMultiplier, ReverseFeeMax,
    MaxRounds, DefaultFee, Fees, Scales, Reserves, MaxSteps

VARIABLES
    kind,                              \* the PoolType identified
    pair, steps, stale, snapshot       \* see V2Pool

V2 == INSTANCE V2Pool WITH Amounts <- PairAmounts

ASSUME PairAssumption == V2!V2Constants

pairVars == <<pair, steps, stale, snapshot>>
poolVars == <<quoteVars, pairVars, kind>>

Answers(contract) == IF contract = "pair" THEN {"token0", "token1"} ELSE {"token0", "token1", "liquidity"}

IdentifyPoolType(contract) ==
    IF "liquidity" \in Answers(contract) THEN "UniswapV3" ELSE "UniswapV2"

(* identify_and_fetch_pool; what belongs to the other kind stays as it is. *)
IdentifyAndFetchPool(contract) ==
    /\ kind = IdentifyPoolType(contract)
    /\ \/ kind = "UniswapV3"
          /\ QuoteInit
          /\ pair = "none" /\ steps = 0 /\ stale = FALSE /\ snapshot = "none"
       \/ kind = "UniswapV2"
          /\ V2!Init
          /\ positions = <<>> /\ price = 0 /\ tick = 0 /\ events = 0
          /\ whole = FALSE /\ exact = FALSE /\ rejected = FALSE /\ quote = Idle

PoolsInit == \E contract \in {"pair", "pool"} : IdentifyAndFetchPool(contract)

PoolsNext ==
    \/ kind = "UniswapV3" /\ QuoteNext /\ UNCHANGED <<pairVars, kind>>
    \/ kind = "UniswapV2" /\ V2!Next
         /\ UNCHANGED <<chain, whole, exact, rejected, quote, kind>>

PoolsSpec == PoolsInit /\ [][PoolsNext]_poolVars
-----------------------------------------------------------------------------
(* The properties of V2Pool for a pool identified as a pair.               *)

(* No Sync on its way, none lost since: the contract's reserves.           *)
PairInStep == kind = "UniswapV2" => V2!InStep

(* What is quoted the contract pays, and on the constant product no more;  *)
(* and get_y leaves the numbers only in pools of dust.                     *)
PairExecutable == kind = "UniswapV2" => V2!Executable /\ V2!PricedQuotesSound

(* No quoted swaps on a snapshot take tokens and pay nothing.              *)
PairNoPump == kind = "UniswapV2" => V2!NoPump
=============================================================================
