# A TLA+ model of the cross-chain arbitrage bot

TLA+ modules, TLC configurations and TLAPS proofs about the Rust program in this
repository. Paths such as `core/processor/processor.rs` are relative to the
program's `src/` directory; `bin/main.rs` and the program's `README.md` lie at the
top of the repository.

- [1. Inventory](#1-inventory): the system's parts and what makes each correct
- [2. Plan](#2-plan): modules, compositions, abstract specifications, theorems
- [3. The modules and the code](#3-the-modules-and-the-code)
- [4. What the runs check](#4-what-the-runs-check): bounds, fairness, findings
- [5. What is proved](#5-what-is-proved)
- [6. What is not modelled](#6-what-is-not-modelled)

How to check: `tlc -config MCPoolUpdater.cfg MCPoolUpdater` (each configuration names
its module by its prefix), and `tlapm` on each of `PoolUpdaterProofs.tla`,
`ArbitrageProofs.tla` (with `AmountSearch`), `MongoSyncProofs.tla`,
`PathRegistryProofs.tla`, `NetworkSettingsProofs.tla` (with `RuntimeLocks`), `PoolsProofs.tla`,
`QuotesProofs.tla` and `TelegramProofs.tla`.

## 1. Inventory

The program watches pools on several EVM chains, keeps a copy of each pool's state
in memory, and on every swap looks for a path that buys a token on one chain and
sells it on another for more. It is one tokio process with many tasks; what they
share sits behind `tokio::sync::RwLock`s and two bounded mpsc channels.

| component | state | operations | talks to |
|---|---|---|---|
| **Block follower** `core/collector/pool_updater_latest_block.rs` (one per network) | `pending_new_pools`, `max_blocks_per_batch`, `wait_time_fetch`; in `PoolRegistry`: `last_processed_block`, the cached pools | `new` (spawns an initializer), `start` (the loop), `proccess_pools` (fetch, apply, announce one batch), `add_pending_new_pools`, two setters | nodes over RPC; pool registry; swap-event channel |
| **Pool registry** `models/pool/registry.rs` | pools by address, topics, `last_processed_block` | `add_pool`, `get_pool`, topic lists | everyone |
| **Processor** `core/processor/processor.rs` | `executing_paths` (shared with the executor), a `memo_cache` per handler | `handle_pool_change` per swap, `handle_path` per direction, `simulate_amount` | registries (reads), opportunity channel |
| **Executor** `core/executor/executor.rs`, `bin/main.rs` | the path being executed | `execute`: simulate again and again while the path pays | processor, loggers |
| **Path registry** `models/path/` with `NetworkRegistry::set_paths` | legs filed under a pool | `set_paths`, `get_paths_for_pool` | poller writes, processor reads |
| **MongoDB polling** `core/collector/network_collector.rs`, repositories | three `last_*_update` timestamps | one tick: read what changed per collection, hand it on, move the timestamp | network registry, database |
| **Network registry** `core/collector/network_registry.rs` | one `MultichainNetworkRegistry` map, per-network components | `add`, `update_network` and the `update_*` it calls, `set_paths` | follower, price updater, pool registry |
| **WebSocket source** `core/collector/websocket_listener.rs`, `event_queue.rs` | connection flag, last-event time; dedup window, bounded channel | connect, ping, read, reconnect; `send`, `get_*` | not started by `main` |
| **Pools** `models/pool/v2`, `v3` | reserves; price, tick, liquidity, tick table | `apply_log`, `calculate_output` | follower writes, processor clones |
| **Profit tokens** `models/profit_token/` | price per token, thresholds | refresh loop, `get_value`, `get_amount_for_value` | processor |
| **V3 math** `models/pool/v3/*_math.rs` | none | `mul_div`, tick and price, price after an amount, `compute_swap_step` | V3 pools |
| **Telegram and loggers** `services/telegram`, `core/executor/logger.rs` | `muted_opportunities`, one `last_log_time` | log an opportunity, mute its path, throttle errors | executor, followers, the chat's users |
| **Tokens, pool discovery** `blockchain/providers` | token registry | check, fetch, add | follower |

What is hard in it:

- *Interleaving.* The follower, its initializer and the poller meet in the pool
  registry; handlers of different changes share `executing_paths` and the pools; the
  tasks of one handler share a memo filled from different clones of the pools.
- *Failure.* `eth_getLogs` is retried on a ladder that ends; `apply_log` may reject an
  event; the first fetch of a pool may fail; `unwrap` ends a task.
- *Ordering.* A change must be announced after it was applied; a pool admitted at run
  time must join exactly at the block the follower has reached.
- *Waiting.* Guards are held across RPC calls and nested under FIFO locks; the
  executor is one loop behind a bounded channel.
- *Boundaries.* Batches of blocks, the sampling points of the amount search, tick
  crossing, integer division.

What makes each component correct:

| component | property |
|---|---|
| Block follower | every event of a followed pool is taken in exactly once or is a recorded loss; announcements never run ahead of the state; every block and every pending pool is reached; the cursor never moves back |
| Processor, executor | a path that pays is found; a found path rests on states no older than the change that caused the search; `executing_paths` holds exactly what is executed; an executed path is let go |
| Path registry | an installed pair of legs is found from the first pool of either; a stored leg is connected; a pair crosses chains |
| MongoDB polling | no updated document is passed over; none is handed on twice; each arrives |
| Network registry | a run-time update ends, whatever the other tasks hold; no circle of waiting tasks; every copy of a setting holds what the last good document says |
| Amount search | the answer is the best amount tried; the narrowing loses no better one; the budget is kept |
| WebSocket source | an event is delivered once within the dedup window; a stalled connection is replaced and events flow again |
| V3 pool | liquidity is the sum of the positions around the current tick; tick net and gross amounts agree; a quote ends, and the contract pays it |
| V2 pool | the cached reserves are the contract's; the contract pays the quoted output, and would not pay a unit more; swaps never take tokens for nothing |
| Profit tokens | a token of a path has a value; its price is of the network's present name and arrives |
| Telegram | a muted path stays silent until the mute ends, and nothing else does; errors come no faster than the interval but for those under way together, whose stamps may overtake each other; a slow send stops nobody for ever |

The hazards, each at its line, are listed in `PROJECT.json`; section 4 says which run
aims at which.

## 2. Plan

In the order of what the bot's results depend on most:

1. **`PoolUpdater`** (done) with the abstract **`ChainFollower`** it implements.
   Runs for safety, retries, liveness; proofs of the inductive invariant.
2. **`Arbitrage`** (done): processor, executor, opportunity channel, with the updaters
   reduced to what they promise (a change is applied, then announced: `ExactlyOnce` and
   `ChangeReflected` of `PoolUpdater`).
3. **`MongoSync`** (done): timestamps, the three collections, the hand-over of pools and
   paths; later composed with the admission side of `PoolUpdater` (a pool whose first
   fetch fails is not submitted again).
4. **`RuntimeLocks`** (done): the fair read-write locks of a network and the tasks that
   nest them; waiting in circles as the property.
5. **`AmountSearch`** (done): samples and ternary search over integer amounts.
6. **`PathRegistry`** (done): `set_paths` step by step, and what a lookup offers.
7. **`V3Math`** (done): the fixed-point library over words of any width.
   **`V3Pool`** (done): liquidity and tick table under Mint, Burn, Swap, and an event that
   fails half-way. **`V3Quote`** (done): the loop of `v3_swap` against the contract's swap.
8. **`V2Pool`** (done): both curves with integer rounding, the fee and where it comes
   from, swaps on a snapshot. **`Pools`** (done) composes the two kinds.
9. **`NetworkSettings`** (done): bring-up, `update_network`, the price loop, the tokens.
10. **`Telegram`** (done): mutes, the Mutex held across a send, the throttle of errors; with
    proofs.
11. **`EventQueue`** and **`WebsocketListener`**: only if the binary comes to start them.

Abstract specifications: `ChainFollower` (a follower of a growing log), the contract's own
swap (`Paid` of `V3Quote`, `Accepts` of `V2Pool`), the sum-over-positions definition of
active liquidity (`Active` of `V3Pool`).

Theorems: the safety properties of `PoolUpdater` with the refinement of `ChainFollower`, of
`Arbitrage`, `AmountSearch`, `MongoSync`, `PathRegistry`, `NetworkSettings`, `RuntimeLocks`,
`Telegram`, `V3Pool`, `V3Quote` and `V2Pool` (done, section 5, which also says what is left to TLC).

## 3. The modules and the code

### `PoolUpdater`

One follower and what runs next to it. The tasks are `start` (variable `pc` and the
locals `base`, `newPool`, `latest`, `current`, `batchEnd`, `backoff`, `todo`, `swaps`),
the initializer spawned by `new` (`iniPc`) and the poller's `add_pending_new_pools`
(`admPc`, `admPool`). An action is what a task does between two points where another
task can see or change the shared state, so

- the initializer is two actions, because it reads `last_processed_block` under one
  guard and writes it under another;
- a pool's admission is three (the registry, the pending list, the push);
- applying a log is one action per log, announcing a change one per change;
- `FetchLogsOk / Retry / GiveUp` are the three ways one request of the retry ladder can
  end; the ladder doubles `backoff` up to `10 * wait_time_fetch`.

On-chain data is reduced to whether pool `p` emitted something in block `b` and whether
it was a swap. What a cached pool knows is `seen[p][b]`, how often it took in its log of
block `b`: a freshly fetched pool has every log up to the fetch block once, `apply_log`
adds one. That is enough to tell apart a lost event, a repeated event and a correct one,
which is what can go wrong here. `failed`, `missing`, `refused` (pools whose fetch failed) and `rewound` are history variables;
no action reads them.

### `ChainFollower`

What a reader of the registry may rely on, without batches, retries or tasks: a cursor
that moves forward over the chain, known pools that reflect all their events up to the
cursor except recorded losses, snapshots when a pool is admitted, and the end of the
promise (`exact`) when the cursor moves back. `PoolUpdater!FollowsChain` is the
refinement; its mapping hides the batch in work by reading `seen` only up to
`lastProcessed`.

### `Arbitrage`

From an announced change to an executed path. A handler (`doing`, `todo`, `pair`,
`snap`) walks over the pairs of legs found under the changed pool. For each it checks
`executing_paths`, clones the pools one by one (each under a guard of its own), and
spawns one task per direction. The tasks (`tasks`, `memo`) evaluate the path with their
clones or with outputs another task of the same handler has memoized, and send it if it
pays. The executor is the loop of `main` that awaits `execute` before the next
`recv`.

The search for the best amount is abstracted to the question whether the path pays:
a leg's price is the sum of its pools' prices, and a path pays if the selling leg is
dearer by `MinProfit`. This keeps what the interleavings depend on (which states of
which pools enter an evaluation) and leaves the numbers to `AmountSearch`.
A pool with price `Dry` makes `calculate_output` return `Err`, which is unwrapped.
The updaters are `Register` and `Swap`; a swap carries a version so that a state can be
said to be older than a change.

`answered` and `missed` are history: the paths found to pay since their last change, and
the paths whose last change nobody looks at.

### `AmountSearch`

One call of `handle_path`, turn by turn: the samples in ascending order
(`SimulateSample`), the window around the best one (`Focus`), the ternary search
(`Narrow`, `NarrowToOne`), and one budget for both loops. `Profit(c, x)`, what an amount
earns on curve `c`, is a parameter, and so is `Fails(c, x)`, whether its simulation
panics; everything the loops compute with amounts (sample points, radius, thirds) is
integer division as in the code. The samples `10 * 100^k` are cut at `LogSteps` factors;
the code goes up to where they pass a sixteenth of `max_amount`.

### `MongoSync`

The polling task (`pc`, `phase`, `batch`, `last`) against a database that others write.
A document is a version with the second of its last write and the flag `valid`, whether
the code that handles it can. A tick syncs networks, pools, paths in this order; each is
a query, one action per document (per network for pools) handed on, and the move of the
timestamp. `BringUp` and `UpdateNetwork` are the two sides of `handle_networks_update`;
`DropPools` is the `continue` for a network that is not known; `NodePanics` and
`PathPanics` are where the task ends: the `unwrap`s on a node of a new network and on the registry
of a path, and `create_provider`, which `update_rpcs` of a known network calls as well. A query returns documents strictly
newer than the timestamp; a query that fails leaves the collection to the next tick.

### `RuntimeLocks`

The five locks of a network that tasks nest, as tokio implements them: a queue of
requests per lock, granted in order, so that a reader waits behind a writer that waits.
A task runs routines; a routine is its sequence of requests, drops and remote answers,
written down from the code with Rust's rule for temporaries (a guard taken inside the
scrutinee of a `match` lives to the end of the `match`). Locks that are only taken
innermost and released at once cannot be part of a circle and are left out.

### `PathRegistry`

`set_paths` as the polling task runs it, leg by leg and pool by pool, next to the
registries a handler may read at any moment (`filed`, `tokens`). `Offered(c, p)` is what
`get_paths_for_pool` gives a handler, flattened to pairs of a source and a target leg.
`PathPanics` of `MongoSync` and `LegUnwraps` here are the same step in two grains.

### `V3Math`, `V3Pool`, `V3Quote`

The pool contract (external: `positions`, `price`, `tick`) emits events; `ApplyMint`,
`ApplyBurn`, `RejectBurn` and `ApplySwap` are `apply_log`, with `u128` and `i128` as
saturating numbers of `W` bits and the removal of a tick whose gross liquidity is zero.
`Fetched` is what `fetch_v3_pool` and `fetch_v3_ticks` read from the contract. `Lose` is
the batch the follower gives up.

`V3Math` is the library: `mul_div` with its high and low word, the division by powers of
two and Newton's inverse, the price of a tick as a product of factors and the tick of a
price by a binary logarithm with its error bounds, the price after an amount, the
amounts between two prices, `compute_swap_step`. The widths are parameters: the code's
word has 256 bits, a price 160 with 96 behind the point, a factor 128, a logarithm 14
digits out of 64 fraction bits, which the factor from logarithm to tick has as well (at 64 bits it
is 255738958999603826347141, about 13863.6); the run uses 15, 8, 6, 14, 3 and 4, with a factor
of 33 at 4 bits, no whole number either. Nothing else is changed, so rounding, the `Err`
branches and the order of the operations are the code's. (The branch of
`get_next_sqrt_price_from_amount_0_rounding_up` for a product that overflows is
not reached at these widths; `SwapStepSound` covers it for all.)

`V3Quote` adds the quote: `BeginQuote`, `QuoteTurn` and `EndQuote` are the loop of `v3_swap`,
`Result` the same loop as a function for `calculate_ratio_conversion_factor`. Contracts
charge by direction and tell one fee; `FetchedFee` is what the fetch makes of it.
`Paid` is the contract's swap (external), written in exact fractions and with the bitmap's
words, at whose borders (`ContractStop`) the contract stops and rounds although no tick is
initialized there. `Quotable` and `Executable` relate the two. `Executable` has three parts.
`QuotePaid`: the contract pays what was quoted for an input, but for a unit of output at each of
the `WordsPassed`, provided it gets at each what a cost in two parts takes more
(`MoreInTwoParts`: a unit with its fee, and a unit of fee); for a RamsesV2 pool it pays the
measured amount as scaled by the measured factor. `QuoteTight`: where the fee is known it pays no
unit more than was quoted. `QuoteBuys`: the input quoted for an output buys it. The latter two are
stated where no product of price and amount leaves the word (`Roomy`): beyond it
`get_next_sqrt_price_from_amount_0_rounding_up` divides first and rounds a price more coarsely
than the fractions here, in the code as in the contract. At 256, 128 and 96 bits that is
beyond the supply of any token.

### `V2Pool`

One pair (external: it emits Sync and Swap events and charges a fee), the cached pool, and
a snapshot a handler simulates on. `ProductOutput` and `StableOutput` are the two curves of
`calculate_output`, division by division; `K`, `F`, `D`, `GetY`, `Turn` are the methods of the
same names, `Turn` being one turn of Newton's loop, whose 255 turns are a recursive function
(the largest instance needs far fewer). `FeeDenominator` and `Exp18` are parameters: a fee
of 1 in 20 instead of 1 in 1,000,000 makes every division as inexact and keeps the products
in TLC's integers. `FetchedFee` is the order in which `fetch_v2_pool` asks for the fee, with
the unit of each place. `Failed`, `Panics` and `Wraps` are the three ways a quote is no
number: an `Err`, a division by zero, and an unsigned subtraction below zero.

What the contract accepts is stated apart from the code's formulas (`Executable`: the curve
after the fee must not fall, and on the constant product one unit more would let it), so
that the two can disagree. `Sharp` says that a curve tells a unit on either side apart: on the
stable curve of a pool of dust the divisions hide some.

### `Pools`

What the registry caches is a `PoolInterface` of either kind. `IdentifyAndFetchPool` is
`identify_and_fetch_pool`: the contract answers some calls and not others, and what it is
taken for decides whose state, events and quotes follow. `PoolsNext` lets the variables of
the other kind stand still, so the properties of `V3Pool` and `V3Quote` say nothing of a pair
(its `whole`, `exact` and `rejected` are false and its `quote` idle), and those of `V2Pool`
are stated for pairs (`PairInStep` and so on).

### `Telegram`

Each message is a task: `LogOpportunity` is the `tokio::spawn` of `Executor::log_opportunity` and
`log_opportunity_again`, `Ask` to `SendFails` is `TelegramLogger::log_opportunity`, whose guard
on `muted_opportunities` lives to the end of the function, over the rendering and the send.
The Mutex is a queue (`guard`), as tokio's is fair; the dispatcher of the bot asks for it as
well (`TakePress`, `MuteOpportunity`, `Answer`), one press of the chat at a time. Presses of
messages an earlier run has sent still arrive (`ToldBefore`). `ThrottleError`, `PassThrottle`, `ReadClock`
and `StampError` are `log_error_with_chain_id`, where the look at `last_log_time` and the write
are two critical sections, and the clock is read before the second (Rust evaluates the
right-hand side of `*lock().await = Instant::now()` first); the tasks of all followers share it, and one follower may have
several. Parsing of the callback data is left out, as the buttons' data is well-formed: the
hash of a path is a decimal number. Notifications and errors of the poller
(`log_notification`, `log_error`) are sent without any state.

### `NetworkSettings`

One network: the document handed on last, the copies of its settings (`held`), and
`update_network` as it goes through them (`at`, an index into `Order`). The name is also
with the price fetcher and the provider with the pool registry and the follower; these are
copies of their own. `BringUp` is the branch for a network that is not known. A document
reaches this module whenever the polling task hands one on; which documents do is the
business of `MongoSync`.

Next to it run the price loop of the `ProfitTokenRegistry` (`loop`), which holds the guard of
the `PriceUpdater` from the request to the last price stored (`PricesFree` is what waits for
it), and the follower's fetch of a pool, which holds provider, multicall address and pool
registry (`FollowerFree`). A batch of logs holds the provider as well; that changes what an
update waits for and nothing it sees, and the waiting is the subject of `RuntimeLocks`. A
price is reduced to the network name it was asked for. A token's `min_profit` is computed,
but no code reads it.

## 4. What the runs check

All bounds are constants given in the configurations.

| run | question | instance |
|---|---|---|
| `updater_two_pools` | Is every event taken in exactly once, is the state ahead of the announcement, is no pool queued twice, is nothing announced twice? Does the follower skip nothing silently, even after the cursor was moved back, and does it implement `ChainFollower`? | 2 pools (symmetric), blocks 1 to 3, head at 1, a node one block behind, batches of 1 or 2, 2 submissions, channel of 1 |
| `updater_progress` | Does it reach every block? Is every pool in `pending_new_pools` fetched, also one at the bottom of the stack, and does its one attempt end registered or refused? | 2 pools, head at 0, 2 blocks or 2 submissions (`FewEvents`), lagging node, wait 1, batches of 1 |
| `updater_drops_batch` | *violated*: "Don't update last_processed_block on error" | 1 pool, batches of 1 |
| `arbitrage` | Do found opportunities rest on states no older than the change? Does `executing_paths` hold exactly what is executed? Is a path that pays found, and an executed path let go? | a leg of 1 pool against a leg of 2, prices 1, 4 and `Dry`, 2 swaps, channel of 1 |
| `sync` | Does a timestamp pass over a document? Is a version handed on twice? Does every document arrive? | 2 networks, a pool, a path over both, 2 seconds, 3 writes |
| `locks` | Can tasks wait for each other in a circle, and where? Does an update end, is every request granted? | follower, initializer, poller, a handler; an update that changes everything |
| `locks_follower_jams` | *violated*: "runtime updates without restarting the bot" | follower and poller, an update of the RPC list |
| `search` | Is the answer the best amount simulated? Does the narrowing keep the peak of a concave window? Is the budget kept? | 7 values of `max_amount` from 1 to 1700, budgets 4, 14, 20, 368 curves |
| `paths` | Is an installed document found from both sides? Was every source leg that is filed verified, and every target of an installed document? Is every pair offered taken from one document, across chains? Can its source be priced? | 10 documents, two known chains and an unknown one, 5 pools |
| `pools` | V3: is a cached pool that took in every event the contract? Does it ever reject an event? What does a lost event spoil, and until when? Does a quote end, and does the contract pay it, with every kind of fee? V2: the same of its quotes; can one panic; can a round of swaps gain? | V3: 4 ranges over 5 ticks, amounts 0, 20, 40, 3 prices, 4 events, quotes of 5 amounts after at most 2, 15-bit words; V2: 4 reserves (nearly even, lopsided, dust, empty), 3 pairs of decimals, both curves, every source of the fee, 3 amounts, 3 steps |
| `settings` | Do the copies of a setting agree, also after an update that failed or panicked? Does the next good document repair it? Do prices follow the network's name? | 7 documents (4 of them bad), 3 handed on, 1 profit token, a pool of 2 tokens |
| `telegram` | Does a muted path stay silent, also for a task that looked before the press? Do errors keep their distance? Does everyone get the Mutex? | 2 paths, 3 tasks, 2 presses of 2 buttons, interval 1, 3 moments |

Why the bounds are enough:

- *Updater.* A batch boundary needs two blocks and a batch size below and above one; a
  pool admitted in the middle of a batch needs a second pool or a second submission of
  the same one; three blocks let a batch of two follow an admission. A `ChannelCap` of 1
  makes the sender wait. The ladder of `wait_time_fetch` 1 has the same shape as that of
  any positive value (1, 2, 4, 8, 10); `updater_progress` has it. With the wait of 0 in the
  other run the first error ends it; further tries change `backoff` only, which no safety
  property reads, and the theorems hold for every wait. Events of one pool in one block are applied in a row by one task, so one log per
  block stands for all of them. `FewEvents` is a bound on what comes from outside: two blocks and a
  submission, one block and two submissions; neither the chain nor the poller
  owes anything, so that it takes nothing away from the assumed fairness. Two submissions put one
  pool below another in the stack.
- *Arbitrage.* Two swaps are two handlers, and that is the least for a stale memo, a
  skipped pair and a full channel; a pool that is not first in its leg needs a leg of two.
- *Sync.* Two seconds tell a write in the second of a stamp from one before and one
  after; three writes let a document change while its earlier version is handled and
  another one fail in between.
- *Locks.* One task of each kind: a circle of waiting tasks through two tasks of one kind
  uses the same nestings in the same order. A handler stands for the processor's tasks,
  the executor's and the logger's, which differ only in the routines they may run.
- *Search.* The values of `max_amount` lie below, at and above the points where the
  formulas change shape (no sample below `max_amount`, no logarithmic sample, no filling),
  and the budgets end in the samples (4), in the narrowing (14) and after it
  (20). Peaks are put on, next to and between samples.
- *Paths.* Each document fails in one of the ways the code distinguishes, or in one it does
  not; two of them share a first pool. Documents may be installed any number of times.
- *V3.* The ranges share a lower bound with another's upper bound, nest, and cover
  everything, so that a tick's net liquidity can be zero with gross liquidity left; four
  events suffice to initialize, remove and use a tick again. `W = 9` is above what
  `MaxPerTick` allows five ticks together, as `maxLiquidityPerTick` guarantees of `u128`.
  A tick is a factor of 1.4 of the price, so a step between ticks is large and its rounding
  visible, and a logarithm of 3 digits times 33/16 needs the slacks to find the tick; the amounts quoted end within a range, cross ticks, and reach the limit; a word
  of two ticks puts borders both on and off initialized ticks. All five forms of fee and
  both directions are quoted. The hypotheses of `Executable` are met: quotes of several turns pass
  borders, inputs end exactly, outputs are filled over several turns, RamsesV2 pools
  promise more than is paid, and no input quoted here is outside `Roomy`.
- *Telegram.* Three tasks and the dispatcher are the holder of the Mutex, a press behind it,
  and a note behind both; two errors next to a note, or three, pass the check together or
  one after the other. Two presses let a second mute replace a first one before and
  after it ends; three moments let a mute of 1 end and one of 2 go on.
- *V2.* Fees in units of 1 in 20 and a one of 100 (`Exp18`) keep every product in TLC's
  integers while the divisions stay inexact; reserves are nearly even, lopsided, dust or
  empty, and the stable curve of the first two hides units; three
  steps let a pool drift from its pair, be corrected and be quoted.
- *Settings.* Two values of every setting, one document that changes one of them only, one
  bad document for each place that may fail, and three documents: the bring-up, an update
  that fails, one that repairs. The loop treats tokens alike, so one profit token suffices.

Fairness. `PoolUpdater`: weak fairness of the follower, the initializer, the admission
and the receiver (the runtime polls a ready task), weak fairness of the answer to
`get_block_number` and strong fairness of an up-to-date answer (nodes lag, but not for
ever). Failing `eth_getLogs` is not assumed to stop: the ladder itself is finite.
`Arbitrage`: weak fairness of "some handler or task steps" and of the executor.
`MongoSync`: weak fairness of the task and of its handling, strong fairness of an answered
query per collection (the database fails, but not every time); nodes need not answer.
`NetworkSettings`: strong fairness of listing a token (tokio's locks are fair, so the
writer is let in although the loop comes again), weak fairness of the loop's own steps,
and answers of the price server that name each token now and then; nothing of updates,
which can jam. `RuntimeLocks`: weak fairness of a task inside a routine and of a request that can be
granted; no task need begin another routine. The chain, the market, the writers of the
database and the poller's news owe nothing. `Telegram`: weak fairness of each note's steps and of
the dispatcher's: tokio's Mutex is handed on in order, a request to Telegram ends by
teloxide's time limit, and rendering reads registries whose locks are granted (when they
are not, as in `locks_follower_jams`, a note that waits for one keeps the Mutex, and all
notes and presses wait with it); users and errors owe nothing. `AmountSearch`,
`PathRegistry` and `Pools` are checked for safety only (that a quote ends is bounded by
`Turns`).

Every module states the types of its variables as `TypeOK`. The updater's is checked and
proved; those of `Arbitrage`, `AmountSearch`, `MongoSync`, `PathRegistry`, `RuntimeLocks` (parts of
their inductive invariants), `V3Pool` and `Telegram` are proved; the others document the state. The runs spend
their properties on what could go wrong.

Deadlock is checked in every `PoolUpdater` run. It is off where the system really may stop:
`Arbitrage` (a market that does not move leaves nothing to do), `MongoSync`,
`PathRegistry` and `NetworkSettings` (the polling task may panic), `AmountSearch` (the
function returns), `Pools` and `Telegram` (bounded events), and
`RuntimeLocks`, where a deadlock is what `OnlyNestedReads` describes.

What the violations show:

- `updater_drops_batch`: `proccess_pools` gives a batch up after the last retry and still
  returns `Ok(())`, so the branch of `start` that would keep `last_processed_block` never
  runs: the cursor moves over blocks whose logs were never fetched, and what was in them is lost.
- `locks_follower_jams`: the follower asks for a second read guard on its pool registry
  while it has one; a writer that asks in between (`update_rpcs`) stops both for good.

The positive counterparts say what remains true: `ExactlyOnce` and `FollowsChain` up to
the rewind and the recorded losses, `NoEventSkipped` even after a rewind, `Detected` for
every path whose last change is not of the recorded kinds, `StampCovers` and `Delivered`
for every document not written in the window, `OnlyNestedReads` and `NoOneWaitsForEver`
up to nested reads of one lock, `PeakKept` and `InstalledVerified` with the exact part that
holds, `SourcesPriced` for every path that was installed, `CopiesAgree` and `AppliedInOrder`
whatever failed before.

Seen while modelling and part of the models, without a run of its own:

- The timestamp of a synchronisation is read after the documents were handled
  (`network_collector.rs:118`), so an update written meanwhile is older than the timestamp
  and is not fetched, although `:66` promises "documents updated since last sync"
  (the exception `StampCovers` states).
- The loop over the joints of a leg ends one early (`network_registry.rs:371`), so a leg of
  two hops is not looked at under "verify path is valid" (`:351`); the other chains' legs
  are filed as targets (`:408`) before their own turn.
- The initializer's check and write are two critical sections (`pool_updater_latest_block.rs:56`);
  a late write moves the cursor back (`rewound` in `PoolUpdater`).
- A pair is skipped while one of its directions is executed (`processor.rs:207`); the swap
  that makes the other direction pay is looked at by nobody (`missed` in `Arbitrage`).
- `execute` does not return while its path pays, and `main` awaits it: the other
  opportunities wait without bound.
- Pools of a network that is not known yet are skipped while the timestamp moves on
  (`network_collector.rs:470`, `dropped` in `MongoSync`).
- The polling task panics when a node or a network is missing (`network_collector.rs:270`,
  `network_registry.rs:358`).
- The configuration is read once, at start-up (`bin/main.rs:66`); a change in the database
  has no effect before a restart.
- Further nested reads of one lock: `processor.rs:930` (profit tokens) and
  `network_registry.rs:317` (the map of networks).
- A document that shares a first pool with another replaces its entry, also if it fails
  afterwards; legs that a later version of a document leaves out stay filed. Two paths of
  one chain in one document that begin at the same pool would replace each other as well
  (`FoundFromBothSides` is checked for documents with one path per chain).
- A sample that a pool rounds to zero makes a V2 pool that follows return `Err`
  (`v2.rs:129`), which `processor.rs:874` unwraps: the evaluation ends, although larger
  samples might pay (`SamplePanics` in `AmountSearch`).
- After a lost Mint the next Swap brings liquidity for which the table has no tick ahead.
  `v3_swap` then stays on its tick and never ends (`swap_math.rs:212`); `Quotable` shows
  that this needs a lost event.
- `v3_swap` ends at a gap without liquidity (`end = "dry"`), over which the contract's swap
  goes on: such a quote promises less than is paid.
- `swap_math.rs:221` speaks of exactly replicating the contract. The contract rounds once
  more at every border of a bitmap word, which the tick table does not have; `Executable`
  allows each a unit of output, and of input a unit with its fee and a unit of fee, and with
  this the bound is proved (`QuotesExecute`).
- The ratio factor of a RamsesV2 pool is measured once, with one amount
  (`v3.rs:1073`), and holds for it only. Where the measured output is a small part of the
  estimate the factor is `0 - 1`, the largest word, and is taken for "no estimate"
  (`v3.rs:1117`): the estimate then passes unscaled, which is why `QuotePaid` asks that the
  quoter pays enough for a quotient of 1. A V3 fee is fetched once, too.
- The comment on `escape_markdownv2` lists `_` among what must be escaped (`service.rs:167`),
  and the function leaves it as it is (`:172`). An error is put between two of them, so
  "Error fetching pool ... from identify_and_fetch_pool" (`pool_updater_latest_block.rs:179`)
  has an odd number, unless the node's own text evens it out, and Telegram refuses it.
- `last_log_time` is set before the send (`logger.rs:325`): an error that Telegram refuses still
  silences the others for the interval, those of other chains included. Tasks that pass the
  check together are all sent. The clock is read before the Mutex is waited for, so the older of two
  such stamps may be written last: `last_log_time` goes back, and a later error is sent within the
  interval of the newer one (`WrittenOver`, the exception of `ErrorsThrottled`).
- Notes of one path are tasks of their own and may be sent in another order than they were
  found. A second press replaces the mute, also by a shorter one. Mutes are lost in a
  restart, while the buttons stay.
- The smallest sample, 100, may exceed `max_amount`; with two amounts left the ternary
  search never looks at the upper one (`PeakKept` says so).
- A V2 pool's fee is fetched once. A later change of `factory_to_fee` reaches only pools
  fetched afterwards, and a key that is not written with its checksum is never found.
- `get_y` compares the curve of reserves that are scaled already with `k`, which scales them
  again (`v2.rs:213`, `:250`): the same only for tokens of 18 decimals. With mixed decimals a
  few quotes are above what the contract's own check accepts, so `Executable` is stated where
  the decimals agree, and proved for 18.
- Snapshots of a stable pool of dust can pay for nothing: from reserves (31, 31) at a scale of
  100, without a fee, paying 3 leads to (34, 23), and paying 8 on the other side to (26, 31),
  because neither step lowers the curve as its divisions see it. `NoPump` therefore begins at
  reserves whose units the curve tells apart (`Sharp`), as any pool worth a swap does.
- A price request holds the loop's guards and has no time limit, so `add_token` and
  `update_chain_name` wait as long as it does.
- The price of a profit token is 1 until the first answer names it. During that time a
  path between two networks may compare a fetched price with an assumed one.
- A malformed multicall address is replaced silently at bring-up and is an error in an
  update, which then leaves the settings that follow it alone.
- `identify_pool_type` takes every failing call for "V2" (`pool_fetcher.rs:63`), also one
  that failed on the way.

## 5. What is proved

`PoolUpdaterProofs` proves, for every set of pools, chain length, batch size, lag, wait
time and channel capacity allowed by `ConstantsAssumption`:

| theorem | statement |
|---|---|
| `TypeCorrect` | `Spec => []TypeOK` |
| `Inductive` | `Spec => []IInv` |
| `EventsNotSkipped` | `Spec => []NoEventSkipped` |
| `AppliedExactlyOnce` | `Spec => []ExactlyOnce` |

`NoEventSkipped` is not inductive: whether a block is behind `last_processed_block` is
decided when the batch ends, but its events are applied before. `IInv` adds

- `Positions`: what the locals of `start` say about each other at each `pc` (a batch lies
  between the cursor and the latest block, the latest block is not beyond the head, the
  logs still to apply are logs of the batch, the block read at the top is not ahead of the
  cursor unless it was moved back);
- `DoneIsCovered`: everything `Processed`, the applied part of the running batch included,
  is covered.

`ExactlyOnce` needs in addition that, without a rewind, the value read at the top still
is the cursor while pools are admitted, and that nothing beyond the processed part was
taken in (`Once`, stated per pool and block as `OnceFor`). Each invariant's step proof
has one case per action; the actions that touch neither the registry nor the batch are
settled together by an `UNCHANGED` lemma.

The second half of `PoolUpdaterProofs` builds on these, from the same assumption:

| theorem | statement |
|---|---|
| `PendingOnce` | `Spec => []NoDuplicatePending` |
| `ChangesReflected` | `Spec => []ChangeReflected` |
| `BlocksAnnouncedOnce` | `Spec => AnnouncedOnce` |
| `ImplementsFollower` | `Spec => FollowsChain` |

The poller checks the pending list under one lock and pushes under another; `Pushing` says
why the list gets no duplicate all the same: what is about to be pushed is not there,
because only the poller adds. `Announcing` follows a change through the updater's list into
the channel: a change is of a block of the running batch, by the time the list is sent the
batch is the newest block (so `AnnouncedOnce` holds), and what it tells of is `Due`, that
is, behind the point of processing. With `ExactlyOnce` that makes it reflected in the
cached state. `ImplementsFollower` is the refinement in full: under the mapping of
`PoolUpdater`'s `Follower` (written out as `View` and `Lost`) the initial states map to
initial states and every action to one of `ChainFollower`'s or to a stutter. Most work
of a batch is invisible; the step that moves `last_processed_block` shows all of it at
once, and needs `IInv` and `Once` to know that what it shows is right, and `LossesKnown`
that losses are of registered pools.

`ArbitrageProofs` proves, for every set of legs, networks, pools and prices, every channel
capacity and number of changes allowed by `ArbitrageAssumption`:

| theorem | statement |
|---|---|
| `TypeCorrect` | `Spec => []TypeOK` |
| `FreshOpportunities` | `Spec => []FreshInputs` |
| `ExecutorOwnsPaths` | `Spec => []ExecutingOwned` |

`Typed` is `TypeOK` in parts, so that a step proves those it changes, and adds what the
types alone do not say: a handler that clones has a pair to clone for, one that was not
spawned has neither clones nor memo nor tasks. `Fresh` strengthens `FreshInputs` backwards
along the way of a pool state: from the registry (versions only grow) to a handler's
clones, its memo and the tasks given them, each at least as new as the handler.
`ExecutingOwned` is inductive as it stands.

`MongoSyncProofs` proves, for every set of documents, number of writes and length of time
allowed by `SyncAssumption`:

| theorem | statement |
|---|---|
| `TypeCorrect` | `Spec => [](TypeOK /\ Covering)` |
| `TimestampCovers` | `Spec => []StampCovers` |
| `VersionsHandedOnOnce` | `Spec => HandedOnOnce` |

A timestamp moves at the end of a synchronisation, and `StampCovers` must then hold for
documents decided about long before. `Accounted` carries that along: while a
collection is synced, each of its documents is dealt with, waits in the batch in its
present version, or was written since the query. `BatchOf` says that the batch has one
version per document, of the collection being synced. For `HandedOnOnce`, `DealtWith`
says that a version that was dealt with and is still newer than its timestamp is there
because of an error that kept the timestamp back (`retry`), or because the collection is
being synced.

`TelegramProofs` proves, for every set of paths and buttons, number of tasks and presses,
interval and length of time allowed by `TelegramAssumption`:

| theorem | statement |
|---|---|
| `TypeCorrect` | `Spec => []TypeOK` |
| `MutesAreObeyed` | `Spec => MutesHold` |
| `ErrorsAreThrottled` | `Spec => []ErrorsThrottled` |

`MutesHold` is about the step that sends, and the decision was taken earlier. What carries it
over is `SendingHolds`: a note that is being sent is still the first at the Mutex, and
its path is not muted; only the holder may change the list, so nobody has since. `MutesKept`
says that the list is what was pressed, but for what has expired: it is needed in both
directions, as entries of other paths are dropped on every look. For the errors
`LastStamp` says whose the shared time is: of an error whose stamp is the newest, or was read
before the newer ones and written over them. `FoundOld` keeps for every error what it found
stamped when it looked: each stamp lies an interval back, or one written over it does. As
a stamp that is found is never changed, that stays so while the error waits for the Mutex.
`HeldBack` names the stamp behind every error that is not sent.

`PathRegistryProofs` proves, for every set of documents, each a sequence of paths of any
length with any legs (`PathAssumption`):

| theorem | statement |
|---|---|
| `Inductive` | `Spec => []IInv` |
| `FiledIsVerified` | `Spec => []InstalledVerified` |
| `SourcesHavePrices` | `Spec => []SourcesPriced` |
| `PairsFound` | `OnePathPerChain => (Spec => []FoundFromBothSides)` |

`set_paths` verifies and files path by path, can fail or panic at every leg, and may be
called with any document next. `Entries` says what survives all of it: an entry is the
whole of one path of one document, and its source legs were checked. `Through` is what a
path that was gone through leaves behind (legs checked, first pools filed); it is only ever
added to (`Grows`), so `Working` has it for the paths before the one in work and `Installed`
for those of an installed document, which gives the targets. `InstalledVerified` has both: the
source legs of every entry, and the targets of installed documents that have their first pools to
themselves; the targets a rejected document leaves were not verified, and no theorem says so. `EntryOfAlone` joins the two: at
a first pool no other document uses, the entry is the installed document's.
`OnePathPerChain` is a hypothesis of `PairsFound` because two paths of one chain that begin
at the same pool replace each other (section 4).

`NetworkSettingsProofs` proves, for every set of documents and settings, tokens and pools
allowed by `SettingsAssumption`:

| theorem | statement |
|---|---|
| `SettingsApplied` | `Spec => []AppliedInOrder` |
| `CopiesStayTogether` | `Spec => []CopiesAgree` |
| `TokensListed` | `Spec => []NoTokenForgotten` |
| `PricesUnderName` | `Spec => PricesOfTheName` |
| `OneLockOrder` | `LocksSpec => []OnlyNestedReads` |

An update skips the copies behind a first one that already agrees with the document. That
this leaves no copy behind needs `Updating` and `Resting`: an update starts from copies that
agree, the copies it has passed hold the document's settings (`Applied`), and where it
stops, by an error, a panic or at the end, they agree again. `Parsed` is needed at the
addresses: an address that does not parse ends the update, so no copy ever equals one. The
second invariant has the price loop: while a request is out, the name it was made with is the
fetcher's (`Looping`), because `update_chain_name` waits for the loop's guard; and the fetcher
has a name as soon as the network has one (`Named`).

`OneLockOrder` is about `RuntimeLocks`, for any number of tasks and any set of settings an
update may change. The locks have ranks (`network` < `provider` < `multicall` < `pools` <
`profit`), and `Fits`, proved routine by routine from what it is put together from, says that a
routine asks for a lock only while what it holds ranks lower; the exceptions read a lock again
that they read already. In a circle of waiting tasks take, of the locks waited for, the one of
highest rank, and the first request in its queue: it is blocked by a task of the circle, which holds
that lock, and nothing higher is waited for, so that task waits for the same lock again, as a
reader behind a writer (`CirclesJam`). Before that the invariant relates queues, holders and
what each routine still has to do (`LocksInv`).

`ArbitrageProofs` also proves, for every set of curves, amounts and budgets allowed by
`SearchAssumption`:

| theorem | statement |
|---|---|
| `SearchTypeCorrect` | `SearchSpec => []SearchTypeOK` |
| `AnswerIsBest` | `SearchSpec => []BestOfEvaluated` |
| `NothingBetterLost` | `SearchSpec => []PeakKept` |

`BestKept` is preserved by `Better`, whatever amounts are simulated; `Counted` relates their
number to the turns of the two loops, whose exits differ (the ternary search counts a turn for
two amounts). That every sample is an amount the search may use rests on the formulas of the
key points (`KeyPointsTyped`, `SamplesTyped`) and on the mid points lying within the interval
(`MidsInside`). That `100 ^ k` is a natural number is part of the assumption, which TLC
evaluates. `PeakKept` compares what a turn cuts off with what it keeps, at any distance, while
concavity is stated for neighbours; `FallsAlong` and `RisesAlong` carry it over, by a least
counterexample (`LeastNumber`).

`PoolsProofs` and, on top of it, `QuotesProofs` (`QuotesExecute`) prove, for every set of
ranges, amounts, prices and widths allowed by `MathAssumption`, `V3Assumption` and, for quotes, `PowersOfTwo`, `TickMathAssumption` and
`QuoteAssumption`, of the V3 pools:

| theorem | statement |
|---|---|
| `PoolFollows` | `Spec => [](InStep /\ RejectsOnlyAfterLoss /\ SwapRepairs /\ TypeOK)` of `V3Pool` |
| `PoolInStep`, `RejectionsExplained`, `SwapsRepair` | the same of the composition `Pools` |
| `MulDivExact` | `mul_div` is the exact quotient of the exact product, an `Err` just where that is no word |
| `SwapStepSound` | `compute_swap_step` is never an `Err`, does not pass its target and takes and gives no more than it may |
| `QuotesGoThrough` | `PoolsSpec => []Quotable` |
| `QuotesExecute` | `PoolsSpec => []Executable` |

and, for every set of fees, reserves, amounts and number of turns allowed by
`PairAssumption`, of the pairs:

| theorem | statement |
|---|---|
| `PairFollows` | `PoolsSpec => []PairInStep` |
| `PairsExecutable` | `Fees \subseteq 0..ReverseFeeMax` gives `V2!Executable` for tokens of 18 decimals, and all of `PairExecutable` on the constant product |
| `PairsDoNotPump` | `PairNoPump` on the constant product and for tokens of 18 decimals |

`InStep` compares a table kept by a fold over events with sums over the contract's positions.
The library's sums are recursive functions over sets; that they can be split, changed in a term
and compared is proved first (`SumUnion` to `SumChanged`). The invariant then keeps the
way the chain took since the pool was last where the pool now is (`Follows`): `h[0]` is that
state, `h[n]` the chain after `n` of the events on their way. A step of the chain
lengthens `h`; `apply_log` drops `h[0]`, and what it does to the table is what one position
does to the sums (`MintApplied`, `BurnApplied`), provided no addition saturates. That none
does follows from what the contract allows per tick: all ranges start at some tick, so
no tick is under more than `MaxPerTick * Cardinality(Ticks)` (`StartedBounded`).

A quote rests on the library. `mul_div` gets the product of two words as its residues modulo
`Word` and `Word - 1` (`TwoWords`), makes the division exact, divides the powers of two out
(`TwosOut`) and multiplies with the inverse of the odd rest: a Newton step squares the error
of an inverse, so that one right modulo `m` is right modulo `m * m` afterwards
(`NewtonDoubles`), and the seed `(3 d) XOR 2` is right modulo 16 (`SeedInverts`). On exact
quotients the rest of the library is a matter of directions of rounding: what is left less its
fee takes with its fee no more than is left (`LessFeeIs`), and an amount that does not pay for
the target leads to a price not beyond it, out of all the branches of `sqrt_price_math`
(`NextDownIn`, `NextUpIn`, `NextDownOut`, `NextUpOut`), the one for an overflowing product
included, which no run reaches. So a step ends at its target or uses up what was left
(`SwapStepSound`). For `Quotable` a turn of `v3_swap` must leave liquidity, tick and price
together (`Placed`): at a tick it crosses the net liquidity of the table is that of the
positions, between two ticks of the table the sum over the positions does not change
(`ActiveSame`), and without a tick ahead there is no liquidity (`ActiveNone`), so that the step
back to the tick it stands on ends the quote instead of repeating it. A turn that
goes on has crossed a tick, hence the bound on the turns (`InTime`). This needs a pool where the
contract is, which is what `InStep` gives when the quote begins.

`Executable` compares two loops that stop at different ticks, each a recursive function of its
turns. What a way between two prices is charged and what it gains is first put over one
denominator: in two parts it is charged as much as the whole or `MoreInTwoParts` more, and gains
as much or a unit less (`ChargeSplit`, `GainSplit`). A turn of either loop goes to its target or as
far as what is left pays for (`SpentOn`, `ContractGone`), and a border that is no initialized
tick changes neither the liquidity nor the ticks ahead (`BorderOf`). So the two can be compared
turn by turn of the contract. Between the same initialized ticks and over the same liquidity,
the contract keeps up with the quote if it has that much more input for every border (`KeepsUp`;
`KeepUpBorder` and `KeepUpCross` are its two kinds of turn), which ends in `QuoteCovered`; at the
same fee the contract owes the quote at least what it has lost at borders (`Matches`), which
ends in `QuoteMatched`; and an output's quote and the quote of the input it comes to take the
same turns, what one has still to ask for being what the other has still to get (`Mirrors`,
`QuoteBought`). The invariant adds to that of `Quotable` that a running quote is where the
function `Result` is after as many turns (`QuoteCame`), since `QuoteBuys` and the ratio factor are
about that function. `RamsesPaid` is the arithmetic of the factor: a quotient less one, times the
estimate, is at most what was paid, and the lesser of two directions holds for both.

The assumptions on the constants say of the code's widths what holds for them: `PowersOfTwo` is
a law of arithmetic, stated because the prover knows no powers; `TickMathAssumption` says that
the factors of `tick_math` give every tick a price, no two alike, and the logarithm the
tick of a price. The code's numbers (14 digits, a factor of 255738958999603826347141 at 64
fraction bits, the slacks 3402992956809132418596140100660247210 and
291339464771989622907027621153398088495 at 128) are among those the module admits, and the
assumption is what they were chosen for; TLC evaluates it for the numbers of the run, which
have the same shape; the inequality on fees in `QuoteAssumption` says that
no fee on all a step can take overflows a word, at 256, 128 and 96 bits for every fee below
1000000 pips by far; the factor that changes nothing is a word, as a `U256` is.

A pair's last Sync on its way holds the contract's reserves (`SyncsFollow`). The quote on the
constant product leaves the least reserve that keeps the product from falling
(`ProductQuote`). On the stable curve nothing is assumed of the way Newton's loop takes: whatever
`y` it answers, its last turn has seen the curve at `y` as high as before the swap
(`GetYSeeks`), and the curve rises with either reserve (`FRises`). So no swap of a snapshot
lowers its curve (`CurveKept`), which is the invariant behind `PairNoPump`. The
hypotheses are those the code needs: a fee above `ReverseFeeMax` is read as what is left of
it, and with other decimals `get_y` compares two different curves (section 4).

Induction. The library's induction theorems take an operator as a parameter, which the
installed provers cannot instantiate. Where a proof needs induction it takes a least
counterexample instead, from the well-foundedness of the natural numbers or of the subsets of a
finite set (`SmallestNumber`, `SmallestSet`, `LeastPosition`); that a recursive function
exists is shown in the same way (`AddsExists`, `WalkExists`).

Only model-checked: everything under fairness (liveness and `ENABLED` are outside what
the prover supports), that is `CatchesUp`, `PendingServed`, `Detected`, `ExecutionEnds`,
`Delivered`, `PricesFollow`, `NothingPends` and `NoOneWaitsForEver`; every other property of the
passing runs is stated by a theorem. Of what the theorems assume or leave out: that the
logarithm of `tick_math` with its error bounds finds the tick of every price
(`TickMathAssumption`); of the stable curve, that Newton's iteration neither divides by zero nor
leaves the numbers (`PricedQuotesSound`), and quotes between tokens of other decimals.

## 6. What is not modelled

`PROJECT.json` lists every component with its status. Left out for good: arithmetic at its
full 256 and 512 bits (values out of a model checker's reach; `V3Math` and `V2Pool` have the
algorithms at small widths, the theorems of section 5 hold for all), decoding of RPC answers, the MongoDB driver, TOML parsing,
rendering of messages, metrics nobody reads, modules the binary does not instantiate
(`MultichainPathRegistry`, the configurator, the pool registry of several chains), and the
WebSocket source: nothing constructs a `WebsocketListener` or an `EventQueue`, and
`pool_updater_websocket.rs`, which would consume their events, is commented out as a whole, so
there is no behaviour of the program to be faithful to. In the modelled parts, what nothing
calls is left out: the signed amount deltas, `unsafe_math`, `nearest_usable_tick`, the
copies of pools for the database, removals from the registries. A quoter that fails
while a ratio factor is measured is not modelled either (the factor is then the neutral
one).
