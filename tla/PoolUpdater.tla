----------------------------- MODULE PoolUpdater -----------------------------
(***************************************************************************)
(* The per-network block follower: PoolUpdaterLatestBlock::new, ::start,   *)
(* proccess_pools and ::add_pending_new_pools, together with the part of   *)
(* PoolRegistry they share.  Three tasks run: the follower itself          *)
(* (start), the initializer that new() spawns, and the MongoDB poller,     *)
(* which submits pools and changes the two tunables.  A step is what one   *)
(* task does between two points where another task can see the shared      *)
(* state: a lock taken, a remote call answered, a channel send.            *)
(*                                                                         *)
(* A pool's on-chain events of one block are one log, either "swap" (its   *)
(* topic is in profitable_topics) or "other"; seen[p][b] counts how often  *)
(* the cached state of pool p has taken in what p did in block b.          *)
(***************************************************************************)
EXTENDS Integers, Sequences, FiniteSets

CONSTANTS
    Pools,           \* pool addresses the configuration can name
    MaxBlock,        \* bound: the chain grows up to this block
    StartBlock,      \* chain head when the network is brought up
    BatchSizes,      \* values max_blocks_per_batch can be given
    WaitTimes,       \* values wait_time_fetch can be given
    HeadLag,         \* bound: how far behind the answering node may be
    ChannelCap,      \* capacity of the swap-event channel
    MaxSubmissions   \* bound: how many pools the poller submits

ASSUME ConstantsAssumption ==
    /\ MaxBlock \in Nat /\ StartBlock \in Nat /\ StartBlock <= MaxBlock
    /\ BatchSizes \subseteq Nat /\ BatchSizes # {}
    /\ WaitTimes \subseteq Nat /\ WaitTimes # {}
    /\ HeadLag \in Nat /\ ChannelCap \in Nat /\ MaxSubmissions \in Nat

VARIABLES
    head,            \* number of the newest block
    logs,            \* logs[b][p]: what pool p emitted in block b
    lastProcessed,   \* PoolRegistry.last_processed_block
    registered,      \* the keys of PoolRegistry.by_address
    seen,            \* what the cached pools have taken in
    pending,         \* pending_new_pools, a stack
    maxBatch,        \* max_blocks_per_batch
    waitTime,        \* wait_time_fetch
    pc,              \* where start() or proccess_pools is
    base,            \* start: last_processed_block, read at the top
    newPool,         \* start: pool_address, popped and being fetched
    latest,          \* start: latest_block
    current,         \* start: current_block, the first block of the batch
    batchEnd,        \* start: batch_end
    backoff,         \* proccess_pools: backoff
    maxBackoff,      \* proccess_pools: max_backoff
    todo,            \* proccess_pools: <<b, p>> fetched, not yet applied
    swaps,           \* proccess_pools: swap_events
    iniPc,           \* where the initializer task is
    admPc,           \* where add_pending_new_pools is
    admPool,         \* add_pending_new_pools: address
    submitted,       \* bound: pools submitted so far
    channel,         \* the mpsc channel of PoolChange messages
    failed,          \* history: blocks whose logs were given up
    missing,         \* history: <<b, p>> the cached state of p lacks
    refused,         \* history: pools whose last fetch has failed
    rewound          \* history: last_processed_block went backwards

chain == <<head, logs>>
registry == <<lastProcessed, registered, seen>>
config == <<maxBatch, waitTime>>
history == <<failed, missing, refused, rewound>>
batch == <<latest, current, batchEnd>>
fetch == <<backoff, maxBackoff, todo, swaps>>
updater == <<pc, base, newPool, batch, fetch>>
poller == <<admPc, admPool, submitted>>
vars == <<chain, registry, config, history, pending, channel, updater, iniPc, poller>>

Blocks == 1..MaxBlock
Kinds == {"none", "swap", "other"}
Change == [pool : Pools, block : Blocks]
Lower(a, b) == IF a <= b THEN a ELSE b

TypeOK ==
    /\ head \in 0..MaxBlock
    /\ logs \in [Blocks -> [Pools -> Kinds]]
    /\ lastProcessed \in 0..MaxBlock
    /\ registered \subseteq Pools
    /\ seen \in [Pools -> [Blocks -> Nat]]
    /\ pending \in Seq(Pools)
    /\ maxBatch \in Nat /\ waitTime \in Nat
    /\ pc \in {"start", "top", "drain", "fetchPool", "head", "batch",
              "fetchLogs", "apply", "send", "setLast"}
    /\ base \in 0..MaxBlock /\ latest \in 0..MaxBlock
    /\ current \in 0..MaxBlock + 1 /\ batchEnd \in 0..MaxBlock
    /\ newPool \in Pools \cup {"none"}
    /\ backoff \in Nat /\ maxBackoff \in Nat
    /\ todo \subseteq Blocks \X Pools
    /\ swaps \in Seq(Change) /\ channel \in Seq(Change)
    /\ iniPc \in {"read", "write", "done"}
    /\ admPc \in {"exists", "contains", "push"}
    /\ admPool \in Pools \cup {"none"} /\ submitted \in Nat
    /\ failed \subseteq Blocks
    /\ missing \subseteq Blocks \X Pools
    /\ refused \subseteq Pools
    /\ rewound \in BOOLEAN

Init ==
    /\ head = StartBlock
    /\ logs \in [Blocks -> {[p \in Pools |-> "none"]}]
    /\ lastProcessed = 0 /\ registered = {}
    /\ seen = [p \in Pools |-> [b \in Blocks |-> 0]]
    /\ pending = <<>>
    /\ maxBatch \in BatchSizes /\ waitTime \in WaitTimes
    /\ pc = "start" /\ base = 0 /\ newPool = "none"
    /\ latest = 0 /\ current = 0 /\ batchEnd = 0
    /\ backoff = 0 /\ maxBackoff = 0 /\ todo = {} /\ swaps = <<>>
    /\ iniPc = "read"
    /\ admPc = "exists" /\ admPool = "none" /\ submitted = 0
    /\ channel = <<>>
    /\ failed = {} /\ missing = {} /\ refused = {} /\ rewound = FALSE
-----------------------------------------------------------------------------
(* The chain and its nodes (external): a new block carries at most one log *)
(* per pool; a log is only ever seen by the program once it is fetched.    *)
Mine ==
    /\ head < MaxBlock
    /\ head' = head + 1
    /\ \E l \in [Pools -> Kinds] : logs' = [logs EXCEPT ![head + 1] = l]
    /\ UNCHANGED <<registry, config, history, pending, channel, updater, iniPc, poller>>

-----------------------------------------------------------------------------
(* The task spawned by new(): it reads last_processed_block under one lock *)
(* and writes start_block under another.                                   *)
InitializerRead ==
    /\ iniPc = "read"
    /\ iniPc' = IF lastProcessed = 0 \/ (StartBlock > 0 /\ StartBlock > lastProcessed)
                THEN "write" ELSE "done"
    /\ UNCHANGED <<chain, registry, config, history, pending, channel, updater, poller>>

InitializerWrite ==
    /\ iniPc = "write"
    /\ iniPc' = "done"
    /\ lastProcessed' = StartBlock
    /\ rewound' = (rewound \/ StartBlock < lastProcessed)
    /\ UNCHANGED <<chain, registered, seen, config, failed, missing, refused, pending,
                   channel, updater, poller>>

-----------------------------------------------------------------------------
(* start(): the prologue (main passes no initial pools), then the loop.    *)
Start ==
    /\ pc = "start"
    /\ pc' = "top"
    /\ lastProcessed' = StartBlock
    /\ UNCHANGED <<chain, registered, seen, config, history, pending, channel,
                   base, newPool, batch, fetch, iniPc, poller>>

ReadLastProcessed ==
    /\ pc = "top"
    /\ pc' = "drain" /\ base' = lastProcessed
    /\ UNCHANGED <<chain, registry, config, history, pending, channel, newPool,
                   batch, fetch, iniPc, poller>>

Popped == SubSeq(pending, 1, Len(pending) - 1)

(* pop() takes the newest entry. *)
PopPending ==
    /\ pc = "drain" /\ pending # <<>>
    /\ pc' = "fetchPool"
    /\ newPool' = pending[Len(pending)] /\ pending' = Popped
    /\ refused' = refused \ {pending[Len(pending)]}
    /\ UNCHANGED <<chain, registry, config, failed, missing, rewound, channel, base,
                   batch, fetch, iniPc, poller>>

(* What a pool fetched with its state at block n has taken in. *)
StateBefore(n) == [b \in Blocks |-> IF b < n THEN 1 ELSE 0]
StateAfter(n) == [b \in Blocks |-> IF b <= n + 1 THEN 1 ELSE 0]
StateAt(n) == [b \in Blocks |-> IF b <= n THEN 1 ELSE 0]

(* identify_and_fetch_pool answered; add_pool replaces an older entry. *)
FetchPoolOk ==
    /\ pc = "fetchPool"
    /\ pc' = "drain" /\ newPool' = "none"
    /\ registered' = registered \cup {newPool}
    /\ seen' = [seen EXCEPT ![newPool] = StateAt(base)]
    /\ missing' = {m \in missing : m[2] # newPool}
    /\ UNCHANGED <<chain, lastProcessed, config, failed, refused, rewound, pending,
                   channel, base, batch, fetch, iniPc, poller>>

(* It failed: the pool is neither pending nor registered any more. *)
FetchPoolErr ==
    /\ pc = "fetchPool"
    /\ pc' = "drain" /\ newPool' = "none"
    /\ refused' = refused \cup {newPool}
    /\ UNCHANGED <<chain, registry, config, failed, missing, rewound, pending, channel,
                   base, batch, fetch, iniPc, poller>>

DrainedButOne == Len(pending) <= 1
Drained == pending = <<>>

DrainDone ==
    /\ pc = "drain" /\ Drained
    /\ pc' = "head"
    /\ UNCHANGED <<chain, registry, config, history, pending, channel, base,
                   newPool, batch, fetch, iniPc, poller>>

NothingButNewest(n) == base + 1 >= n
NothingNew(n) == base + 1 > n

(* get_block_number, answered by a node that may lag; an error is retried  *)
(* without limit and changes nothing.                                      *)
FetchHead(n) ==
    /\ pc = "head"
    /\ IF NothingNew(n)
       THEN pc' = "top" /\ UNCHANGED batch
       ELSE pc' = "batch" /\ latest' = n /\ current' = base + 1 /\ UNCHANGED batchEnd
    /\ UNCHANGED <<chain, registry, config, history, pending, channel, base,
                   newPool, fetch, iniPc, poller>>

-----------------------------------------------------------------------------
BatchEndUncapped == current + maxBatch - 1
BatchEnd == Lower(current + maxBatch - 1, latest)

(* One turn of the inner loop, up to the first request of proccess_pools;  *)
(* with no registered pool there is nothing to fetch.                      *)
BeginBatch ==
    /\ pc = "batch" /\ current <= latest
    /\ pc' = IF registered = {} THEN "setLast" ELSE "fetchLogs"
    /\ batchEnd' = BatchEnd
    /\ backoff' = waitTime /\ maxBackoff' = 10 * waitTime
    /\ UNCHANGED <<chain, registry, config, history, pending, channel, base,
                   newPool, latest, current, todo, swaps, iniPc, poller>>

(* The locals of the finished turn go out of scope. *)
EndOfBatches ==
    /\ pc = "batch" /\ current > latest
    /\ pc' = "top"
    /\ latest' = 0 /\ current' = 0 /\ batchEnd' = 0
    /\ backoff' = 0 /\ maxBackoff' = 0
    /\ UNCHANGED <<chain, registry, config, history, pending, channel, base,
                   newPool, todo, swaps, iniPc, poller>>

Batch == current .. batchEnd

FetchedLogsAfterFirst ==
    {m \in (Batch \ {current}) \X registered : logs[m[1]][m[2]] # "none"}

(* fetch_events: the logs of the registered addresses in the batch. *)
FetchedLogs == {m \in Batch \X registered : logs[m[1]][m[2]] # "none"}

FetchLogsOk ==
    /\ pc = "fetchLogs"
    /\ pc' = "apply" /\ todo' = FetchedLogs
    /\ UNCHANGED <<chain, registry, config, history, pending, channel, base,
                   newPool, batch, backoff, maxBackoff, swaps, iniPc, poller>>

FetchLogsRetry ==
    /\ pc = "fetchLogs" /\ backoff # maxBackoff
    /\ backoff' = Lower(2 * backoff, maxBackoff)
    /\ UNCHANGED <<chain, registry, config, history, pending, channel, pc, base,
                   newPool, batch, maxBackoff, todo, swaps, iniPc, poller>>

(* The last error leaves the retry loop, and proccess_pools returns Ok. *)
FetchLogsGiveUp ==
    /\ pc = "fetchLogs" /\ backoff = maxBackoff
    /\ pc' = "setLast"
    /\ failed' = failed \cup Batch
    /\ missing' = missing \cup FetchedLogs
    /\ UNCHANGED <<chain, registry, config, refused, rewound, pending, channel, base,
                   newPool, batch, fetch, iniPc, poller>>

-----------------------------------------------------------------------------
IsLatest == batchEnd = latest

(* Events come in block order; within a block the order is the chain's. *)
NextLog(m) == m \in todo /\ \A n \in todo : m[1] <= n[1]

Collected(m) ==
    IF IsLatest /\ logs[m[1]][m[2]] = "swap"
    THEN Append(swaps, [pool |-> m[2], block |-> m[1]])
    ELSE swaps

AppliedTo(p, b) == [seen EXCEPT ![p][b] = @ + 1]

ApplyLog(m) ==
    /\ pc = "apply" /\ NextLog(m)
    /\ seen' = AppliedTo(m[2], m[1])
    /\ todo' = todo \ {m} /\ swaps' = Collected(m)
    /\ UNCHANGED <<chain, lastProcessed, registered, config, history, pending,
                   channel, pc, base, newPool, batch, backoff, maxBackoff, iniPc, poller>>

(* apply_log returned Err: logged, and the event announced all the same. *)
ApplyLogErr(m) ==
    /\ pc = "apply" /\ NextLog(m)
    /\ missing' = missing \cup {m}
    /\ todo' = todo \ {m} /\ swaps' = Collected(m)
    /\ UNCHANGED <<chain, registry, config, failed, refused, rewound, pending, channel,
                   pc, base, newPool, batch, backoff, maxBackoff, iniPc, poller>>

AnnouncesAnyBatch == IsLatest
Announces == IsLatest /\ current = batchEnd

ApplyDone ==
    /\ pc = "apply" /\ todo = {}
    /\ pc' = "send"
    /\ swaps' = IF Announces THEN swaps ELSE <<>>
    /\ UNCHANGED <<chain, registry, config, history, pending, channel, base,
                   newPool, batch, backoff, maxBackoff, todo, iniPc, poller>>

(* swap_event_tx.send waits for room in the channel. *)
SendChange ==
    /\ pc = "send" /\ swaps # <<>>
    /\ Len(channel) < ChannelCap
    /\ channel' = Append(channel, Head(swaps))
    /\ swaps' = Tail(swaps)
    /\ UNCHANGED <<chain, registry, config, history, pending, pc, base, newPool,
                   batch, backoff, maxBackoff, todo, iniPc, poller>>

SendDone ==
    /\ pc = "send" /\ swaps = <<>>
    /\ pc' = "setLast"
    /\ UNCHANGED <<chain, registry, config, history, pending, channel, base,
                   newPool, batch, fetch, iniPc, poller>>

NewLastOfRound == latest
NewLast == batchEnd

SetLastProcessed ==
    /\ pc = "setLast"
    /\ pc' = "batch"
    /\ lastProcessed' = NewLast
    /\ current' = batchEnd + 1
    /\ UNCHANGED <<chain, registered, seen, config, history, pending, channel,
                   base, newPool, latest, batchEnd, fetch, iniPc, poller>>

(* The receiving side: main's loop spawns a handler per message. *)
ReceiveChange ==
    /\ channel # <<>>
    /\ channel' = Tail(channel)
    /\ UNCHANGED <<chain, registry, config, history, pending, updater, iniPc, poller>>

-----------------------------------------------------------------------------
(* add_pending_new_pools: three locks, taken one after the other. *)
CheckExists(p) ==
    /\ admPc = "exists" /\ submitted < MaxSubmissions
    /\ admPc' = IF p \in registered THEN "exists" ELSE "contains"
    /\ admPool' = p /\ submitted' = submitted + 1
    /\ UNCHANGED <<chain, registry, config, history, pending, channel, updater, iniPc>>

IsPending(p) == \E i \in DOMAIN pending : pending[i] = p

AfterContainsUnchecked == "push"
AfterContains == IF IsPending(admPool) THEN "exists" ELSE "push"

CheckContains ==
    /\ admPc = "contains"
    /\ admPc' = AfterContains
    /\ UNCHANGED <<chain, registry, config, history, pending, channel, updater,
                   iniPc, admPool, submitted>>

PushPending ==
    /\ admPc = "push"
    /\ admPc' = "exists"
    /\ pending' = Append(pending, admPool)
    /\ UNCHANGED <<chain, registry, config, history, channel, updater, iniPc,
                   admPool, submitted>>

(* set_max_blocks_per_batch and set_wait_time_fetch, called by the poller. *)
SetMaxBlocksPerBatch ==
    /\ maxBatch' \in BatchSizes
    /\ UNCHANGED <<chain, registry, waitTime, history, pending, channel, updater,
                   iniPc, poller>>

SetWaitTimeFetch ==
    /\ waitTime' \in WaitTimes
    /\ UNCHANGED <<chain, registry, maxBatch, history, pending, channel, updater,
                   iniPc, poller>>

-----------------------------------------------------------------------------
Initializer == InitializerRead \/ InitializerWrite

(* Every step of start() but the answer to get_block_number. *)
UpdaterStep ==
    \/ Start \/ ReadLastProcessed
    \/ PopPending \/ FetchPoolOk \/ FetchPoolErr \/ DrainDone
    \/ BeginBatch \/ EndOfBatches
    \/ FetchLogsOk \/ FetchLogsRetry \/ FetchLogsGiveUp
    \/ \E m \in todo : ApplyLog(m) \/ ApplyLogErr(m)
    \/ ApplyDone \/ SendChange \/ SendDone \/ SetLastProcessed

FetchSomeHead == \E n \in 0..head : n + HeadLag >= head /\ FetchHead(n)

AdmissionStep == CheckContains \/ PushPending

Next ==
    \/ Mine
    \/ Initializer
    \/ UpdaterStep
    \/ FetchSomeHead
    \/ ReceiveChange
    \/ \E p \in Pools : CheckExists(p)
    \/ AdmissionStep
    \/ SetMaxBlocksPerBatch \/ SetWaitTimeFetch

Spec == Init /\ [][Next]_vars

(* Fairness: the runtime schedules every task that can run, and a remote   *)
(* call is answered, well or badly (the transport has timeouts); sooner or *)
(* later an up-to-date node answers get_block_number.  Nothing obliges     *)
(* the chain to grow or the poller to submit anything.                     *)
Fairness ==
    /\ WF_vars(Initializer) /\ WF_vars(UpdaterStep) /\ WF_vars(FetchSomeHead)
    /\ SF_vars(FetchHead(head))
    /\ WF_vars(AdmissionStep) /\ WF_vars(ReceiveChange)

FairSpec == Spec /\ Fairness
-----------------------------------------------------------------------------
(* Properties. *)

(* What the cached state of p ought to have taken in of block b: the block *)
(* is behind last_processed_block, or in the batch being applied and its   *)
(* event is done with.                                                     *)
Processed(b, p) ==
    \/ b <= lastProcessed
    \/ pc \in {"apply", "send", "setLast"} /\ b \in Batch /\ <<b, p>> \notin todo

(* Unless the initializer moved last_processed_block back, the cached      *)
(* state of every registered pool has taken in each event up to the point  *)
(* of processing exactly once and none beyond it, whatever the order in    *)
(* which pools are submitted, fetched (even twice) and blocks are mined;   *)
(* the only events it lacks are those of given-up batches and those        *)
(* apply_log rejected since the pool was last fetched.                     *)
ExactlyOnce ==
    ~rewound =>
        \A p \in registered, b \in 1..head :
            logs[b][p] # "none" =>
                seen[p][b] = IF Processed(b, p) /\ <<b, p>> \notin missing THEN 1 ELSE 0

(* Even after a rewind no event at or before last_processed_block is       *)
(* skipped silently: a registered pool has it or it is a recorded loss.    *)
NoEventSkipped ==
    \A p \in registered, b \in 1..lastProcessed :
        logs[b][p] # "none" => seen[p][b] >= 1 \/ <<b, p>> \in missing

(* A PoolChange waiting in the channel, or about to be sent, names a       *)
(* registered pool whose cached state already has the event announced:     *)
(* the handler it triggers never computes with the state before it.        *)
ChangeReflected ==
    ~rewound =>
        \A c \in {channel[i] : i \in DOMAIN channel} \cup {swaps[i] : i \in DOMAIN swaps} :
            /\ c.pool \in registered
            /\ seen[c.pool][c.block] >= 1 \/ <<c.block, c.pool>> \in missing

(* A pool waits at most once in pending_new_pools, although the check and  *)
(* the push take separate locks and the follower pops in between.          *)
NoDuplicatePending ==
    \A i, j \in DOMAIN pending : pending[i] = pending[j] => i = j

(* Changes are announced only for the block right after the last processed *)
(* one, so a follower that never went back announces a block's events in   *)
(* one go and never again.                                                 *)
AnnouncedOnce ==
    [][Len(channel') > Len(channel) /\ ~rewound =>
           channel'[Len(channel')].block = lastProcessed + 1]_vars

(* Every block mined is processed sooner or later, whatever the nodes fail *)
(* to answer: the retry ladder of fetch_events is finite.                  *)
CatchesUp == \A b \in Blocks : head >= b ~> lastProcessed >= b

(* Every pool put into pending_new_pools is fetched in the end, whatever   *)
(* is pushed onto it in the meantime and however the fetches before it     *)
(* end; and of that one attempt it comes registered, or is refused.  None  *)
(* is tried again and again, at the expense of those below it.             *)
PendingServed ==
    \A p \in Pools :
        /\ IsPending(p) ~> newPool = p
        /\ newPool = p ~> newPool # p /\ p \in registered \cup refused

(* "Don't update last_processed_block on error": a batch whose events      *)
(* could not be fetched stays ahead of last_processed_block.               *)
NotAdvancedOnError == \A b \in failed : b > lastProcessed

(* Seen from a reader of the registry, with the work of the current batch  *)
(* hidden until last_processed_block moves, the updater is the follower    *)
(* that ChainFollower specifies.                                           *)
Follower == INSTANCE ChainFollower WITH
    cursor <- lastProcessed,
    known <- registered,
    view <- [p \in Pools |->
                IF p \in registered
                THEN {b \in 1..lastProcessed : logs[b][p] # "none" /\ seen[p][b] = 1}
                ELSE {}],
    lost <- {m \in missing : m[1] <= lastProcessed},
    exact <- ~rewound

FollowsChain == Follower!Spec
=============================================================================
