------------------------------ MODULE Arbitrage ------------------------------
(***************************************************************************)
(* From a pool change to an executed path: the handler that                *)
(* handle_pool_change runs per change, the two tasks it spawns per pair of *)
(* legs (handle_path there and back), the opportunity channel, and the one *)
(* executor that main runs.  Steps are what one task does between two      *)
(* awaits at which another can interfere.                                  *)
(*                                                                         *)
(* A leg is a PoolPath from the anchor token on one network.  Searching    *)
(* for the best amount is abstracted to the sign of a profit: a leg's      *)
(* price is the sum of its pools' prices, and a path that buys along one   *)
(* leg and sells along another pays if the second is dearer by MinProfit.  *)
(* A pool at price Dry fails calculate_output.                             *)
(***************************************************************************)
EXTENDS Integers, Sequences, FiniteSets, FiniteSetsExt

CONSTANTS
    Networks, Pools, Legs,
    PoolsOf,         \* PoolsOf[l]: the sequence of pools of leg l
    NetworkOf,       \* NetworkOf[l]: the network leg l is on
    Prices,          \* what a pool can cost
    Dry,             \* price of a pool whose calculate_output returns Err
    MinProfit,       \* the larger min_profit_usd of two networks
    OppCap,          \* capacity of the opportunity channel
    MaxChanges       \* bound: swap events the updaters announce

ASSUME ArbitrageAssumption ==
    /\ PoolsOf \in [Legs -> Seq(Pools) \ {<<>>}]
    /\ NetworkOf \in [Legs -> Networks]
    /\ Prices \subseteq Int \cup {Dry} /\ Dry \notin Int
    /\ MinProfit \in Int /\ MinProfit > 0
    /\ OppCap \in Nat \ {0} /\ MaxChanges \in Nat

VARIABLES
    pool,            \* pool[p]: price and version of the cached state
    registered,      \* pools in the pool registries
    outbox,          \* outbox[n]: changes n's updater applied, not handled
    changes,         \* bound: swaps so far
    doing,           \* doing[h]: where handler h is
    since,           \* history: the versions when handler h was spawned
    todo,            \* todo[h]: pairs of legs h has yet to look at
    pair,            \* pair[h]: the pair it looks at
    snap,            \* snap[h]: the pool states it has cloned for the pair
    memo,            \* memo[h]: <<pool, side, state>> in h's memo_cache
    tasks,           \* the spawned tasks that are still running
    queue,           \* the opportunity channel
    executing,       \* executing_paths
    executor,        \* where Executor::execute is
    current,         \* the path it executes
    look,            \* the pool states load_pool_and_handle_path cloned
    answered,        \* history: paths found to pay since their last change
    missed           \* history: paths nobody looks at after their last change

market == <<pool, registered, outbox, changes>>
handlers == <<doing, since, todo, pair, snap>>
execution == <<executing, executor, current, look>>
history == <<answered, missed>>
vars == <<market, handlers, memo, tasks, queue, execution, history>>

Handlers == 1..MaxChanges
PoolState == [price : Prices \cup {Dry}, version : 0..MaxChanges]
Pairs == {q \in Legs \X Legs : NetworkOf[q[1]] # NetworkOf[q[2]]}
Forward(q) == [from |-> q[1], to |-> q[2]]
Backward(q) == [from |-> q[2], to |-> q[1]]
Paths == {Forward(q) : q \in Pairs}
BothWays(qs) == {Forward(q) : q \in qs} \cup {Backward(q) : q \in qs}

PoolsIn(leg) == {PoolsOf[leg][i] : i \in DOMAIN PoolsOf[leg]}
PathPools(path) == PoolsIn(path.from) \cup PoolsIn(path.to)
Through(p) == {path \in Paths : p \in PathPools(path)}

(* The price of a leg, and whether a path pays, with pools as in f. *)
Price(leg, f) == MapThenSumSet(LAMBDA p : f[p].price, PoolsIn(leg))
Computable(leg, f) == \A p \in PoolsIn(leg) : f[p].price # Dry
Pays(path, f) ==
    /\ Computable(path.from, f) /\ Computable(path.to, f)
    /\ Price(path.to, f) - Price(path.from, f) >= MinProfit

TypeOK ==
    /\ pool \in [Pools -> PoolState] /\ registered \subseteq Pools
    /\ outbox \in [Networks -> Seq(Pools)] /\ changes \in 0..MaxChanges
    /\ doing \in [Handlers -> {"unborn", "check", "clone"}]
    /\ since \in [Handlers -> [Pools -> 0..MaxChanges]]
    /\ todo \in [Handlers -> SUBSET Pairs]
    /\ \A h \in Handlers :
        /\ pair[h] \in Pairs \cup {<<>>}
        /\ DOMAIN snap[h] \subseteq Pools
        /\ \A p \in DOMAIN snap[h] : snap[h][p] \in PoolState
        /\ memo[h] \subseteq Pools \X {"buy", "sell"} \X PoolState
    /\ \A t \in tasks :
        /\ t.by \in Handlers /\ t.path \in Paths /\ t.found \in BOOLEAN
        /\ t.with \in [PathPools(t.path) -> PoolState]
    /\ queue \in Seq(Paths) /\ Len(queue) <= OppCap
    /\ executing \subseteq Paths
    /\ executor \in {"idle", "sleep", "clone", "dead"}
    /\ current \in Paths \cup {<<>>} /\ DOMAIN look \subseteq Pools
    /\ answered \subseteq Paths /\ missed \subseteq Paths

Init ==
    /\ pool = [p \in Pools |-> [price |-> Dry, version |-> 0]]
    /\ registered = {}
    /\ outbox = [n \in Networks |-> <<>>] /\ changes = 0
    /\ doing = [h \in Handlers |-> "unborn"]
    /\ since = [h \in Handlers |-> [p \in Pools |-> 0]]
    /\ todo = [h \in Handlers |-> {}]
    /\ pair = [h \in Handlers |-> <<>>]
    /\ snap = [h \in Handlers |-> <<>>]
    /\ memo = [h \in Handlers |-> {}]
    /\ tasks = {} /\ queue = <<>>
    /\ executing = {} /\ executor = "idle" /\ current = <<>> /\ look = <<>>
    /\ answered = {} /\ missed = Paths
-----------------------------------------------------------------------------
(* The updaters (PoolUpdater).  set_paths files a leg under its first pool *)
(* only, so a change is looked up among the legs that begin with the pool. *)
FiledUnder(p) == {l \in Legs : PoolsOf[l][1] = p}
PairsFor(p) == {q \in Pairs : q[1] \in FiledUnder(p)}

(* A pool is fetched for the first time; nobody is told. *)
Register(p) ==
    /\ p \notin registered
    /\ registered' = registered \cup {p}
    /\ \E c \in Prices : pool' = [pool EXCEPT ![p].price = c]
    /\ answered' = answered \ Through(p)
    /\ missed' = missed \cup Through(p)
    /\ UNCHANGED <<outbox, changes, handlers, memo, tasks, queue, execution>>

(* A swap of p on network n reaches the cached state, and is announced.    *)
(* The networks share one channel, but its order between networks is free. *)
Swap(n, p) ==
    /\ p \in registered /\ changes < MaxChanges
    /\ \E l \in Legs : NetworkOf[l] = n /\ p \in PoolsIn(l)
    /\ changes' = changes + 1
    /\ \E c \in Prices \ {pool[p].price} :
           pool' = [pool EXCEPT ![p] = [price |-> c, version |-> @.version + 1]]
    /\ outbox' = [outbox EXCEPT ![n] = Append(@, p)]
    /\ answered' = answered \ Through(p)
    /\ missed' = (missed \ BothWays(PairsFor(p))) \cup (Through(p) \ BothWays(PairsFor(p)))
    /\ UNCHANGED <<registered, handlers, memo, tasks, queue, execution>>

-----------------------------------------------------------------------------
(* handle_pool_change. *)
Versions == [p \in Pools |-> pool[p].version]

Handle(n, h) ==
    /\ outbox[n] # <<>>
    /\ doing[h] = "unborn" /\ \A g \in Handlers : g < h => doing[g] # "unborn"
    /\ outbox' = [outbox EXCEPT ![n] = Tail(@)]
    /\ doing' = [doing EXCEPT ![h] = "check"]
    /\ since' = [since EXCEPT ![h] = Versions]
    /\ todo' = [todo EXCEPT ![h] = PairsFor(Head(outbox[n]))]
    /\ UNCHANGED <<pool, registered, changes, pair, snap, memo, tasks, queue, execution, history>>

(* What h leaves unexamined although nothing changed since it was spawned. *)
LeftBy(h, qs) == {path \in BothWays(qs) : \A p \in PathPools(path) : Versions[p] = since[h][p]}

BeingExecuted(q) == Forward(q) \in executing \/ Backward(q) \in executing

(* "check if the path is already being executed" *)
Skip(h, q) ==
    /\ doing[h] = "check" /\ q \in todo[h] /\ BeingExecuted(q)
    /\ todo' = [todo EXCEPT ![h] = @ \ {q}]
    /\ missed' = missed \cup LeftBy(h, {q})
    /\ UNCHANGED <<market, doing, since, pair, snap, memo, tasks, queue, execution, answered>>

LookAt(h, q) ==
    /\ doing[h] = "check" /\ q \in todo[h] /\ ~BeingExecuted(q)
    /\ doing' = [doing EXCEPT ![h] = "clone"]
    /\ todo' = [todo EXCEPT ![h] = @ \ {q}]
    /\ pair' = [pair EXCEPT ![h] = q]
    /\ snap' = [snap EXCEPT ![h] = <<>>]
    /\ UNCHANGED <<market, since, memo, tasks, queue, execution, history>>

(* The source leg's pools come before the target leg's. *)
NextPool(path, have, p) ==
    /\ p \in PathPools(path) \ have
    /\ p \in PoolsIn(path.to) => PoolsIn(path.from) \subseteq have

AllCloned(path, f) == DOMAIN f = PathPools(path)

With(f, p) == [q \in DOMAIN f \cup {p} |-> IF q = p THEN pool[p] ELSE f[q]]

Clone(h, p) ==
    /\ doing[h] = "clone" /\ p \in registered
    /\ NextPool(Forward(pair[h]), DOMAIN snap[h], p)
    /\ snap' = [snap EXCEPT ![h] = With(@, p)]
    /\ UNCHANGED <<market, doing, since, todo, pair, memo, tasks, queue, execution, history>>

(* "Pool not found": the handler returns, the remaining pairs go unseen. *)
CloneFails(h, p) ==
    /\ doing[h] = "clone" /\ p \notin registered
    /\ NextPool(Forward(pair[h]), DOMAIN snap[h], p)
    /\ doing' = [doing EXCEPT ![h] = "check"] /\ todo' = [todo EXCEPT ![h] = {}]
    /\ pair' = [pair EXCEPT ![h] = <<>>] /\ snap' = [snap EXCEPT ![h] = <<>>]
    /\ missed' = missed \cup LeftBy(h, todo[h] \cup {pair[h]})
    /\ UNCHANGED <<market, since, memo, tasks, queue, execution, answered>>

Task(h, path) == [by |-> h, path |-> path, with |-> snap[h], found |-> FALSE]

ForwardTask(h) == {Task(h, Forward(pair[h]))}
BothTasks(h) == {Task(h, Forward(pair[h])), Task(h, Backward(pair[h]))}

Spawn(h) ==
    /\ doing[h] = "clone" /\ AllCloned(Forward(pair[h]), snap[h])
    /\ tasks' = tasks \cup BothTasks(h)
    /\ doing' = [doing EXCEPT ![h] = "check"]
    /\ snap' = [snap EXCEPT ![h] = <<>>] /\ pair' = [pair EXCEPT ![h] = <<>>]
    /\ UNCHANGED <<market, since, todo, memo, queue, execution, history>>

-----------------------------------------------------------------------------
(* handle_path, in a task of its own. *)
Side(path, p) == IF p \in PoolsIn(path.from) THEN "buy" ELSE "sell"

MemoOfAll(h) == UNION {memo[g] : g \in Handlers}
MemoOf(h) == memo[h]

(* simulate_amount takes an output from the memo if one of the handler's   *)
(* tasks computed it, from a clone made earlier or later than its own.     *)
UsablePools(t, p) ==
    {t.with[p]} \cup {m[3] : m \in {n \in MemoOf(t.by) : n[1] = p /\ n[2] = Side(t.path, p)}}

Used(t) ==
    {f \in [PathPools(t.path) -> UNION {UsablePools(t, p) : p \in PathPools(t.path)}] :
        \A p \in PathPools(t.path) : f[p] \in UsablePools(t, p)}

(* What is inserted into the memo before an Err, if any, unwinds the task. *)
Memoized(t, f) ==
    LET reached == IF ~Computable(t.path.from, f) THEN {}
                   ELSE PoolsIn(t.path.from) \cup
                        (IF Computable(t.path.to, f) THEN PoolsIn(t.path.to) ELSE {})
    IN  {<<p, Side(t.path, p), f[p]>> : p \in reached}

Evaluate(t) ==
    /\ ~t.found
    /\ \E f \in Used(t) :
        /\ memo' = [memo EXCEPT ![t.by] = @ \cup Memoized(t, f)]
        /\ IF Pays(t.path, f)
           THEN /\ tasks' = (tasks \ {t}) \cup {[t EXCEPT !.with = f, !.found = TRUE]}
                /\ answered' = answered \cup {t.path}
           ELSE tasks' = tasks \ {t} /\ UNCHANGED answered
    /\ UNCHANGED <<market, handlers, queue, execution, missed>>

Send(t) ==
    /\ t.found /\ executor # "dead" /\ Len(queue) < OppCap
    /\ queue' = Append(queue, t.path)
    /\ tasks' = tasks \ {t}
    /\ UNCHANGED <<market, handlers, memo, execution, history>>

(* The receiver is gone: send(..).await.unwrap() panics. *)
SendPanics(t) ==
    /\ t.found /\ executor = "dead"
    /\ tasks' = tasks \ {t}
    /\ UNCHANGED <<market, handlers, memo, queue, execution, history>>

-----------------------------------------------------------------------------
(* main's executor loop: execute runs to its end before the next recv.     *)
Execute ==
    /\ executor = "idle" /\ queue # <<>>
    /\ queue' = Tail(queue)
    /\ IF Head(queue) \in executing
       THEN UNCHANGED <<executing, executor, current>>
       ELSE /\ executing' = executing \cup {Head(queue)}
            /\ executor' = "sleep" /\ current' = Head(queue)
    /\ UNCHANGED <<market, handlers, memo, tasks, look, history>>

WakeUp ==
    /\ executor = "sleep"
    /\ executor' = "clone" /\ look' = <<>>
    /\ UNCHANGED <<market, handlers, memo, tasks, queue, executing, current, history>>

CloneAgain(p) ==
    /\ executor = "clone" /\ p \in registered
    /\ NextPool(current, DOMAIN look, p)
    /\ look' = With(look, p)
    /\ UNCHANGED <<market, handlers, memo, tasks, queue, executing, executor, current, history>>

StillPays ==
    /\ executor = "clone" /\ AllCloned(current, look) /\ Pays(current, look)
    /\ executor' = "sleep"
    /\ UNCHANGED <<market, handlers, memo, tasks, queue, executing, current, look, history>>

Kept == executing
Released == executing \ {current}

(* Nothing to gain any more. *)
GiveUp ==
    /\ executor = "clone" /\ AllCloned(current, look)
    /\ Computable(current.from, look) /\ Computable(current.to, look)
    /\ ~Pays(current, look)
    /\ executor' = "idle" /\ executing' = Released /\ current' = <<>> /\ look' = <<>>
    /\ UNCHANGED <<market, handlers, memo, tasks, queue, history>>

(* calculate_output(..).unwrap() panics inside the executor's task, which  *)
(* ends, and with it the receiving half of the channel.                    *)
Die ==
    /\ executor = "clone" /\ AllCloned(current, look)
    /\ ~(Computable(current.from, look) /\ Computable(current.to, look))
    /\ executor' = "dead" /\ queue' = <<>>
    /\ UNCHANGED <<market, handlers, memo, tasks, executing, current, look, history>>

-----------------------------------------------------------------------------
HandlerStep(h) ==
    \/ \E q \in Pairs : Skip(h, q) \/ LookAt(h, q)
    \/ \E p \in Pools : Clone(h, p) \/ CloneFails(h, p)
    \/ Spawn(h)

TaskStep(h, path) ==
    \E t \in tasks : t.by = h /\ t.path = path /\ (Evaluate(t) \/ Send(t) \/ SendPanics(t))

ExecutorStep ==
    \/ Execute \/ WakeUp \/ StillPays \/ GiveUp \/ Die
    \/ \E p \in Pools : CloneAgain(p)

ProcessorStep ==
    \/ \E n \in Networks, h \in Handlers : Handle(n, h)
    \/ \E h \in Handlers : HandlerStep(h)
    \/ \E h \in Handlers, path \in Paths : TaskStep(h, path)

Next ==
    \/ \E p \in Pools : Register(p)
    \/ \E n \in Networks, p \in Pools : Swap(n, p)
    \/ ProcessorStep
    \/ ExecutorStep

Spec == Init /\ [][Next]_vars

(* Fairness: the runtime lets the executor run, and some handler or task   *)
(* if one can (each of them is finite, so this is less than the runtime    *)
(* does).  Nothing obliges the market to move.                             *)
Fairness == WF_vars(ProcessorStep) /\ WF_vars(ExecutorStep)

FairSpec == Spec /\ Fairness
-----------------------------------------------------------------------------
(* Properties. *)

(* An opportunity about to be sent rests on pool states no older than the  *)
(* change that made the processor look: whatever the memo mixes in was     *)
(* cloned by the same handler, after the change was applied.               *)
FreshInputs ==
    \A t \in tasks : t.found =>
        \A p \in PathPools(t.path) : t.with[p].version >= since[t.by][p]

(* executing_paths holds the path the executor is at and nothing else, so  *)
(* no path is locked out of the processor after its execution ended.       *)
ExecutingOwned == executing = IF executor = "idle" THEN {} ELSE {current}

NowPays(path) == PathPools(path) \subseteq registered /\ Pays(path, pool)

(* A path that pays from some time on is found, unless its last change was *)
(* one that nobody looks at: while the pair was executed, on a pool that   *)
(* is not first in its leg, or cut off by a pool the registry lacks.       *)
Detected ==
    \A path \in Paths : NowPays(path) ~> ~NowPays(path) \/ path \in answered \cup missed

(* The executor lets go of a path that no longer pays, or dies on it. *)
ExecutionEnds ==
    \A path \in Paths :
        path \in executing ~> path \notin executing \/ NowPays(path) \/ executor = "dead"
=============================================================================
