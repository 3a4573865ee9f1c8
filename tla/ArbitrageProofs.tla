--------------------------- MODULE ArbitrageProofs ---------------------------
(***************************************************************************)
(* Proofs about Arbitrage for any legs, networks, prices and channel       *)
(* capacity, and any number of changes; and, at the end, about the search  *)
(* that gives Arbitrage its profits, AmountSearch, for any curves, amounts *)
(* and budgets.                                                            *)
(***************************************************************************)
EXTENDS Arbitrage, AmountSearch, TLAPS, FiniteSetTheorems, WellFoundedInduction

(* Every state in a handler's hands was cloned after it was spawned.       *)
Fresh ==
    /\ \A h \in Handlers :
        /\ \A p \in Pools : since[h][p] <= pool[p].version
        /\ \A p \in DOMAIN snap[h] : since[h][p] <= snap[h][p].version
        /\ \A m \in memo[h] : since[h][m[1]] <= m[3].version
    /\ \A t \in tasks : \A p \in PathPools(t.path) : since[t.by][p] <= t.with[p].version
-----------------------------------------------------------------------------
(* executing_paths belongs to the executor alone. *)

(* executing_paths holds the path the executor is at and nothing else, so  *)
(* that no path stays locked out of the processor.                         *)
THEOREM ExecutorOwnsPaths == Spec => []ExecutingOwned
<1>1. Init => ExecutingOwned
  BY DEF Init, ExecutingOwned
<1>2. ExecutingOwned /\ [Next]_vars => ExecutingOwned'
  <2> SUFFICES ASSUME ExecutingOwned, [Next]_vars PROVE ExecutingOwned'
    OBVIOUS
  <2>0. ASSUME UNCHANGED <<executing, executor, current>> PROVE ExecutingOwned'
    BY <2>0 DEF ExecutingOwned
  <2>1. CASE Execute
    BY <2>1 DEF Execute, ExecutingOwned
  <2>2. CASE WakeUp \/ StillPays \/ Die
    BY <2>2 DEF WakeUp, StillPays, Die, ExecutingOwned
  <2>3. CASE GiveUp
    BY <2>3 DEF GiveUp, Released, ExecutingOwned
  <2>4. ASSUME NEW p \in Pools, CloneAgain(p) PROVE ExecutingOwned'
    BY <2>4 DEF CloneAgain, ExecutingOwned
  <2>5. CASE ~ExecutorStep
    <3>1. UNCHANGED <<executing, executor, current>>
      BY <2>5 DEF Next, ProcessorStep, HandlerStep, TaskStep, Register, Swap, Handle, Skip,
         LookAt, Clone, CloneFails, Spawn, Evaluate, Send, SendPanics, vars, execution
    <3> QED
      BY <2>0, <3>1
  <2> QED
    BY <2>1, <2>2, <2>3, <2>4, <2>5 DEF ExecutorStep
<1> QED
  BY <1>1, <1>2, PTL DEF Spec
-----------------------------------------------------------------------------
LEMMA PathsBothWays ==
    ASSUME NEW q \in Pairs
    PROVE  /\ Forward(q) \in Paths /\ Backward(q) \in Paths
           /\ PathPools(Forward(q)) = PathPools(Backward(q))
<1>1. q = <<q[1], q[2]>> /\ q[1] \in Legs /\ q[2] \in Legs /\ <<q[2], q[1]>> \in Pairs
  BY DEF Pairs
<1>2. Backward(q) = Forward(<<q[2], q[1]>>)
  BY DEF Forward, Backward
<1> QED
  BY <1>1, <1>2 DEF Paths, PathPools, Forward, Backward

LEMMA PoolsOfPath ==
    ASSUME NEW path \in Paths PROVE PathPools(path) \subseteq Pools
<1>1. path.from \in Legs /\ path.to \in Legs
  BY DEF Paths, Pairs, Forward
<1>2. \A l \in Legs : PoolsIn(l) \subseteq Pools
  BY ArbitrageAssumption DEF PoolsIn
<1> QED
  BY <1>1, <1>2 DEF PathPools

(* Cloning one more pool. *)
LEMMA CloneTyped ==
    ASSUME NEW D \in SUBSET Pools, NEW f \in [D -> PoolState],
           NEW p \in Pools, pool \in [Pools -> PoolState]
    PROVE  /\ With(f, p) \in [D \cup {p} -> PoolState]
           /\ DOMAIN With(f, p) = D \cup {p}
BY DEF With

(* What a task may compute with is the clone it was given or one that its  *)
(* handler's tasks have memoized.                                          *)
LEMMA UsedFrom ==
    ASSUME NEW t, NEW f \in Used(t), NEW p \in PathPools(t.path)
    PROVE  \/ f[p] = t.with[p]
           \/ \E m \in memo[t.by] : m[1] = p /\ f[p] = m[3]
BY DEF Used, UsablePools, MemoOf

LEMMA MemoizedFrom ==
    ASSUME NEW t, NEW f, NEW m \in Memoized(t, f)
    PROVE  m[1] \in PathPools(t.path) /\ m = <<m[1], Side(t.path, m[1]), f[m[1]]>>
BY DEF Memoized, PathPools

-----------------------------------------------------------------------------
(* Type correctness. *)
(* TypeOK in parts, so that a step proves those it changes, with what goes *)
(* with where a handler or the executor is.                                *)
MarketTyped ==
    /\ pool \in [Pools -> PoolState] /\ registered \subseteq Pools
    /\ outbox \in [Networks -> Seq(Pools)] /\ changes \in 0..MaxChanges
    /\ \A p \in Pools : pool[p].version <= changes
HandlersTyped ==
    /\ doing \in [Handlers -> {"unborn", "check", "clone"}]
    /\ since \in [Handlers -> [Pools -> 0..MaxChanges]]
    /\ todo \in [Handlers -> SUBSET Pairs]
    /\ DOMAIN pair = Handlers /\ DOMAIN snap = Handlers
    /\ \A h \in Handlers :
        /\ pair[h] \in Pairs \cup {<<>>} /\ (doing[h] = "clone" => pair[h] \in Pairs)
        /\ DOMAIN snap[h] \subseteq Pools /\ snap[h] \in [DOMAIN snap[h] -> PoolState]
        /\ doing[h] = "unborn" => snap[h] = <<>>
TaskTyped(t) ==
    /\ t.by \in Handlers /\ t.path \in Paths /\ t.found \in BOOLEAN
    /\ t.with \in [PathPools(t.path) -> PoolState]
    /\ doing[t.by] # "unborn"
MemoEntry == Pools \X {"buy", "sell"} \X PoolState
TasksTyped ==
    /\ memo \in [Handlers -> SUBSET MemoEntry]
    /\ \A h \in Handlers : doing[h] = "unborn" => memo[h] = {}
    /\ \A t \in tasks : TaskTyped(t)
ExecutionTyped ==
    /\ queue \in Seq(Paths) /\ Len(queue) <= OppCap
    /\ executing \subseteq Paths
    /\ executor \in {"idle", "sleep", "clone", "dead"}
    /\ current \in Paths \cup {<<>>} /\ (executor # "idle" => current \in Paths)
    /\ DOMAIN look \subseteq Pools /\ look \in [DOMAIN look -> PoolState]
HistoryTyped == answered \subseteq Paths /\ missed \subseteq Paths

Typed ==
    MarketTyped /\ HandlersTyped /\ TasksTyped /\ ExecutionTyped /\ HistoryTyped

LEMMA TypedIsTypeOK == Typed => TypeOK
BY DEF Typed, TypeOK, MarketTyped, HandlersTyped, TasksTyped, TaskTyped,
   MemoEntry, ExecutionTyped, HistoryTyped

LEMMA InitTyped == Init => Typed
<1> SUFFICES ASSUME Init PROVE Typed
  OBVIOUS
<1>1. MarketTyped
  BY ArbitrageAssumption DEF Init, MarketTyped, PoolState
<1>2. HandlersTyped /\ TasksTyped /\ ExecutionTyped /\ HistoryTyped
  BY ArbitrageAssumption DEF Init, HandlersTyped, TasksTyped, ExecutionTyped, HistoryTyped
<1> QED
  BY <1>1, <1>2 DEF Typed

LEMMA ThroughTyped == \A p \in Pools : Through(p) \subseteq Paths /\ PairsFor(p) \subseteq Pairs
BY DEF Through, PairsFor

LEMMA BothWaysTyped == \A qs \in SUBSET Pairs : BothWays(qs) \subseteq Paths
BY PathsBothWays DEF BothWays

LEMMA StepTyped == Typed /\ [Next]_vars => Typed'
<1> SUFFICES ASSUME Typed, [Next]_vars PROVE Typed'
  OBVIOUS
<1>t. MarketTyped /\ HandlersTyped /\ TasksTyped /\ ExecutionTyped /\ HistoryTyped
  BY DEF Typed
<1> USE DEF market, handlers, execution, history
(* The parts a step leaves alone. *)
<1>m. UNCHANGED market => MarketTyped'
  BY <1>t DEF MarketTyped
<1>h. UNCHANGED handlers => HandlersTyped'
  BY <1>t DEF HandlersTyped
<1>k. UNCHANGED <<doing, memo, tasks>> => TasksTyped'
  BY <1>t DEF TasksTyped, TaskTyped
<1>e. UNCHANGED <<queue, execution>> => ExecutionTyped'
  BY <1>t DEF ExecutionTyped
<1>y. UNCHANGED history => HistoryTyped'
  BY <1>t DEF HistoryTyped
<1>s. \A qs \in SUBSET Pairs : BothWays(qs) \subseteq Paths
  BY BothWaysTyped
<1>1. ASSUME NEW p \in Pools, Register(p) PROVE Typed'
  <2>1. MarketTyped'
    <3>1. PICK c \in Prices : pool' = [pool EXCEPT ![p].price = c]
      BY <1>1 DEF Register
    <3>2. [pool[p] EXCEPT !.price = c] \in PoolState
          /\ [pool[p] EXCEPT !.price = c].version = pool[p].version
      BY <1>t, <1>1 DEF MarketTyped, PoolState
    <3>3. pool' \in [Pools -> PoolState] /\ \A q \in Pools : pool'[q].version = pool[q].version
      BY <1>t, <3>1, <3>2 DEF MarketTyped
    <3> QED
      BY <1>t, <1>1, <3>3 DEF MarketTyped, Register
  <2>2. HistoryTyped'
    BY <1>t, <1>1, ThroughTyped DEF HistoryTyped, Register
  <2> QED
    BY <1>1, <1>h, <1>k, <1>e, <2>1, <2>2 DEF Register, Typed
<1>2. ASSUME NEW n \in Networks, NEW p \in Pools, Swap(n, p) PROVE Typed'
  <2>1. MarketTyped'
    <3>1. PICK c \in Prices :
              pool' = [pool EXCEPT ![p] = [price |-> c, version |-> pool[p].version + 1]]
      BY <1>2 DEF Swap
    <3>2. changes' = changes + 1 /\ changes' \in 0..MaxChanges /\ changes \in Nat
      BY <1>t, <1>2, ArbitrageAssumption DEF MarketTyped, Swap
    <3>3. \A q \in Pools : pool[q].version \in Nat /\ pool[q].version <= changes
      BY <1>t DEF MarketTyped, PoolState
    <3>4. [price |-> c, version |-> pool[p].version + 1] \in PoolState
      BY <3>2, <3>3, ArbitrageAssumption DEF PoolState
    <3>5. /\ pool' \in [Pools -> PoolState]
          /\ \A q \in Pools :
                pool'[q].version = IF q = p THEN pool[p].version + 1 ELSE pool[q].version
      BY <1>t, <3>1, <3>4 DEF MarketTyped
    <3>6. outbox' \in [Networks -> Seq(Pools)]
      BY <1>t, <1>2 DEF MarketTyped, Swap
    <3>7. \A q \in Pools : pool'[q].version <= changes'
      BY <3>2, <3>3, <3>5
    <3> QED
      BY <1>t, <1>2, <3>2, <3>5, <3>6, <3>7 DEF MarketTyped, Swap
  <2>2. HistoryTyped'
    BY <1>t, <1>2, ThroughTyped DEF HistoryTyped, Swap
  <2> QED
    BY <1>2, <1>h, <1>k, <1>e, <2>1, <2>2 DEF Swap, Typed
<1>3. ASSUME NEW n \in Networks, NEW h \in Handlers, Handle(n, h) PROVE Typed'
  <2>1. MarketTyped'
    <3>1. outbox[n] \in Seq(Pools) /\ outbox[n] # <<>>
      BY <1>t, <1>3 DEF MarketTyped, Handle
    <3>2. Tail(outbox[n]) \in Seq(Pools)
      BY <3>1
    <3>3. outbox' = [outbox EXCEPT ![n] = Tail(outbox[n])] /\ UNCHANGED <<pool, registered, changes>>
      BY <1>3 DEF Handle
    <3>4. outbox' \in [Networks -> Seq(Pools)]
      BY <1>t, <3>2, <3>3 DEF MarketTyped
    <3> QED
      BY <1>t, <3>3, <3>4 DEF MarketTyped
  <2>2. HandlersTyped'
    <3>1. Versions \in [Pools -> 0..MaxChanges]
      BY <1>t DEF Versions, MarketTyped, PoolState
    <3>2. Head(outbox[n]) \in Pools
      BY <1>t, <1>3 DEF MarketTyped, Handle
    <3>3. PairsFor(Head(outbox[n])) \subseteq Pairs
      BY <3>2, ThroughTyped
    <3>4. /\ doing' = [doing EXCEPT ![h] = "check"] /\ since' = [since EXCEPT ![h] = Versions]
          /\ todo' = [todo EXCEPT ![h] = PairsFor(Head(outbox[n]))]
          /\ UNCHANGED <<pair, snap>>
      BY <1>3 DEF Handle
    <3> QED
      BY <1>t, <3>1, <3>3, <3>4 DEF HandlersTyped
  <2>3. TasksTyped'
    BY <1>t, <1>3 DEF HandlersTyped, TasksTyped, TaskTyped, Handle
  <2> QED
    BY <1>3, <1>e, <1>y, <2>1, <2>2, <2>3 DEF Handle, Typed
<1>4. ASSUME NEW h \in Handlers, NEW q \in Pairs, Skip(h, q) PROVE Typed'
  <2>1. HandlersTyped'
    BY <1>t, <1>4 DEF HandlersTyped, Skip
  <2>2. HistoryTyped'
    BY <1>t, <1>4, <1>s DEF HistoryTyped, Skip, LeftBy
  <2> QED
    BY <1>4, <1>m, <1>k, <1>e, <2>1, <2>2 DEF Skip, Typed
<1>5. ASSUME NEW h \in Handlers, NEW q \in Pairs, LookAt(h, q) PROVE Typed'
  <2>1. HandlersTyped'
    BY <1>t, <1>5 DEF HandlersTyped, LookAt
  <2>2. TasksTyped'
    BY <1>t, <1>5 DEF HandlersTyped, TasksTyped, TaskTyped, LookAt
  <2> QED
    BY <1>5, <1>m, <1>e, <1>y, <2>1, <2>2 DEF LookAt, Typed
<1>6. ASSUME NEW h \in Handlers, NEW p \in Pools, Clone(h, p) PROVE Typed'
  <2>1. /\ DOMAIN With(snap[h], p) \subseteq Pools
        /\ With(snap[h], p) \in [DOMAIN With(snap[h], p) -> PoolState]
    <3>1. /\ snap[h] \in [DOMAIN snap[h] -> PoolState] /\ DOMAIN snap[h] \subseteq Pools
          /\ pool \in [Pools -> PoolState]
      BY <1>t DEF HandlersTyped, MarketTyped
    <3>2. With(snap[h], p) \in [DOMAIN snap[h] \cup {p} -> PoolState]
          /\ DOMAIN With(snap[h], p) = DOMAIN snap[h] \cup {p}
      BY <3>1, CloneTyped
    <3> QED
      BY <3>1, <3>2
  <2>2. snap' = [snap EXCEPT ![h] = With(snap[h], p)] /\ doing[h] = "clone"
    BY <1>6 DEF Clone
  <2>3. HandlersTyped'
    BY <1>t, <1>6, <2>1, <2>2 DEF HandlersTyped, Clone
  <2> QED
    BY <1>6, <1>m, <1>k, <1>e, <1>y, <2>3 DEF Clone, Typed
<1>7. ASSUME NEW h \in Handlers, NEW p \in Pools, CloneFails(h, p) PROVE Typed'
  <2>1. HandlersTyped'
    BY <1>t, <1>7 DEF HandlersTyped, CloneFails
  <2>2. TasksTyped'
    BY <1>t, <1>7 DEF HandlersTyped, TasksTyped, TaskTyped, CloneFails
  <2>3. todo[h] \cup {pair[h]} \in SUBSET Pairs
    BY <1>t, <1>7 DEF HandlersTyped, CloneFails
  <2>4. HistoryTyped'
    BY <1>t, <1>7, <1>s, <2>3 DEF HistoryTyped, CloneFails, LeftBy
  <2> QED
    BY <1>7, <1>m, <1>e, <2>1, <2>2, <2>4 DEF CloneFails, Typed
<1>8. ASSUME NEW h \in Handlers, Spawn(h) PROVE Typed'
  <2>1. HandlersTyped'
    BY <1>t, <1>8 DEF HandlersTyped, Spawn
  <2>2. pair[h] \in Pairs /\ doing[h] = "clone" /\ doing' = [doing EXCEPT ![h] = "check"]
    BY <1>t, <1>8 DEF HandlersTyped, Spawn
  <2>3. snap[h] \in [PathPools(Forward(pair[h])) -> PoolState]
    BY <1>t, <1>8 DEF HandlersTyped, Spawn, AllCloned
  <2>4. \A t \in BothTasks(h) :
            /\ t.by = h /\ t.path \in Paths /\ t.found = FALSE
            /\ t.with \in [PathPools(t.path) -> PoolState]
    BY <2>2, <2>3, PathsBothWays DEF BothTasks, Task
  <2>5. doing' \in [Handlers -> {"unborn", "check", "clone"}]
        /\ \A g \in Handlers : doing'[g] = "unborn" <=> doing[g] = "unborn"
    BY <1>t, <2>2 DEF HandlersTyped
  <2>6. TasksTyped'
    BY <1>t, <1>8, <2>4, <2>5 DEF TasksTyped, TaskTyped, Spawn, HandlersTyped
  <2> QED
    BY <1>8, <1>m, <1>e, <1>y, <2>1, <2>6 DEF Spawn, Typed
<1>9. ASSUME NEW t \in tasks, Evaluate(t) PROVE Typed'
  <2>1. TaskTyped(t) /\ t.by \in Handlers /\ t.path \in Paths
    BY <1>t DEF TasksTyped, TaskTyped
  <2>2. PICK f \in Used(t) :
            /\ memo' = [memo EXCEPT ![t.by] = memo[t.by] \cup Memoized(t, f)]
            /\ IF Pays(t.path, f)
               THEN /\ tasks' = (tasks \ {t}) \cup {[t EXCEPT !.with = f, !.found = TRUE]}
                    /\ answered' = answered \cup {t.path}
               ELSE tasks' = tasks \ {t} /\ UNCHANGED answered
    BY <1>9 DEF Evaluate
  <2>3. f \in [PathPools(t.path) -> PoolState]
    <3>1. \A p \in PathPools(t.path) : f[p] \in PoolState
      BY <1>t, <2>1, UsedFrom DEF TasksTyped, TaskTyped, MemoEntry
    <3> QED
      BY <3>1 DEF Used
  <2>4. Memoized(t, f) \subseteq MemoEntry
    <3> SUFFICES ASSUME NEW m \in Memoized(t, f) PROVE m \in MemoEntry
      OBVIOUS
    <3>1. m[1] \in PathPools(t.path) /\ m = <<m[1], Side(t.path, m[1]), f[m[1]]>>
      BY MemoizedFrom
    <3>2. m[1] \in Pools /\ f[m[1]] \in PoolState /\ Side(t.path, m[1]) \in {"buy", "sell"}
      BY <2>1, <2>3, <3>1, PoolsOfPath DEF Side
    <3> QED
      BY <3>1, <3>2 DEF MemoEntry
  <2> DEFINE u == [t EXCEPT !.with = f, !.found = TRUE]
  <2>5. u.by = t.by /\ u.path = t.path /\ u.with = f /\ u.found = TRUE
    OBVIOUS
  <2> HIDE DEF u
  <2>6. TaskTyped(u)
    BY <2>1, <2>3, <2>5 DEF TaskTyped
  <2>7. \A v \in tasks' : v \in tasks \/ v = u
    BY <2>2 DEF u
  <2>8. UNCHANGED <<doing, market, handlers, queue, execution, missed>>
    BY <1>9 DEF Evaluate
  <2>9. TasksTyped'
    <3>1. memo' \in [Handlers -> SUBSET MemoEntry]
      BY <1>t, <2>1, <2>2, <2>4 DEF TasksTyped
    <3>2. \A h \in Handlers : doing[h] = "unborn" => memo'[h] = {}
      BY <1>t, <2>1, <2>2 DEF TasksTyped, TaskTyped
    <3>3. \A v \in tasks' : TaskTyped(v)
      BY <1>t, <2>6, <2>7 DEF TasksTyped
    <3> QED
      BY <2>8, <3>1, <3>2, <3>3 DEF TasksTyped, TaskTyped
  <2>10. HistoryTyped'
    BY <1>t, <2>1, <2>2, <2>8 DEF HistoryTyped
  <2> QED
    BY <2>8, <1>m, <1>h, <1>e, <2>9, <2>10 DEF Typed
<1>10. ASSUME NEW t \in tasks, Send(t) \/ SendPanics(t) PROVE Typed'
  <2>1. tasks' = tasks \ {t} /\ UNCHANGED <<market, handlers, memo, execution, history>>
    BY <1>10 DEF Send, SendPanics
  <2>2. TasksTyped'
    BY <1>t, <2>1 DEF TasksTyped, TaskTyped
  <2>3. t.path \in Paths
    BY <1>t DEF TasksTyped, TaskTyped
  <2>4. queue' \in Seq(Paths) /\ Len(queue') <= OppCap
    BY <1>t, <1>10, <2>3, ArbitrageAssumption DEF ExecutionTyped, Send, SendPanics
  <2>5. ExecutionTyped'
    BY <1>t, <2>1, <2>4 DEF ExecutionTyped
  <2> QED
    BY <2>1, <1>m, <1>h, <1>y, <2>2, <2>5 DEF Typed
<1>11. CASE ExecutorStep
  <2>1. UNCHANGED <<market, handlers, memo, tasks, history>>
    BY <1>11 DEF ExecutorStep, Execute, WakeUp, StillPays, GiveUp, Die, CloneAgain
  <2>2. ASSUME Execute PROVE ExecutionTyped'
    <3>1. Head(queue) \in Paths /\ queue' \in Seq(Paths) /\ Len(queue') <= OppCap
      <4>1. queue \in Seq(Paths) /\ queue # <<>> /\ Len(queue) <= OppCap /\ OppCap \in Nat
        BY <1>t, <2>2, ArbitrageAssumption DEF ExecutionTyped, Execute
      <4>2. Len(Tail(queue)) = Len(queue) - 1 /\ Len(queue) \in Nat
        BY <4>1
      <4> QED
        BY <2>2, <4>1, <4>2 DEF Execute
    <3>2. look' = look
      BY <2>2 DEF Execute
    <3>3. /\ executor' \in {"idle", "sleep"} /\ executing' \subseteq Paths
          /\ current' \in Paths \cup {<<>>} /\ (executor' # "idle" => current' \in Paths)
      BY <1>t, <2>2, <3>1 DEF ExecutionTyped, Execute
    <3> QED
      BY <1>t, <3>1, <3>2, <3>3 DEF ExecutionTyped
  <2>3. ASSUME StillPays PROVE ExecutionTyped'
    BY <1>t, <2>3 DEF ExecutionTyped, StillPays
  <2>4. ASSUME WakeUp \/ GiveUp \/ Die PROVE ExecutionTyped'
    <3>1. DOMAIN <<>> = {} /\ <<>> \in [DOMAIN <<>> -> PoolState]
      OBVIOUS
    <3>2. <<>> \in Seq(Paths) /\ Len(<<>>) <= OppCap
      BY ArbitrageAssumption
    <3>3. queue' = queue \/ queue' = <<>>
      BY <2>4 DEF WakeUp, GiveUp, Die
    <3>4. queue' \in Seq(Paths) /\ Len(queue') <= OppCap
      BY <1>t, <3>2, <3>3 DEF ExecutionTyped
    <3>5. look' = look \/ look' = <<>>
      BY <2>4 DEF WakeUp, GiveUp, Die
    <3>6. DOMAIN look' \subseteq Pools /\ look' \in [DOMAIN look' -> PoolState]
      BY <1>t, <3>1, <3>5 DEF ExecutionTyped
    <3> QED
      BY <1>t, <2>4, <3>4, <3>6 DEF ExecutionTyped, WakeUp, GiveUp, Die, Released
  <2>5. ASSUME NEW p \in Pools, CloneAgain(p) PROVE ExecutionTyped'
    <3>1. /\ DOMAIN With(look, p) \subseteq Pools
          /\ With(look, p) \in [DOMAIN With(look, p) -> PoolState]
      <4>1. /\ look \in [DOMAIN look -> PoolState] /\ DOMAIN look \subseteq Pools
            /\ pool \in [Pools -> PoolState]
        BY <1>t DEF ExecutionTyped, MarketTyped
      <4>2. With(look, p) \in [DOMAIN look \cup {p} -> PoolState]
            /\ DOMAIN With(look, p) = DOMAIN look \cup {p}
        BY <4>1, CloneTyped
      <4> QED
        BY <4>1, <4>2
    <3> QED
      BY <1>t, <2>5, <3>1 DEF ExecutionTyped, CloneAgain
  <2> QED
    BY <1>11, <2>1, <2>2, <2>3, <2>4, <2>5, <1>m, <1>h, <1>k, <1>y
       DEF ExecutorStep, Typed
<1>12. CASE UNCHANGED vars
  BY <1>12, <1>m, <1>h, <1>k, <1>e, <1>y DEF vars, Typed
<1> QED
  BY <1>1, <1>2, <1>3, <1>4, <1>5, <1>6, <1>7, <1>8, <1>9, <1>10, <1>11, <1>12
     DEF Next, ProcessorStep, HandlerStep, TaskStep

(* The state of the cached market, the handlers and the tasks has its      *)
(* type, and so has what the channel and the executor hold.                *)
THEOREM TypeCorrect == Spec => []TypeOK
<1> QED
  BY InitTyped, StepTyped, TypedIsTypeOK, PTL DEF Spec
-----------------------------------------------------------------------------
(* What a handler's tasks compute with is as fresh as the handler. *)
LEMMA InitFresh == Init => Fresh
BY DEF Init, Fresh

(* Versions as numbers, for the comparisons of Fresh. *)
LEMMA Numbers ==
    ASSUME Typed
    PROVE  /\ \A p \in Pools : pool[p].version \in 0..MaxChanges
           /\ \A h \in Handlers : \A p \in Pools : since[h][p] \in 0..MaxChanges
BY DEF Typed, MarketTyped, HandlersTyped, PoolState

LEMMA StepFresh == Typed /\ Fresh /\ [Next]_vars => Fresh'
<1> SUFFICES ASSUME Typed, Fresh, [Next]_vars PROVE Fresh'
  OBVIOUS
<1> DEFINE FreshPool(h) == \A p \in Pools : since[h][p] <= pool[p].version
           FreshSnap(h) == \A p \in DOMAIN snap[h] : since[h][p] <= snap[h][p].version
           FreshMemo(h) == \A m \in memo[h] : since[h][m[1]] <= m[3].version
           FreshTask(t) == \A p \in PathPools(t.path) : since[t.by][p] <= t.with[p].version
<1>f. /\ \A h \in Handlers : FreshPool(h) /\ FreshSnap(h) /\ FreshMemo(h)
      /\ \A t \in tasks : FreshTask(t)
  BY DEF Fresh
<1>g. ASSUME \A h \in Handlers : FreshPool(h)' /\ FreshSnap(h)' /\ FreshMemo(h)',
             \A t \in tasks' : FreshTask(t)'
      PROVE  Fresh'
  BY <1>g DEF Fresh
<1>t. MarketTyped /\ HandlersTyped /\ TasksTyped /\ ExecutionTyped
  BY DEF Typed
<1>n. /\ \A p \in Pools : pool[p].version \in 0..MaxChanges
      /\ \A h \in Handlers : \A p \in Pools : since[h][p] \in 0..MaxChanges
      /\ MaxChanges \in Nat
  BY Numbers, ArbitrageAssumption
(* What a step leaves alone stays fresh. *)
<1>p. UNCHANGED <<pool, since>> => \A h \in Handlers : FreshPool(h)'
  BY <1>f
<1>s. UNCHANGED <<since, snap>> => \A h \in Handlers : FreshSnap(h)'
  BY <1>f
<1>m. UNCHANGED <<since, memo>> => \A h \in Handlers : FreshMemo(h)'
  BY <1>f
<1>k. UNCHANGED since /\ tasks' \subseteq tasks => \A t \in tasks' : FreshTask(t)'
  BY <1>f
<1> HIDE DEF FreshPool, FreshSnap, FreshMemo, FreshTask
<1> USE DEF market, handlers, execution, history
<1>1. ASSUME NEW q \in Pools, Register(q) PROVE Fresh'
  <2>1. PICK c \in Prices : pool' = [pool EXCEPT ![q].price = c]
    BY <1>1 DEF Register
  <2>2. \A p \in Pools : pool'[p].version = pool[p].version
    BY <1>t, <2>1 DEF MarketTyped, PoolState
  <2>3. \A h \in Handlers : FreshPool(h)'
    BY <1>1, <1>f, <2>2 DEF FreshPool, Register
  <2> QED
    BY <1>1, <1>g, <1>s, <1>m, <1>k, <2>3 DEF Register
<1>2. ASSUME NEW n \in Networks, NEW q \in Pools, Swap(n, q) PROVE Fresh'
  <2>1. PICK c \in Prices :
            pool' = [pool EXCEPT ![q] = [price |-> c, version |-> pool[q].version + 1]]
    BY <1>2 DEF Swap
  <2>2. \A p \in Pools : pool[p].version <= pool'[p].version /\ pool'[p].version \in Nat
    BY <1>t, <1>n, <2>1 DEF MarketTyped
  <2>3. \A h \in Handlers : FreshPool(h)'
    BY <1>2, <1>f, <1>n, <2>2 DEF FreshPool, Swap
  <2> QED
    BY <1>2, <1>g, <1>s, <1>m, <1>k, <2>3 DEF Swap
<1>3. ASSUME NEW n \in Networks, NEW h \in Handlers, Handle(n, h) PROVE Fresh'
  <2>1. /\ since' = [since EXCEPT ![h] = Versions] /\ doing[h] = "unborn"
        /\ UNCHANGED <<pool, snap, memo, tasks>>
    BY <1>3 DEF Handle
  <2>2. \A g \in Handlers : g # h => since'[g] = since[g]
    BY <1>t, <2>1 DEF HandlersTyped
  <2>3. since'[h] = Versions
    BY <1>t, <2>1 DEF HandlersTyped
  <2>4. ASSUME NEW g \in Handlers PROVE FreshPool(g)' /\ FreshSnap(g)' /\ FreshMemo(g)'
    <3>1. CASE g = h
      <4>1. FreshPool(h)'
        BY <1>n, <2>1, <2>3 DEF FreshPool, Versions
      <4>2. DOMAIN snap'[h] = {} /\ memo'[h] = {}
        BY <1>t, <2>1 DEF HandlersTyped, TasksTyped
      <4> QED
        BY <3>1, <4>1, <4>2 DEF FreshSnap, FreshMemo
    <3>2. CASE g # h
      BY <1>f, <2>1, <2>2, <3>2 DEF FreshPool, FreshSnap, FreshMemo
    <3> QED
      BY <3>1, <3>2
  <2>5. ASSUME NEW t \in tasks' PROVE FreshTask(t)'
    <3>1. t \in tasks /\ t.by \in Handlers /\ t.by # h
      BY <1>t, <2>1, <2>5 DEF TasksTyped, TaskTyped
    <3> QED
      BY <1>f, <2>2, <3>1 DEF FreshTask
  <2> QED
    BY <1>g, <2>4, <2>5
<1>4. ASSUME NEW h \in Handlers, NEW q \in Pairs, Skip(h, q) PROVE Fresh'
  BY <1>4, <1>g, <1>p, <1>s, <1>m, <1>k DEF Skip
<1>5. ASSUME NEW h \in Handlers,
             \/ Spawn(h) \/ \E q \in Pairs : LookAt(h, q)
             \/ \E p \in Pools : CloneFails(h, p)
      PROVE  /\ \A g \in Handlers : FreshPool(g)' /\ FreshSnap(g)' /\ FreshMemo(g)'
             /\ UNCHANGED since
  <2>1. snap' = [snap EXCEPT ![h] = <<>>] /\ UNCHANGED <<pool, since, memo>>
    BY <1>5 DEF LookAt, Spawn, CloneFails
  <2>2. \A g \in Handlers : FreshSnap(g)'
    <3>1. \A g \in Handlers : snap'[g] = IF g = h THEN <<>> ELSE snap[g]
      BY <1>t, <2>1 DEF HandlersTyped
    <3>2. DOMAIN <<>> = {}
      OBVIOUS
    <3> QED
      BY <1>f, <2>1, <3>1, <3>2 DEF FreshSnap
  <2> QED
    BY <1>p, <1>m, <2>1, <2>2
<1>6. ASSUME NEW h \in Handlers, NEW q \in Pools, Clone(h, q) PROVE Fresh'
  <2>1. snap' = [snap EXCEPT ![h] = With(snap[h], q)] /\ UNCHANGED <<pool, since, memo, tasks>>
    BY <1>6 DEF Clone
  <2>2. /\ snap[h] \in [DOMAIN snap[h] -> PoolState] /\ DOMAIN snap[h] \subseteq Pools
        /\ pool \in [Pools -> PoolState]
    BY <1>t DEF HandlersTyped, MarketTyped
  <2>3. DOMAIN With(snap[h], q) = DOMAIN snap[h] \cup {q}
        /\ \A p \in DOMAIN snap[h] \cup {q} :
              With(snap[h], q)[p] = IF p = q THEN pool[q] ELSE snap[h][p]
    BY DEF With
  <2>4. ASSUME NEW g \in Handlers PROVE FreshSnap(g)'
    <3>1. CASE g = h
      <4>1. snap'[h] = With(snap[h], q)
        BY <1>t, <2>1 DEF HandlersTyped
      <4>2. since[h][q] <= pool[q].version
        BY <1>f DEF FreshPool
      <4> QED
        BY <1>f, <2>1, <2>3, <3>1, <4>1, <4>2 DEF FreshSnap
    <3>2. CASE g # h
      <4>1. snap'[g] = snap[g]
        BY <1>t, <2>1, <3>2 DEF HandlersTyped
      <4> QED
        BY <1>f, <2>1, <4>1 DEF FreshSnap
    <3> QED
      BY <3>1, <3>2
  <2> QED
    BY <1>g, <1>p, <1>m, <1>k, <2>1, <2>4
<1>7. ASSUME NEW h \in Handlers, Spawn(h) PROVE Fresh'
  <2>1. tasks' = tasks \cup BothTasks(h) /\ doing[h] = "clone" /\ pair[h] \in Pairs
        /\ UNCHANGED since
    BY <1>t, <1>7 DEF Spawn, HandlersTyped
  <2>2. DOMAIN snap[h] = PathPools(Forward(pair[h]))
    BY <1>7 DEF Spawn, AllCloned
  <2>3. ASSUME NEW t \in BothTasks(h) PROVE FreshTask(t)'
    <3>1. t.by = h /\ t.with = snap[h] /\ PathPools(t.path) = DOMAIN snap[h]
      BY <2>1, <2>2, PathsBothWays DEF BothTasks, Task
    <3>2. FreshSnap(h)
      BY <1>f
    <3> QED
      BY <2>1, <3>1, <3>2 DEF FreshTask, FreshSnap
  <2>4. \A t \in tasks : FreshTask(t)'
    BY <1>f, <2>1 DEF FreshTask
  <2> QED
    BY <1>7, <1>5, <1>g, <2>1, <2>3, <2>4
<1>8. ASSUME NEW t \in tasks, Evaluate(t) PROVE Fresh'
  <2>1. t.by \in Handlers /\ t.path \in Paths /\ FreshTask(t) /\ FreshMemo(t.by)
    BY <1>t, <1>f DEF TasksTyped, TaskTyped
  <2>2. PICK f \in Used(t) :
            /\ memo' = [memo EXCEPT ![t.by] = memo[t.by] \cup Memoized(t, f)]
            /\ tasks' \subseteq tasks \cup {[t EXCEPT !.with = f, !.found = TRUE]}
    BY <1>8 DEF Evaluate
  <2>3. UNCHANGED <<pool, since, snap>>
    BY <1>8 DEF Evaluate
  <2>4. \A p \in PathPools(t.path) : since[t.by][p] <= f[p].version
    BY <2>1, UsedFrom DEF FreshTask, FreshMemo
  <2>5. ASSUME NEW h \in Handlers PROVE FreshMemo(h)'
    <3>1. CASE h = t.by
      <4> SUFFICES ASSUME NEW m \in memo'[h] PROVE since'[h][m[1]] <= m[3].version
        BY DEF FreshMemo
      <4>1. m \in memo[t.by] \/ m \in Memoized(t, f)
        BY <1>t, <2>1, <2>2, <3>1 DEF TasksTyped
      <4>2. CASE m \in memo[t.by]
        BY <2>1, <2>3, <3>1, <4>2 DEF FreshMemo
      <4>3. CASE m \in Memoized(t, f)
        <5>1. m[1] \in PathPools(t.path) /\ m = <<m[1], Side(t.path, m[1]), f[m[1]]>>
          BY <4>3, MemoizedFrom
        <5> QED
          BY <2>3, <2>4, <3>1, <5>1
      <4> QED
        BY <4>1, <4>2, <4>3
    <3>2. CASE h # t.by
      <4>1. memo'[h] = memo[h]
        BY <1>t, <2>2, <3>2 DEF TasksTyped
      <4> QED
        BY <1>f, <2>3, <4>1 DEF FreshMemo
    <3> QED
      BY <3>1, <3>2
  <2>6. ASSUME NEW u \in tasks' PROVE FreshTask(u)'
    <3>1. CASE u \in tasks
      BY <1>f, <2>3, <3>1 DEF FreshTask
    <3>2. CASE u = [t EXCEPT !.with = f, !.found = TRUE]
      <4>1. u.by = t.by /\ u.path = t.path /\ u.with = f
        BY <3>2, <1>t DEF TasksTyped, TaskTyped
      <4> QED
        BY <2>3, <2>4, <4>1 DEF FreshTask
    <3> QED
      BY <2>2, <3>1, <3>2
  <2> QED
    BY <1>g, <1>p, <1>s, <2>3, <2>5, <2>6
<1>9. ASSUME NEW t \in tasks, Send(t) \/ SendPanics(t) PROVE Fresh'
  BY <1>9, <1>g, <1>p, <1>s, <1>m, <1>k DEF Send, SendPanics
<1>10. ASSUME ExecutorStep \/ UNCHANGED vars PROVE Fresh'
  <2>1. UNCHANGED <<pool, since, snap, memo, tasks>>
    BY <1>10 DEF ExecutorStep, Execute, WakeUp, StillPays, GiveUp, Die, CloneAgain, vars
  <2> QED
    BY <2>1, <1>g, <1>p, <1>s, <1>m, <1>k
<1>11. ASSUME NEW h \in Handlers, NEW q \in Pairs, LookAt(h, q) PROVE Fresh'
  BY <1>11, <1>5, <1>g, <1>k DEF LookAt
<1>12. ASSUME NEW h \in Handlers, NEW p \in Pools, CloneFails(h, p) PROVE Fresh'
  BY <1>12, <1>5, <1>g, <1>k DEF CloneFails
<1> QED
  BY <1>1, <1>2, <1>3, <1>4, <1>6, <1>7, <1>8, <1>9, <1>10, <1>11, <1>12
     DEF Next, ProcessorStep, HandlerStep, TaskStep

(* An opportunity about to be sent rests on pool states cloned after the   *)
(* change that made the processor look, whatever the memo mixed in.        *)
THEOREM FreshOpportunities == Spec => []FreshInputs
<1>1. Typed /\ Fresh => FreshInputs
  <2> SUFFICES ASSUME Typed, Fresh, NEW t \in tasks, NEW p \in PathPools(t.path)
               PROVE  t.with[p].version >= since[t.by][p]
    BY DEF FreshInputs
  <2>1. TaskTyped(t) /\ t.path \in Paths
    BY DEF Typed, TasksTyped, TaskTyped
  <2>2. t.with[p] \in PoolState /\ p \in Pools /\ t.by \in Handlers
    BY <2>1, PoolsOfPath DEF TaskTyped
  <2>3. t.with[p].version \in Int /\ since[t.by][p] \in Int
    BY <2>2, Numbers DEF PoolState
  <2> QED
    BY <2>3 DEF Fresh
<1> QED
  BY <1>1, InitTyped, StepTyped, InitFresh, StepFresh, PTL DEF Spec
-----------------------------------------------------------------------------
(* The search for the best amount: what may be simulated. *)

LEMMA AmountsTyped ==
    ASSUME NEW m \in Nat, NEW x \in Int, 0 <= x, x <= m \/ x <= Smallest
    PROVE  x \in Amounts(m)
BY DEF Amounts, Higher, Smallest

LEMMA AmountsNat ==
    ASSUME NEW m \in Nat, NEW x \in Amounts(m) PROVE x \in Nat
BY DEF Amounts, Higher, Smallest

LEMMA KeyPointsTyped ==
    ASSUME NEW m \in Nat
    PROVE  KeyPoints(m) \subseteq Amounts(m) /\ IsFiniteSet(KeyPoints(m))
<1>1. Smallest \in Amounts(m)
  BY AmountsTyped DEF Smallest
<1>2. Fractions(m) \subseteq Amounts(m)
  <2> SUFFICES ASSUME NEW x \in Fractions(m) PROVE x \in Int /\ 0 <= x /\ x <= m
    BY AmountsTyped
  <2>1. \/ x = m \/ x = m \div 2 \/ x = m \div 4 \/ x = (m * 3) \div 4 \/ x = m \div 16
        \/ x = (m * 15) \div 16
        \/ x = (m * 1) \div 8 \/ x = (m * 3) \div 8 \/ x = (m * 5) \div 8 \/ x = (m * 7) \div 8
    BY DEF Fractions
  <2> QED
    BY <2>1
<1>3. LogPoints(m) \subseteq Amounts(m)
  <2> SUFFICES ASSUME NEW x \in LogPoints(m) PROVE x \in Int /\ 0 <= x /\ x <= m
    BY AmountsTyped
  <2>1. PICK k \in 0..LogSteps : x = 10 * 100 ^ k /\ x < m \div 16
    BY DEF LogPoints
  <2>2. 100 ^ k \in Nat
    BY SearchAssumption
  <2>3. m \div 16 <= m
    OBVIOUS
  <2> QED
    BY <2>1, <2>2, <2>3
<1>4. KeyPoints(m) \subseteq Amounts(m)
  BY <1>1, <1>2, <1>3 DEF KeyPoints
<1>5. IsFiniteSet(Amounts(m))
  BY FS_Interval DEF Amounts, Higher, Smallest
<1> QED
  BY <1>4, <1>5, FS_Subset

LEMMA SamplesTyped ==
    ASSUME NEW m \in Nat PROVE SamplePoints(m) \subseteq Amounts(m)
<1>1. Filling(m) \subseteq Amounts(m)
  <2> SUFFICES ASSUME NEW x \in Filling(m) PROVE x \in Int /\ 0 <= x /\ x <= m
    BY AmountsTyped
  <2> DEFINE needed == MinSamples - Cardinality(KeyPoints(m))
             step == m \div (needed + 1)
  <2>1. Cardinality(KeyPoints(m)) \in Nat
    BY KeyPointsTyped, FS_CardinalityType
  <2>2. needed \in Int
    BY <2>1 DEF MinSamples
  <2>3. needed > 0 /\ x > 1 /\ x < m /\ \E i \in 1..needed : x = step * i
    BY DEF Filling
  <2> HIDE DEF needed
  <2>4. step \in Int
    BY <2>2, <2>3
  <2> HIDE DEF step
  <2>5. x \in Int
    BY <2>2, <2>3, <2>4
  <2> QED
    BY <2>3, <2>5
<1> QED
  BY <1>1, KeyPointsTyped DEF SamplePoints

LEMMA WindowTyped ==
    ASSUME NEW b \in Nat, NEW m \in Nat
    PROVE  /\ Window(b, m) \in [low : Nat, high : Nat]
           /\ Window(b, m).low >= 1 /\ Window(b, m).high <= m
BY DEF Window, Radius, Lower

(* Both mid points lie in the window. *)
LEMMA MidsInside ==
    ASSUME NEW s, s.low \in Nat, s.high \in Nat, s.low <= s.high
    PROVE  /\ Mid1(s) \in Nat /\ s.low <= Mid1(s) /\ Mid1(s) <= s.high
           /\ Mid2(s) \in Nat /\ s.low <= Mid2(s) /\ Mid2(s) <= s.high
BY DEF Mid1, Mid2

LEMMA BetterKeeps ==
    ASSUME NEW old, old.amount \in Nat, old.profit \in Nat, NEW x \in Nat, Profit(curve, x) \in Int
    PROVE  /\ Better(old, x).amount \in Nat /\ Better(old, x).profit \in Nat
           /\ Better(old, x).profit >= old.profit /\ Better(old, x).profit >= Profit(curve, x)
           /\ \/ Better(old, x) = old
              \/ Better(old, x).amount = x /\ Better(old, x).profit = Profit(curve, x)
BY DEF Better

(* Simulating one more amount adds one at most to those simulated.         *)
LEMMA OneMore ==
    ASSUME NEW S, IsFiniteSet(S), NEW x
    PROVE  /\ IsFiniteSet(S \cup {x}) /\ Cardinality(S \cup {x}) \in Nat
           /\ Cardinality(S \cup {x}) <= Cardinality(S) + 1
<1>1. Cardinality(S) \in Nat
  BY FS_CardinalityType
<1>2. IsFiniteSet(S \cup {x})
      /\ Cardinality(S \cup {x}) = IF x \in S THEN Cardinality(S) ELSE Cardinality(S) + 1
  BY FS_AddElement
<1> QED
  BY <1>1, <1>2
-----------------------------------------------------------------------------
(* How many amounts were simulated after how many turns of the loops.      *)
Counted ==
    /\ IsFiniteSet(evaluated)
    /\ Cardinality(evaluated) <= 2 * iterations
    /\ Cardinality(evaluated) <= 2 * maxIterations
    /\ pc \in {"start", "sample", "narrow"} => iterations <= maxIterations

(* best is the best of them. *)
BestKept ==
    /\ best.profit > 0 => best.amount \in evaluated /\ best.profit = Profit(curve, best.amount)
    /\ \A x \in evaluated : Profit(curve, x) <= best.profit

(* What the ternary search simulates are amounts up to max_amount.         *)
Searching == pc = "narrow" => search.high <= maxAmount

SearchInv == SearchTypeOK /\ Counted /\ BestKept /\ Searching

LEMMA InitSearch == SearchInit => SearchInv
<1> SUFFICES ASSUME SearchInit PROVE SearchInv
  OBVIOUS
<1>1. maxIterations \in Nat
  BY SearchAssumption DEF SearchInit
<1>2. IsFiniteSet(evaluated) /\ Cardinality(evaluated) = 0
  BY FS_EmptySet DEF SearchInit
<1>3. SearchTypeOK
  BY <1>1 DEF SearchInit, SearchTypeOK, Interval
<1> QED
  BY <1>1, <1>2, <1>3 DEF SearchInit, SearchInv, Counted, BestKept, Searching

(* b is the best of the amounts S, and stays so with x as one more.        *)
BestOf(b, S) ==
    /\ b.amount \in Nat /\ b.profit \in Nat /\ S \subseteq Amounts(maxAmount)
    /\ b.profit > 0 => b.amount \in S /\ b.profit = Profit(curve, b.amount)
    /\ \A x \in S : Profit(curve, x) <= b.profit

LEMMA SimulateKeeps ==
    ASSUME SearchTypeOK, NEW b, NEW S, BestOf(b, S), NEW x \in Amounts(maxAmount)
    PROVE  BestOf(Better(b, x), S \cup {x})
<1>1. maxAmount \in Nat /\ \A y \in Amounts(maxAmount) : y \in Nat /\ Profit(curve, y) \in Int
  BY SearchAssumption, AmountsNat DEF SearchTypeOK
<1>2. PICK new : new = Better(b, x)
  OBVIOUS
<1>3. /\ new.amount \in Nat /\ new.profit \in Nat
      /\ new.profit >= b.profit /\ new.profit >= Profit(curve, x)
      /\ \/ new = b
         \/ new.amount = x /\ new.profit = Profit(curve, x)
  BY <1>1, <1>2, BetterKeeps DEF BestOf
<1>4. \A y \in S : Profit(curve, y) <= new.profit
  BY <1>1, <1>3 DEF BestOf
<1> QED
  BY <1>1, <1>2, <1>3, <1>4 DEF BestOf

LEMMA StepSearch == SearchInv /\ [SearchNext]_searchVars => SearchInv'
<1> SUFFICES ASSUME SearchInv, [SearchNext]_searchVars PROVE SearchInv'
  OBVIOUS
<1>t. SearchTypeOK /\ Counted /\ BestKept /\ Searching
  BY DEF SearchInv
<1>n. /\ maxAmount \in Nat /\ maxIterations \in Nat /\ iterations \in Nat
      /\ Cardinality(evaluated) \in Nat /\ best.amount \in Nat /\ best.profit \in Nat
  BY <1>t, SearchAssumption, FS_CardinalityType DEF SearchTypeOK, Counted
<1>a. \A x \in left : x \in Amounts(maxAmount)
  BY <1>t, <1>n, SamplesTyped DEF SearchTypeOK
<1>o. BestOf(best, evaluated)
  BY <1>t DEF SearchTypeOK, BestKept, BestOf
<1>b. UNCHANGED <<arguments, best, evaluated>> => BestKept'
  BY <1>t DEF BestKept, arguments
<1>1. CASE Begin
  <2>1. SearchTypeOK'
    BY <1>t, <1>1 DEF Begin, SearchTypeOK, Ended, arguments
  <2>2. Counted' /\ Searching'
    BY <1>t, <1>1 DEF Begin, Counted, Searching, Ended, arguments
  <2> QED
    BY <1>1, <1>b, <2>1, <2>2 DEF Begin, SearchInv
<1>2. ASSUME NEW x \in left, SimulateSample(x) PROVE SearchInv'
  <2>1. /\ pc = "sample" /\ iterations < maxIterations /\ iterations' = iterations + 1
        /\ best' = Better(best, x) /\ left' = left \ {x} /\ evaluated' = evaluated \cup {x}
        /\ UNCHANGED <<curve, maxAmount, maxIterations, pc, window, search>>
    BY <1>2 DEF SimulateSample, arguments
  <2>2. x \in Amounts(maxAmount)
    BY <1>a
  <2>3. BestOf(best', evaluated')
    BY <1>t, <1>o, <2>1, <2>2, SimulateKeeps
  <2>5. SearchTypeOK'
    BY <1>t, <1>n, <2>1, <2>3 DEF SearchTypeOK, BestOf
  <2>6. IsFiniteSet(evaluated') /\ Cardinality(evaluated') \in Nat
        /\ Cardinality(evaluated') <= Cardinality(evaluated) + 1
    BY <1>t, <2>1, OneMore DEF Counted
  <2>7. Counted' /\ Searching'
    BY <1>t, <1>n, <2>1, <2>6 DEF Counted, Searching
  <2>8. BestKept'
    BY <2>1, <2>3 DEF BestKept, BestOf
  <2> QED
    BY <2>5, <2>7, <2>8 DEF SearchInv
<1>3. ASSUME \/ \E x \in left : SamplePanics(x)
             \/ NarrowPanics \/ NarrowDone
      PROVE  SearchInv'
  <2>1. /\ pc' \in Ended
        /\ UNCHANGED <<curve, maxAmount, maxIterations, left, iterations, best, window, search, evaluated>>
    BY <1>3 DEF SamplePanics, NarrowPanics, NarrowDone, arguments, Ended
  <2>2. SearchTypeOK'
    BY <1>t, <2>1 DEF SearchTypeOK
  <2>3. Counted' /\ Searching'
    BY <1>t, <2>1 DEF Counted, Searching, Ended
  <2> QED
    BY <1>b, <2>1, <2>2, <2>3 DEF SearchInv, arguments
<1>4. CASE SamplesDone
  <2>1. /\ pc = "sample" /\ pc' \in {"none", "focus"}
        /\ iterations' = iterations \/ (iterations' = iterations + 1 /\ iterations = maxIterations)
        /\ UNCHANGED <<curve, maxAmount, maxIterations, left, best, window, search, evaluated>>
    BY <1>4 DEF SamplesDone, arguments
  <2>2. SearchTypeOK'
    BY <1>t, <1>n, <2>1 DEF SearchTypeOK, Ended
  <2>3. Counted' /\ Searching'
    BY <1>t, <1>n, <2>1 DEF Counted, Searching
  <2> QED
    BY <1>b, <2>1, <2>2, <2>3 DEF SearchInv, arguments
<1>5. CASE Focus
  <2>1. /\ UNCHANGED <<curve, maxAmount, maxIterations, left, iterations, best, evaluated>>
        /\ \/ pc' = "found" /\ UNCHANGED <<window, search>>
           \/ /\ iterations < maxIterations /\ pc' \in {"narrow", "found"}
              /\ window' = Window(best.amount, maxAmount)
              /\ search' = Window(best.amount, maxAmount)
    BY <1>5 DEF Focus, arguments
  <2>2. PICK w : w = Window(best.amount, maxAmount)
    OBVIOUS
  <2>3. w \in [low : Nat, high : Nat] /\ w.low >= 1 /\ w.high <= maxAmount
    BY <1>n, <2>2, WindowTyped
  <2>4. w \in Interval
    BY <2>3 DEF Interval
  <2>5. SearchTypeOK'
    BY <1>t, <2>1, <2>2, <2>4 DEF SearchTypeOK, Ended
  <2>6. Counted' /\ Searching'
    BY <1>t, <1>n, <2>1, <2>2, <2>3 DEF Counted, Searching
  <2> QED
    BY <1>b, <2>1, <2>5, <2>6 DEF SearchInv, arguments
<1>g. ASSUME pc = "narrow", search.low <= search.high
      PROVE  /\ search.low \in Nat /\ search.high \in Nat /\ search.high <= maxAmount
             /\ search \in Interval
  BY <1>t, <1>g DEF SearchTypeOK, Interval, Searching
<1>6. CASE Narrow
  <2>1. /\ pc = "narrow" /\ search.low <= search.high /\ iterations < maxIterations
        /\ search.low # search.high
        /\ iterations' = iterations + 1
        /\ best' = Better(Better(best, Mid1(search)), Mid2(search))
        /\ evaluated' = (evaluated \cup {Mid1(search)}) \cup {Mid2(search)}
        /\ search' = Narrowed(search)
        /\ UNCHANGED <<curve, maxAmount, maxIterations, pc, left, window>>
    BY <1>6 DEF Narrow, Goes, BetterOfBoth, arguments
  <2>2. PICK s, x, y : s = search /\ x = Mid1(s) /\ y = Mid2(s)
    OBVIOUS
  <2>3. /\ s.low \in Nat /\ s.high \in Nat /\ s.low <= s.high /\ s.high <= maxAmount /\ s \in Interval
    BY <1>g, <2>1, <2>2
  <2>4. x \in Nat /\ s.low <= x /\ x <= s.high /\ y \in Nat /\ s.low <= y /\ y <= s.high
    BY <2>2, <2>3, MidsInside
  <2>5. x \in Amounts(maxAmount) /\ y \in Amounts(maxAmount)
    BY <1>n, <2>3, <2>4, AmountsTyped
  <2>6. BestOf(Better(best, x), evaluated \cup {x})
    BY <1>t, <1>o, <2>5, SimulateKeeps
  <2>7. BestOf(Better(Better(best, x), y), (evaluated \cup {x}) \cup {y})
    BY <1>t, <2>5, <2>6, SimulateKeeps
  <2>8. BestOf(best', evaluated') /\ search' = Narrowed(s) /\ evaluated' = (evaluated \cup {x}) \cup {y}
    BY <2>1, <2>2, <2>7
  <2>9. Narrowed(s) \in Interval /\ Narrowed(s).high <= maxAmount
    <3>1. Narrowed(s) = [s EXCEPT !.high = y - 1] \/ Narrowed(s) = [s EXCEPT !.low = x + 1]
      BY <2>2 DEF Narrowed
    <3>2. y - 1 \in Nat \cup {-1} /\ x + 1 \in Nat /\ y - 1 <= maxAmount
      BY <1>n, <2>3, <2>4
    <3> QED
      BY <2>3, <3>1, <3>2 DEF Interval
  <2>10. SearchTypeOK'
    BY <1>t, <1>n, <2>1, <2>8, <2>9 DEF SearchTypeOK, BestOf
  <2>11. IsFiniteSet(evaluated') /\ Cardinality(evaluated') \in Nat
         /\ Cardinality(evaluated') <= Cardinality(evaluated) + 2
    <3>1. PICK T : T = evaluated \cup {x}
      OBVIOUS
    <3>2. IsFiniteSet(T) /\ Cardinality(T) \in Nat /\ Cardinality(T) <= Cardinality(evaluated) + 1
      BY <1>t, <3>1, OneMore DEF Counted
    <3>3. IsFiniteSet(T \cup {y}) /\ Cardinality(T \cup {y}) \in Nat
          /\ Cardinality(T \cup {y}) <= Cardinality(T) + 1
      BY <3>2, OneMore
    <3> QED
      BY <1>n, <2>8, <3>1, <3>2, <3>3
  <2>12. Counted'
    BY <1>t, <1>n, <2>1, <2>11 DEF Counted
  <2>13. Searching'
    BY <2>1, <2>8, <2>9 DEF Searching
  <2>14. BestKept'
    BY <2>1, <2>8 DEF BestKept, BestOf
  <2> QED
    BY <2>10, <2>12, <2>13, <2>14 DEF SearchInv
<1>7. CASE NarrowToOne
  <2>1. /\ pc = "narrow" /\ search.low <= search.high /\ iterations < maxIterations
        /\ iterations' = iterations + 1 /\ best' = Better(best, search.low)
        /\ evaluated' = evaluated \cup {search.low} /\ pc' = "found"
        /\ UNCHANGED <<curve, maxAmount, maxIterations, left, window, search>>
    BY <1>7 DEF NarrowToOne, Goes, arguments
  <2>2. PICK x : x = search.low
    OBVIOUS
  <2>3. x \in Amounts(maxAmount)
    BY <1>g, <1>n, <2>1, <2>2, AmountsTyped
  <2>4. BestOf(best', evaluated')
    BY <1>t, <1>o, <2>1, <2>2, <2>3, SimulateKeeps
  <2>5. SearchTypeOK'
    BY <1>t, <1>n, <2>1, <2>4 DEF SearchTypeOK, BestOf, Ended
  <2>6. IsFiniteSet(evaluated') /\ Cardinality(evaluated') \in Nat
        /\ Cardinality(evaluated') <= Cardinality(evaluated) + 1
    BY <1>t, <2>1, OneMore DEF Counted
  <2>7. Counted' /\ Searching'
    BY <1>t, <1>n, <2>1, <2>6 DEF Counted, Searching
  <2>8. BestKept'
    BY <2>1, <2>4 DEF BestKept, BestOf
  <2> QED
    BY <2>5, <2>7, <2>8 DEF SearchInv
<1>8. CASE UNCHANGED searchVars
  <2>1. SearchTypeOK' /\ Searching'
    BY <1>t, <1>8 DEF searchVars, arguments, SearchTypeOK, Searching
  <2>2. Counted'
    BY <1>t, <1>8 DEF searchVars, arguments, Counted
  <2> QED
    BY <1>8, <1>b, <2>1, <2>2 DEF searchVars, SearchInv
<1> QED
  BY <1>1, <1>2, <1>3, <1>4, <1>5, <1>6, <1>7, <1>8 DEF SearchNext

(* The amounts of the search stay amounts, and its counters in bounds.     *)
THEOREM SearchTypeCorrect == SearchSpec => []SearchTypeOK
<1>1. SearchInv => SearchTypeOK
  BY DEF SearchInv
<1> QED
  BY <1>1, InitSearch, StepSearch, PTL DEF SearchSpec

(* handle_path answers with the best of the amounts it simulated, and      *)
(* simulates at most twice max_iterations of them, whatever they pay.      *)
THEOREM AnswerIsBest == SearchSpec => []BestOfEvaluated
<1>1. SearchInv => BestOfEvaluated
  BY DEF SearchInv, Counted, BestKept, BestOfEvaluated
<1> QED
  BY <1>1, InitSearch, StepSearch, PTL DEF SearchSpec
-----------------------------------------------------------------------------
(* Induction: a set of numbers that is not empty has a least one.          *)
LEMMA LeastNumber ==
    ASSUME NEW T \in SUBSET Nat, T # {} PROVE \E n \in T : \A k \in T : n <= k
<1> DEFINE below == {couple \in Nat \X Nat : couple[1] < couple[2]}
<1>1. OpToRel(<, Nat) = below
  BY Zenon DEF OpToRel
<1>2. IsWellFoundedOn(below, Nat)
  BY <1>1, NatLessThanWellFounded, Zenon
<1>3. \E n \in T : \A k \in T : <<k, n>> \notin below
  <2> HIDE DEF below
  <2> QED
    BY <1>2, WFMin
<1>4. PICK n \in T : \A k \in T : ~(k < n)
  BY <1>3
<1> QED
  BY <1>4

(* A curve whose gains are nowhere positive from a to c does not rise.     *)
LEMMA FallsAlong ==
    ASSUME NEW a \in Nat, NEW c \in Nat, a <= c,
           \A x \in a..c : Profit(curve, x) \in Int,
           \A x \in a..c - 1 : Gain(x) <= 0
    PROVE  Profit(curve, c) <= Profit(curve, a)
<1> DEFINE T == {n \in a..c : Profit(curve, n) > Profit(curve, a)}
<1>1. ASSUME T # {} PROVE FALSE
  <2>0. T \in SUBSET Nat
    OBVIOUS
  <2>1. PICK n \in T : \A k \in T : n <= k
    <3> HIDE DEF T
    <3> QED
      BY <1>1, <2>0, LeastNumber
  <2>2. n # a
    BY <2>1
  <2>3. n - 1 \in a..c - 1 /\ n - 1 \notin T
    BY <2>1, <2>2
  <2>4. Profit(curve, n - 1) <= Profit(curve, a) /\ Gain(n - 1) <= 0
    BY <2>3
  <2>5. Gain(n - 1) = Profit(curve, n) - Profit(curve, n - 1)
    BY <2>1, <2>2 DEF Gain
  <2> QED
    BY <2>1, <2>3, <2>4, <2>5
<1> QED
  BY <1>1

(* One whose gains are positive rises. *)
LEMMA RisesAlong ==
    ASSUME NEW a \in Nat, NEW c \in Nat, a < c,
           \A x \in a..c : Profit(curve, x) \in Int,
           \A x \in a..c - 1 : Gain(x) > 0
    PROVE  Profit(curve, c) > Profit(curve, a)
<1> DEFINE T == {n \in a + 1 .. c : Profit(curve, n) <= Profit(curve, a)}
<1>1. ASSUME T # {} PROVE FALSE
  <2>0. T \in SUBSET Nat
    OBVIOUS
  <2>1. PICK n \in T : \A k \in T : n <= k
    <3> HIDE DEF T
    <3> QED
      BY <1>1, <2>0, LeastNumber
  <2>2. n - 1 \in a..c - 1 /\ n - 1 \notin T
    BY <2>1
  <2>3. Profit(curve, n - 1) >= Profit(curve, a) /\ Gain(n - 1) > 0
    BY <2>2
  <2>4. Gain(n - 1) = Profit(curve, n) - Profit(curve, n - 1)
    BY <2>1 DEF Gain
  <2> QED
    BY <2>1, <2>2, <2>3, <2>4
<1> QED
  BY <1>1

(* The gains of a concave curve never turn positive again.                 *)
LEMMA GainsStayNegative ==
    ASSUME NEW w \in Interval, Concave(w),
           \A x \in w.low .. w.high : Profit(curve, x) \in Int,
           NEW y \in Nat, w.low <= y, Gain(y) <= 0, NEW z \in Nat, y <= z, z < w.high
    PROVE  Gain(z) <= 0
<1>w. w.low \in Nat /\ w.high \in Int
  BY DEF Interval
<1>g. \A x \in w.low .. w.high - 1 : Gain(x) \in Int
  BY <1>w DEF Gain
<1> DEFINE T == {n \in y..z : Gain(n) > 0}
<1>1. ASSUME T # {} PROVE FALSE
  <2>0. T \in SUBSET Nat
    OBVIOUS
  <2>1. PICK n \in T : \A k \in T : n <= k
    <3> HIDE DEF T
    <3> QED
      BY <1>1, <2>0, LeastNumber
  <2>2. n # y
    BY <1>g, <1>w, <2>1
  <2>3. n - 1 \in y..z /\ n - 1 \notin T
    BY <2>1, <2>2
  <2>4. n - 1 \in w.low .. w.high - 2
    BY <1>w, <2>3, <2>1
  <2>5. Gain(n - 1) >= Gain(n)
    BY <2>1, <2>4 DEF Concave
  <2> QED
    BY <1>g, <1>w, <2>1, <2>3, <2>4, <2>5
<1> QED
  BY <1>1, <1>g, <1>w

(* Where a concave curve does not rise from a to b, it does not rise after. *)
LEMMA BeyondPeak ==
    ASSUME NEW w \in Interval, Concave(w),
           \A x \in w.low .. w.high : Profit(curve, x) \in Int,
           NEW a \in Nat, NEW b \in Nat, NEW c \in Nat,
           w.low <= a, a < b, b <= c, c <= w.high,
           Profit(curve, a) >= Profit(curve, b)
    PROVE  Profit(curve, c) <= Profit(curve, b)
<1>w. w.low \in Nat /\ w.high \in Int
  BY DEF Interval
<1>g. \A x \in w.low .. w.high - 1 : Gain(x) \in Int
  BY <1>w DEF Gain
<1>1. PICK y \in a..b - 1 : Gain(y) <= 0
  <2>1. SUFFICES ASSUME \A y \in a..b - 1 : Gain(y) > 0 PROVE FALSE
    BY <1>g, <1>w
  <2>2. Profit(curve, b) > Profit(curve, a)
    BY <1>w, <2>1, RisesAlong
  <2> QED
    BY <1>w, <2>2
<1>2. \A z \in b..c - 1 : Gain(z) <= 0
  BY <1>1, <1>w, GainsStayNegative
<1> QED
  BY <1>2, <1>w, FallsAlong

(* Where it rises from a to b, it does not fall before.                    *)
LEMMA BeforePeak ==
    ASSUME NEW w \in Interval, Concave(w),
           \A x \in w.low .. w.high : Profit(curve, x) \in Int,
           NEW c \in Nat, NEW a \in Nat, NEW b \in Nat,
           w.low <= c, c <= a, a < b, b <= w.high,
           Profit(curve, a) < Profit(curve, b)
    PROVE  Profit(curve, c) <= Profit(curve, a)
<1>w. w.low \in Nat /\ w.high \in Int
  BY DEF Interval
<1>p. Profit(curve, a) \in Int /\ Profit(curve, b) \in Int /\ Profit(curve, c) \in Int
  BY <1>w
<1>1. SUFFICES ASSUME Profit(curve, c) > Profit(curve, a) PROVE FALSE
  BY <1>p
<1>2. c < a
  BY <1>1, <1>p
<1>3. Profit(curve, b) <= Profit(curve, a)
  BY <1>1, <1>2, <1>p, <1>w, BeyondPeak
<1> QED
  BY <1>3, <1>p

(* The window lies within the amounts, the ternary search within it.       *)
Inside ==
    /\ window.high <= maxAmount
    /\ pc \in {"start", "sample", "focus", "none"} => window.high <= window.low + 10
    /\ pc = "narrow" => window.low <= search.low /\ search.high <= window.high

(* A turn of the ternary search drops the side that holds nothing better.  *)
LEMMA NarrowKeeps ==
    ASSUME SearchInv, Inside, PeakKept, Narrow PROVE PeakKept'
<1>t. SearchTypeOK /\ Searching
  BY DEF SearchInv
<1> SUFFICES ASSUME window.high > window.low + 10, Concave(window), NEW x \in window.low .. window.high,
                    Profit(curve, x) > best'.profit
             PROVE  x \in search'.low .. search'.high \/ x - 1 \in evaluated'
  BY DEF Narrow, arguments, PeakKept, Concave, Gain
<1>n. /\ pc = "narrow" /\ search.low < search.high
      /\ search.low \in Nat /\ search.high \in Nat /\ window.low \in Nat /\ window.high \in Int
      /\ window \in Interval /\ search \in Interval /\ maxAmount \in Nat
      /\ window.low <= search.low /\ search.high <= window.high /\ window.high <= maxAmount
      /\ best.amount \in Nat /\ best.profit \in Nat
  BY <1>t, SearchAssumption DEF Narrow, Goes, SearchTypeOK, Interval, Inside
<1>c. \A y \in window.low .. window.high : y \in Nat /\ Profit(curve, y) \in Int
  <2> SUFFICES ASSUME NEW y \in window.low .. window.high PROVE y \in Nat /\ Profit(curve, y) \in Int
    OBVIOUS
  <2>1. y \in Amounts(maxAmount)
    BY <1>n, AmountsTyped
  <2> QED
    BY <1>n, <1>t, <2>1, SearchAssumption DEF SearchTypeOK
<1>1. PICK m1, m2 : m1 = Mid1(search) /\ m2 = Mid2(search)
  OBVIOUS
<1>2. /\ m1 \in Nat /\ search.low <= m1 /\ m1 <= search.high
      /\ m2 \in Nat /\ search.low <= m2 /\ m2 <= search.high
  BY <1>n, <1>1, MidsInside
<1>3. m1 < m2 \/ (m1 = m2 /\ m1 = search.low /\ search.high = search.low + 1)
  <2>1. PICK d \in Nat : d = search.high - search.low
    BY <1>n
  <2>2. search.high = search.low + d /\ d >= 1
    BY <1>n, <2>1
  <2>3. m1 = search.low + d \div 3 /\ m2 = search.low + (d * 2) \div 3
    BY <1>1, <2>1 DEF Mid1, Mid2
  <2>4. d = 1 => d \div 3 = 0 /\ (d * 2) \div 3 = 0
    OBVIOUS
  <2>5. d > 1 => d \div 3 < (d * 2) \div 3
    OBVIOUS
  <2>6. d \div 3 \in Nat /\ (d * 2) \div 3 \in Nat
    OBVIOUS
  <2> QED
    BY <1>n, <2>2, <2>3, <2>4, <2>5, <2>6
<1>4. m1 \in window.low .. window.high /\ m2 \in window.low .. window.high
  BY <1>n, <1>2
<1>5. PICK once : once = Better(best, m1)
  OBVIOUS
<1>6. once.amount \in Nat /\ once.profit \in Nat /\ once.profit >= best.profit
      /\ once.profit >= Profit(curve, m1)
  BY <1>c, <1>n, <1>2, <1>4, <1>5, BetterKeeps
<1>7. best' = Better(once, m2) /\ evaluated' = evaluated \cup {m1, m2}
      /\ search' = IF Profit(curve, m1) >= Profit(curve, m2)
                   THEN [search EXCEPT !.high = m2 - 1]
                   ELSE [search EXCEPT !.low = m1 + 1]
  BY <1>1, <1>5 DEF Narrow, BetterOfBoth, Narrowed
<1>8. best'.profit \in Nat /\ best'.profit >= once.profit /\ best'.profit >= Profit(curve, m2)
  BY <1>c, <1>2, <1>4, <1>6, <1>7, BetterKeeps
<1>9. Profit(curve, x) > best.profit /\ Profit(curve, x) > Profit(curve, m1)
      /\ Profit(curve, x) > Profit(curve, m2)
  BY <1>c, <1>4, <1>n, <1>6, <1>8
<1>10. x \in search.low .. search.high \/ x - 1 \in evaluated
  BY <1>9, <1>n DEF PeakKept
<1>11. SUFFICES ASSUME x \in search.low .. search.high PROVE x \in search'.low .. search'.high \/ x - 1 \in evaluated'
  BY <1>7, <1>10
<1>12. CASE Profit(curve, m1) >= Profit(curve, m2)
  <2>1. search'.low = search.low /\ search'.high = m2 - 1
    BY <1>7, <1>12, <1>n DEF Interval
  <2>2. CASE m1 < m2
    <3>1. x < m2
      <4>1. SUFFICES ASSUME m2 <= x PROVE FALSE
        BY <1>2, <1>c
      <4>2. Profit(curve, x) <= Profit(curve, m2)
        BY <4>1, <1>12, <2>2, <1>2, <1>n, <1>c, <1>4, BeyondPeak
      <4> QED
        BY <4>2, <1>9, <1>c, <1>4
    <3> QED
      BY <1>11, <1>2, <2>1, <3>1, <1>c
  <2>3. CASE m1 = m2 /\ m1 = search.low /\ search.high = search.low + 1
    <3>1. x # m1
      BY <1>9, <1>c
    <3>2. x - 1 = m1
      BY <1>11, <1>n, <2>3, <3>1
    <3> QED
      BY <1>7, <3>2
  <2> QED
    BY <1>3, <2>2, <2>3
<1>13. CASE ~(Profit(curve, m1) >= Profit(curve, m2))
  <2>1. search'.low = m1 + 1 /\ search'.high = search.high
    BY <1>7, <1>13, <1>n DEF Interval
  <2>2. m1 < m2 /\ Profit(curve, m1) < Profit(curve, m2)
    BY <1>3, <1>13, <1>c, <1>4
  <2>3. x > m1
    <3>1. SUFFICES ASSUME x <= m1 PROVE FALSE
      BY <1>2, <1>c
    <3>2. Profit(curve, x) <= Profit(curve, m1)
      BY <3>1, <2>2, <1>2, <1>n, <1>c, <1>4, BeforePeak
    <3> QED
      BY <3>2, <1>9, <1>c, <1>4
  <2> QED
    BY <1>11, <1>2, <2>1, <2>3, <1>c
<1> QED
  BY <1>12, <1>13

LEMMA StepPeak == SearchInv /\ Inside /\ PeakKept /\ [SearchNext]_searchVars => Inside' /\ PeakKept'
<1> SUFFICES ASSUME SearchInv, Inside, PeakKept, [SearchNext]_searchVars PROVE Inside' /\ PeakKept'
  OBVIOUS
<1>t. SearchTypeOK /\ Searching
  BY DEF SearchInv
<1>n. window.low \in Nat /\ window.high \in Int /\ search.low \in Nat /\ search.high \in Int
      /\ maxAmount \in Nat /\ best.amount \in Nat /\ best.profit \in Nat /\ search \in Interval
  BY <1>t, SearchAssumption DEF SearchTypeOK, Interval
<1>1. CASE Begin \/ (\E x \in left : SimulateSample(x) \/ SamplePanics(x)) \/ SamplesDone \/ NarrowPanics
  <2>1. UNCHANGED <<maxAmount, window, search>> /\ pc' \in {"none", "sample", "focus", "panicked"}
        /\ (pc' # "panicked" => pc \in {"start", "sample", "focus"})
    BY <1>1 DEF Begin, SimulateSample, SamplePanics, SamplesDone, NarrowPanics, arguments
  <2> QED
    BY <2>1 DEF Inside, PeakKept
<1>2. CASE Focus
  <2>1. CASE window' = window
    <3>1. UNCHANGED <<curve, maxAmount, best, evaluated>> /\ pc = "focus" /\ pc' \in {"narrow", "found"}
      BY <1>2 DEF Focus, arguments
    <3>2. pc' = "found" \/ (search' = window' /\ window'.high > window'.low + 10)
      BY <1>2 DEF Focus
    <3>3. window.high <= window.low + 10
      BY <3>1 DEF Inside
    <3>4. pc' = "found"
      BY <2>1, <3>2, <3>3, <1>n
    <3> QED
      BY <1>n, <2>1, <3>1, <3>3, <3>4 DEF Inside, PeakKept
  <2>2. CASE window' # window
    <3>1. PICK w : w = Window(best.amount, maxAmount)
      OBVIOUS
    <3>2. window' = w /\ search' = w /\ UNCHANGED maxAmount /\ pc' \in {"narrow", "found"}
      BY <1>2, <2>2, <3>1 DEF Focus, arguments
    <3>3. w.low \in Nat /\ w.high <= maxAmount /\ w.high \in Nat
      BY <1>n, <3>1, WindowTyped
    <3> QED
      BY <3>2, <3>3 DEF Inside, PeakKept
  <2> QED
    BY <2>1, <2>2
<1>3. CASE Narrow
  <2>1. UNCHANGED <<pc, window, maxAmount>> /\ pc = "narrow" /\ search.low <= search.high
        /\ search' = Narrowed(search)
    BY <1>3 DEF Narrow, arguments, Goes
  <2>2. search.high \in Nat
    BY <1>n, <2>1
  <2>3. PICK s, x, y : s = search /\ x = Mid1(s) /\ y = Mid2(s)
    OBVIOUS
  <2>4. x \in Nat /\ s.low <= x /\ y \in Nat /\ y <= s.high
    BY <1>n, <2>1, <2>2, <2>3, MidsInside
  <2>5. search' = [s EXCEPT !.high = y - 1] \/ search' = [s EXCEPT !.low = x + 1]
    BY <2>1, <2>3 DEF Narrowed
  <2>6. search'.low >= s.low /\ search'.high <= s.high
    BY <1>n, <2>3, <2>4, <2>5 DEF Interval
  <2>7. search'.low \in Int /\ search'.high \in Int
    BY <1>n, <2>3, <2>4, <2>5 DEF Interval
  <2>8. Inside'
    BY <1>n, <2>1, <2>3, <2>6, <2>7 DEF Inside
  <2> QED
    BY <1>3, <2>8, NarrowKeeps
<1>4. CASE NarrowToOne
  <2>1. UNCHANGED <<curve, window, search, maxAmount>> /\ pc = "narrow" /\ pc' = "found"
        /\ search.low = search.high /\ best' = Better(best, search.low)
        /\ evaluated' = evaluated \cup {search.low}
    BY <1>4 DEF NarrowToOne, arguments, Goes
  <2>2. Inside'
    BY <2>1 DEF Inside
  <2>3. ASSUME NEW x \in window.low .. window.high, Profit(curve, x) > best'.profit
        PROVE  Profit(curve, x) > best.profit
    <3>1. search.low \in Amounts(maxAmount) /\ x \in Amounts(maxAmount)
      BY <2>1, <1>n, <1>t, AmountsTyped DEF Inside, Searching
    <3>2. Profit(curve, search.low) \in Int /\ Profit(curve, x) \in Int
      BY <1>t, <3>1, SearchAssumption DEF SearchTypeOK
    <3>3. PICK new : new = Better(best, search.low)
      OBVIOUS
    <3>4. new.profit \in Nat /\ new.profit >= best.profit
      BY <1>n, <3>2, <3>3, BetterKeeps
    <3> QED
      BY <1>n, <2>1, <2>3, <3>2, <3>3, <3>4
  <2>4. PeakKept'
    BY <2>1, <2>3 DEF PeakKept, Concave, Gain
  <2> QED
    BY <2>2, <2>4
<1>5. CASE NarrowDone \/ UNCHANGED searchVars
  <2>1. UNCHANGED <<curve, maxAmount, window, search, best, evaluated>>
        /\ (pc' = pc \/ (pc = "narrow" /\ pc' = "found"))
    BY <1>5 DEF NarrowDone, searchVars, arguments
  <2> QED
    BY <2>1 DEF Inside, PeakKept, Concave, Gain
<1> QED
  BY <1>1, <1>2, <1>3, <1>4, <1>5 DEF SearchNext

(* On concave curves the narrowing of handle_path loses no better amount   *)
(* but the neighbour of a simulated one.                                   *)
THEOREM NothingBetterLost == SearchSpec => []PeakKept
<1>1. SearchInit => Inside /\ PeakKept
  BY SearchAssumption DEF SearchInit, Inside, PeakKept
<1> QED
  BY <1>1, InitSearch, StepSearch, StepPeak, PTL DEF SearchSpec
=============================================================================
