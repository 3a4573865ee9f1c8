---------------------------- MODULE RuntimeLocks ----------------------------
(***************************************************************************)
(* The read-write locks of one network and the tasks that nest them while  *)
(* the poller applies a run-time update.  tokio's RwLock is fair: requests *)
(* are granted in the order they were made, so a reader waits behind a     *)
(* writer that waits, whatever guards it already has.                      *)
(*                                                                         *)
(* A task runs one routine after another.  A routine is its sequence of    *)
(* lock requests, guard drops and remote answers, with Rust's rule that a  *)
(* temporary guard lives to the end of its statement (for the scrutinee of *)
(* a match: to the end of the match).  Locks taken only innermost and      *)
(* dropped at once (by_address, a pool, the token tables) are left out.    *)
(***************************************************************************)
EXTENDS Naturals, Sequences, FiniteSets

CONSTANTS
    Tasks,           \* the tasks of this instance
    Changes          \* what a network document's update may change

(* A handler is a task of the processor, of the executor or of a logger.    *)
AllTasks == {"follower", "initializer", "poller", "handler"}
ChangeKinds == {"rpcs", "min_profit", "multicall"}

ASSUME LocksAssumption == Tasks \subseteq AllTasks /\ Changes \subseteq SUBSET ChangeKinds

(* NetworkRegistry, PoolRegistry, ProfitTokenRegistry behind their RwLocks *)
(* and the two fields of the follower an update writes.                    *)
Locks == {"network", "pools", "profit", "provider", "multicall"}

Read(l) == [op |-> "read", lock |-> l]
Write(l) == [op |-> "write", lock |-> l]
Drop(l) == [op |-> "drop", lock |-> l]
Reply == [op |-> "answer", lock |-> "none"]
Briefly(op) == <<op, Drop(op.lock)>>
-----------------------------------------------------------------------------
(* PoolUpdaterLatestBlock::start. *)
Prologue == Briefly(Read("pools")) \o Briefly(Read("pools")) \o Briefly(Write("pools"))
Top == Briefly(Read("pools"))

(* identify_and_fetch_pool: its arguments' guards outlive the match, arms  *)
(* included, where a fetched pool is added.                                *)
AdmitArguments == <<Read("provider"), Read("multicall"), Read("pools"), Read("pools"), Reply>>
AdmitDropsButOne == <<Drop("pools"), Drop("multicall"), Drop("provider")>>
AdmitDrops == <<Drop("pools"), Drop("pools"), Drop("multicall"), Drop("provider")>>
AdmitOk == AdmitArguments \o Briefly(Read("pools")) \o AdmitDrops
AdmitErr == AdmitArguments \o AdmitDrops

FetchHead == <<Read("provider"), Reply, Drop("provider")>>

(* proccess_pools and the write of last_processed_block, in one match.     *)
Batch ==
    <<Read("provider")>> \o Briefly(Read("pools")) \o <<Reply>>
        \o Briefly(Read("pools")) \o Briefly(Write("pools")) \o <<Drop("provider")>>

(* The task spawned by new(). *)
Initialize == Briefly(Read("pools")) \o Briefly(Write("pools"))

(* NetworkRegistry::update_network, under the write guard of its caller.   *)
RpcsNested == <<Write("pools"), Write("provider"), Drop("provider"), Drop("pools")>>
Rpcs == Briefly(Write("pools")) \o Briefly(Write("provider"))

If(condition, ops) == IF condition THEN ops ELSE <<>>

Update(changed) ==
    <<Write("network")>>
        \o If("rpcs" \in changed, Rpcs)
        \o Briefly(Read("profit")) \o Briefly(Read("profit"))
        \o If("min_profit" \in changed, Briefly(Write("profit")))
        \o Briefly(Read("pools")) \o Briefly(Read("multicall"))
        \o If("multicall" \in changed, Briefly(Write("multicall")))
        \o <<Drop("network")>>

SubmitPools == <<Read("network")>> \o Briefly(Read("pools")) \o <<Drop("network")>>
SetPaths == Briefly(Read("network")) \o Briefly(Read("profit")) \o Briefly(Read("network"))

(* The processor: a clone of a pool; simulate_amount's value of an amount, *)
(* where unwrap_or evaluates its argument under the guard of get_value.    *)
ClonePool == Briefly(Read("network")) \o Briefly(Read("pools"))
Value ==
    Briefly(Read("network"))
        \o <<Read("profit"), Read("profit"), Drop("profit"), Drop("profit")>>

(* get_network_info, called by the Telegram logger. *)
NetworkInfo == <<Read("network"), Read("network"), Drop("network"), Drop("network")>>

-----------------------------------------------------------------------------
VARIABLES
    stage,           \* stage[t]: the routine t is in, or was in last
    rest,            \* rest[t]: what is left of it
    reads,           \* reads[t][l]: read guards of t on l
    writer,          \* writer[l]: the task with the write guard on l
    queue            \* queue[l]: requests not granted yet, oldest first

lockVars == <<stage, rest, reads, writer, queue>>

Follows ==
    LET drained == {"admitOk", "admitErr", "head"}
    IN  [prologue |-> {"top"}, top |-> drained, admitOk |-> drained, admitErr |-> drained,
         head |-> {"head", "top", "batch"}, batch |-> {"batch", "top"},
         initialize |-> {},
         poller |-> {"submit", "paths"}, submit |-> {"poller"}, paths |-> {"poller"},
         update |-> {"poller"},
         handler |-> {"clone", "value", "info"},
         clone |-> {"handler"}, value |-> {"handler"}, info |-> {"handler"}]

Code ==
    [prologue |-> Prologue, top |-> Top, admitOk |-> AdmitOk, admitErr |-> AdmitErr,
     head |-> FetchHead, batch |-> Batch, initialize |-> Initialize,
     poller |-> <<>>, submit |-> SubmitPools, paths |-> SetPaths,
     handler |-> <<>>, clone |-> ClonePool, value |-> Value, info |-> NetworkInfo]

FirstStage ==
    [follower |-> "prologue", initializer |-> "initialize", poller |-> "poller",
     handler |-> "handler"]

Ops == {Reply} \cup [op : {"read", "write", "drop"}, lock : Locks]
Request == [task : Tasks, op : {"read", "write"}]

LocksOK ==
    /\ stage \in [Tasks -> DOMAIN Follows]
    /\ rest \in [Tasks -> Seq(Ops)]
    /\ reads \in [Tasks -> [Locks -> 0..3]]
    /\ writer \in [Locks -> Tasks \cup {"none"}]
    /\ queue \in [Locks -> Seq(Request)]
    /\ \A l \in Locks : writer[l] # "none" => \A t \in Tasks : reads[t][l] = 0
    /\ \A t \in Tasks : rest[t] = <<>> =>
           \A l \in Locks : reads[t][l] = 0 /\ writer[l] # t

LocksInit ==
    /\ stage = [t \in Tasks |-> FirstStage[t]]
    /\ rest = [t \in Tasks |-> Code[FirstStage[t]]]
    /\ reads = [t \in Tasks |-> [l \in Locks |-> 0]]
    /\ writer = [l \in Locks |-> "none"]
    /\ queue = [l \in Locks |-> <<>>]

-----------------------------------------------------------------------------
Enter(t, s, code) ==
    /\ rest[t] = <<>>
    /\ stage' = [stage EXCEPT ![t] = s] /\ rest' = [rest EXCEPT ![t] = code]
    /\ UNCHANGED <<reads, writer, queue>>

Continue(t) == \E s \in Follows[stage[t]] : Enter(t, s, Code[s])

BeginUpdate ==
    /\ "poller" \in Tasks /\ stage["poller"] = "poller"
    /\ \E c \in Changes : Enter("poller", "update", Update(c))

Waits(t, l) == \E i \in DOMAIN queue[l] : queue[l][i].task = t
Waiting(t) == \E l \in Locks : Waits(t, l)
AtOp(t, ops) == rest[t] # <<>> /\ Head(rest[t]).op \in ops /\ ~Waiting(t)

(* A request takes its place in the lock's queue ... *)
AskFor(t) ==
    /\ AtOp(t, {"read", "write"})
    /\ queue' = [queue EXCEPT ![Head(rest[t]).lock] =
                    Append(@, [task |-> t, op |-> Head(rest[t]).op])]
    /\ UNCHANGED <<stage, rest, reads, writer>>

NoReader(l) == \A t \in Tasks : reads[t][l] = 0

(* ... and is granted when it is the oldest and compatible. *)
GrantRead(l) ==
    /\ queue[l] # <<>> /\ Head(queue[l]).op = "read" /\ writer[l] = "none"
    /\ LET t == Head(queue[l]).task
       IN  /\ reads' = [reads EXCEPT ![t][l] = @ + 1]
           /\ rest' = [rest EXCEPT ![t] = Tail(@)]
    /\ queue' = [queue EXCEPT ![l] = Tail(@)]
    /\ UNCHANGED <<stage, writer>>

GrantWrite(l) ==
    /\ queue[l] # <<>> /\ Head(queue[l]).op = "write"
    /\ writer[l] = "none" /\ NoReader(l)
    /\ LET t == Head(queue[l]).task
       IN  /\ writer' = [writer EXCEPT ![l] = t]
           /\ rest' = [rest EXCEPT ![t] = Tail(@)]
    /\ queue' = [queue EXCEPT ![l] = Tail(@)]
    /\ UNCHANGED <<stage, reads>>

Release(t) ==
    /\ AtOp(t, {"drop"})
    /\ LET l == Head(rest[t]).lock
       IN  IF writer[l] = t
           THEN writer' = [writer EXCEPT ![l] = "none"] /\ UNCHANGED reads
           ELSE reads' = [reads EXCEPT ![t][l] = @ - 1] /\ UNCHANGED writer
    /\ rest' = [rest EXCEPT ![t] = Tail(@)]
    /\ UNCHANGED <<stage, queue>>

(* A node answers, well or badly. *)
GetAnswer(t) ==
    /\ AtOp(t, {"answer"})
    /\ rest' = [rest EXCEPT ![t] = Tail(@)]
    /\ UNCHANGED <<stage, reads, writer, queue>>

TaskStep(t) == AskFor(t) \/ Release(t) \/ GetAnswer(t)
Grant(l) == GrantRead(l) \/ GrantWrite(l)

LocksNext ==
    \/ \E t \in Tasks : Continue(t) \/ TaskStep(t)
    \/ BeginUpdate
    \/ \E l \in Locks : Grant(l)

LocksSpec == LocksInit /\ [][LocksNext]_lockVars

(* Fairness: a task in a routine goes on, a request that can be granted    *)
(* is; nothing obliges a task to begin another routine.                    *)
LocksFairness ==
    /\ \A t \in Tasks : WF_lockVars(TaskStep(t))
    /\ \A l \in Locks : WF_lockVars(Grant(l))

FairLocks == LocksSpec /\ LocksFairness
-----------------------------------------------------------------------------
(* Properties. *)

(* u stands in the way of t: it has a guard t must wait for, or its        *)
(* request for the same lock is older.                                     *)
Ahead(u, t, l) ==
    \E i, j \in DOMAIN queue[l] :
        i < j /\ queue[l][i].task = u /\ queue[l][j].task = t
Wants(t, l, mode) == \E i \in DOMAIN queue[l] : queue[l][i] = [task |-> t, op |-> mode]
Blocks(u, t) ==
    \E l \in Locks :
        \/ Ahead(u, t, l)
        \/ Waits(t, l) /\ writer[l] = u
        \/ Wants(t, l, "write") /\ reads[u][l] > 0

Deadlocked(S) == S # {} /\ \A t \in S : \E u \in S : Blocks(u, t)

(* t asks for a second guard on a lock it reads already, and a writer has  *)
(* asked in between: neither will ever get it.                             *)
Jammed(t) ==
    \E l \in Locks :
        /\ Waits(t, l) /\ reads[t][l] > 0
        /\ \E u \in Tasks \ {t} : Wants(u, l, "write") /\ Ahead(u, t, l)

(* Tasks never wait for each other in a circle, except where one of them   *)
(* reads a lock twice: the order in which different locks are nested is    *)
(* the same everywhere.                                                    *)
OnlyNestedReads ==
    \A S \in SUBSET {t \in Tasks : Waiting(t)} : Deadlocked(S) => \E t \in S : Jammed(t)

(* Every request of every task is granted, or such a nested read has       *)
(* jammed the network for good; without it an update of the settings ends. *)
NoOneWaitsForEver ==
    \A t \in Tasks : Waiting(t) ~> ~Waiting(t) \/ \E u \in Tasks : Jammed(u)

(* "runtime updates without restarting the bot": an update ends.           *)
UpdateEnds == stage["poller"] = "update" ~> rest["poller"] = <<>>
=============================================================================
