-------------------------- MODULE PoolUpdaterProofs --------------------------
(***************************************************************************)
(* Proofs about PoolUpdater for every set of pools, chain length, batch    *)
(* size, wait time and channel capacity; what it keeps in its queues; and  *)
(* that it is the follower that ChainFollower specifies.                   *)
(***************************************************************************)
EXTENDS PoolUpdater, TLAPS, SequenceTheorems

Draining == pc \in {"drain", "fetchPool", "head"}
Fetching == pc \in {"fetchLogs", "apply", "send", "setLast"}
Batching == pc = "batch" \/ Fetching
Applying == pc \in {"apply", "send", "setLast"}

(* Where the follower's local block numbers stand to the chain and to      *)
(* last_processed_block.                                                   *)
Positions ==
    /\ StartBlock <= head /\ lastProcessed <= head
    /\ base <= head /\ latest <= head
    /\ pc = "start" => registered = {} /\ lastProcessed <= StartBlock /\ ~rewound
    /\ pc # "start" => StartBlock <= lastProcessed
    /\ Draining => lastProcessed = base \/ rewound
    /\ Draining => lastProcessed <= base
    /\ pc = "fetchPool" => newPool \in Pools
    /\ Batching => 1 <= current /\ current <= latest + 1
    /\ Batching => lastProcessed <= current - 1
    /\ Batching => lastProcessed = current - 1 \/ rewound
    /\ Fetching => current - 1 <= batchEnd /\ batchEnd <= latest
    /\ pc # "apply" => todo = {}
    /\ todo \subseteq {m \in Batch \X registered : logs[m[1]][m[2]] # "none"}
    /\ admPc # "exists" => admPool \in Pools

(* p's cached state has event b, or the loss is recorded. *)
Covered(p, b) == logs[b][p] # "none" => seen[p][b] >= 1 \/ <<b, p>> \in missing

(* What the follower takes for done: all it has read as processed, the     *)
(* blocks before the batch, and the batch but for the events still to do.  *)
Done(p, b) ==
    \/ b <= lastProcessed
    \/ Draining /\ b <= base
    \/ Batching /\ b < current
    \/ Applying /\ b \in Batch /\ <<b, p>> \notin todo

DoneIsCovered == \A p \in registered, b \in Blocks : b <= head /\ Done(p, b) => Covered(p, b)

IInv == TypeOK /\ Positions /\ DoneIsCovered

(* ExactlyOnce over all blocks, mined or not. *)
Once ==
    ~rewound =>
        \A p \in registered, b \in Blocks :
            /\ ~Processed(b, p) => seen[p][b] = 0
            /\ Processed(b, p) /\ b <= head /\ logs[b][p] # "none" =>
                   seen[p][b] = IF <<b, p>> \in missing THEN 0 ELSE 1
            /\ <<b, p>> \in missing => Processed(b, p)
-----------------------------------------------------------------------------
(* Type correctness. *)
LEMMA InitTypes == Init => TypeOK /\ Positions
<1> SUFFICES ASSUME Init PROVE TypeOK /\ Positions
  OBVIOUS
<1>1. logs \in [Blocks -> [Pools -> Kinds]]
  BY DEF Init, Kinds
<1>2. seen \in [Pools -> [Blocks -> Nat]]
  BY DEF Init
<1>a. pending \in Seq(Pools) /\ swaps \in Seq(Change) /\ channel \in Seq(Change)
  BY DEF Init
<1>b. maxBatch \in Nat /\ waitTime \in Nat
  BY ConstantsAssumption DEF Init
<1>c. /\ head \in 0..MaxBlock /\ lastProcessed \in 0..MaxBlock
      /\ base \in 0..MaxBlock /\ latest \in 0..MaxBlock
      /\ current \in 0..MaxBlock + 1 /\ batchEnd \in 0..MaxBlock
  BY ConstantsAssumption DEF Init
<1>3. TypeOK
  BY <1>1, <1>2, <1>a, <1>b, <1>c DEF Init, TypeOK
<1>4. Positions
  BY ConstantsAssumption DEF Init, Positions, Draining, Batching, Fetching
<1> QED
  BY <1>3, <1>4

LEMMA StepTypes == TypeOK /\ Positions /\ [Next]_vars => TypeOK'
<1> SUFFICES ASSUME TypeOK, Positions, [Next]_vars PROVE TypeOK'
  OBVIOUS
<1> USE ConstantsAssumption DEF TypeOK, chain, registry, config, history, batch,
        fetch, updater, poller
<1>1. CASE Mine
  <2>1. logs' \in [Blocks -> [Pools -> Kinds]]
    BY <1>1 DEF Mine
  <2>2. head' \in 0..MaxBlock
    BY <1>1 DEF Mine
  <2> QED
    BY SMTT(60), <1>1, <2>1, <2>2 DEF Mine
<1>2. CASE InitializerRead
  BY <1>2 DEF InitializerRead
<1>3. CASE InitializerWrite
  BY <1>3 DEF InitializerWrite
<1>4. CASE Start
  BY <1>4 DEF Start
<1>5. CASE ReadLastProcessed
  BY <1>5 DEF ReadLastProcessed
<1>6. CASE PopPending
  BY <1>6 DEF PopPending, Popped
<1>7. CASE FetchPoolOk
  BY <1>7 DEF FetchPoolOk, StateAt, Positions, Blocks
<1>8. CASE FetchPoolErr
  BY <1>8 DEF FetchPoolErr, Positions
<1>9. CASE DrainDone
  BY <1>9 DEF DrainDone
<1>10. CASE FetchSomeHead
  BY SMTT(30), <1>10 DEF FetchSomeHead, FetchHead, NothingNew
<1>11. CASE BeginBatch
  BY <1>11 DEF BeginBatch, BatchEnd, Lower, Positions, Batching, Fetching
<1>12. CASE EndOfBatches
  BY <1>12 DEF EndOfBatches
<1>13. CASE FetchLogsOk
  BY SMTT(30), <1>13 DEF FetchLogsOk, FetchedLogs, Batch, Positions, Batching, Fetching, Blocks
<1>14. CASE FetchLogsRetry
  BY <1>14 DEF FetchLogsRetry, Lower
<1>15. CASE FetchLogsGiveUp
  BY SMTT(30), <1>15 DEF FetchLogsGiveUp, FetchedLogs, Batch, Positions, Batching,
     Fetching, Blocks
<1>16. ASSUME NEW m \in todo, ApplyLog(m) \/ ApplyLogErr(m) PROVE TypeOK'
  <2>1. m \in Blocks \X Pools /\ m[1] \in Blocks /\ m[2] \in Pools
    OBVIOUS
  <2>2. [pool |-> m[2], block |-> m[1]] \in Change
    BY <2>1 DEF Change
  <2>3. Collected(m) \in Seq(Change)
    BY <2>2 DEF Collected
  <2>4. AppliedTo(m[2], m[1]) \in [Pools -> [Blocks -> Nat]]
    BY <2>1 DEF AppliedTo
  <2> QED
    BY <1>16, <2>1, <2>3, <2>4 DEF ApplyLog, ApplyLogErr
<1>17. CASE ApplyDone
  BY <1>17 DEF ApplyDone
<1>18. CASE SendChange
  <2>1. Head(swaps) \in Change /\ Tail(swaps) \in Seq(Change)
    BY <1>18 DEF SendChange
  <2> QED
    BY <1>18, <2>1 DEF SendChange
<1>19. CASE SendDone
  BY <1>19 DEF SendDone
<1>20. CASE SetLastProcessed
  BY <1>20 DEF SetLastProcessed, NewLast
<1>21. CASE ReceiveChange
  BY <1>21 DEF ReceiveChange
<1>22. ASSUME NEW p \in Pools, CheckExists(p) PROVE TypeOK'
  BY <1>22 DEF CheckExists
<1>23. CASE CheckContains
  BY <1>23 DEF CheckContains, AfterContains, Positions
<1>24. CASE PushPending
  BY <1>24 DEF PushPending, Positions
<1>25. CASE SetMaxBlocksPerBatch
  BY <1>25 DEF SetMaxBlocksPerBatch
<1>26. CASE SetWaitTimeFetch
  BY <1>26 DEF SetWaitTimeFetch
<1>27. CASE UNCHANGED vars
  BY <1>27 DEF vars
<1> QED
  BY <1>1, <1>2, <1>3, <1>4, <1>5, <1>6, <1>7, <1>8, <1>9, <1>10, <1>11,
     <1>12, <1>13, <1>14, <1>15, <1>16, <1>17, <1>18, <1>19, <1>20, <1>21,
     <1>22, <1>23, <1>24, <1>25, <1>26, <1>27
     DEF Next, Initializer, UpdaterStep, AdmissionStep

LEMMA StepPositions == TypeOK /\ Positions /\ [Next]_vars => Positions'
<1> SUFFICES ASSUME TypeOK, Positions, [Next]_vars PROVE Positions'
  OBVIOUS
<1> USE ConstantsAssumption DEF TypeOK, Positions, Draining, Batching, Fetching, Batch,
        chain, registry, config, history, batch, fetch, updater, poller
<1>1. CASE Mine
  BY SMTT(30), <1>1 DEF Mine
<1>2. CASE InitializerRead
  BY <1>2 DEF InitializerRead
<1>3. CASE InitializerWrite
  <2> USE <1>3 DEF InitializerWrite
  <2>1. CASE StartBlock < lastProcessed
    <3>1. rewound'
      BY <2>1
    <3>2. pc # "start"
      BY <2>1
    <3> QED
      BY <2>1, <3>1, <3>2
  <2>2. CASE ~(StartBlock < lastProcessed)
    <3>1. rewound' = rewound
      BY <2>2
    <3>2. pc # "start" => lastProcessed' = lastProcessed
      BY <2>2
    <3> QED
      BY <2>2, <3>1, <3>2
  <2> QED
    BY <2>1, <2>2
<1>4. CASE Start
  BY <1>4 DEF Start
<1>5. CASE ReadLastProcessed
  BY <1>5 DEF ReadLastProcessed
<1>6. CASE PopPending
  BY <1>6 DEF PopPending, Popped
<1>7. CASE FetchPoolOk
  BY <1>7 DEF FetchPoolOk
<1>8. CASE FetchPoolErr
  BY <1>8 DEF FetchPoolErr
<1>9. CASE DrainDone
  BY <1>9 DEF DrainDone
<1>10. CASE FetchSomeHead
  BY <1>10 DEF FetchSomeHead, FetchHead, NothingNew
<1>11. CASE BeginBatch
  BY <1>11 DEF BeginBatch, BatchEnd, Lower
<1>12. CASE EndOfBatches
  BY <1>12 DEF EndOfBatches
<1>13. CASE FetchLogsOk
  BY <1>13 DEF FetchLogsOk, FetchedLogs
<1>14. CASE FetchLogsRetry
  BY <1>14 DEF FetchLogsRetry, Lower
<1>15. CASE FetchLogsGiveUp
  BY <1>15 DEF FetchLogsGiveUp, FetchedLogs
<1>16. ASSUME NEW m \in todo, ApplyLog(m) \/ ApplyLogErr(m) PROVE Positions'
  BY <1>16 DEF ApplyLog, ApplyLogErr
<1>17. CASE ApplyDone
  BY <1>17 DEF ApplyDone
<1>18. CASE SendChange
  BY <1>18 DEF SendChange
<1>19. CASE SendDone
  BY <1>19 DEF SendDone
<1>20. CASE SetLastProcessed
  BY <1>20 DEF SetLastProcessed, NewLast
<1>21. CASE ReceiveChange
  BY <1>21 DEF ReceiveChange
<1>22. ASSUME NEW p \in Pools, CheckExists(p) PROVE Positions'
  BY <1>22 DEF CheckExists
<1>23. CASE CheckContains
  BY <1>23 DEF CheckContains, AfterContains
<1>24. CASE PushPending
  BY <1>24 DEF PushPending
<1>25. CASE SetMaxBlocksPerBatch
  BY <1>25 DEF SetMaxBlocksPerBatch
<1>26. CASE SetWaitTimeFetch
  BY <1>26 DEF SetWaitTimeFetch
<1>27. CASE UNCHANGED vars
  BY <1>27 DEF vars
<1> QED
  BY <1>1, <1>2, <1>3, <1>4, <1>5, <1>6, <1>7, <1>8, <1>9, <1>10, <1>11,
     <1>12, <1>13, <1>14, <1>15, <1>16, <1>17, <1>18, <1>19, <1>20, <1>21,
     <1>22, <1>23, <1>24, <1>25, <1>26, <1>27
     DEF Next, Initializer, UpdaterStep, AdmissionStep


(* Applying one event raises one count by one. *)
LEMMA AppliedToValue ==
    ASSUME seen \in [Pools -> [Blocks -> Nat]],
           NEW q \in Pools, NEW c \in Blocks, NEW p \in Pools, NEW b \in Blocks
    PROVE  AppliedTo(q, c)[p][b] = IF q = p /\ c = b THEN seen[p][b] + 1 ELSE seen[p][b]
<1>1. seen[q] \in [Blocks -> Nat] /\ seen[p] \in [Blocks -> Nat]
  OBVIOUS
<1>2. AppliedTo(q, c) = [seen EXCEPT ![q] = [seen[q] EXCEPT ![c] = seen[q][c] + 1]]
  BY DEF AppliedTo
<1>3. CASE q = p
  BY <1>1, <1>2, <1>3
<1>4. CASE q # p
  BY <1>2, <1>4
<1> QED
  BY <1>3, <1>4

(* Every step keeps what is done covered, whether or not the initializer   *)
(* has moved last_processed_block back.                                    *)
LEMMA StepCovered ==
    TypeOK /\ Positions /\ Positions' /\ DoneIsCovered /\ [Next]_vars => DoneIsCovered'
<1> SUFFICES ASSUME TypeOK, Positions, Positions', DoneIsCovered, [Next]_vars,
                    NEW p \in registered', NEW b \in Blocks,
                    b <= head', Done(p, b)', (logs[b][p] # "none")'
             PROVE (seen[p][b] >= 1 \/ <<b, p>> \in missing)'
  BY DEF DoneIsCovered, Covered
<1> USE DEF TypeOK, Positions, DoneIsCovered, Covered, Done, Draining, Batching, Applying,
        Fetching, Batch, Blocks, chain, registry, config, history, batch, fetch,
        updater, poller
<1>1. CASE Mine
  BY SMTT(30), <1>1 DEF Mine
<1>2. CASE InitializerRead
  BY <1>2 DEF InitializerRead
<1>3. CASE InitializerWrite
  <2> USE <1>3, ConstantsAssumption DEF InitializerWrite
  <2>1. pc # "start"
    OBVIOUS
  <2>2. lastProcessed' <= lastProcessed
    BY <2>1
  <2>3. Done(p, b)
    BY <2>2
  <2> QED
    BY <2>3
<1>4. CASE Start
  BY <1>4 DEF Start
<1>5. CASE ReadLastProcessed
  BY <1>5 DEF ReadLastProcessed
<1>6. CASE PopPending
  BY <1>6 DEF PopPending
<1>7. CASE FetchPoolOk
  BY <1>7 DEF FetchPoolOk, StateAt
<1>8. CASE FetchPoolErr
  BY <1>8 DEF FetchPoolErr
<1>9. CASE DrainDone
  BY <1>9 DEF DrainDone
<1>10. CASE FetchSomeHead
  BY <1>10 DEF FetchSomeHead, FetchHead, NothingNew
<1>11. CASE BeginBatch
  BY <1>11 DEF BeginBatch, BatchEnd, Lower
<1>12. CASE EndOfBatches
  BY <1>12 DEF EndOfBatches
<1>13. CASE FetchLogsOk
  BY <1>13 DEF FetchLogsOk, FetchedLogs
<1>14. CASE FetchLogsRetry
  BY <1>14 DEF FetchLogsRetry
<1>15. CASE FetchLogsGiveUp
  BY <1>15 DEF FetchLogsGiveUp, FetchedLogs
<1>16. ASSUME NEW m \in todo, ApplyLog(m) \/ ApplyLogErr(m)
      PROVE (seen[p][b] >= 1 \/ <<b, p>> \in missing)'
  <2>1. m \in Blocks \X Pools /\ m = <<m[1], m[2]>>
    OBVIOUS
  <2>2. p \in registered /\ p \in Pools
    BY <1>16 DEF ApplyLog, ApplyLogErr
  <2>3. CASE <<b, p>> = m
    <3>1. CASE ApplyLog(m)
      <4>1. m[1] = b /\ m[2] = p
        BY <2>3
      <4>2. seen' = AppliedTo(p, b)
        BY <3>1, <4>1 DEF ApplyLog
      <4>3. seen[p][b] \in Nat
        BY <2>2
      <4>4. AppliedTo(p, b)[p][b] = seen[p][b] + 1
        BY SMTT(60), <2>2, AppliedToValue
      <4> QED
        BY SMTT(30), <4>2, <4>3, <4>4
    <3>2. CASE ApplyLogErr(m)
      BY <2>3, <3>2 DEF ApplyLogErr
    <3> QED
      BY <1>16, <3>1, <3>2
  <2>4. CASE <<b, p>> # m
    <3>1. Done(p, b)
      BY <1>16, <2>4 DEF ApplyLog, ApplyLogErr
    <3>2. seen[p][b] >= 1 \/ <<b, p>> \in missing
      BY <1>16, <2>2, <3>1 DEF ApplyLog, ApplyLogErr
    <3>3. seen'[p][b] = seen[p][b]
      BY SMTT(30), <1>16, <2>1, <2>2, <2>4, AppliedToValue DEF ApplyLog, ApplyLogErr
    <3>4. missing \subseteq missing'
      BY <1>16 DEF ApplyLog, ApplyLogErr
    <3> QED
      BY <3>2, <3>3, <3>4
  <2> QED
    BY <2>3, <2>4
<1>17. CASE ApplyDone
  BY <1>17 DEF ApplyDone
<1>18. CASE SendChange
  BY <1>18 DEF SendChange
<1>19. CASE SendDone
  BY <1>19 DEF SendDone
<1>20. CASE SetLastProcessed
  BY <1>20 DEF SetLastProcessed, NewLast
<1>21. CASE ReceiveChange
  BY <1>21 DEF ReceiveChange
<1>22. ASSUME NEW q \in Pools, CheckExists(q) PROVE (seen[p][b] >= 1 \/ <<b, p>> \in missing)'
  BY <1>22 DEF CheckExists
<1>23. CASE CheckContains
  BY <1>23 DEF CheckContains
<1>24. CASE PushPending
  BY <1>24 DEF PushPending
<1>25. CASE SetMaxBlocksPerBatch
  BY <1>25 DEF SetMaxBlocksPerBatch
<1>26. CASE SetWaitTimeFetch
  BY <1>26 DEF SetWaitTimeFetch
<1>27. CASE UNCHANGED vars
  BY <1>27 DEF vars
<1> QED
  BY <1>1, <1>2, <1>3, <1>4, <1>5, <1>6, <1>7, <1>8, <1>9, <1>10, <1>11,
     <1>12, <1>13, <1>14, <1>15, <1>16, <1>17, <1>18, <1>19, <1>20, <1>21,
     <1>22, <1>23, <1>24, <1>25, <1>26, <1>27
     DEF Next, Initializer, UpdaterStep, AdmissionStep

(* Once for one pool and one block. *)
OnceFor(p, b) ==
    /\ ~Processed(b, p) => seen[p][b] = 0
    /\ Processed(b, p) /\ b <= head /\ logs[b][p] # "none" =>
           seen[p][b] = IF <<b, p>> \in missing THEN 0 ELSE 1
    /\ <<b, p>> \in missing => Processed(b, p)

(* As long as last_processed_block has not moved back, every step keeps    *)
(* each event counted exactly once.                                        *)
LEMMA StepOnce ==
    TypeOK /\ Positions /\ Positions' /\ Once /\ [Next]_vars => Once'
<1> SUFFICES ASSUME TypeOK, Positions, Positions', Once, [Next]_vars, ~rewound',
                    NEW p \in registered', NEW b \in Blocks
             PROVE OnceFor(p, b)'
  BY DEF Once, OnceFor
<1>a. \A q \in Pools, c \in Blocks : p \in Pools =>
          AppliedTo(q, c)[p][b] = IF q = p /\ c = b THEN seen[p][b] + 1 ELSE seen[p][b]
  BY AppliedToValue DEF TypeOK
<1> USE ConstantsAssumption DEF TypeOK, Positions, Once, OnceFor, Processed, Draining,
        Batching, Fetching, Batch, Blocks, chain, registry, config, history, batch,
        fetch, updater, poller
<1>1. CASE Mine
  <2> USE <1>1 DEF Mine
  <2>1. p \in registered /\ Processed(b, p)' = Processed(b, p)
    OBVIOUS
  <2>2. Processed(b, p) => b <= head
    OBVIOUS
  <2>3. b <= head => logs'[b] = logs[b]
    OBVIOUS
  <2> QED
    BY SMTT(30), <2>1, <2>2, <2>3
<1>2. CASE InitializerRead
  BY <1>2 DEF InitializerRead
<1>3. CASE InitializerWrite
  <2> USE <1>3 DEF InitializerWrite
  <2>1. ~rewound /\ ~(StartBlock < lastProcessed)
    OBVIOUS
  <2>2. pc # "start"
    OBVIOUS
  <2>3. lastProcessed' = lastProcessed
    BY <2>1, <2>2
  <2> QED
    BY <2>1, <2>3
<1>4. CASE Start
  BY <1>4 DEF Start
<1>5. CASE ReadLastProcessed
  BY <1>5 DEF ReadLastProcessed
<1>6. CASE PopPending
  BY <1>6 DEF PopPending
<1>7. CASE FetchPoolOk
  BY <1>7 DEF FetchPoolOk, StateAt
<1>8. CASE FetchPoolErr
  BY <1>8 DEF FetchPoolErr
<1>9. CASE DrainDone
  BY <1>9 DEF DrainDone
<1>10. CASE FetchSomeHead
  BY SMTT(30), <1>10 DEF FetchSomeHead, FetchHead, NothingNew
<1>11. CASE BeginBatch
  BY <1>11 DEF BeginBatch, BatchEnd, Lower
<1>12. CASE EndOfBatches
  BY <1>12 DEF EndOfBatches
<1>13. CASE FetchLogsOk
  <2>1. p \in registered /\ ~rewound /\ OnceFor(p, b)
    BY <1>13 DEF FetchLogsOk
  <2>2. ~Processed(b, p)' => ~Processed(b, p)
    BY <1>13 DEF FetchLogsOk
  <2>3. Processed(b, p)' /\ ~Processed(b, p) => logs[b][p] = "none"
    BY <1>13, <2>1 DEF FetchLogsOk, FetchedLogs
  <2> QED
    BY <1>13, <2>1, <2>2, <2>3 DEF FetchLogsOk
<1>14. CASE FetchLogsRetry
  BY <1>14 DEF FetchLogsRetry
<1>15. CASE FetchLogsGiveUp
  BY SMTT(30), <1>15 DEF FetchLogsGiveUp, FetchedLogs
<1>16. ASSUME NEW m \in todo, ApplyLog(m) \/ ApplyLogErr(m) PROVE OnceFor(p, b)'
  <2>a. m \in Blocks \X Pools /\ m = <<m[1], m[2]>> /\ m[1] \in Batch
    OBVIOUS
  <2>b. pc = "apply" /\ p \in registered /\ p \in Pools /\ ~rewound
    BY <1>16 DEF ApplyLog, ApplyLogErr
  <2>c. OnceFor(p, b)
    BY <2>b
  <2>1. m[1] \in Blocks /\ m[2] \in Pools
    BY <2>a
  <2>2. CASE <<b, p>> = m
    <3>1. m[1] = b /\ m[2] = p
      BY <2>2
    <3>2. ~Processed(b, p)
      <4>1. lastProcessed = current - 1
        BY <2>b
      <4>2. current <= b
        BY <2>a, <3>1
      <4>3. ~(b <= lastProcessed)
        BY <4>1, <4>2
      <4>4. <<b, p>> \in todo
        BY <2>2
      <4> QED
        BY <4>3, <4>4
    <3>3. seen[p][b] = 0 /\ <<b, p>> \notin missing
      BY <2>c, <3>2
    <3>4. Processed(b, p)'
      BY <1>16, <2>a, <2>2, <3>1 DEF ApplyLog, ApplyLogErr
    <3>5. CASE ApplyLog(m)
      <4>1. seen' = AppliedTo(p, b) /\ missing' = missing
        BY <3>1, <3>5 DEF ApplyLog
      <4>2. AppliedTo(p, b)[p][b] = 1
        <5>1. AppliedTo(p, b)[p][b] = seen[p][b] + 1
          BY <2>b, <1>a
        <5> QED
          BY <3>3, <5>1
      <4> QED
        BY <3>3, <3>4, <4>1, <4>2
    <3>6. CASE ApplyLogErr(m)
      <4>1. seen' = seen /\ missing' = missing \cup {<<b, p>>}
        BY <2>2, <3>6 DEF ApplyLogErr
      <4> QED
        BY <3>3, <3>4, <4>1
    <3> QED
      BY <1>16, <3>5, <3>6
  <2>3. CASE <<b, p>> # m
    <3>1. Processed(b, p)' = Processed(b, p)
      BY <1>16, <2>3 DEF ApplyLog, ApplyLogErr
    <3>2. seen'[p][b] = seen[p][b]
      <4>1. CASE ApplyLog(m)
        <5>1. ~(m[2] = p /\ m[1] = b)
          BY <2>a, <2>3
        <5>2. AppliedTo(m[2], m[1])[p][b] = seen[p][b]
          BY <2>b, <2>1, <5>1, <1>a
        <5> QED
          BY <4>1, <5>2 DEF ApplyLog
      <4>2. CASE ApplyLogErr(m)
        BY <4>2 DEF ApplyLogErr
      <4> QED
        BY <1>16, <4>1, <4>2
    <3>3. <<b, p>> \in missing' <=> <<b, p>> \in missing
      <4>1. missing' = missing \/ missing' = missing \cup {m}
        BY <1>16 DEF ApplyLog, ApplyLogErr
      <4> QED
        BY <2>3, <4>1
    <3>4. logs' = logs /\ head' = head
      BY <1>16 DEF ApplyLog, ApplyLogErr
    <3> QED
      BY <2>c, <3>1, <3>2, <3>3, <3>4
  <2> QED
    BY <2>2, <2>3
<1>17. CASE ApplyDone
  BY <1>17 DEF ApplyDone
<1>18. CASE SendChange
  BY <1>18 DEF SendChange
<1>19. CASE SendDone
  BY <1>19 DEF SendDone
<1>20. CASE SetLastProcessed
  BY <1>20 DEF SetLastProcessed, NewLast
<1>21. CASE ReceiveChange
  BY <1>21 DEF ReceiveChange
<1>22. ASSUME NEW q \in Pools, CheckExists(q) PROVE OnceFor(p, b)'
  BY <1>22 DEF CheckExists
<1>23. CASE CheckContains
  BY <1>23 DEF CheckContains
<1>24. CASE PushPending
  BY <1>24 DEF PushPending
<1>25. CASE SetMaxBlocksPerBatch
  BY <1>25 DEF SetMaxBlocksPerBatch
<1>26. CASE SetWaitTimeFetch
  BY <1>26 DEF SetWaitTimeFetch
<1>27. CASE UNCHANGED vars
  BY <1>27 DEF vars
<1> QED
  BY <1>1, <1>2, <1>3, <1>4, <1>5, <1>6, <1>7, <1>8, <1>9, <1>10, <1>11,
     <1>12, <1>13, <1>14, <1>15, <1>16, <1>17, <1>18, <1>19, <1>20, <1>21,
     <1>22, <1>23, <1>24, <1>25, <1>26, <1>27
     DEF Next, Initializer, UpdaterStep, AdmissionStep
-----------------------------------------------------------------------------
(* The theorems. *)
LEMMA InitDone == Init => DoneIsCovered /\ Once
  BY DEF Init, DoneIsCovered, Once

(* Every reachable state has the types PoolUpdater states, however long    *)
(* the chain and whatever the values the operator gives the tunables.      *)
THEOREM TypeCorrect == Spec => []TypeOK
<1>1. Init => TypeOK /\ Positions
  BY InitTypes
<1>2. TypeOK /\ Positions /\ [Next]_vars => (TypeOK /\ Positions)'
  BY StepTypes, StepPositions
<1> QED
  BY <1>1, <1>2, PTL DEF Spec

(* The inductive invariant: rewound or not, what the follower takes for    *)
(* done is in the cached state or a recorded loss.                         *)
THEOREM Inductive == Spec => []IInv
<1>1. Init => IInv
  BY InitTypes, InitDone DEF IInv
<1>2. IInv /\ [Next]_vars => IInv'
  BY StepTypes, StepPositions, StepCovered DEF IInv
<1> QED
  BY <1>1, <1>2, PTL DEF Spec

(* No event at or before last_processed_block is skipped silently, even    *)
(* after the initializer moved last_processed_block back.                  *)
THEOREM EventsNotSkipped == Spec => []NoEventSkipped
<1>1. IInv => NoEventSkipped
  <2> SUFFICES ASSUME IInv, NEW p \in registered, NEW b \in 1..lastProcessed,
                      logs[b][p] # "none"
               PROVE  seen[p][b] >= 1 \/ <<b, p>> \in missing
    BY DEF NoEventSkipped
  <2>1. b \in Blocks /\ b <= head /\ b <= lastProcessed
    BY ConstantsAssumption DEF IInv, TypeOK, Positions, Blocks
  <2>2. Done(p, b)
    BY <2>1 DEF Done
  <2> QED
    BY <2>1, <2>2 DEF IInv, DoneIsCovered, Covered
<1> QED
  BY <1>1, Inductive, PTL

(* The cached state of every registered pool takes in each event up to the *)
(* point of processing exactly once and none beyond it.                    *)
THEOREM AppliedExactlyOnce == Spec => []ExactlyOnce
<1>1. Init => IInv /\ Once
  BY InitTypes, InitDone DEF IInv
<1>2. IInv /\ Once /\ [Next]_vars => (IInv /\ Once)'
  BY StepTypes, StepPositions, StepCovered, StepOnce DEF IInv
<1>3. IInv /\ Once => ExactlyOnce
  <2> SUFFICES ASSUME IInv, Once, ~rewound, NEW p \in registered, NEW b \in 1..head,
                      logs[b][p] # "none"
               PROVE  seen[p][b] = IF Processed(b, p) /\ <<b, p>> \notin missing THEN 1 ELSE 0
    BY DEF ExactlyOnce
  <2>1. b \in Blocks /\ b <= head
    BY ConstantsAssumption DEF IInv, TypeOK, Blocks
  <2>2. CASE Processed(b, p)
    BY <2>1, <2>2 DEF Once
  <2>3. CASE ~Processed(b, p)
    BY <2>1, <2>3 DEF Once
  <2> QED
    BY <2>2, <2>3
<1> QED
  BY <1>1, <1>2, <1>3, PTL DEF Spec
-----------------------------------------------------------------------------
(* The poller pushes what is not pending; it alone adds to the stack.      *)
Pushing ==
    /\ NoDuplicatePending
    /\ admPc = "push" => ~IsPending(admPool)

(* The actions that leave the stack and the poller alone. *)
StackUntouched == UNCHANGED <<pending, admPc, admPool>>

LEMMA StepPushing == TypeOK /\ Pushing /\ [Next]_vars => Pushing'
<1> SUFFICES ASSUME TypeOK, Pushing, [Next]_vars PROVE Pushing'
  OBVIOUS
<1>0. ASSUME StackUntouched PROVE Pushing'
  BY <1>0 DEF StackUntouched, Pushing, NoDuplicatePending, IsPending
<1>1. CASE PopPending
  <2>1. pending \in Seq(Pools) /\ Len(pending) > 0 /\ Len(pending) \in Nat
    BY <1>1 DEF PopPending, TypeOK
  <2>2. /\ DOMAIN pending = 1..Len(pending)
        /\ DOMAIN pending' = 1..Len(pending) - 1
        /\ \A i \in 1..Len(pending) - 1 : pending'[i] = pending[i]
    BY <1>1, <2>1 DEF PopPending, Popped
  <2>3. UNCHANGED <<admPc, admPool>>
    BY <1>1 DEF PopPending, poller
  <2> QED
    BY <2>1, <2>2, <2>3 DEF Pushing, NoDuplicatePending, IsPending
<1>2. CASE PushPending
  <2>1. pending \in Seq(Pools) /\ Len(pending) \in Nat /\ ~IsPending(admPool)
    BY <1>2 DEF PushPending, TypeOK, Pushing
  <2>2. /\ DOMAIN pending = 1..Len(pending)
        /\ DOMAIN pending' = 1..Len(pending) + 1
        /\ \A i \in 1..Len(pending) : pending'[i] = pending[i]
        /\ pending'[Len(pending) + 1] = admPool
    BY <1>2, <2>1 DEF PushPending
  <2>3. admPc' = "exists"
    BY <1>2 DEF PushPending
  <2> QED
    BY <2>1, <2>2, <2>3 DEF Pushing, NoDuplicatePending, IsPending
<1>3. CASE CheckContains
  BY <1>3 DEF CheckContains, AfterContains, Pushing, NoDuplicatePending, IsPending, updater
<1>4. ASSUME NEW p \in Pools, CheckExists(p) PROVE Pushing'
  BY <1>4 DEF CheckExists, Pushing, NoDuplicatePending
<1>5. CASE ~(PopPending \/ AdmissionStep \/ \E p \in Pools : CheckExists(p))
  <2>1. StackUntouched
    BY <1>5 DEF StackUntouched, Next, Initializer, UpdaterStep, AdmissionStep, FetchSomeHead,
       Mine, InitializerRead, InitializerWrite, Start, ReadLastProcessed, FetchPoolOk,
       FetchPoolErr, DrainDone, FetchHead, BeginBatch, EndOfBatches, FetchLogsOk,
       FetchLogsRetry, FetchLogsGiveUp, ApplyLog, ApplyLogErr, ApplyDone, SendChange,
       SendDone, SetLastProcessed, ReceiveChange, SetMaxBlocksPerBatch, SetWaitTimeFetch,
       vars, poller
  <2> QED
    BY <1>0, <2>1
<1> QED
  BY <1>1, <1>2, <1>3, <1>4, <1>5 DEF AdmissionStep

(* A pool waits at most once in pending_new_pools, however the poller's    *)
(* check and push interleave with the follower's pops.                     *)
THEOREM PendingOnce == Spec => []NoDuplicatePending
<1>1. Init => TypeOK /\ Positions /\ Pushing
  BY InitTypes DEF Init, Pushing, NoDuplicatePending
<1>2. TypeOK /\ Positions /\ Pushing /\ [Next]_vars => (TypeOK /\ Positions /\ Pushing)'
  BY StepTypes, StepPositions, StepPushing
<1>3. Pushing => NoDuplicatePending
  BY DEF Pushing
<1> QED
  BY <1>1, <1>2, <1>3, PTL DEF Spec
-----------------------------------------------------------------------------
(* A change whose turn has come: the updater has its event behind it.      *)
Due(c) ==
    /\ c.pool \in registered /\ c.block \in 1..head
    /\ logs[c.block][c.pool] # "none" /\ Processed(c.block, c.pool)

Queued(s) == {s[i] : i \in DOMAIN s}

(* The changes collected are of the batch, and by the time they are sent   *)
(* the batch is the newest block; in both queues they are due.             *)
Announcing ==
    /\ pc \notin {"apply", "send"} => swaps = <<>>
    /\ \A c \in Queued(swaps) : c.block \in Batch
    /\ pc = "send" /\ swaps # <<>> => current = batchEnd
    /\ ~rewound => \A c \in Queued(swaps) \cup Queued(channel) : Due(c)

LEMMA QueuedAppend ==
    ASSUME NEW S, NEW s \in Seq(S), NEW e \in S
    PROVE  Queued(Append(s, e)) = Queued(s) \cup {e}
<1>1. Len(s) \in Nat /\ DOMAIN s = 1..Len(s) /\ DOMAIN Append(s, e) = 1..Len(s) + 1
  OBVIOUS
<1>2. /\ \A i \in 1..Len(s) : Append(s, e)[i] = s[i]
      /\ Append(s, e)[Len(s) + 1] = e
  OBVIOUS
<1> QED
  BY <1>1, <1>2 DEF Queued

LEMMA QueuedTail ==
    ASSUME NEW S, NEW s \in Seq(S), s # <<>>
    PROVE  Head(s) \in Queued(s) /\ Queued(Tail(s)) \subseteq Queued(s)
<1>1. Len(s) \in Nat \ {0} /\ DOMAIN s = 1..Len(s) /\ DOMAIN Tail(s) = 1..Len(s) - 1
  OBVIOUS
<1>2. Head(s) = s[1] /\ \A i \in 1..Len(s) - 1 : Tail(s)[i] = s[i + 1]
  OBVIOUS
<1>3. \A i \in 1..Len(s) - 1 : i + 1 \in 1..Len(s)
  BY <1>1
<1> QED
  BY <1>1, <1>2, <1>3 DEF Queued

LEMMA QueuedTyped ==
    ASSUME NEW S, NEW s \in Seq(S) PROVE Queued(s) \subseteq S
BY DEF Queued

(* What is due remains so, unless last_processed_block moves back.         *)
LEMMA DueStays ==
    ASSUME TypeOK, Positions, Positions', [Next]_vars, ~rewound', NEW c \in Change, Due(c)
    PROVE  Due(c)'
<1>c. c.pool \in Pools /\ c.block \in Blocks
  BY DEF Change
<1>0. ~rewound
  BY DEF Next, Initializer, UpdaterStep, AdmissionStep, FetchSomeHead,
       Mine, InitializerRead, InitializerWrite, Start, ReadLastProcessed, PopPending, FetchPoolOk,
       FetchPoolErr, DrainDone, FetchHead, BeginBatch, EndOfBatches, FetchLogsOk,
       FetchLogsRetry, FetchLogsGiveUp, ApplyLog, ApplyLogErr, ApplyDone, SendChange,
       SendDone, SetLastProcessed, ReceiveChange, SetMaxBlocksPerBatch, SetWaitTimeFetch,
       CheckExists, CheckContains, PushPending, vars, history
<1> USE <1>c, <1>0, ConstantsAssumption DEF TypeOK, Positions, Due, Processed, Draining,
        Batching, Fetching, Batch, Blocks, chain, registry, config, history, batch,
        fetch, updater, poller
<1>1. CASE Mine
  <2> USE <1>1 DEF Mine
  <2>1. c.block <= head /\ c.pool \in registered' /\ head' = head + 1
    OBVIOUS
  <2>2. logs'[c.block] = logs[c.block]
    BY <2>1
  <2>3. Processed(c.block, c.pool)'
    OBVIOUS
  <2> QED
    BY SMTT(30), <2>1, <2>2, <2>3
<1>2. CASE InitializerRead
  BY <1>2 DEF InitializerRead
<1>i. CASE InitializerWrite
  <2> USE <1>i DEF InitializerWrite
  <2>1. ~(StartBlock < lastProcessed)
    OBVIOUS
  <2>2. lastProcessed <= lastProcessed'
    BY <2>1
  <2>3. Processed(c.block, c.pool)'
    BY <2>2
  <2> QED
    BY <2>3
<1>3. CASE Start
  BY <1>3 DEF Start
<1>4. CASE ReadLastProcessed \/ DrainDone \/ PopPending \/ FetchPoolErr
  BY <1>4 DEF ReadLastProcessed, DrainDone, PopPending, FetchPoolErr
<1>5. CASE FetchPoolOk
  BY <1>5 DEF FetchPoolOk
<1>6. CASE FetchSomeHead
  BY <1>6 DEF FetchSomeHead, FetchHead
<1>7. CASE BeginBatch \/ EndOfBatches
  BY <1>7 DEF BeginBatch, EndOfBatches
<1>8. CASE FetchLogsOk \/ FetchLogsRetry
  BY <1>8 DEF FetchLogsOk, FetchLogsRetry
<1>9. CASE FetchLogsGiveUp
  BY <1>9 DEF FetchLogsGiveUp
<1>10. ASSUME NEW m \in todo, ApplyLog(m) \/ ApplyLogErr(m) PROVE Due(c)'
  BY <1>10 DEF ApplyLog, ApplyLogErr
<1>11. CASE ApplyDone \/ SendChange \/ SendDone
  BY <1>11 DEF ApplyDone, SendChange, SendDone
<1>12. CASE SetLastProcessed
  BY <1>12 DEF SetLastProcessed, NewLast
<1>13. CASE ReceiveChange \/ AdmissionStep
  BY <1>13 DEF ReceiveChange, AdmissionStep, CheckContains, PushPending
<1>14. ASSUME NEW p \in Pools, CheckExists(p) PROVE Due(c)'
  BY <1>14 DEF CheckExists
<1>15. CASE SetMaxBlocksPerBatch \/ SetWaitTimeFetch \/ UNCHANGED vars
  BY <1>15 DEF SetMaxBlocksPerBatch, SetWaitTimeFetch, vars
<1> QED
  BY <1>1, <1>2, <1>i, <1>3, <1>4, <1>5, <1>6, <1>7, <1>8, <1>9, <1>10, <1>11,
     <1>12, <1>13, <1>14, <1>15 DEF Next, Initializer, UpdaterStep

(* So a step keeps the queues right if it adds nothing to them that is     *)
(* not due.                                                                *)
LEMMA StepDue ==
    ASSUME TypeOK, Positions, Positions', Announcing, [Next]_vars, ~rewound',
           NEW c \in Queued(swaps) \cup Queued(channel)
    PROVE  Due(c)'
<1>1. ~rewound
  BY DEF Next, Initializer, UpdaterStep, AdmissionStep, FetchSomeHead,
       Mine, InitializerRead, InitializerWrite, Start, ReadLastProcessed, PopPending, FetchPoolOk,
       FetchPoolErr, DrainDone, FetchHead, BeginBatch, EndOfBatches, FetchLogsOk,
       FetchLogsRetry, FetchLogsGiveUp, ApplyLog, ApplyLogErr, ApplyDone, SendChange,
       SendDone, SetLastProcessed, ReceiveChange, SetMaxBlocksPerBatch, SetWaitTimeFetch,
       CheckExists, CheckContains, PushPending, vars, history
<1>2. c \in Change /\ Due(c)
  BY <1>1, QueuedTyped DEF Announcing, TypeOK
<1> QED
  BY <1>2, DueStays

LEMMA StepAnnouncing ==
    TypeOK /\ Positions /\ Positions' /\ Announcing /\ [Next]_vars => Announcing'
<1> SUFFICES ASSUME TypeOK, Positions, Positions', Announcing, [Next]_vars PROVE Announcing'
  OBVIOUS
<1>d. ASSUME ~rewound', NEW c \in Queued(swaps) \cup Queued(channel) PROVE Due(c)'
  BY <1>d, StepDue
<1>t. swaps \in Seq(Change) /\ channel \in Seq(Change)
  BY DEF TypeOK
<1>1. ASSUME NEW m \in todo, ApplyLog(m) \/ ApplyLogErr(m) PROVE Announcing'
  <2> DEFINE c == [pool |-> m[2], block |-> m[1]]
  <2>1. /\ m[1] \in Batch /\ m[2] \in registered /\ logs[m[1]][m[2]] # "none"
        /\ m = <<m[1], m[2]>> /\ m[1] \in Blocks /\ m[2] \in Pools
    BY DEF Positions, TypeOK
  <2>2. /\ pc = "apply" /\ pc' = "apply" /\ todo' = todo \ {m} /\ swaps' = Collected(m)
        /\ UNCHANGED <<rewound, channel, current, batchEnd, registered, logs, head>>
    BY <1>1 DEF ApplyLog, ApplyLogErr, chain, registry, batch, history
  <2>3. c \in Change /\ c.pool = m[2] /\ c.block = m[1]
    BY <2>1 DEF Change
  <2>4. m[1] \in 1..head
    BY <2>1, <2>2 DEF Positions, Fetching, Batch, TypeOK, Batching, Blocks
  <2>5. Due(c)'
    BY <2>1, <2>2, <2>3, <2>4 DEF Due, Processed, Batch
  <2>6. Queued(swaps') \subseteq Queued(swaps) \cup {c} /\ Queued(channel') = Queued(channel)
    BY <1>t, <2>2, <2>3, QueuedAppend DEF Collected
  <2> QED
    BY <1>d, <2>1, <2>2, <2>3, <2>5, <2>6 DEF Announcing, Batch, Queued
<1>2. CASE ApplyDone
  <2>1. /\ pc' = "send" /\ swaps' = IF Announces THEN swaps ELSE <<>>
        /\ UNCHANGED <<rewound, channel, current, batchEnd>>
    BY <1>2 DEF ApplyDone, batch, history
  <2>2. swaps' = <<>> \/ (swaps' = swaps /\ current = batchEnd)
    BY <2>1 DEF Announces
  <2>3. Queued(<<>>) = {}
    BY DEF Queued
  <2>4. Queued(swaps') \subseteq Queued(swaps) /\ Queued(channel') = Queued(channel)
    BY <2>1, <2>2, <2>3
  <2>5. \A c \in Queued(swaps') : c.block \in Batch'
    BY <2>1, <2>4 DEF Announcing, Batch
  <2>6. ~rewound' => \A c \in Queued(swaps') \cup Queued(channel') : Due(c)'
    BY <1>d, <2>4
  <2> QED
    BY <2>1, <2>2, <2>5, <2>6 DEF Announcing, Queued
<1>3. CASE SendChange
  <2>1. /\ pc = "send" /\ pc' = "send" /\ swaps # <<>>
        /\ channel' = Append(channel, Head(swaps)) /\ swaps' = Tail(swaps)
        /\ UNCHANGED <<rewound, current, batchEnd>>
    BY <1>3 DEF SendChange, batch, history
  <2>2. /\ Head(swaps) \in Queued(swaps) /\ Head(swaps) \in Change
        /\ Queued(swaps') \subseteq Queued(swaps)
    BY <1>t, <2>1, QueuedTail
  <2>3. Queued(channel') \subseteq Queued(channel) \cup Queued(swaps)
    BY <1>t, <2>1, <2>2, QueuedAppend
  <2> QED
    BY <1>d, <2>1, <2>2, <2>3 DEF Announcing, Batch, Queued
<1>4. CASE ReceiveChange
  <2>1. /\ channel # <<>> /\ channel' = Tail(channel)
        /\ UNCHANGED <<rewound, current, batchEnd, pc, swaps>>
    BY <1>4 DEF ReceiveChange, updater, fetch, batch, history
  <2>2. Queued(channel') \subseteq Queued(channel)
    BY <1>t, <2>1, QueuedTail
  <2>3. \A c \in Queued(swaps') : c.block \in Batch'
    BY <2>1 DEF Announcing, Batch
  <2>4. ~rewound' => \A c \in Queued(swaps') \cup Queued(channel') : Due(c)'
    BY <1>d, <2>1, <2>2
  <2> QED
    BY <2>1, <2>3, <2>4 DEF Announcing, Queued
<1>5. ASSUME UNCHANGED <<swaps, channel>>,
             pc' \notin {"apply", "send"} => swaps = <<>>,
             pc' = "send" => pc = "send",
             swaps # <<>> => UNCHANGED <<current, batchEnd>>
      PROVE  Announcing'
  <2>1. \A c \in Queued(swaps) : c.block \in Batch'
    BY <1>5 DEF Announcing, Batch, Queued
  <2> QED
    BY <1>d, <1>5, <2>1 DEF Announcing, Queued
<1>6. CASE /\ UpdaterStep
           /\ ~(ApplyDone \/ SendChange \/ \E m \in todo : ApplyLog(m) \/ ApplyLogErr(m))
  BY <1>5, <1>6 DEF Announcing, UpdaterStep, Start, ReadLastProcessed, PopPending, FetchPoolOk,
     FetchPoolErr, DrainDone, BeginBatch, EndOfBatches, FetchLogsOk, FetchLogsRetry,
     FetchLogsGiveUp, SendDone, SetLastProcessed, batch, fetch
<1>7. CASE FetchSomeHead
  BY <1>5, <1>7 DEF Announcing, FetchSomeHead, FetchHead, fetch
<1>8. CASE Mine \/ Initializer \/ AdmissionStep \/ SetMaxBlocksPerBatch \/ SetWaitTimeFetch
           \/ (\E p \in Pools : CheckExists(p)) \/ UNCHANGED vars
  BY <1>5, <1>8 DEF Announcing, Mine, Initializer, InitializerRead, InitializerWrite,
     AdmissionStep, CheckContains, PushPending, SetMaxBlocksPerBatch, SetWaitTimeFetch,
     CheckExists, vars, updater, batch, fetch
<1> QED
  BY <1>1, <1>2, <1>3, <1>4, <1>6, <1>7, <1>8 DEF Next

LEMMA InitAnnouncing == Init => Announcing
BY DEF Init, Announcing, Queued

(* A handler is told of a pool only when the pool's cached state has the   *)
(* event it is told of.                                                    *)
THEOREM ChangesReflected == Spec => []ChangeReflected
<1>1. Init => IInv /\ Once /\ Announcing
  BY InitTypes, InitDone, InitAnnouncing DEF IInv
<1>2. IInv /\ Once /\ Announcing /\ [Next]_vars => (IInv /\ Once /\ Announcing)'
  BY StepTypes, StepPositions, StepCovered, StepOnce, StepAnnouncing DEF IInv
<1>3. IInv /\ Once /\ Announcing => ChangeReflected
  <2> SUFFICES ASSUME IInv, Once, Announcing, ~rewound,
                      NEW c \in Queued(swaps) \cup Queued(channel)
               PROVE  /\ c.pool \in registered
                      /\ seen[c.pool][c.block] >= 1 \/ <<c.block, c.pool>> \in missing
    BY DEF ChangeReflected, Queued
  <2>1. Due(c) /\ c \in Change
    BY QueuedTyped DEF Announcing, IInv, TypeOK
  <2>2. c.block \in Blocks
    BY <2>1 DEF Change
  <2>3. seen[c.pool][c.block] = IF <<c.block, c.pool>> \in missing THEN 0 ELSE 1
    BY <2>1, <2>2 DEF Once, Due
  <2> QED
    BY <2>1, <2>3 DEF Due
<1> QED
  BY <1>1, <1>2, <1>3, PTL DEF Spec

(* Changes are announced for the block right after the last processed one. *)
THEOREM BlocksAnnouncedOnce == Spec => AnnouncedOnce
<1> DEFINE OneAhead == Len(channel') > Len(channel) /\ ~rewound =>
                        channel'[Len(channel')].block = lastProcessed + 1
<1>1. Init => TypeOK /\ Positions /\ Announcing
  BY InitTypes, InitAnnouncing
<1>2. TypeOK /\ Positions /\ Announcing /\ [Next]_vars => (TypeOK /\ Positions /\ Announcing)'
  BY StepTypes, StepPositions, StepAnnouncing
<1>3. TypeOK /\ Positions /\ Announcing /\ [Next]_vars => OneAhead
  <2> SUFFICES ASSUME TypeOK, Positions, Announcing, [Next]_vars, ~rewound,
                      Len(channel') > Len(channel)
               PROVE  channel'[Len(channel')].block = lastProcessed + 1
    OBVIOUS
  <2>1. channel \in Seq(Change) /\ swaps \in Seq(Change)
    BY DEF TypeOK
  <2>2. CASE SendChange
    <3>1. pc = "send" /\ swaps # <<>> /\ channel' = Append(channel, Head(swaps))
      BY <2>2 DEF SendChange
    <3>2. Head(swaps) \in Queued(swaps)
      BY <2>1, <3>1, QueuedTail
    <3>3. Head(swaps).block \in current..batchEnd /\ current = batchEnd
      BY <3>1, <3>2 DEF Announcing, Batch
    <3>4. Head(swaps).block = current /\ current = lastProcessed + 1
      BY <3>1, <3>3 DEF TypeOK, Positions, Batching, Fetching
    <3>5. channel'[Len(channel')] = Head(swaps)
      BY <2>1, <3>1
    <3> QED
      BY <3>4, <3>5
  <2>3. CASE ~SendChange
    <3>1. channel' = channel \/ ReceiveChange
      BY <2>3 DEF Next, Initializer, UpdaterStep, AdmissionStep, FetchSomeHead,
         Mine, InitializerRead, InitializerWrite, Start, ReadLastProcessed, PopPending,
         FetchPoolOk, FetchPoolErr, DrainDone, FetchHead, BeginBatch, EndOfBatches,
         FetchLogsOk, FetchLogsRetry, FetchLogsGiveUp, ApplyLog, ApplyLogErr, ApplyDone,
         SendDone, SetLastProcessed, SetMaxBlocksPerBatch, SetWaitTimeFetch,
         CheckExists, CheckContains, PushPending, vars
    <3>2. Len(channel) \in Nat
      BY <2>1
    <3>3. ReceiveChange => Len(channel') = Len(channel) - 1
      BY <2>1 DEF ReceiveChange
    <3> QED
      BY <3>1, <3>2, <3>3
  <2> QED
    BY <2>2, <2>3
<1>4. TypeOK /\ Positions /\ Announcing /\ [Next]_vars => [OneAhead]_vars
  BY <1>3
<1> QED
  BY <1>1, <1>2, <1>4, PTL DEF Spec, AnnouncedOnce
-----------------------------------------------------------------------------
(* The refinement: what a reader of the registry sees. *)
View == [p \in Pools |->
            IF p \in registered
            THEN {b \in 1..lastProcessed : logs[b][p] # "none" /\ seen[p][b] = 1}
            ELSE {}]
Lost == {m \in missing : m[1] <= lastProcessed}

(* Losses are recorded for followed pools only.                            *)
LossesKnown == missing \subseteq Blocks \X registered

RInv == IInv /\ Once /\ LossesKnown

LEMMA StepLosses == TypeOK /\ Positions /\ LossesKnown /\ [Next]_vars => LossesKnown'
<1> SUFFICES ASSUME TypeOK, Positions, LossesKnown, [Next]_vars PROVE LossesKnown'
  OBVIOUS
<1> USE DEF LossesKnown
<1>1. ASSUME missing' \subseteq missing, registered \subseteq registered' PROVE LossesKnown'
  BY <1>1
<1>2. CASE FetchPoolOk
  BY <1>1, <1>2 DEF FetchPoolOk
<1>3. CASE FetchLogsGiveUp
  <2>1. 1 <= current /\ current \in Nat /\ batchEnd \in 0..MaxBlock /\ MaxBlock \in Nat
    BY <1>3, ConstantsAssumption DEF FetchLogsGiveUp, TypeOK, Positions, Batching, Fetching
  <2>2. Batch \subseteq Blocks
    BY <2>1 DEF Batch, Blocks
  <2> QED
    BY <1>3, <2>2 DEF FetchLogsGiveUp, FetchedLogs, registry
<1>4. ASSUME NEW m \in todo, ApplyLogErr(m) PROVE LossesKnown'
  BY <1>4 DEF ApplyLogErr, registry, TypeOK, Positions
<1>5. CASE ~(FetchPoolOk \/ FetchLogsGiveUp \/ \E m \in todo : ApplyLogErr(m))
  <2>1. UNCHANGED <<missing, registered>>
    BY <1>5 DEF Next, Initializer, UpdaterStep, AdmissionStep, FetchSomeHead,
       Mine, InitializerRead, InitializerWrite, Start, ReadLastProcessed, PopPending,
       FetchPoolErr, DrainDone, FetchHead, BeginBatch, EndOfBatches, FetchLogsOk,
       FetchLogsRetry, ApplyLog, ApplyDone, SendChange,
       SendDone, SetLastProcessed, ReceiveChange, SetMaxBlocksPerBatch, SetWaitTimeFetch,
       CheckExists, CheckContains, PushPending, vars, registry, history
  <2> QED
    BY <1>1, <2>1
<1> QED
  BY <1>2, <1>3, <1>4, <1>5

LEMMA InitFollower == Init => Follower!Init
BY ConstantsAssumption DEF Init, Follower!Init, Blocks

(* A step the readers do not see. *)
LEMMA Unseen ==
    ASSUME UNCHANGED <<head, logs, lastProcessed, registered, View, Lost, rewound>>
    PROVE  UNCHANGED Follower!vars
BY DEF Follower!vars, View, Lost

LEMMA StepFollower == RInv /\ RInv' /\ [Next]_vars => [Follower!Next]_(Follower!vars)
<1> SUFFICES ASSUME RInv, RInv', [Next]_vars, ~UNCHANGED Follower!vars
             PROVE  Follower!Next
  OBVIOUS
<1>t. /\ TypeOK /\ TypeOK' /\ Positions /\ Positions' /\ Once /\ Once'
      /\ LossesKnown /\ LossesKnown'
  BY DEF RInv, IInv
<1>u. /\ lastProcessed \in 0..MaxBlock /\ lastProcessed' \in 0..MaxBlock
      /\ head \in 0..MaxBlock /\ StartBlock \in Nat /\ MaxBlock \in Nat
      /\ lastProcessed <= head /\ lastProcessed' <= head'
  BY <1>t, ConstantsAssumption DEF TypeOK, Positions
<1>b. \A b \in 1..lastProcessed : b \in Blocks /\ b \in 1..head
  BY <1>u DEF Blocks
<1>p. registered \subseteq Pools /\ seen \in [Pools -> [Blocks -> Nat]]
  BY <1>t DEF TypeOK
(* While a batch is fetched and applied, its blocks are ahead of the cursor. *)
<1>a. Fetching /\ ~rewound => \A b \in Batch : b \in Nat /\ lastProcessed < b
  <2> SUFFICES ASSUME Fetching, ~rewound, NEW b \in Batch PROVE b \in Nat /\ lastProcessed < b
    OBVIOUS
  <2>1. lastProcessed = current - 1 /\ current \in Nat /\ 1 <= current
    BY <1>t, ConstantsAssumption DEF Positions, Batching, TypeOK
  <2> QED
    BY <1>u, <2>1 DEF Batch
<1>1. CASE Mine
  <2>0. logs \in [Blocks -> [Pools -> Kinds]]
    BY <1>t DEF TypeOK
  <2>1. /\ head' = head + 1 /\ \A b \in 1..head : logs'[b] = logs[b]
        /\ UNCHANGED <<lastProcessed, registered, seen, missing, rewound>>
    BY <1>1, <1>u, <2>0 DEF Mine, Blocks, registry, history
  <2>2. \A b \in 1..lastProcessed : logs'[b] = logs[b]
    BY <1>b, <2>1
  <2>3. View' = View /\ Lost' = Lost
    BY <2>1, <2>2 DEF View, Lost
  <2> QED
    BY <2>1, <2>3 DEF Follower!Next, Follower!Grow, View, Lost
<1>2. ASSUME ~Mine, rewound PROVE Follower!Next
  <2>1. /\ UNCHANGED <<head, logs>> /\ registered \subseteq registered' /\ rewound'
    BY <1>2 DEF Next, Initializer, UpdaterStep, AdmissionStep, FetchSomeHead,
       InitializerRead, InitializerWrite, Start, ReadLastProcessed, PopPending, FetchPoolOk,
       FetchPoolErr, DrainDone, FetchHead, BeginBatch, EndOfBatches, FetchLogsOk,
       FetchLogsRetry, FetchLogsGiveUp, ApplyLog, ApplyLogErr, ApplyDone, SendChange,
       SendDone, SetLastProcessed, ReceiveChange, SetMaxBlocksPerBatch, SetWaitTimeFetch,
       CheckExists, CheckContains, PushPending, vars, chain, registry, history
  <2> QED
    BY <1>2, <2>1 DEF Follower!Next, Follower!Replay
(* The cursor jumps to StartBlock while nothing is followed.               *)
<1>3. ASSUME ~rewound, ~rewound', pc = "start", lastProcessed' = StartBlock,
             UNCHANGED <<head, logs, registered, seen, missing>>
      PROVE  Follower!Next
  <2>1. registered = {} /\ missing = {}
    BY <1>3, <1>t DEF Positions, LossesKnown
  <2>2. lastProcessed <= StartBlock /\ StartBlock <= head /\ StartBlock \in 0..MaxBlock
    BY <1>3, <1>t, <1>u, ConstantsAssumption DEF Positions
  <2>3. View' = View /\ View = [p \in Pools |-> {}] /\ Lost' = {} /\ Lost = {}
    BY <1>3, <2>1 DEF View, Lost
  <2>4. Follower!Advance(StartBlock)
    BY <1>3, <2>1, <2>2, <2>3 DEF Follower!Advance, View, Lost
  <2> QED
    BY <1>3, <2>2, <2>4 DEF Follower!Next
<1>4. CASE Start
  <2>1. ~rewound
    BY <1>4, <1>t DEF Start, Positions
  <2> QED
    BY <1>3, <1>4, <2>1 DEF Start, chain, history
<1>5. CASE InitializerWrite
  <2>1. /\ UNCHANGED <<head, logs, registered, seen, missing, pc>>
        /\ lastProcessed' = StartBlock /\ rewound' = (rewound \/ StartBlock < lastProcessed)
    BY <1>5 DEF InitializerWrite, chain, updater
  <2>2. CASE rewound
    BY <1>1, <1>2, <2>2
  <2>3. CASE ~rewound /\ StartBlock < lastProcessed
    BY <2>1, <2>3 DEF Follower!Next, Follower!Rewind
  <2>4. CASE ~rewound /\ ~(StartBlock < lastProcessed) /\ pc = "start"
    BY <1>3, <2>1, <2>4
  <2>5. CASE ~rewound /\ ~(StartBlock < lastProcessed) /\ pc # "start"
    <3>1. lastProcessed' = lastProcessed /\ rewound' = rewound
      BY <1>t, <1>u, <2>1, <2>5 DEF Positions, TypeOK
    <3> QED
      BY <2>1, <3>1, Unseen DEF View, Lost
  <2> QED
    BY <2>2, <2>3, <2>4, <2>5
<1>6. CASE FetchPoolOk /\ ~rewound
  <2>1. /\ newPool \in Pools /\ registered' = registered \cup {newPool}
        /\ seen' = [seen EXCEPT ![newPool] = StateAt(base)]
        /\ missing' = {m \in missing : m[2] # newPool}
        /\ UNCHANGED <<head, logs, lastProcessed, rewound>>
        /\ base = lastProcessed
    BY <1>6, <1>t DEF FetchPoolOk, Positions, Draining, chain
  <2>2. Lost' = {m \in Lost : m[2] # newPool}
    BY <2>1 DEF Lost
  <2>3. View' = [View EXCEPT ![newPool] = Follower!Active(newPool, 1, lastProcessed)]
    <3>1. ASSUME NEW p \in Pools, p # newPool PROVE View'[p] = View[p]
      BY <2>1, <3>1, <1>t DEF View, TypeOK
    <3>2. View'[newPool] = Follower!Active(newPool, 1, lastProcessed)
      <4>1. seen'[newPool] = StateAt(lastProcessed)
        BY <1>p, <2>1
      <4>2. \A b \in 1..lastProcessed : seen'[newPool][b] = 1
        BY <1>b, <1>u, <4>1 DEF StateAt
      <4> QED
        BY <2>1, <4>2 DEF View, Follower!Active
    <3>3. View' = [p \in Pools |-> View'[p]] /\ DOMAIN View = Pools
      BY DEF View
    <3> QED
      BY <2>1, <3>1, <3>2, <3>3 DEF View
  <2>4. PICK p \in Pools : p = newPool
    BY <2>1
  <2>5. Follower!Admit(p)
    BY <2>1, <2>2, <2>3, <2>4 DEF Follower!Admit, Follower!Active, View, Lost
  <2> QED
    BY <1>6, <2>5 DEF Follower!Next
<1>7. CASE SetLastProcessed /\ ~rewound
  <2>1. /\ lastProcessed' = batchEnd /\ current = lastProcessed + 1
        /\ lastProcessed <= batchEnd /\ batchEnd <= head /\ batchEnd \in 0..MaxBlock
        /\ UNCHANGED <<head, logs, registered, seen, missing, rewound>>
    BY <1>7, <1>t, <1>u DEF SetLastProcessed, NewLast, Positions, Batching, Fetching, TypeOK,
       chain, history
  <2>2. \A p \in registered, b \in lastProcessed + 1 .. batchEnd :
            logs[b][p] # "none" =>
                seen[p][b] = IF <<b, p>> \in missing THEN 0 ELSE 1
    <3> SUFFICES ASSUME NEW p \in registered, NEW b \in lastProcessed + 1 .. batchEnd,
                        logs[b][p] # "none"
                 PROVE  seen[p][b] = IF <<b, p>> \in missing THEN 0 ELSE 1
      OBVIOUS
    <3>1. b \in Blocks /\ b <= head
      BY <1>u, <2>1 DEF Blocks
    <3>2. Processed(b, p)
      BY <1>7, <1>t, <2>1 DEF SetLastProcessed, Processed, Positions, Batch
    <3> QED
      BY <1>7, <1>t, <3>1, <3>2 DEF Once
  <2> DEFINE dropped == {m \in missing : lastProcessed < m[1] /\ m[1] <= batchEnd}
  <2>3. dropped \in SUBSET ((lastProcessed + 1 .. batchEnd) \X registered)
    BY <1>t, <1>u, <2>1 DEF LossesKnown, Blocks
  <2>4. Lost' = Lost \cup dropped
    BY <1>t, <1>u, <2>1 DEF Lost, LossesKnown, Blocks
  <2>5. View' = [p \in Pools |->
                    IF p \in registered
                    THEN View[p] \cup {b \in Follower!Active(p, lastProcessed + 1, batchEnd) :
                                           <<b, p>> \notin dropped}
                    ELSE View[p]]
    <3>1. ASSUME NEW p \in Pools, p \in registered
          PROVE  {b \in 1..batchEnd : logs[b][p] # "none" /\ seen[p][b] = 1}
                 = {b \in 1..lastProcessed : logs[b][p] # "none" /\ seen[p][b] = 1}
                   \cup {b \in Follower!Active(p, lastProcessed + 1, batchEnd) :
                             <<b, p>> \notin dropped}
      BY <1>u, <2>1, <2>2, <3>1 DEF Follower!Active
    <3>2. ASSUME NEW p \in Pools, p \in registered
          PROVE  /\ View'[p] = {b \in 1..batchEnd : logs[b][p] # "none" /\ seen[p][b] = 1}
                 /\ View[p] = {b \in 1..lastProcessed : logs[b][p] # "none" /\ seen[p][b] = 1}
      BY <2>1, <3>2 DEF View
    <3>3. ASSUME NEW p \in Pools, p \notin registered PROVE View'[p] = View[p]
      BY <2>1, <3>3 DEF View
    <3>4. View' = [p \in Pools |-> View'[p]]
      BY DEF View
    <3> DEFINE seenIn(p) == View[p] \cup {b \in Follower!Active(p, lastProcessed + 1, batchEnd) :
                                              <<b, p>> \notin dropped}
    <3>5. ASSUME NEW p \in Pools, p \in registered PROVE View'[p] = seenIn(p)
      BY <3>1, <3>2, <3>5
    <3> HIDE DEF seenIn
    <3>6. View' = [p \in Pools |-> IF p \in registered THEN seenIn(p) ELSE View[p]]
      BY <3>3, <3>4, <3>5
    <3> QED
      BY <3>6 DEF seenIn
  <2>6. PICK c \in 0..MaxBlock : c = batchEnd
    BY <2>1
  <2>7. Follower!Advance(c)
    <3>1. \E d \in SUBSET ((lastProcessed + 1 .. c) \X registered) :
            /\ Lost' = Lost \cup d
            /\ View' = [p \in Pools |->
                   IF p \in registered
                   THEN View[p] \cup {b \in Follower!Active(p, lastProcessed + 1, c) :
                                          <<b, p>> \notin d}
                   ELSE View[p]]
      <4> HIDE DEF dropped
      <4> QED
        BY <2>3, <2>4, <2>5, <2>6
    <3>2. lastProcessed <= c /\ c <= head /\ lastProcessed' = c
      BY <2>1, <2>6
    <3> QED
      BY <2>1, <3>1, <3>2 DEF Follower!Advance, View, Lost
  <2> QED
    BY <1>7, <2>7 DEF Follower!Next
(* The work of the current batch is not seen yet.                          *)
<1>8. ASSUME ~rewound, NEW m \in todo, ApplyLog(m) \/ ApplyLogErr(m)
      PROVE  UNCHANGED Follower!vars
  <2>1. m[1] \in Blocks /\ m[2] \in Pools /\ lastProcessed < m[1]
    <3>1. Fetching /\ m[1] \in Batch
      BY <1>8, <1>t DEF ApplyLog, ApplyLogErr, Fetching, Positions
    <3> QED
      BY <1>8, <1>a, <1>t, <3>1 DEF TypeOK
  <2>2. UNCHANGED <<head, logs, lastProcessed, registered, rewound>>
    BY <1>8 DEF ApplyLog, ApplyLogErr, chain, registry, history
  <2>3. Lost' = Lost
    BY <1>8, <1>u, <2>1, <2>2 DEF ApplyLog, ApplyLogErr, Lost, history, Blocks
  <2>4. \A p \in registered, b \in 1..lastProcessed : seen'[p][b] = seen[p][b]
    <3> SUFFICES ASSUME NEW p \in registered, NEW b \in 1..lastProcessed
                 PROVE  seen'[p][b] = seen[p][b]
      OBVIOUS
    <3>1. p \in Pools /\ b \in Blocks /\ b # m[1]
      BY <1>u, <1>b, <1>p, <2>1 DEF Blocks
    <3>2. AppliedTo(m[2], m[1])[p][b] = seen[p][b]
      BY <1>p, <2>1, <3>1, AppliedToValue
    <3> QED
      BY <1>8, <3>2 DEF ApplyLog, ApplyLogErr, registry
  <2>5. View' = View
    BY <2>2, <2>4 DEF View
  <2> QED
    BY <2>2, <2>3, <2>5, Unseen
<1>9. CASE FetchLogsGiveUp /\ ~rewound
  <2>1. /\ UNCHANGED <<head, logs, lastProcessed, registered, seen, rewound>>
        /\ missing' = missing \cup FetchedLogs
    BY <1>9 DEF FetchLogsGiveUp, chain, registry
  <2>2. \A m \in FetchedLogs : m[1] \in Nat /\ lastProcessed < m[1]
    BY <1>9, <1>a DEF FetchLogsGiveUp, FetchedLogs, Fetching
  <2>3. View' = View /\ Lost' = Lost
    BY <1>u, <2>1, <2>2 DEF View, Lost
  <2> QED
    BY <2>1, <2>3, Unseen
<1>10. CASE ~(\/ Mine \/ Start \/ InitializerWrite \/ FetchPoolOk \/ SetLastProcessed
              \/ FetchLogsGiveUp \/ \E m \in todo : ApplyLog(m) \/ ApplyLogErr(m))
  <2>1. UNCHANGED <<head, logs, lastProcessed, registered, seen, missing, rewound>>
    BY <1>10 DEF Next, Initializer, UpdaterStep, AdmissionStep, FetchSomeHead,
       InitializerRead, ReadLastProcessed, PopPending, FetchPoolErr, DrainDone, FetchHead,
       BeginBatch, EndOfBatches, FetchLogsOk, FetchLogsRetry, ApplyDone, SendChange,
       SendDone, ReceiveChange, SetMaxBlocksPerBatch, SetWaitTimeFetch,
       CheckExists, CheckContains, PushPending, vars, chain, registry, history
  <2> QED
    BY <2>1, Unseen DEF View, Lost
<1> QED
  BY <1>1, <1>2, <1>4, <1>5, <1>6, <1>7, <1>8, <1>9, <1>10

(* Seen from a reader of the registry, the updater is the follower that    *)
(* ChainFollower specifies, for every set of pools and chain length.       *)
THEOREM ImplementsFollower == Spec => FollowsChain
<1>1. Init => RInv
  BY InitTypes, InitDone DEF RInv, IInv, Init, LossesKnown
<1>2. RInv /\ [Next]_vars => RInv'
  BY StepTypes, StepPositions, StepCovered, StepOnce, StepLosses DEF RInv, IInv
<1> QED
  BY <1>1, <1>2, InitFollower, StepFollower, PTL DEF Spec, FollowsChain, Follower!Spec
=============================================================================
