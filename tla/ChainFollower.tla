---------------------------- MODULE ChainFollower ----------------------------
(***************************************************************************)
(* What a block follower promises to the readers of its registry, with     *)
(* batches, retries, per-event application and tasks abstracted away: the  *)
(* chain grows; the cursor moves over it in jumps; at any time a known     *)
(* pool reflects all of its events up to the cursor except recorded        *)
(* losses.  The promise ends (exact becomes FALSE) if the cursor is ever   *)
(* moved back.  PoolUpdater is shown to implement this.                    *)
(***************************************************************************)
EXTENDS Naturals

CONSTANTS Pools, MaxBlock

VARIABLES
    head,     \* newest block
    logs,     \* logs[b][p]: the pool's event in the block, or "none"
    cursor,   \* last processed block
    known,    \* pools followed
    view,     \* view[p]: the blocks whose event the followed p reflects
    lost,     \* <<b, p>>: events behind the cursor that were dropped
    exact     \* the cursor never moved back

vars == <<head, logs, cursor, known, view, lost, exact>>

Active(p, from, to) == {b \in from..to : logs[b][p] # "none"}

Init ==
    /\ head \in 0..MaxBlock
    /\ logs = [b \in 1..MaxBlock |-> [p \in Pools |-> "none"]]
    /\ cursor = 0 /\ known = {} /\ view = [p \in Pools |-> {}]
    /\ lost = {} /\ exact = TRUE

(* A block is mined; the past does not change. *)
Grow ==
    /\ head' = head + 1
    /\ \A b \in 1..head : logs'[b] = logs[b]
    /\ UNCHANGED <<cursor, known, view, lost, exact>>

(* Start to follow p, or start over, from a snapshot at the cursor. *)
Admit(p) ==
    /\ known' = known \cup {p}
    /\ view' = [view EXCEPT ![p] = Active(p, 1, cursor)]
    /\ lost' = {m \in lost : m[2] # p}
    /\ UNCHANGED <<head, logs, cursor, exact>>

(* Move the cursor to c; what was not dropped on the way is reflected. *)
Advance(c) ==
    /\ cursor <= c /\ c <= head
    /\ cursor' = c
    /\ \E dropped \in SUBSET ((cursor + 1 .. c) \X known) :
        /\ lost' = lost \cup dropped
        /\ view' = [p \in Pools |->
               IF p \in known
               THEN view[p] \cup {b \in Active(p, cursor + 1, c) : <<b, p>> \notin dropped}
               ELSE view[p]]
    /\ UNCHANGED <<head, logs, known, exact>>

(* The cursor moves back; from then on only the chain is trusted. *)
Rewind ==
    /\ exact' = FALSE
    /\ known' = known
    /\ UNCHANGED <<head, logs>>

Replay ==
    /\ ~exact /\ ~exact'
    /\ known \subseteq known'
    /\ UNCHANGED <<head, logs>>

Next ==
    \/ Grow \/ Rewind \/ Replay
    \/ exact /\ \E p \in Pools : Admit(p)
    \/ exact /\ \E c \in 0..MaxBlock : Advance(c)

Spec == Init /\ [][Next]_vars
=============================================================================
