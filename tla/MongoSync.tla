------------------------------ MODULE MongoSync ------------------------------
(***************************************************************************)
(* The polling task of NetworkCollector: start_mongodb_polling and the     *)
(* three handle_*_update it calls, against a database that others write.   *)
(* Per tick it syncs networks, then pools, then paths: it asks for the     *)
(* documents updated since the collection's timestamp, hands them on, and  *)
(* moves the timestamp to the present if all went well.  A document is a   *)
(* version with its updated_at; whether its content can be handled (its    *)
(* addresses parse, its hops connect, its chain id is that of its nodes)   *)
(* is the flag valid.                                                       *)
(***************************************************************************)
EXTENDS Naturals, FiniteSets

CONSTANTS
    Networks, Pools, Paths,   \* documents, named by their identity
    On,                       \* On[d]: networks a pool or path names
    MaxTime,                  \* bound: seconds the clock counts
    MaxWrites                 \* bound: how often documents are written

Docs == Networks \cup Pools \cup Paths

ASSUME SyncAssumption ==
    /\ Networks \cap Pools = {} /\ (Networks \cup Pools) \cap Paths = {}
    /\ On \in [Pools \cup Paths -> SUBSET Networks]
    /\ \A p \in Pools : \E n \in Networks : On[p] = {n}
    /\ MaxTime \in Nat \ {0} /\ MaxWrites \in Nat

VARIABLES
    now,         \* Utc::now().timestamp()
    doc,         \* the database: updated_at, version (0: absent), valid
    writes,      \* bound: writes so far, the newest version
    last,        \* last_network_sync etc.; 0 stands for None
    pc,          \* where the task is
    phase,       \* the collection it syncs
    batch,       \* documents fetched and not yet handed on, as fetched
    known,       \* networks in MultichainNetworkRegistry
    submitted,   \* pools given to add_pending_new_pools
    installed,   \* path documents given to set_paths
    settled,     \* history: settled[d]: the version of d last dealt with
    dropped,     \* history: pools passed over, their network being unknown
    late,        \* history: documents written while their collection synced
    retry        \* history: collections whose last sync ended in an error

store == <<now, doc, writes>>
task == <<last, pc, phase, batch>>
registries == <<known, submitted, installed>>
history == <<settled, dropped, late, retry>>
vars == <<store, task, registries, history>>

Collections == {"networks", "pools", "paths"}
Of(d) == IF d \in Networks THEN "networks" ELSE IF d \in Pools THEN "pools" ELSE "paths"
NextPhase == [networks |-> "pools", pools |-> "paths", paths |-> "networks"]
Document == [at : 0..MaxTime, version : 0..MaxWrites, valid : BOOLEAN]
Fetched == [id : Docs, version : 1..MaxWrites, valid : BOOLEAN]

TypeOK ==
    /\ now \in 1..MaxTime /\ doc \in [Docs -> Document] /\ writes \in 0..MaxWrites
    /\ last \in [Collections -> 0..MaxTime]
    /\ pc \in {"query", "handle", "sleep", "dead"} /\ phase \in Collections
    /\ batch \subseteq Fetched
    /\ known \subseteq Networks /\ submitted \subseteq Pools /\ installed \subseteq Paths
    /\ settled \in [Docs -> 0..MaxWrites]
    /\ dropped \subseteq Pools /\ late \subseteq Docs /\ retry \subseteq Collections

Init ==
    /\ now = 1 /\ writes = 0
    /\ doc = [d \in Docs |-> [at |-> 0, version |-> 0, valid |-> TRUE]]
    /\ last = [c \in Collections |-> 0]
    /\ pc = "query" /\ phase = "networks" /\ batch = {}
    /\ known = {} /\ submitted = {} /\ installed = {}
    /\ settled = [d \in Docs |-> 0]
    /\ dropped = {} /\ late = {} /\ retry = {}
-----------------------------------------------------------------------------
(* The outside (external): time passes, and someone inserts or updates a   *)
(* document, stamping it with the second of the write.                     *)
Tick ==
    /\ now < MaxTime
    /\ now' = now + 1
    /\ UNCHANGED <<doc, writes, task, registries, history>>

Syncing(c) == pc = "handle" /\ phase = c

Write(d, ok) ==
    /\ writes < MaxWrites
    /\ writes' = writes + 1
    /\ doc' = [doc EXCEPT ![d] = [at |-> now, version |-> writes + 1, valid |-> ok]]
    /\ late' = IF Syncing(Of(d)) \/ now <= last[Of(d)] THEN late \cup {d} ELSE late \ {d}
    /\ UNCHANGED <<now, task, registries, settled, dropped, retry>>

-----------------------------------------------------------------------------
Advance == phase' = NextPhase[phase] /\ pc' = IF phase = "paths" THEN "sleep" ELSE "query"

(* find_all before the first sync, find_updated_since after it. *)
UpdatedOrSame(d) == doc[d].version > 0 /\ doc[d].at >= last[phase]
Updated(d) == doc[d].version > 0 /\ doc[d].at > last[phase]
Selected == {d \in Docs : Of(d) = phase /\ Updated(d)}

(* With nothing new the timestamp stays. *)
Query ==
    /\ pc = "query"
    /\ batch' = {[id |-> d, version |-> doc[d].version, valid |-> doc[d].valid] : d \in Selected}
    /\ IF Selected = {} THEN Advance ELSE pc' = "handle" /\ UNCHANGED phase
    /\ late' = late \ Selected
    /\ UNCHANGED <<store, last, registries, settled, dropped, retry>>

(* The database does not answer: the collection waits for the next tick.   *)
QueryErr ==
    /\ pc = "query"
    /\ Advance
    /\ UNCHANGED <<store, last, batch, registries, history>>

WakeUp ==
    /\ pc = "sleep"
    /\ pc' = "query"
    /\ UNCHANGED <<store, last, phase, batch, registries, history>>

-----------------------------------------------------------------------------
SettleWith(fs) ==
    settled' = [d \in Docs |->
                   IF \E f \in fs : f.id = d THEN (CHOOSE f \in fs : f.id = d).version
                                             ELSE settled[d]]

(* A new network: its follower is created and started. *)
BringUp(f) ==
    /\ Syncing("networks") /\ f \in batch /\ f.id \notin known /\ f.valid
    /\ known' = known \cup {f.id}
    /\ batch' = batch \ {f} /\ SettleWith({f})
    /\ UNCHANGED <<store, last, pc, phase, submitted, installed, dropped, late, retry>>

(* A known one: update_network; its error is logged and goes no further.   *)
UpdateNetwork(f) ==
    /\ Syncing("networks") /\ f \in batch /\ f.id \in known
    /\ batch' = batch \ {f} /\ SettleWith({f})
    /\ UNCHANGED <<store, last, pc, phase, registries, dropped, late, retry>>

(* The polling task panics: get_chain_id().unwrap() or                     *)
(* get_block_number().unwrap(), when the node of a new network does not    *)
(* answer, or create_provider, in update_rpcs of a known network too, when *)
(* the document has no node that parses.                                   *)
NodePanics(f) ==
    /\ Syncing("networks") /\ f \in batch
    /\ f.id \notin known \/ ~f.valid
    /\ pc' = "dead" /\ batch' = {}
    /\ UNCHANGED <<store, last, phase, registries, history>>

(* handle_pools_update groups by network, in the order of a HashMap. *)
Group(n) == {f \in batch : On[f.id] = {n}}

SubmitPools(n) ==
    /\ Syncing("pools") /\ Group(n) # {} /\ n \in known
    /\ \A f \in Group(n) : f.valid
    /\ submitted' = submitted \cup {f.id : f \in Group(n)}
    /\ dropped' = dropped \ {f.id : f \in Group(n)}
    /\ batch' = batch \ Group(n) /\ SettleWith(Group(n))
    /\ UNCHANGED <<store, last, pc, phase, known, installed, late, retry>>

(* "Network registry not found": logged, and on to the next network. *)
DropPools(n) ==
    /\ Syncing("pools") /\ Group(n) # {} /\ n \notin known
    /\ dropped' = dropped \cup {f.id : f \in Group(n)}
    /\ batch' = batch \ Group(n) /\ SettleWith(Group(n))
    /\ UNCHANGED <<store, last, pc, phase, registries, late, retry>>

InstallPaths(f) ==
    /\ Syncing("paths") /\ f \in batch /\ On[f.id] \subseteq known /\ f.valid
    /\ installed' = installed \cup {f.id}
    /\ batch' = batch \ {f} /\ SettleWith({f})
    /\ UNCHANGED <<store, last, pc, phase, known, submitted, dropped, late, retry>>

(* get_profit_token_registry(..).await.unwrap() on an unknown network. *)
PathPanics(f) ==
    /\ Syncing("paths") /\ f \in batch /\ ~(On[f.id] \subseteq known)
    /\ pc' = "dead" /\ batch' = {}
    /\ UNCHANGED <<store, last, phase, registries, history>>

Unusable(f) ==
    \/ phase = "networks" /\ f.id \notin known /\ ~f.valid
    \/ phase = "pools" /\ On[f.id] \subseteq known /\ ~f.valid
    \/ phase = "paths" /\ ~f.valid

(* An error ends the sync of the collection; the timestamp stays.          *)
HandleErr ==
    /\ pc = "handle" /\ \E f \in batch : Unusable(f)
    /\ batch' = {} /\ Advance
    /\ retry' = retry \cup {phase}
    /\ UNCHANGED <<store, last, registries, settled, dropped, late>>

(* "Update timestamp after successful sync". *)
DoneOrErr == batch = {} \/ \E f \in batch : Unusable(f)
Done == batch = {}

StampAll == [c \in Collections |-> now]
StampPhase == [last EXCEPT ![phase] = now]

Stamp ==
    /\ pc = "handle" /\ Done
    /\ last' = StampPhase
    /\ batch' = {} /\ Advance
    /\ retry' = retry \ {phase}
    /\ UNCHANGED <<store, registries, settled, dropped, late>>

-----------------------------------------------------------------------------
HandleStep ==
    \/ \E f \in batch : BringUp(f) \/ UpdateNetwork(f) \/ InstallPaths(f) \/ PathPanics(f)
    \/ \E n \in Networks : SubmitPools(n) \/ DropPools(n)
    \/ HandleErr \/ Stamp

Next ==
    \/ Tick
    \/ \E d \in Docs, ok \in BOOLEAN : Write(d, ok)
    \/ Query \/ QueryErr \/ WakeUp
    \/ HandleStep
    \/ \E f \in batch : NodePanics(f)

Spec == Init /\ [][Next]_vars

(* Fairness: the runtime lets the task run; the database answers a query   *)
(* for each collection sooner or later.  Nothing obliges nodes to answer   *)
(* or anyone to write.                                                     *)
Fairness ==
    /\ WF_vars(Query \/ QueryErr \/ WakeUp) /\ WF_vars(HandleStep)
    /\ \A c \in Collections : SF_vars(phase = c /\ Query)

FairSpec == Spec /\ Fairness
-----------------------------------------------------------------------------
(* Properties. *)

(* A collection's timestamp passes over nothing: a document not newer than *)
(* it has been dealt with in its present version, unless it was written    *)
(* while the collection was being synced or in the second of the stamp.    *)
StampCovers ==
    \A d \in Docs :
        doc[d].version > 0 /\ doc[d].at <= last[Of(d)] =>
            settled[d] = doc[d].version \/ d \in late

(* "only fetches documents updated since last sync": a version is handed   *)
(* on once, and again only while the collection's sync keeps failing.      *)
HandedOnOnce ==
    [][\A f \in batch' \ batch :
           f.version = settled[f.id] => phase \in retry]_vars

Reached(d) ==
    /\ settled[d] = doc[d].version
    /\ d \in Networks => d \in known
    /\ d \in Pools => d \in submitted \cup dropped
    /\ d \in Paths => d \in installed

Obstructed(c) == \E d \in Docs : Of(d) = c /\ ~doc[d].valid

(* What is written reaches the registries while the bot runs, unless it    *)
(* fell into the window of StampCovers, the task has panicked, or a        *)
(* document of the same collection cannot be handled.                      *)
Delivered ==
    \A d \in Docs :
        doc[d].version > 0 ~>
            Reached(d) \/ d \in late \/ pc = "dead" \/ Obstructed(Of(d))
=============================================================================
