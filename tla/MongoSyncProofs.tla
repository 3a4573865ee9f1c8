--------------------------- MODULE MongoSyncProofs ---------------------------
(***************************************************************************)
(* Proofs about MongoSync for every set of networks, pools and paths, and  *)
(* any number of writes and seconds.                                       *)
(***************************************************************************)
EXTENDS MongoSync, TLAPS

(* What is fetched and not yet handed on belongs to the collection being   *)
(* synced, once per document, and is its present version unless the        *)
(* document was written since.                                             *)
Present(f) == f.version = doc[f.id].version
BatchOf ==
    /\ pc # "handle" => batch = {}
    /\ \A f \in batch : Of(f.id) = phase /\ (Present(f) \/ f.id \in late)
    /\ \A f, g \in batch : f.id = g.id => f = g

(* While a collection is synced, each of its documents is dealt with, or   *)
(* waits in the batch, or was written since the query.                     *)
Accounted ==
    pc = "handle" =>
        \A d \in Docs : Of(d) = phase /\ doc[d].version > 0 =>
            \/ settled[d] = doc[d].version
            \/ \E f \in batch : f.id = d /\ Present(f)
            \/ d \in late

Covering == BatchOf /\ Accounted /\ StampCovers

(* Nothing is newer than the clock and the last write.                     *)
Written ==
    \A d \in Docs : doc[d].at <= now /\ doc[d].version <= writes /\ settled[d] <= writes
InOrder == Written /\ \A f \in batch : f.version <= writes

(* What is dealt with and still newer than the timestamp is fetched again  *)
(* only if an error kept the timestamp back.                               *)
DealtWith ==
    \A d \in Docs :
        doc[d].version > 0 /\ settled[d] = doc[d].version /\ last[Of(d)] < doc[d].at =>
            Of(d) \in retry \/ Syncing(Of(d)) \/ pc = "dead"
-----------------------------------------------------------------------------
(* Type correctness. *)
LEMMA InitTypes == Init => TypeOK
BY SyncAssumption DEF Init, TypeOK, Collections, Document

LEMMA NextPhaseTyped ==
    ASSUME NEW c \in Collections
    PROVE  NextPhase[c] \in Collections
BY DEF Collections, NextPhase

(* Whatever part of the batch is settled, the history keeps its type.      *)
LEMMA SettleTyped ==
    ASSUME TypeOK, NEW fs, fs \subseteq batch, SettleWith(fs)
    PROVE  settled' \in [Docs -> 0..MaxWrites]
<1> SUFFICES ASSUME NEW d \in Docs, \E f \in fs : f.id = d
             PROVE  (CHOOSE f \in fs : f.id = d).version \in 0..MaxWrites
  BY DEF SettleWith, TypeOK
<1>1. (CHOOSE f \in fs : f.id = d) \in Fetched
  BY DEF TypeOK
<1> QED
  BY <1>1, SyncAssumption DEF Fetched

LEMMA StepTypes == TypeOK /\ BatchOf /\ [Next]_vars => TypeOK'
<1> SUFFICES ASSUME TypeOK, BatchOf, [Next]_vars PROVE TypeOK'
  OBVIOUS
<1>p. NextPhase[phase] \in Collections
  BY NextPhaseTyped DEF TypeOK
<1>b. \A f \in batch :
        /\ f.id \in Docs
        /\ phase = "networks" => f.id \in Networks
        /\ phase = "pools" => f.id \in Pools
        /\ phase = "paths" => f.id \in Paths
  BY DEF BatchOf, TypeOK, Fetched, Of, Docs
<1> USE SyncAssumption DEF store, task, registries, history
<1>1. CASE Tick
  BY <1>1 DEF Tick, TypeOK
<1>2. ASSUME NEW d \in Docs, NEW ok \in BOOLEAN, Write(d, ok) PROVE TypeOK'
  <2>1. [at |-> now, version |-> writes + 1, valid |-> ok] \in Document
    BY <1>2 DEF Write, TypeOK, Document
  <2>2. doc \in [Docs -> Document]
    BY DEF TypeOK
  <2>3. doc' \in [Docs -> Document]
    BY <1>2, <2>1, <2>2 DEF Write
  <2>4. late' \subseteq Docs /\ writes' \in 0..MaxWrites
    BY <1>2 DEF Write, TypeOK
  <2> QED
    BY <1>2, <2>3, <2>4 DEF Write, TypeOK
<1>3. CASE Query
  <2>1. batch' \subseteq Fetched
    <3> SUFFICES ASSUME NEW d \in Selected
                 PROVE  [id |-> d, version |-> doc[d].version, valid |-> doc[d].valid] \in Fetched
      BY <1>3 DEF Query
    <3>1. doc[d] \in Document /\ doc[d].version > 0 /\ d \in Docs
      BY DEF Selected, Updated, TypeOK
    <3> QED
      BY <3>1 DEF Document, Fetched
  <2>2. phase' \in Collections /\ pc' \in {"query", "handle", "sleep"}
    BY <1>3, <1>p DEF Query, Advance, TypeOK
  <2> QED
    BY <1>3, <2>1, <2>2 DEF Query, TypeOK
<1>4. CASE QueryErr
  BY <1>4, <1>p DEF QueryErr, Advance, TypeOK
<1>5. CASE WakeUp
  BY <1>5 DEF WakeUp, TypeOK
<1>6. ASSUME NEW f \in batch, BringUp(f) \/ UpdateNetwork(f) \/ InstallPaths(f) PROVE TypeOK'
  <2>1. SettleWith({f})
    BY <1>6 DEF BringUp, UpdateNetwork, InstallPaths
  <2>2. settled' \in [Docs -> 0..MaxWrites]
    BY <2>1, SettleTyped
  <2> QED
    BY <1>6, <1>b, <2>2 DEF BringUp, UpdateNetwork, InstallPaths, Syncing, TypeOK
<1>7. ASSUME NEW n \in Networks, SubmitPools(n) \/ DropPools(n) PROVE TypeOK'
  <2>1. Group(n) \subseteq batch /\ SettleWith(Group(n))
    BY <1>7 DEF Group, SubmitPools, DropPools
  <2>2. settled' \in [Docs -> 0..MaxWrites]
    BY <2>1, SettleTyped
  <2>3. {f.id : f \in Group(n)} \subseteq Pools
    BY <1>7, <1>b, <2>1 DEF SubmitPools, DropPools, Syncing
  <2> QED
    BY <1>7, <2>1, <2>2, <2>3 DEF SubmitPools, DropPools, TypeOK
<1>8. CASE HandleErr
  BY <1>8, <1>p DEF HandleErr, Advance, TypeOK
<1>9. CASE Stamp
  <2>1. last' \in [Collections -> 0..MaxTime]
    BY <1>9 DEF Stamp, StampPhase, TypeOK
  <2> QED
    BY <1>9, <1>p, <2>1 DEF Stamp, Advance, TypeOK
<1>10. ASSUME NEW f \in batch, NodePanics(f) \/ PathPanics(f) PROVE TypeOK'
  BY <1>10 DEF NodePanics, PathPanics, TypeOK
<1>11. CASE UNCHANGED vars
  BY <1>11 DEF vars, TypeOK
<1> QED
  BY <1>1, <1>2, <1>3, <1>4, <1>5, <1>6, <1>7, <1>8, <1>9, <1>10, <1>11
     DEF Next, HandleStep
-----------------------------------------------------------------------------
(* What SettleWith records: the version of each document in fs, once per   *)
(* document by BatchOf, and nothing else.                                  *)
LEMMA SettledVersions ==
    ASSUME TypeOK, BatchOf, NEW fs, fs \subseteq batch, SettleWith(fs)
    PROVE  /\ \A f \in fs : settled'[f.id] = f.version
           /\ \A d \in Docs : (\A f \in fs : f.id # d) => settled'[d] = settled[d]
<1>1. ASSUME NEW f \in fs PROVE settled'[f.id] = f.version
  <2>1. f.id \in Docs
    BY DEF TypeOK, Fetched
  <2>2. \A g \in fs : g.id = f.id => g = f
    BY DEF BatchOf
  <2>3. (CHOOSE g \in fs : g.id = f.id) = f
    BY <2>2
  <2> QED
    BY <2>1, <2>3 DEF SettleWith
<1>2. ASSUME NEW d \in Docs, \A f \in fs : f.id # d PROVE settled'[d] = settled[d]
  BY <1>2 DEF SettleWith
<1> QED
  BY <1>1, <1>2

(* Handing a part of the batch on keeps the account of the collection.     *)
LEMMA SettleCovers ==
    ASSUME TypeOK, Covering, NEW fs, fs \subseteq batch, SettleWith(fs),
           batch' = batch \ fs, UNCHANGED <<doc, last, pc, phase, late>>
    PROVE  Covering'
<1>1. BatchOf'
  BY DEF Covering, BatchOf, Present
<1>2. Accounted'
  <2> SUFFICES ASSUME pc = "handle", NEW d \in Docs, Of(d) = phase, doc[d].version > 0
               PROVE  \/ settled'[d] = doc[d].version
                      \/ \E f \in batch' : f.id = d /\ Present(f)
                      \/ d \in late
    BY DEF Accounted, Present
  <2>1. CASE \A f \in fs : f.id # d
    <3>1. settled'[d] = settled[d]
      BY <2>1, SettledVersions DEF Covering
    <3> QED
      BY <2>1, <3>1 DEF Covering, Accounted
  <2>2. ASSUME NEW f \in fs, f.id = d PROVE settled'[d] = doc[d].version \/ d \in late
    BY <2>2, SettledVersions DEF Covering, BatchOf, Present
  <2> QED
    BY <2>1, <2>2
<1>3. StampCovers'
  <2> SUFFICES ASSUME NEW d \in Docs, doc[d].version > 0, doc[d].at <= last[Of(d)]
               PROVE  settled'[d] = doc[d].version \/ d \in late
    BY DEF StampCovers
  <2>1. CASE \A f \in fs : f.id # d
    BY <2>1, SettledVersions DEF Covering, StampCovers
  <2>2. ASSUME NEW f \in fs, f.id = d PROVE settled'[d] = doc[d].version \/ d \in late
    BY <2>2, SettledVersions DEF Covering, BatchOf, Present
  <2> QED
    BY <2>1, <2>2
<1> QED
  BY <1>1, <1>2, <1>3 DEF Covering

LEMMA InitCovering == Init => Covering
BY DEF Init, Covering, BatchOf, Accounted, StampCovers

LEMMA StepCovering == TypeOK /\ Covering /\ [Next]_vars => Covering'
<1> SUFFICES ASSUME TypeOK, Covering, [Next]_vars PROVE Covering'
  OBVIOUS
<1> USE DEF store, task, registries, history
<1>1. CASE Tick
  BY <1>1 DEF Tick, Covering, BatchOf, Accounted, StampCovers, Present
<1>2. ASSUME NEW d \in Docs, NEW ok \in BOOLEAN, Write(d, ok) PROVE Covering'
  <2>1. /\ \A e \in Docs : e # d => doc'[e] = doc[e] /\ (e \in late => e \in late')
        /\ doc'[d].at = now
        /\ Syncing(Of(d)) \/ now <= last[Of(d)] => d \in late'
    BY <1>2 DEF Write, TypeOK
  <2>2. UNCHANGED <<last, pc, phase, batch, settled>>
    BY <1>2 DEF Write
  <2>3. BatchOf'
    <3> SUFFICES ASSUME NEW f \in batch
                 PROVE  f.version = doc'[f.id].version \/ f.id \in late'
      BY <2>2 DEF Covering, BatchOf, Present
    <3>1. f.id \in Docs
      BY DEF TypeOK, Fetched
    <3>2. Syncing(Of(f.id))
      BY DEF Covering, BatchOf, Syncing
    <3> QED
      BY <2>1, <3>1, <3>2 DEF Covering, BatchOf, Present
  <2>4. Accounted'
    <3> SUFFICES ASSUME pc = "handle", NEW e \in Docs, Of(e) = phase, doc'[e].version > 0
                 PROVE  \/ settled[e] = doc'[e].version
                        \/ \E f \in batch : f.id = e /\ f.version = doc'[f.id].version
                        \/ e \in late'
      BY <2>2 DEF Accounted, Present
    <3>1. CASE e = d
      BY <2>1, <3>1 DEF Syncing
    <3>2. CASE e # d
      BY <2>1, <3>2 DEF Covering, Accounted, Present
    <3> QED
      BY <3>1, <3>2
  <2>5. StampCovers'
    <3> SUFFICES ASSUME NEW e \in Docs, doc'[e].version > 0, doc'[e].at <= last[Of(e)]
                 PROVE  settled[e] = doc'[e].version \/ e \in late'
      BY <2>2 DEF StampCovers
    <3>1. CASE e = d
      BY <2>1, <3>1
    <3>2. CASE e # d
      BY <2>1, <3>2 DEF Covering, StampCovers
    <3> QED
      BY <3>1, <3>2
  <2> QED
    BY <2>3, <2>4, <2>5 DEF Covering
<1>3. CASE Query
  <2>1. UNCHANGED <<doc, last, settled>> /\ late' = late \ Selected
    BY <1>3 DEF Query
  <2>2. \A d \in Docs : doc[d].at \in Nat /\ last[Of(d)] \in Nat
    BY DEF TypeOK, Document, Of, Collections
  <2>3. pc' = "handle" => phase' = phase
    BY <1>3 DEF Query, Advance
  <2>4. \A f \in batch' : f.id \in Selected /\ f.version = doc[f.id].version
                          /\ f.valid = doc[f.id].valid
                          /\ f = [id |-> f.id, version |-> f.version, valid |-> f.valid]
    BY <1>3 DEF Query
  <2>5. Selected # {} => pc' = "handle"
    BY <1>3 DEF Query
  <2>6. BatchOf'
    <3>1. pc' # "handle" => batch' = {}
      BY <2>4, <2>5
    <3>2. \A f \in batch' : Of(f.id) = phase' /\ f.version = doc'[f.id].version
      BY <2>1, <2>3, <2>4, <2>5 DEF Selected
    <3>3. \A f, g \in batch' : f.id = g.id => f = g
      BY <2>4
    <3> QED
      BY <3>1, <3>2, <3>3 DEF BatchOf, Present
  <2>7. ASSUME NEW d \in Docs, doc[d].version > 0, doc[d].at <= last[Of(d)]
        PROVE  settled[d] = doc[d].version \/ d \in late'
    <3>1. d \notin Selected
      BY <2>2, <2>7 DEF Selected, Updated
    <3> QED
      BY <2>1, <2>7, <3>1 DEF Covering, StampCovers
  <2>8. Accounted'
    <3> SUFFICES ASSUME pc' = "handle", NEW d \in Docs, Of(d) = phase, doc[d].version > 0
                 PROVE  \/ settled[d] = doc[d].version
                        \/ \E f \in batch' : f.id = d /\ f.version = doc[f.id].version
                        \/ d \in late'
      BY <2>1, <2>3 DEF Accounted, Present
    <3>1. CASE d \in Selected
      <4> DEFINE f == [id |-> d, version |-> doc[d].version, valid |-> doc[d].valid]
      <4>1. f \in batch' /\ f.id = d /\ f.version = doc[f.id].version
        BY <1>3, <3>1 DEF Query
      <4> QED
        BY <4>1
    <3>2. CASE d \notin Selected
      BY <2>2, <2>7, <3>2 DEF Selected, Updated
    <3> QED
      BY <3>1, <3>2
  <2>9. StampCovers'
    BY <2>1, <2>7 DEF StampCovers
  <2> QED
    BY <2>6, <2>8, <2>9 DEF Covering
<1>4. ASSUME QueryErr \/ WakeUp PROVE Covering'
  <2>1. batch = {} /\ pc' # "handle"
    BY <1>4 DEF QueryErr, WakeUp, Advance, Covering, BatchOf
  <2> QED
    BY <1>4, <2>1 DEF QueryErr, WakeUp, Covering, BatchOf, Accounted, StampCovers
<1>5. ASSUME NEW f \in batch, BringUp(f) \/ UpdateNetwork(f) \/ InstallPaths(f)
      PROVE  Covering'
  <2>1. /\ SettleWith({f}) /\ batch' = batch \ {f}
        /\ UNCHANGED <<doc, last, pc, phase, late>>
    BY <1>5 DEF BringUp, UpdateNetwork, InstallPaths
  <2> QED
    BY <2>1, SettleCovers
<1>6. ASSUME NEW n \in Networks, SubmitPools(n) \/ DropPools(n) PROVE Covering'
  <2>1. /\ SettleWith(Group(n)) /\ batch' = batch \ Group(n)
        /\ UNCHANGED <<doc, last, pc, phase, late>>
    BY <1>6 DEF SubmitPools, DropPools
  <2>2. Group(n) \subseteq batch
    BY DEF Group
  <2> QED
    BY <2>1, <2>2, SettleCovers
<1>7. ASSUME NEW f \in batch, HandleErr \/ NodePanics(f) \/ PathPanics(f) PROVE Covering'
  <2>1. batch' = {} /\ pc' # "handle" /\ UNCHANGED <<doc, last, settled, late>>
    BY <1>7 DEF HandleErr, NodePanics, PathPanics, Advance
  <2> QED
    BY <2>1 DEF Covering, BatchOf, Accounted, StampCovers
<1>8. CASE Stamp
  <2>1. /\ batch = {} /\ pc = "handle" /\ batch' = {} /\ pc' # "handle"
        /\ UNCHANGED <<doc, settled, late>>
        /\ \A c \in Collections : c # phase => last'[c] = last[c]
    BY <1>8 DEF Stamp, StampPhase, Done, Advance, TypeOK
  <2>2. StampCovers'
    <3> SUFFICES ASSUME NEW d \in Docs, doc[d].version > 0, doc[d].at <= last'[Of(d)]
                 PROVE  settled[d] = doc[d].version \/ d \in late
      BY <2>1 DEF StampCovers
    <3>1. CASE Of(d) = phase
      BY <2>1, <3>1 DEF Covering, Accounted
    <3>2. CASE Of(d) # phase
      BY <2>1, <3>2 DEF Covering, StampCovers, Of, Collections
    <3> QED
      BY <3>1, <3>2
  <2> QED
    BY <2>1, <2>2 DEF Covering, BatchOf, Accounted
<1>9. CASE UNCHANGED vars
  BY <1>9 DEF vars, Covering, BatchOf, Accounted, StampCovers, Present
<1>h. CASE HandleErr
  BY <1>7, <1>h DEF HandleErr
<1> QED
  BY <1>1, <1>2, <1>3, <1>4, <1>5, <1>6, <1>7, <1>8, <1>9, <1>h DEF Next, HandleStep

(* Every reachable state is type-correct, and every document of the        *)
(* collection being synced is accounted for.                               *)
THEOREM TypeCorrect == Spec => [](TypeOK /\ Covering)
<1>1. Init => TypeOK /\ Covering
  BY InitTypes, InitCovering
<1>2. TypeOK /\ Covering /\ [Next]_vars => (TypeOK /\ Covering)'
  BY StepTypes, StepCovering DEF Covering
<1> QED
  BY <1>1, <1>2, PTL DEF Spec

(* The timestamp of a collection passes over no document but those written *)
(* while the collection was synced or in the second of the stamp:          *)
(* start_mongodb_polling.                                                  *)
THEOREM TimestampCovers == Spec => []StampCovers
<1>1. TypeOK /\ Covering => StampCovers
  BY DEF Covering
<1> QED
  BY <1>1, TypeCorrect, PTL
-----------------------------------------------------------------------------
(* Handed on once: what was dealt with stays dealt with. *)
Kept == InOrder /\ DealtWith

LEMMA InitKept == Init => Kept
BY SyncAssumption DEF Init, Kept, InOrder, Written, DealtWith

LEMMA SettleKeeps ==
    ASSUME TypeOK, BatchOf, Kept, NEW fs, fs \subseteq batch, SettleWith(fs),
           batch' = batch \ fs,
           UNCHANGED <<now, doc, writes, last, pc, phase, retry>>
    PROVE  Kept'
<1>1. ASSUME NEW d \in Docs
      PROVE  settled'[d] = settled[d] \/ \E f \in fs : f.id = d /\ settled'[d] = f.version
  BY SettledVersions
<1>2. InOrder'
  BY <1>1 DEF Kept, InOrder, Written
<1>3. DealtWith'
  <2> SUFFICES ASSUME NEW d \in Docs, doc[d].version > 0, settled'[d] = doc[d].version,
                      last[Of(d)] < doc[d].at
               PROVE  Of(d) \in retry \/ Syncing(Of(d)) \/ pc = "dead"
    BY DEF DealtWith, Syncing
  <2>1. CASE settled'[d] = settled[d]
    BY <2>1 DEF Kept, DealtWith
  <2>2. ASSUME NEW f \in fs, f.id = d PROVE Syncing(Of(d))
    BY <2>2 DEF BatchOf, Syncing
  <2> QED
    BY <1>1, <2>1, <2>2
<1> QED
  BY <1>2, <1>3 DEF Kept

LEMMA StepKept == TypeOK /\ BatchOf /\ Kept /\ [Next]_vars => Kept'
<1> SUFFICES ASSUME TypeOK, BatchOf, Kept, [Next]_vars PROVE Kept'
  OBVIOUS
<1>t. /\ now \in Nat /\ writes \in Nat
      /\ \A d \in Docs : doc[d].at \in Nat /\ doc[d].version \in Nat /\ settled[d] \in Nat
      /\ \A f \in batch : f.version \in Nat
  BY SyncAssumption DEF TypeOK, Document, Fetched
<1> USE DEF store, task, registries, history
<1>1. CASE Tick
  <2>1. now' = now + 1 /\ UNCHANGED <<doc, writes, settled, batch, last, retry, pc, phase>>
    BY <1>1 DEF Tick
  <2>2. InOrder'
    BY <1>t, <2>1 DEF Kept, InOrder, Written
  <2>3. DealtWith'
    BY <2>1 DEF Kept, DealtWith, Syncing
  <2> QED
    BY <2>2, <2>3 DEF Kept
<1>2. ASSUME NEW d \in Docs, NEW ok \in BOOLEAN, Write(d, ok) PROVE Kept'
  <2>1. /\ \A e \in Docs : e # d => doc'[e] = doc[e]
        /\ doc'[d].at = now /\ doc'[d].version = writes + 1 /\ writes' = writes + 1
    BY <1>2 DEF Write, TypeOK
  <2>2. UNCHANGED <<now, last, pc, phase, batch, settled, retry>>
    BY <1>2 DEF Write
  <2>3. Written'
    <3> SUFFICES ASSUME NEW e \in Docs
                 PROVE  doc'[e].at <= now /\ doc'[e].version <= writes' /\ settled[e] <= writes'
      BY <2>2 DEF Written
    <3>1. doc[e].at <= now /\ doc[e].version <= writes /\ settled[e] <= writes
      BY DEF Kept, InOrder, Written
    <3> QED
      BY <1>t, <2>1, <3>1
  <2>4. \A f \in batch : f.version <= writes'
    BY <1>t, <2>1 DEF Kept, InOrder
  <2>5. DealtWith'
    <3> SUFFICES ASSUME NEW e \in Docs, doc'[e].version > 0, settled[e] = doc'[e].version,
                        last[Of(e)] < doc'[e].at
                 PROVE  Of(e) \in retry \/ Syncing(Of(e)) \/ pc = "dead"
      BY <2>2 DEF DealtWith, Syncing
    <3>1. e # d
      BY <1>t, <2>1 DEF Kept, InOrder, Written
    <3> QED
      BY <2>1, <3>1 DEF Kept, DealtWith
  <2> QED
    BY <2>2, <2>3, <2>4, <2>5 DEF Kept, InOrder
<1>3. ASSUME Query \/ QueryErr \/ WakeUp PROVE Kept'
  <2>1. /\ UNCHANGED <<now, doc, writes, settled, last, retry>>
        /\ pc # "handle" /\ pc # "dead"
    BY <1>3 DEF Query, QueryErr, WakeUp
  <2>2. batch' = batch \/ \A f \in batch' : f.id \in Docs /\ f.version = doc[f.id].version
    BY <1>3 DEF Query, QueryErr, WakeUp, Selected
  <2>3. InOrder'
    BY <2>1, <2>2 DEF Kept, InOrder, Written
  <2>4. DealtWith'
    BY <2>1 DEF Kept, DealtWith, Syncing
  <2> QED
    BY <2>3, <2>4 DEF Kept
<1>4. ASSUME NEW f \in batch, BringUp(f) \/ UpdateNetwork(f) \/ InstallPaths(f)
      PROVE  Kept'
  <2>1. /\ SettleWith({f}) /\ batch' = batch \ {f}
        /\ UNCHANGED <<now, doc, writes, last, pc, phase, retry>>
    BY <1>4 DEF BringUp, UpdateNetwork, InstallPaths
  <2> QED
    BY <2>1, SettleKeeps
<1>5. ASSUME NEW n \in Networks, SubmitPools(n) \/ DropPools(n) PROVE Kept'
  <2>1. /\ SettleWith(Group(n)) /\ batch' = batch \ Group(n)
        /\ UNCHANGED <<now, doc, writes, last, pc, phase, retry>>
    BY <1>5 DEF SubmitPools, DropPools
  <2>2. Group(n) \subseteq batch
    BY DEF Group
  <2> QED
    BY <2>1, <2>2, SettleKeeps
<1>6. CASE HandleErr
  <2>1. /\ UNCHANGED <<now, doc, writes, settled, last>>
        /\ batch' = {} /\ retry' = retry \cup {phase} /\ pc = "handle"
    BY <1>6 DEF HandleErr
  <2>2. InOrder'
    BY <2>1 DEF Kept, InOrder, Written
  <2>3. DealtWith'
    BY <2>1 DEF Kept, DealtWith, Syncing
  <2> QED
    BY <2>2, <2>3 DEF Kept
<1>7. CASE Stamp
  <2>1. /\ UNCHANGED <<now, doc, writes, settled>>
        /\ batch' = {} /\ retry' = retry \ {phase} /\ pc = "handle"
        /\ last'[phase] = now
        /\ \A c \in Collections : c # phase => last'[c] = last[c]
    BY <1>7 DEF Stamp, StampPhase, TypeOK
  <2>2. InOrder'
    BY <2>1 DEF Kept, InOrder, Written
  <2>3. DealtWith'
    <3> SUFFICES ASSUME NEW d \in Docs, doc[d].version > 0, settled[d] = doc[d].version,
                        last'[Of(d)] < doc[d].at
                 PROVE  Of(d) \in retry \ {phase}
      BY <2>1 DEF DealtWith
    <3>1. Of(d) # phase
      BY <1>t, <2>1 DEF Kept, InOrder, Written
    <3>2. last'[Of(d)] = last[Of(d)]
      BY <2>1, <3>1 DEF Of, Collections
    <3> QED
      BY <2>1, <3>1, <3>2 DEF Kept, DealtWith, Syncing
  <2> QED
    BY <2>2, <2>3 DEF Kept
<1>8. ASSUME NEW f \in batch, NodePanics(f) \/ PathPanics(f) PROVE Kept'
  <2>1. UNCHANGED <<now, doc, writes, settled>> /\ batch' = {} /\ pc' = "dead"
    BY <1>8 DEF NodePanics, PathPanics
  <2> QED
    BY <2>1 DEF Kept, InOrder, Written, DealtWith
<1>9. CASE UNCHANGED vars
  BY <1>9 DEF vars, Kept, InOrder, Written, DealtWith, Syncing
<1> QED
  BY <1>1, <1>2, <1>3, <1>4, <1>5, <1>6, <1>7, <1>8, <1>9 DEF Next, HandleStep

(* "only fetches documents updated since last sync": handle_*_update is    *)
(* given a version it has dealt with only after an error kept back the     *)
(* collection's timestamp.                                                 *)
THEOREM VersionsHandedOnOnce == Spec => HandedOnOnce
<1> DEFINE Again == \A f \in batch' \ batch : f.version = settled[f.id] => phase \in retry
<1>1. TypeOK /\ Covering /\ Kept /\ [Next]_vars => Again
  <2> SUFFICES ASSUME TypeOK, Kept, [Next]_vars, NEW f \in batch' \ batch,
                      f.version = settled[f.id]
               PROVE  phase \in retry
    OBVIOUS
  <2>1. CASE Query
    <3>1. PICK d \in Selected : f = [id |-> d, version |-> doc[d].version, valid |-> doc[d].valid]
      BY <2>1 DEF Query
    <3>2. /\ d \in Docs /\ Of(d) = phase /\ doc[d].version > 0
          /\ settled[d] = doc[d].version /\ last[Of(d)] < doc[d].at
      BY <3>1 DEF Selected, Updated, TypeOK, Document
    <3> QED
      BY <2>1, <3>2 DEF Kept, DealtWith, Query, Syncing
  <2>2. CASE ~Query
    <3>1. batch' \subseteq batch
      BY <2>2 DEF Next, HandleStep, vars, task, Tick, Write, QueryErr, WakeUp, BringUp,
         UpdateNetwork, InstallPaths, PathPanics, SubmitPools, DropPools, HandleErr,
         Stamp, NodePanics
    <3> QED
      BY <3>1
  <2> QED
    BY <2>1, <2>2
<1>2. Init => TypeOK /\ Covering /\ Kept
  BY InitTypes, InitCovering, InitKept
<1>3. TypeOK /\ Covering /\ Kept /\ [Next]_vars => (TypeOK /\ Covering /\ Kept)'
  BY StepTypes, StepCovering, StepKept DEF Covering
<1>4. TypeOK /\ Covering /\ Kept /\ [Next]_vars => [Again]_vars
  BY <1>1
<1> QED
  BY <1>2, <1>3, <1>4, PTL DEF Spec, HandedOnOnce
=============================================================================
