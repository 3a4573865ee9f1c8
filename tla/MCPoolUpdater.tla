--------------------------- MODULE MCPoolUpdater ---------------------------
(* Small instances of PoolUpdater for TLC. *)
EXTENDS PoolUpdater, TLC

(* Pools are interchangeable; used by the safety runs only. *)
PoolSymmetry == Permutations(Pools)

(* For progress: two blocks or two submissions, but not both.  Neither the *)
(* chain nor the poller is under an obligation that this could break.  As  *)
(* the pools are interchangeable, one may always be the first.             *)
FewEvents ==
    /\ head' + submitted' <= 3
    /\ submitted' = 1 => admPool' = CHOOSE p \in Pools : TRUE
=============================================================================
