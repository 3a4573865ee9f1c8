--------------------------- MODULE MCRuntimeLocks ---------------------------
(* Instances of RuntimeLocks for TLC. *)
EXTENDS RuntimeLocks, TLC

ChangeAll == {ChangeKinds}
RpcsOnly == {{"rpcs"}}
=============================================================================
