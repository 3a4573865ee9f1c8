---------------------------- MODULE MCMongoSync ----------------------------
(* Small instances of MongoSync for TLC: two networks, a pool on the first *)
(* and a path document over both.                                          *)
EXTENDS MongoSync, TLC

CONSTANTS n1, n2, p1, r1

OnBoth == p1 :> {n1} @@ r1 :> {n1, n2}
OnNothing == <<>>
=============================================================================
