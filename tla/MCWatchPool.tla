---------------------------- MODULE MCWatchPool ----------------------------
(* Instances of WatchPool for TLC. *)
EXTENDS WatchPool, TLC

CONSTANTS e1, e2

MCExprs == {e1, e2}
=============================================================================
