----------------------------- MODULE WatchList -----------------------------
(***************************************************************************)
(* What the watchpoint pool promises to the debugger's commands, without   *)
(* the nodes, links and strings it is built from: a bounded set of live    *)
(* watchpoints, each under a number that is never used again.              *)
(***************************************************************************)
EXTENDS Integers, FiniteSets, Functions

CONSTANTS
  NR_WP,   \* how many watchpoints the pool holds
  Exprs,   \* the expressions a user may watch
  MaxSeq   \* bound of the model: how many numbers are handed out

VARIABLES
  seq,     \* the number the next watchpoint gets
  active,  \* live number -> the expression it watches
  proc     \* "up", "exit" (left by return) or "abort" (killed)

vars == <<seq, active, proc>>

Init ==
  /\ seq = 0
  /\ active = [n \in {} |-> NR_WP]
  /\ proc = "up"

(* w EXPR: the watchpoint gets the next number. *)
Set(e) ==
  /\ proc = "up"
  /\ seq < MaxSeq
  /\ Cardinality(DOMAIN active) < NR_WP
  /\ active' = [n \in DOMAIN active \cup {seq} |-> IF n = seq THEN e ELSE active[n]]
  /\ seq' = seq + 1
  /\ UNCHANGED proc

(* w EXPR with every node in use: the assertion kills the process. *)
Exhausted ==
  /\ proc = "up"
  /\ Cardinality(DOMAIN active) = NR_WP
  /\ proc' = "abort"
  /\ UNCHANGED <<seq, active>>

(* d N: exactly the watchpoint N goes, nothing else changes. *)
Delete(n) ==
  /\ proc = "up"
  /\ n \in DOMAIN active
  /\ active' = Restrict(active, DOMAIN active \ {n})
  /\ UNCHANGED <<seq, proc>>

(* q: with live watchpoints the outcome is undefined, see WatchPool. *)
Quit ==
  /\ proc = "up"
  /\ proc' \in IF DOMAIN active = {} THEN {"exit"} ELSE {"exit", "abort"}
  /\ UNCHANGED <<seq, active>>

Next ==
  \/ \E e \in Exprs : Set(e)
  \/ Exhausted
  \/ \E n \in 0 .. MaxSeq : Delete(n)
  \/ Quit

Spec == Init /\ [][Next]_vars
=============================================================================
