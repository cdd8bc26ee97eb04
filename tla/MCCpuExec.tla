----------------------------- MODULE MCCpuExec -----------------------------
(* Instances of CpuExec for TLC. *)
EXTENDS CpuExec, TLC

CONSTANTS e1, e2

MCExprs == {e1, e2}
=============================================================================
