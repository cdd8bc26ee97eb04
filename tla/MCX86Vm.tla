------------------------------ MODULE MCX86Vm ------------------------------
(* Instance of X86Vm for TLC: the two levels of the 32-bit build. *)
EXTENDS X86Vm, TLC

CONSTANTS c1, c2, a1, a2, u1, u2, b1, b2

MCSpaceOf  == (u1 :> a1) @@ (u2 :> a2)
MCBootTask == (c1 :> b1) @@ (c2 :> b2)
MCRuns     == (c1 :> {b1, u1, u2}) @@ (c2 :> {b2, u2})
MCVA       == {<<1, 0>>, <<1, 1>>}
=============================================================================
