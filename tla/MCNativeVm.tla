----------------------------- MODULE MCNativeVm -----------------------------
(* Instances of NativeVm for TLC. *)
EXTENDS NativeVm, TLC

CONSTANTS a1, a2, u1, u2, b0, b1, k

MCBootTask == (0 :> b0) @@ (1 :> b1)
MCRuns     == (0 :> {b0, u1, u2}) @@ (1 :> {b1, u2, k})

\* A space for each user task, and one for both.
MCSpaceOf  == (u1 :> a1) @@ (u2 :> a2)
MCOneSpace == (u1 :> a1) @@ (u2 :> a1)

\* Traps nest in one task of each kind; or in none.
MCDepth    == (b0 :> 2) @@ (u1 :> 2) @@ (u2 :> 1) @@ (b1 :> 1) @@ (k :> 1)
MCDepthOne == [t \in Tasks |-> 1]
=============================================================================
