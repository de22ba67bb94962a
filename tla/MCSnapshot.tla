----------------------------- MODULE MCSnapshot -----------------------------
(* Four positions: p1 straddles pool A's price, p2 lies above it, p3       *)
(* belongs to pool B, which has no final-tick row (a nil current price),    *)
(* and p4 to pool C, whose row has a NULL final tick.                       *)
EXTENDS Snapshot

CONSTANTS p1, p2, p3, p4, A, B, C

MCPositions == {p1, p2, p3, p4}
MCPools == {A, B, C}
MCPoolOf == (p1 :> A) @@ (p2 :> A) @@ (p3 :> B) @@ (p4 :> C)
MCLowerOf == (p1 :> -1) @@ (p2 :> 1) @@ (p3 :> -1) @@ (p4 :> -1)
MCUpperOf == (p1 :> 1) @@ (p2 :> 2) @@ (p3 :> 2) @@ (p4 :> 1)
MCFinalTick == (A :> [kind |-> "int64", i |-> 0]) @@ (C :> Null)
=============================================================================
