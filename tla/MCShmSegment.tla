---------------------------- MODULE MCShmSegment ----------------------------
(* Instances of ShmSegment: two producers that ask for different sizes, and *)
(* processes that all ask for the same size.                                *)
EXTENDS ShmSegment, TLC

CONSTANTS p1, p2, c1, c2

TwoSizes == (p1 :> 2) @@ (p2 :> 1) @@ (c1 :> 2)
OneSize  == [p \in Procs |-> 2]
=============================================================================
