--------------------------- MODULE MCAndroidMemory ---------------------------
(* Two Writers with regions of different lengths, two Readers. *)
EXTENDS AndroidMemory, TLC

CONSTANTS w1, w2, r1, r2

TwoSizes == (w1 :> 1) @@ (w2 :> 2) @@ (r1 :> 1) @@ (r2 :> 2)
=============================================================================
