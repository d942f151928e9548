--------------------------- MODULE MCBlockingRing ---------------------------
(* Small instances of BlockingRing for TLC. *)
EXTENDS BlockingRing
=============================================================================
