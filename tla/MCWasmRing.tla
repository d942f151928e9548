----------------------------- MODULE MCWasmRing -----------------------------
(* Small instances of WasmRing for TLC. *)
EXTENDS WasmRing
=============================================================================
