---------------------------- MODULE MCStoreOrder ----------------------------
(* Small instances of StoreOrder for TLC. *)
EXTENDS StoreOrder
=============================================================================
