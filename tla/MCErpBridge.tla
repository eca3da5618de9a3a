---------------------------- MODULE MCErpBridge ----------------------------
(* TLC instances of ErpBridge: see the .cfg files for the constants. *)
EXTENDS ErpBridge
=============================================================================
