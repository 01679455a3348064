------------------------------ MODULE MCBulkhead ------------------------------
(* TLC instances of Bulkhead.                                                 *)
EXTENDS Bulkhead, TLC
=============================================================================
