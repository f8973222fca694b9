------------------------------ MODULE MCSimStock ------------------------------
(***************************************************************************)
(* Model checking of SimStock: one customer, one sale on account and one in cash, one known serial.  *)
(***************************************************************************)
EXTENDS SimStock
=============================================================================
