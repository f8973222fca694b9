----------------------------- MODULE MCSaleLedgers -----------------------------
(* Instances of SaleLedgers: see MCSaleLedgers.cfg and the MCBooks cfgs.     *)
EXTENDS SaleLedgers
Withdrawal == {-1}
=============================================================================
