------------------------------ MODULE SaleRecord ------------------------------
(***************************************************************************)
(* What the two ledgers a sale is posted to know of it: the columns of     *)
(* sales.Sale that sales/services.py and employees/services.py read when   *)
(* they post or undo a row.  The sales are entered by hand and paid in     *)
(* cash or to an employee; on-account sales are in CustomerAccount, sales  *)
(* charged through a provider in ChargeSale.                               *)
(***************************************************************************)
EXTENDS Integers

CONSTANTS
    NumSales,   \* bound: sales ever entered
    Prices      \* selling prices that may be entered

ASSUME SalesAssumption == NumSales \in Nat
ASSUME PricesAssumption == Prices \subseteq Nat \ {0}

Sale == 1..NumSales

VARIABLE sale   \* the row of each sale

\* status is "none" before the sale exists and "deleted" after.
NoSale == [status |-> "none", newSim |-> FALSE, viaEmployee |-> FALSE,
           snapshot |-> 0, price |-> 0]

SaleRow ==
    [status: {"none", "pending", "paid", "cancelled", "deleted"},
     newSim: BOOLEAN, viaEmployee: BOOLEAN, snapshot: Nat, price: Prices \cup {0}]

Exists(s) == sale[s].status \notin {"none", "deleted"}

\* Sales are numbered in the order they are entered.
NextSale(s) == sale[s].status = "none" /\ \A t \in 1..(s - 1) : sale[t].status # "none"

MovesTo(s, status) == sale' = [sale EXCEPT ![s].status = status]

\* Every column of a sale that is gone is forgotten.
Vanishes(s) == sale' = [sale EXCEPT ![s] = [NoSale EXCEPT !.status = "deleted"]]
=============================================================================
