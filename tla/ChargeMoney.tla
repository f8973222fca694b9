---------------------------- MODULE ChargeMoney ----------------------------
(***************************************************************************)
(* What a charge-and-record sale promises about money, without jobs,       *)
(* workers, checks or rows (the money rules at the head of                 *)
(* sales/charging.py): the supplier's money for a sale is held once, at    *)
(* most one charge request leaves while it is held, an outcome returns the *)
(* money only when no request left or the one that did is void, and once   *)
(* returned the sale is never charged.  Management alone may refund a sale *)
(* whose charge went out.                                                  *)
(***************************************************************************)
CONSTANT Sale

VARIABLES
    money,   \* of each sale: unused, held, returned (by an outcome), refunded
    request  \* of each sale: none, out (may be carried out), void

vars == <<money, request>>

TypeOK ==
    /\ money \in [Sale -> {"unused", "held", "returned", "refunded"}]
    /\ request \in [Sale -> {"none", "out", "void"}]

Init ==
    /\ money = [s \in Sale |-> "unused"]
    /\ request = [s \in Sale |-> "none"]

Hold(s) ==
    /\ money[s] = "unused"
    /\ money' = [money EXCEPT ![s] = "held"]
    /\ UNCHANGED request

Send(s) ==
    /\ money[s] = "held"
    /\ request[s] = "none"
    /\ request' = [request EXCEPT ![s] = "out"]
    /\ UNCHANGED money

BecomesVoid(s) ==
    /\ request[s] = "out"
    /\ request' = [request EXCEPT ![s] = "void"]
    /\ UNCHANGED money

Return(s) ==
    /\ money[s] = "held"
    /\ request[s] # "out"
    /\ money' = [money EXCEPT ![s] = "returned"]
    /\ UNCHANGED request

\* By hand, also for a sale an outcome has returned (it is deleted then).
Refund(s) ==
    /\ money[s] \in {"held", "returned"}
    /\ money' = [money EXCEPT ![s] = "refunded"]
    /\ UNCHANGED request

Next == \E s \in Sale :
    Hold(s) \/ Send(s) \/ BecomesVoid(s) \/ Return(s) \/ Refund(s)

Spec == Init /\ [][Next]_vars

\* Money that an outcome returned was not charged, and will not be.
ReturnedIsUncharged ==
    \A s \in Sale : money[s] = "returned" => request[s] # "out"
=============================================================================
