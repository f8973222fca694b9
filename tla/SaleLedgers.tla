------------------------------ MODULE SaleLedgers ------------------------------
(***************************************************************************)
(* The services that move a sale and post to the two ledgers in the same   *)
(* transaction: SupplierLedger (every sale) and EmployeeLedger (a sale     *)
(* whose cash an employee took).                                           *)
(*                                                                         *)
(* Sources: sales/services.py and the edit views of sales/views.           *)
(*                                                                         *)
(* A request that is not over when its first transaction ends, or that     *)
(* reads what it will write before it holds the lock, is in request:       *)
(* deleting a sale paid to an employee, and the employee's edit, which     *)
(* posts the new price to the employee's ledger in a second transaction.   *)
(* Overlaps names the half-done requests other operations may run beside;  *)
(* a request of a kind that is not named runs alone.                       *)
(***************************************************************************)
EXTENDS SupplierLedger, EmployeeLedger

CONSTANT Overlaps   \* of Kinds: the half-done requests others may run beside

Kinds == {"reversal", "sweep", "company form", "employee form"}

ASSUME OverlapsAssumption == Overlaps \subseteq Kinds

VARIABLES
    request,    \* what an unfinished request on a sale has still to do
    unposted    \* auxiliary: sales whose price was edited after it was posted

NoRequest == [op |-> "none", sale |-> 0, price |-> 0]

vars == <<sale, supplierVars, employeeVars, request, unposted>>

TypeOK ==
    /\ sale \in [Sale -> SaleRow]
    /\ SupplierTypeOK
    /\ EmployeeTypeOK
    /\ request \in [op: {"none", "delete", "edited", "sync"},
                    sale: 0..NumSales, price: Prices \cup {0}]
    /\ request.op # "none" => request.sale \in Sale
    /\ request.op \in {"delete", "sync"} <=> undoing # <<>>
    /\ unposted \subseteq Sale

Init ==
    /\ sale = [s \in Sale |-> NoSale]
    /\ SupplierInit
    /\ EmployeeInit
    /\ request = NoRequest /\ unposted = {}

\* The requests that have begun and not ended.
Running ==
    (IF request.op = "none" THEN {} ELSE {"reversal"})
        \cup (IF sweep.step = "none" THEN {} ELSE {"sweep"})
        \cup (IF companyForm = <<>> THEN {} ELSE {"company form"})
        \cup (IF employeeForm = <<>> THEN {} ELSE {"employee form"})

MayRun == Running \subseteq Overlaps
MayBegin(kind) == MayRun /\ (Running = {} \/ kind \in Overlaps)

\* Deleting a sale keeps its row and the company's row locked while it waits
\* for the employee's.
SaleFree(s) == request.op = "delete" => request.sale # s
CompanyFree == request.op # "delete"

-----------------------------------------------------------------------------
\* A sale's life.

\* create_sale
EnterSale(s, newSim, viaEmployee, price) ==
    /\ MayRun /\ CompanyFree /\ opened /\ NextSale(s)
    /\ sale' = [sale EXCEPT ![s] =
          [status |-> "pending", newSim |-> newSim, viaEmployee |-> viaEmployee,
           snapshot |-> EffectiveCost(newSim), price |-> price]]
    /\ PostDeduction(s, newSim)
    /\ UNCHANGED <<employeeVars, request, unposted>>

\* mark_sale_paid; the stock of SIMs is in SimStock.
PaySale(s) ==
    /\ MayRun /\ SaleFree(s) /\ sale[s].status = "pending"
    /\ MovesTo(s, "paid")
    /\ IF sale[s].viaEmployee
       THEN PostSalesPayment(s) /\ unposted' = unposted \ {s}
       ELSE UNCHANGED <<employeeVars, unposted>>
    /\ UNCHANGED <<supplierVars, request>>

\* cancel_sale: the employee who took the cash still owes it.
CancelSale(s) ==
    /\ MayRun /\ SaleFree(s) /\ CompanyFree /\ sale[s].status \in {"pending", "paid"}
    /\ MovesTo(s, "cancelled")
    /\ PostRestoration(s)
    /\ UNCHANGED <<employeeVars, request, unposted>>

\* delete_sale_permanently, for a sale paid in cash...
DeleteSale(s) ==
    /\ MayRun /\ SaleFree(s) /\ CompanyFree /\ Exists(s) /\ ~sale[s].viaEmployee
    /\ UndoPostings(s)
    /\ Vanishes(s)
    /\ UNCHANGED <<employeeVars, request, unposted>>

\* ... and for a sale paid to an employee.
DeleteBegins(s) ==
    /\ MayBegin("reversal") /\ request.op = "none" /\ Exists(s) /\ sale[s].viaEmployee
    /\ UndoReads(s)
    /\ request' = [op |-> "delete", sale |-> s, price |-> 0]
    /\ UNCHANGED <<sale, supplierVars, unposted>>

DeleteEnds ==
    LET s == request.sale IN
    /\ request.op = "delete" /\ request' = NoRequest
    /\ UndoPostings(s) /\ UndoWrites(s)
    /\ Vanishes(s)
    /\ UNCHANGED unposted

\* A row deleted in the admin or from a shell: nothing else is undone.
EraseSale(s) ==
    /\ MayRun /\ SaleFree(s) /\ Exists(s)
    /\ Vanishes(s)
    /\ UNCHANGED <<supplierVars, employeeVars, request, unposted>>

\* sale_edit: the employee's row is not posted again.
ManagementEdits(s, price) ==
    /\ MayRun /\ SaleFree(s) /\ Exists(s) /\ price # sale[s].price
    /\ sale' = [sale EXCEPT ![s].price = price]
    /\ unposted' = unposted \cup {s}
    /\ UNCHANGED <<supplierVars, employeeVars, request>>

\* employee_sale_edit: update_sale_fields is one transaction ...
EmployeeEdits(s, price) ==
    /\ MayBegin("reversal") /\ request.op = "none" /\ sale[s].status \in {"pending", "paid"}
    /\ sale' = [sale EXCEPT ![s].price = price]
    /\ unposted' = IF price # sale[s].price THEN unposted \cup {s} ELSE unposted
    /\ request' = IF sale[s].viaEmployee
                  THEN [op |-> "edited", sale |-> s, price |-> 0] ELSE request
    /\ UNCHANGED <<supplierVars, employeeVars>>

\* ... the sale is read again, and if it is paid its row is read ...
EditReads ==
    LET s == request.sale IN
    /\ request.op = "edited"
    /\ IF sale[s].status = "paid"
       THEN /\ UndoReads(s)
            /\ request' = [op |-> "sync", sale |-> s, price |-> sale[s].price]
       ELSE request' = NoRequest /\ UNCHANGED employeeVars
    /\ UNCHANGED <<sale, supplierVars, unposted>>

\* The second transaction is not made: the process died, the sale has gone
\* (the new row would refer to it), or the connection failed.
EditDies ==
    /\ request.op \in {"edited", "sync"}
    /\ request' = NoRequest /\ undoing' = <<>>
    /\ UNCHANGED <<sale, supplierVars, employee, profileVars, employeeRows, employeeForm, unposted>>

\* Mutant of EditPosts: the row is found and kept.
EditKeeps ==
    /\ request.op = "sync" /\ request' = NoRequest /\ Exists(request.sale)
    /\ undoing' = <<>> /\ unposted' = unposted \ {request.sale}
    /\ UNCHANGED <<sale, supplierVars, employee, profileVars, employeeRows, employeeForm>>

\* ... and posted again in a second transaction.
EditPosts ==
    /\ request.op = "sync" /\ request' = NoRequest /\ Exists(request.sale)
    /\ RepostWrites(request.sale, request.price)
    /\ unposted' = unposted \ {request.sale}
    /\ UNCHANGED <<sale, supplierVars>>

SaleStep ==
    \/ \E s \in Sale, newSim \in BOOLEAN, via \in BOOLEAN, price \in Prices :
          EnterSale(s, newSim, via, price)
    \/ \E s \in Sale :
          \/ PaySale(s)
          \/ CancelSale(s)
          \/ DeleteSale(s)
          \/ DeleteBegins(s)
          \/ EraseSale(s)
    \/ \E s \in Sale, price \in Prices :
          \/ ManagementEdits(s, price)
          \/ EmployeeEdits(s, price)
    \/ DeleteEnds
    \/ EditReads
    \/ EditPosts
    \/ EditDies

-----------------------------------------------------------------------------
\* The operations of one ledger.

supplierAlone == <<sale, employeeVars, request, unposted>>
employeeAlone == <<sale, supplierVars, request, unposted>>

\* The company is created by one request, the rest runs beside others.
SupplierStep ==
    \/ \E amount \in Openings : OpenCompany(amount) /\ UNCHANGED supplierAlone
    \/ \E k \in FreeRow(manual, MaxManual), amount \in Corrections :
          MayRun /\ CompanyFree /\ Correct(k, amount) /\ UNCHANGED supplierAlone
    \/ \E p \in Packages, c \in Chips : MayRun /\ Reprice(p, c) /\ UNCHANGED supplierAlone
    \/ MayBegin("sweep") /\ SweepReadsSales /\ UNCHANGED supplierAlone
    \/ SweepReadsRows /\ UNCHANGED supplierAlone
    \/ CompanyFree /\ SweepApplies /\ UNCHANGED supplierAlone
    \/ MayBegin("company form") /\ CompanyFormOpens /\ UNCHANGED supplierAlone
    \/ \E amount \in Openings :
          CompanyFree /\ CompanyFormSaves(amount) /\ UNCHANGED supplierAlone

EmployeeStep ==
    \/ \E m \in Month : MayRun /\ AccrueSalary(m) /\ UNCHANGED employeeAlone
    \/ \E m \in Month : MayRun /\ DeleteExpense(m) /\ UNCHANGED employeeAlone
    \/ \E p \in 1..NumPayments, amount \in Handed :
          MayRun /\ HandPayment(p, amount) /\ UNCHANGED employeeAlone
    \/ \E k \in FreeRow(adjustRow, MaxAdjustments), amount \in Adjustments :
          MayRun /\ Adjust(k, amount) /\ UNCHANGED employeeAlone
    \/ \E s \in Sale : MayRun /\ DeleteSaleRow(s) /\ UNCHANGED employeeAlone
    \/ \E m \in Month : MayRun /\ DeleteSalaryRow(m) /\ UNCHANGED employeeAlone
    \/ \E p \in 1..NumPayments : MayRun /\ DeletePayment(p) /\ UNCHANGED employeeAlone
    \/ \E k \in 1..MaxAdjustments : MayRun /\ DeleteAdjustment(k) /\ UNCHANGED employeeAlone
    \/ MayBegin("employee form") /\ EmployeeFormOpens /\ UNCHANGED employeeAlone
    \/ \E amount \in Salaries, isActive \in BOOLEAN :
          EmployeeFormSaves(amount, isActive) /\ UNCHANGED employeeAlone

Next == SaleStep \/ SupplierStep \/ EmployeeStep

Spec == Init /\ [][Next]_vars

-----------------------------------------------------------------------------
\* Properties.

\* The supplier's balance is what the ledger's rows add up to, but for the row
\* a sweep leaves: that one records a refund whose rows it has deleted.
CompanyBalanceExplained == company = Postings

\* A sale that stands has its cost deducted and nothing put back: no sweep, no
\* cancellation and no edit of prices has touched its rows.
StandingSaleIsDeducted ==
    \A s \in Sale : sale[s].status \in {"pending", "paid"} =>
        deduction[s] > 0 /\ restoration[s] = 0

\* Cancelling a sale without a new SIM puts back what entering it deducted,
\* whatever the product and the line cost by then.
OrdinaryCancelRestoresDeduction ==
    \A s \in Sale : sale[s].status = "cancelled" /\ ~sale[s].newSim =>
        restoration[s] = deduction[s]

\* The employee's balance is what the rows add up to (compute_balance_from_ledger).
EmployeeBalanceExplained == employee = EmployeePostings

\* What the employee owes for a sale is its price, unless an edit has not
\* (or not yet) posted it: the management page never does, the employee page
\* does in a second transaction.
EmployeeHoldsThePrice ==
    \A s \in Sale \ unposted : sale[s].status = "paid" /\ saleRow[s] # 0 =>
        saleRow[s] = -sale[s].price

\* An accrued salary's expense does not outlive the accrual.
ExpenseHasItsSalary == \A m \in Month : expensed[m] => salaryRow[m] > 0

-----------------------------------------------------------------------------
\* What the repository says and the code does not do.

\* cancel_sale: "Restore exactly what was deducted at creation".
CancelRestoresDeduction ==
    \A s \in Sale : sale[s].status = "cancelled" => restoration[s] = deduction[s]

\* ledger_balance_snapshots: "Running supplier balance before/after each ledger
\* row": after the last row it is the supplier's balance.
StatementEndsAtBalance == opened => StatementBalance = company
=============================================================================
