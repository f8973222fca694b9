---------------------------- MODULE SupplierLedger ----------------------------
(***************************************************************************)
(* The balance with one supplier and the ledger that explains it: the cost *)
(* a sale deducts, what cancelling or deleting the sale puts back, manual  *)
(* deposits and adjustments, the opening balance, and the sweep of rows    *)
(* whose sale is gone.                                                     *)
(*                                                                         *)
(* Sources: sales/services.py, sales/pricing.py, companies/statement.py    *)
(* and the company form of companies/views.py.                             *)
(*                                                                         *)
(* A service is one transaction that locks the company's row before it     *)
(* posts: one action.  Two things read without the lock and write later:   *)
(* the company form, which saves every column of the row it read, and the  *)
(* sweep, which lists the sales that exist, then the rows that have none,  *)
(* and takes the lock after that.                                          *)
(* Packages cost something, so an amount of 0 stands for "no row".         *)
(***************************************************************************)
EXTENDS SaleRecord, LedgerSum, Sequences

CONSTANTS
    Packages,   \* Product.cost_price values a package may be given
    Chips,      \* ProductLine.estimated_unit_cost values, 0 for none
    Openings,   \* opening balances a company may be created with
    Corrections,\* signed amounts of manual deposits and adjustments
    MaxManual   \* bound: manual rows

ASSUME CostsAssumption == Packages \subseteq Nat \ {0} /\ Chips \subseteq Nat
ASSUME CorrectionsAssumption ==
    Openings \subseteq Int /\ Corrections \subseteq Int \ {0} /\ MaxManual \in Nat

VARIABLES
    company,     \* Company.current_balance
    opening,     \* Company.opening_balance
    openingRow,  \* amount of the OPENING_BALANCE row
    deduction,   \* amount of each sale's DEDUCTION row, 0 for none
    restoration, \* amount of each sale's CANCELLATION row, 0 for none
    manual,      \* signed amounts of the MANUAL deposits and adjustments
    audits,      \* total of the MANUAL rows the sweep has left
    package,     \* the product's current cost_price
    chip,        \* the line's current estimated_unit_cost
    opened,      \* has the company been created?
    companyForm, \* <<the balance the company form has read>>, <<>> when closed
    sweep        \* what the sweep has read so far

rowVars == <<openingRow, deduction, restoration, manual, audits>>
costVars == <<package, chip>>
halfVars == <<companyForm, sweep>>
supplierVars == <<company, opening, rowVars, costVars, opened, halfVars>>

NoRows == [s \in Sale |-> 0]
NoSweep == [step |-> "none", known |-> {}, debit |-> NoRows, credit |-> NoRows]

SupplierTypeOK ==
    /\ company \in Int /\ opening \in Int /\ openingRow \in Int /\ audits \in Int
    /\ deduction \in [Sale -> Nat] /\ restoration \in [Sale -> Nat]
    /\ manual \in [1..MaxManual -> Int]
    /\ package \in Packages /\ chip \in Chips /\ opened \in BOOLEAN
    /\ companyForm \in Seq(Int) /\ Len(companyForm) <= 1
    /\ sweep \in [step: {"none", "sales", "rows"}, known: SUBSET Sale,
                  debit: [Sale -> Nat], credit: [Sale -> Nat]]

SupplierInit ==
    /\ company = 0 /\ opening = 0 /\ openingRow = 0 /\ audits = 0
    /\ deduction = NoRows /\ restoration = NoRows
    /\ manual = [k \in 1..MaxManual |-> 0]
    /\ package \in Packages /\ chip \in Chips
    /\ opened = FALSE /\ companyForm = <<>> /\ sweep = NoSweep

-----------------------------------------------------------------------------
\* sales/pricing.py, in whole packages: no eSIM extra, no partial days.

\* effective_cost_for_product
EffectiveCost(newSim) == package + (IF newSim THEN chip ELSE 0)

\* provider_comparable_cost: the chip is our own stock, and is taken out when
\* today's prices say that it is in the snapshot.
ProviderCost(newSim, snapshot) ==
    IF newSim /\ chip > 0 /\ package + chip = snapshot
    THEN snapshot - chip ELSE snapshot

-----------------------------------------------------------------------------
\* What the services post.

\* company_create and initialize_company_opening_balance.
OpenCompany(amount) ==
    /\ ~opened /\ opened' = TRUE
    /\ opening' = amount /\ openingRow' = openingRow + amount /\ company' = company + amount
    /\ UNCHANGED <<deduction, restoration, manual, audits, costVars, halfVars>>

\* create_sale
PostDeduction(s, newSim) ==
    LET cost == ProviderCost(newSim, EffectiveCost(newSim)) IN
    /\ deduction' = [deduction EXCEPT ![s] = cost]
    /\ company' = company - cost
    /\ UNCHANGED <<opening, openingRow, restoration, manual, audits, costVars, opened, halfVars>>

\* Mutant of PostRestoration: what the sale would cost today.
RestoreTodaysCost(s) ==
    LET cost == ProviderCost(sale[s].newSim, EffectiveCost(sale[s].newSim)) IN
    /\ restoration[s] = 0
    /\ restoration' = [restoration EXCEPT ![s] = cost]
    /\ company' = company + cost
    /\ UNCHANGED <<opening, openingRow, deduction, manual, audits, costVars, opened, halfVars>>

\* cancel_sale: the cost is computed again, from today's prices.
PostRestoration(s) ==
    LET cost == ProviderCost(sale[s].newSim, sale[s].snapshot) IN
    /\ restoration[s] = 0
    /\ restoration' = [restoration EXCEPT ![s] = cost]
    /\ company' = company + cost
    /\ UNCHANGED <<opening, openingRow, deduction, manual, audits, costVars, opened, halfVars>>

\* Mutant of UndoPostings: the cancellation is forgotten.
UndoDeduction(s) ==
    /\ company' = company + deduction[s]
    /\ deduction' = [deduction EXCEPT ![s] = 0]
    /\ restoration' = [restoration EXCEPT ![s] = 0]
    /\ UNCHANGED <<opening, openingRow, manual, audits, costVars, opened, halfVars>>

\* delete_sale_permanently: both rows of the sale are undone and deleted.
UndoPostings(s) ==
    /\ company' = company + deduction[s] - restoration[s]
    /\ deduction' = [deduction EXCEPT ![s] = 0]
    /\ restoration' = [restoration EXCEPT ![s] = 0]
    /\ UNCHANGED <<opening, openingRow, manual, audits, costVars, opened, halfVars>>

\* record_manual_deposit, record_balance_adjustment
Correct(k, amount) ==
    /\ opened /\ manual' = [manual EXCEPT ![k] = amount]
    /\ company' = company + amount
    /\ UNCHANGED <<opening, openingRow, deduction, restoration, audits, costVars, opened, halfVars>>

\* The product form and the line form.
Reprice(p, c) ==
    /\ <<p, c>> # <<package, chip>>
    /\ package' = p /\ chip' = c
    /\ UNCHANGED <<company, opening, rowVars, opened, halfVars>>

-----------------------------------------------------------------------------
\* cleanup_orphan_sale_balance_transactions.

\* Mutant of SweepReadsSales: a sale that is not paid yet is not found.
SweepReadsPaid ==
    /\ sweep.step = "none"
    /\ sweep' = [sweep EXCEPT !.step = "sales", !.known = {s \in Sale : sale[s].status = "paid"}]
    /\ UNCHANGED <<company, opening, rowVars, costVars, opened, companyForm>>

\* find_orphan_sale_balance_transactions reads the sales that exist ...
SweepReadsSales ==
    /\ sweep.step = "none"
    /\ sweep' = [sweep EXCEPT !.step = "sales", !.known = {s \in Sale : Exists(s)}]
    /\ UNCHANGED <<company, opening, rowVars, costVars, opened, companyForm>>

\* ... then the rows it has found no sale for.
SweepReadsRows ==
    LET orphaned(rows) == [s \in Sale |-> IF s \in sweep.known THEN 0 ELSE rows[s]] IN
    /\ sweep.step = "sales"
    /\ sweep' = [sweep EXCEPT !.step = "rows", !.debit = orphaned(deduction),
                              !.credit = orphaned(restoration)]
    /\ UNCHANGED <<company, opening, rowVars, costVars, opened, companyForm>>

\* The rows listed and still there are deleted.
DeleteListed ==
    /\ deduction' = [s \in Sale |-> IF sweep.debit[s] > 0 THEN 0 ELSE deduction[s]]
    /\ restoration' = [s \in Sale |-> IF sweep.credit[s] > 0 THEN 0 ELSE restoration[s]]

\* It refunds what it listed and leaves one row that says so.
SweepApplies ==
    LET refund == Total([s \in Sale |-> sweep.debit[s] - sweep.credit[s]], NumSales) IN
    /\ sweep.step = "rows" /\ sweep' = NoSweep
    /\ company' = company + refund /\ audits' = audits + refund
    /\ DeleteListed
    /\ UNCHANGED <<opening, openingRow, manual, costVars, opened, companyForm>>

-----------------------------------------------------------------------------
\* company_edit: every column of the row is saved as it was read, but for what
\* was typed; a new opening balance posts no row.

CompanyFormOpens ==
    /\ opened /\ companyForm = <<>> /\ companyForm' = <<company>>
    /\ UNCHANGED <<company, opening, rowVars, costVars, opened, sweep>>

CompanyFormSaves(amount) ==
    /\ companyForm # <<>> /\ companyForm' = <<>>
    /\ company' = companyForm[1] /\ opening' = amount
    /\ UNCHANGED <<rowVars, costVars, opened, sweep>>

-----------------------------------------------------------------------------
\* companies/statement.py

\* What the rows add up to, the sweep's left out.
Postings ==
    openingRow + Total([s \in Sale |-> restoration[s] - deduction[s]], NumSales)
        + Total(manual, MaxManual)

\* ledger_balance_snapshots: the balance after the last row.
StatementBalance == opening + Postings + audits
=============================================================================
