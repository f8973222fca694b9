--------------------------- MODULE CustomerAccount ---------------------------
(***************************************************************************)
(* The account of one customer: on-account sales posted to the ledger,     *)
(* payments (recorded by management, or submitted by an employee and       *)
(* approved), manual adjustments, the FIFO settlement that is run again    *)
(* after most of them, write-off, and the deletion of payments, of single  *)
(* ledger rows and of sales.                                               *)
(*                                                                         *)
(* Sources: customers/services.py, sales/services.py (update_sale_fields,  *)
(* mark_sale_paid, cancel_sale, delete_sale_permanently),                  *)
(* customers/models.py, and the customer form of customers/views/crud.py.  *)
(*                                                                         *)
(* An operation of the services is one transaction that takes the row lock *)
(* of the customer before it reads or writes a posted sale, the ledger or  *)
(* the balance: one action.  Two things do not take that lock.  The        *)
(* customer form reads the customer and saves every column later: two      *)
(* actions.  mark_sale_paid locks the sale only: one action, which may     *)
(* also fall into a settlement, between two of its reads (Reapply).        *)
(* Sales and payments are numbered in the order they are created.  Free    *)
(* sales (price 0) are left out, so that 0 stands for "no row" below.      *)
(***************************************************************************)
EXTENDS LedgerSum, Sequences, SequencesExt

CONSTANTS
    NumSales,       \* bound: on-account sales of the customer
    Prices,         \* selling prices an employee or management may enter
    MaxPayments,    \* bound: payments ever recorded, deleted ones included
    Amounts,        \* amounts a customer may pay
    Corrections,    \* amounts of manual adjustments
    MaxAdjustments, \* bound: ADJUSTMENT rows at one time
    Overtaken       \* may operations run while a request edits the customer?

ASSUME PricesAssumption == Prices \subseteq Nat \ {0}
ASSUME AmountsAssumption == Amounts \subseteq Nat \ {0}
ASSUME CorrectionsAssumption == Corrections \subseteq Int \ {0}
ASSUME BoundsAssumption ==
    NumSales \in Nat /\ MaxPayments \in Nat /\ MaxAdjustments \in Nat
ASSUME OvertakenAssumption == Overtaken \in BOOLEAN

Sale == 1..NumSales

VARIABLES
    status,      \* Sale.status, "none" before it exists, "deleted" after
    price,       \* Sale.sell_price_actual
    stamp,       \* Sale.customer_payment, 0 for null
    byHand,      \* the paid sales that mark_sale_paid has paid (history)
    charge,      \* amount of the sale's CHARGE row, 0 when there is none
    reversals,   \* amounts of the sale's REVERSAL rows
    payments,    \* amounts of the payments and their PAYMENT rows, 0 deleted
    adjustments, \* amounts of the ADJUSTMENT rows
    balance,     \* Customer.current_balance
    active,      \* Customer.is_active
    submission,  \* an employee's CustomerPaymentSubmission
    form         \* the balance a request of the customer form has read, <<>> none

saleVars == <<status, price, stamp, byHand>>
rowVars == <<charge, reversals, payments, adjustments>>
vars == <<saleVars, rowVars, balance, active, submission, form>>

SaleStatus == {"none", "awaiting", "pending", "paid", "cancelled",
               "written_off", "deleted"}
Exists(s) == status[s] \notin {"none", "deleted"}

Submission ==
    [status: {"none", "awaiting", "approved", "rejected"},
     amount: Amounts \cup {0}, payment: 0..MaxPayments]
NoSubmission == [status |-> "none", amount |-> 0, payment |-> 0]

TypeOK ==
    /\ status \in [Sale -> SaleStatus]
    /\ price \in [Sale -> Prices \cup {0}]
    /\ charge \in [Sale -> Prices \cup {0}]
    /\ reversals \in [Sale -> Seq(Prices)]
    /\ payments \in Seq(Amounts \cup {0}) /\ Len(payments) <= MaxPayments
    /\ stamp \in [Sale -> 0..Len(payments)]
    /\ byHand \subseteq Sale
    /\ adjustments \in Seq(Int)
    /\ balance \in Int
    /\ active \in BOOLEAN
    /\ submission \in Submission
    /\ form \in Seq(Int)

Init ==
    /\ status = [s \in Sale |-> "none"]
    /\ price = [s \in Sale |-> 0]
    /\ stamp = [s \in Sale |-> 0]
    /\ byHand = {}
    /\ charge = [s \in Sale |-> 0]
    /\ reversals = [s \in Sale |-> <<>>]
    /\ payments = <<>>
    /\ adjustments = <<>>
    /\ balance = 0
    /\ active = TRUE
    /\ submission = NoSubmission
    /\ form = <<>>

-----------------------------------------------------------------------------
\* reapply_settlements_for_customer.

\* What the rows of a list add up to.
Sum(rows) == Total(rows, Len(rows))

\* What the sales of the set S cost together.
Worth(S, prices) == Total([s \in Sale |-> IF s \in S THEN prices[s] ELSE 0], NumSales)

Larger(a, b) == IF a > b THEN a ELSE b

\* Mutant of Headroom: manual debt is not served first.
HeadroomOverDebt(pending, paid, prices, pays, adjusts, bal) ==
    Sum(pays) - Worth(paid, prices)

\* Payments not yet used by a settled sale, less the debt that belongs to no
\* pending sale: manual adjustments, or what the balance holds beyond the sales.
Headroom(pending, paid, prices, pays, adjusts, bal) ==
    LET manual == Larger(0, Sum(adjusts))
        slack  == Larger(0, bal - Worth(pending, prices))
    IN  Sum(pays) - Worth(paid, prices) - Larger(manual, slack)

\* Mutant of Oldest: a sale that is too dear is passed over.
AnyAffordable(pending, prices, limit) ==
    {s \in pending : prices[s] <= limit /\ \A t \in pending \ {s} : prices[s] <= prices[t]}

\* The oldest of the pending sales that the limit covers together.
Oldest(pending, prices, limit) ==
    {s \in pending : Worth({t \in pending : t <= s}, prices) <= limit}

PaymentRows(pays) == {i \in DOMAIN pays : pays[i] # 0}

\* _pick_settling_payment; right after a payment it is that payment.
LatestPayment(pays) ==
    CHOOSE i \in PaymentRows(pays) : \A j \in PaymentRows(pays) : j <= i

\* What a pass settles when it has summed the sales counted as pending and paid
\* as settled, and then locks the sales left as pending.
Settled(counted, left, paid, prices, pays, adjusts, bal) ==
    LET limit == Headroom(counted, paid, prices, pays, adjusts, bal)
    IN  IF limit <= 0 \/ PaymentRows(pays) = {}
        THEN {} ELSE Oldest(left, prices, limit)

\* The pass over the sales in the states st, stamped by the payments in by.  It
\* leaves the other pending sales to mark_sale_paid.
Pass(st, by, counted, left) ==
    LET paid == {s \in Sale : st[s] = "paid"}
        hand == {s \in Sale : st[s] = "pending"} \ left
        now  == Settled(counted, left, paid, price', payments', adjustments', balance')
    IN
    /\ status' = [s \in Sale |-> IF s \in now \cup hand THEN "paid" ELSE st[s]]
    /\ stamp' = [s \in Sale |-> IF s \in now THEN LatestPayment(payments') ELSE by[s]]
    /\ byHand' = {s \in byHand : st[s] = "paid"} \cup hand

\* The end of a transaction that left the sales in the states st, stamped by the
\* payments in by, holds the locks of the sales held, and has set the other
\* variables' next values.  The pass sums the settled sales, then the pending
\* ones, then locks the pending ones: a sale may be marked paid by hand after
\* the first read (not counted) or after the second (counted, but not left).
Reapply(st, by, held) ==
    LET pending == {s \in Sale : st[s] = "pending"} IN
    \E counted \in SUBSET pending : \E left \in SUBSET counted :
        /\ \A s \in pending \ left : status[s] = "pending" /\ s \notin held
        /\ Pass(st, by, counted, left)

\* Every operation of the services; see Overtaken.
ServiceRuns ==
    /\ form = <<>> \/ Overtaken
    /\ UNCHANGED form

-----------------------------------------------------------------------------
\* Sales.

\* create_sale for an on-account sale: it waits for approval.
CreateSale(s, p) ==
    /\ ServiceRuns
    /\ status[s] = "none"
    /\ \A t \in Sale : t < s => status[t] # "none"
    /\ active
    /\ status' = [status EXCEPT ![s] = "awaiting"]
    /\ price' = [price EXCEPT ![s] = p]
    /\ UNCHANGED <<stamp, byHand, rowVars, balance, active, submission>>

\* approve_sale and post_on_account_sale: the CHARGE row is posted once.
ApproveSale(s) ==
    /\ ServiceRuns
    /\ status[s] = "awaiting"
    /\ charge' = [charge EXCEPT ![s] = IF @ = 0 THEN price[s] ELSE @]
    /\ balance' = IF charge[s] = 0 THEN balance + price[s] ELSE balance
    /\ UNCHANGED <<price, reversals, payments, adjustments, active, submission>>
    /\ Reapply([status EXCEPT ![s] = "pending"], stamp, {s})

\* The sale's new price moves its CHARGE row (sync_on_account_charge_for_sale).
Posted(s) == status[s] \in {"pending", "paid"} /\ charge[s] # 0

\* Mutant of EditPrice: the row of a settled sale is not moved.
EditOpenPrice(s, p) ==
    /\ ServiceRuns
    /\ Exists(s)
    /\ price' = [price EXCEPT ![s] = p]
    /\ UNCHANGED <<reversals, payments, adjustments, active, submission>>
    /\ \/ /\ status[s] = "pending" /\ charge[s] \notin {0, p}
          /\ charge' = [charge EXCEPT ![s] = p]
          /\ balance' = balance + p - charge[s]
          /\ Reapply(status, stamp, {s})
       \/ /\ status[s] # "pending" \/ charge[s] \in {0, p}
          /\ UNCHANGED <<charge, balance, status, stamp, byHand>>

\* update_sale_fields.  A settled sale is reopened and settled again.
EditPrice(s, p) ==
    /\ ServiceRuns
    /\ Exists(s)
    /\ price' = [price EXCEPT ![s] = p]
    /\ UNCHANGED <<reversals, payments, adjustments, active, submission>>
    /\ \/ /\ Posted(s) /\ charge[s] # p
          /\ charge' = [charge EXCEPT ![s] = p]
          /\ balance' = balance + p - charge[s]
          /\ Reapply([status EXCEPT ![s] = "pending"],
                     [stamp EXCEPT ![s] = IF status[s] = "paid" THEN 0 ELSE @], {s})
       \/ /\ ~Posted(s) \/ charge[s] = p
          /\ UNCHANGED <<charge, balance, status, stamp, byHand>>

\* mark_sale_paid tests the status only: an on-account sale is paid without a
\* payment, its CHARGE row and the balance stay, and nothing is settled again.
MarkPaid(s) ==
    /\ ServiceRuns
    /\ status[s] = "pending"
    /\ status' = [status EXCEPT ![s] = "paid"]
    /\ byHand' = byHand \cup {s}
    /\ UNCHANGED <<price, stamp, rowVars, balance, active, submission>>

\* cancel_sale, also the end of reject_sale.  Only a sale that was posted gets a
\* REVERSAL row; nothing is settled again.
CancelSale(s) ==
    /\ ServiceRuns
    /\ Exists(s)
    /\ status[s] # "cancelled"
    /\ status' = [status EXCEPT ![s] = "cancelled"]
    /\ byHand' = byHand \ {s}
    /\ \/ /\ status[s] = "awaiting"
          /\ UNCHANGED <<reversals, balance>>
       \/ /\ status[s] # "awaiting"
          /\ reversals' = [reversals EXCEPT ![s] = Append(@, price[s])]
          /\ balance' = balance - price[s]
    /\ UNCHANGED <<price, stamp, charge, payments, adjustments, active, submission>>

\* Mutant of DeleteSale: only the CHARGE row is taken back.
DeleteSaleCharge(s) ==
    /\ ServiceRuns
    /\ Exists(s)
    /\ status' = [status EXCEPT ![s] = "deleted"]
    /\ byHand' = byHand \ {s}
    /\ charge' = [charge EXCEPT ![s] = 0]
    /\ reversals' = [reversals EXCEPT ![s] = <<>>]
    /\ balance' = balance - charge[s]
    /\ price' = [price EXCEPT ![s] = 0]
    /\ stamp' = [stamp EXCEPT ![s] = 0]
    /\ UNCHANGED <<payments, adjustments, active, submission>>

\* delete_sale_permanently: the sale's rows and their effects are removed.
DeleteSale(s) ==
    /\ ServiceRuns
    /\ Exists(s)
    /\ status' = [status EXCEPT ![s] = "deleted"]
    /\ byHand' = byHand \ {s}
    /\ charge' = [charge EXCEPT ![s] = 0]
    /\ reversals' = [reversals EXCEPT ![s] = <<>>]
    /\ balance' = balance - charge[s] + Sum(reversals[s])
    /\ price' = [price EXCEPT ![s] = 0]
    /\ stamp' = [stamp EXCEPT ![s] = 0]
    /\ UNCHANGED <<payments, adjustments, active, submission>>

-----------------------------------------------------------------------------
\* Payments.

\* _apply_customer_payment.
ApplyPayment(a) ==
    /\ ServiceRuns
    /\ Len(payments) < MaxPayments
    /\ payments' = Append(payments, a)
    /\ balance' = balance - a
    /\ UNCHANGED <<price, charge, reversals, adjustments, active>>
    /\ Reapply(status, stamp, {})

RecordPayment(a) == ApplyPayment(a) /\ UNCHANGED submission

\* Mutant of RemovePayment: the sales it settled are not reopened.
RemovePaymentOnly(i) ==
    /\ ServiceRuns
    /\ payments[i] # 0
    /\ payments' = [payments EXCEPT ![i] = 0]
    /\ balance' = balance + payments[i]
    /\ UNCHANGED <<price, charge, reversals, adjustments, active>>
    /\ Reapply(status, stamp, {})

\* delete_customer_payment: the settled sales it is stamped on are reopened, and
\* the foreign key of the others that name it becomes null.
RemovePayment(i) ==
    /\ ServiceRuns
    /\ payments[i] # 0
    /\ payments' = [payments EXCEPT ![i] = 0]
    /\ balance' = balance + payments[i]
    /\ UNCHANGED <<price, charge, reversals, adjustments, active>>
    /\ Reapply([s \in Sale |-> IF status[s] = "paid" /\ stamp[s] = i
                               THEN "pending" ELSE status[s]],
               [s \in Sale |-> IF stamp[s] = i THEN 0 ELSE stamp[s]], {})

DeletePayment(i) ==
    /\ RemovePayment(i)
    /\ submission' = [submission EXCEPT !.payment = IF @ = i THEN 0 ELSE @]

\* submit_customer_payment_submission
SubmitPayment(a) ==
    /\ ServiceRuns
    /\ submission.status = "none"
    /\ active
    /\ submission' = [status |-> "awaiting", amount |-> a, payment |-> 0]
    /\ UNCHANGED <<saleVars, rowVars, balance, active>>

\* update_awaiting_customer_payment_submission
EditSubmission(a) ==
    /\ ServiceRuns
    /\ submission.status = "awaiting"
    /\ active
    /\ submission' = [submission EXCEPT !.amount = a]
    /\ UNCHANGED <<saleVars, rowVars, balance, active>>

ApproveSubmission ==
    /\ submission.status = "awaiting"
    /\ ApplyPayment(submission.amount)
    /\ submission' = [submission EXCEPT !.status = "approved", !.payment = Len(payments')]

RejectSubmission ==
    /\ ServiceRuns
    /\ submission.status = "awaiting"
    /\ submission' = [submission EXCEPT !.status = "rejected"]
    /\ UNCHANGED <<saleVars, rowVars, balance, active>>

\* delete_employee_customer_payment_submission: an approved one takes its payment
\* with it, and is refused when management has deleted the payment.
UndoSubmission ==
    /\ \/ /\ submission.status \in {"awaiting", "rejected"}
          /\ ServiceRuns
          /\ UNCHANGED <<saleVars, rowVars, balance, active>>
       \/ /\ submission.status = "approved"
          /\ submission.payment # 0
          /\ RemovePayment(submission.payment)
    /\ submission' = NoSubmission

-----------------------------------------------------------------------------
\* Manual work on the account.

\* record_customer_adjustment
Adjust(x) ==
    /\ ServiceRuns
    /\ Len(adjustments) < MaxAdjustments
    /\ adjustments' = Append(adjustments, x)
    /\ balance' = balance + x
    /\ UNCHANGED <<price, charge, reversals, payments, active, submission>>
    /\ Reapply(status, stamp, {})

\* write_off_customer_balance, offered for a customer who owes something.  What
\* is left of the debt after the sales is cleared; a credit is not.
WriteOff ==
    LET unpaid   == {s \in Sale : status[s] = "pending"}
        leftover == balance - Worth(unpaid, price)
    IN
    /\ ServiceRuns
    /\ balance > 0
    /\ status' = [s \in Sale |-> IF s \in unpaid THEN "written_off" ELSE status[s]]
    /\ reversals' = [s \in Sale |-> IF s \in unpaid THEN Append(reversals[s], price[s])
                                    ELSE reversals[s]]
    /\ \/ /\ leftover > 0
          /\ Len(adjustments) < MaxAdjustments
          /\ adjustments' = Append(adjustments, -leftover)
          /\ balance' = 0
       \/ /\ leftover <= 0
          /\ balance' = leftover
          /\ UNCHANGED adjustments
    /\ active' = FALSE
    /\ UNCHANGED <<price, stamp, byHand, charge, payments, submission>>

\* customer_edit reads the customer, without a lock.
OpenForm ==
    /\ form = <<>>
    /\ form' = <<balance>>
    /\ UNCHANGED <<saleVars, rowVars, balance, active, submission>>

\* Its form.save() writes every column back, the balance it read among them.
SaveForm(on) ==
    /\ form # <<>>
    /\ form' = <<>>
    /\ active' = on
    /\ balance' = form[1]
    /\ UNCHANGED <<saleVars, rowVars, submission>>

\* delete_ledger_entry, for each type of row; a PAYMENT row is refused.
DeleteChargeRow(s) ==
    /\ ServiceRuns
    /\ charge[s] # 0
    /\ charge' = [charge EXCEPT ![s] = 0]
    /\ balance' = balance - charge[s]
    /\ UNCHANGED <<saleVars, reversals, payments, adjustments, active, submission>>

DeleteReversalRow(s, k) ==
    /\ ServiceRuns
    /\ reversals' = [reversals EXCEPT ![s] = RemoveAt(@, k)]
    /\ balance' = balance + reversals[s][k]
    /\ UNCHANGED <<saleVars, charge, payments, adjustments, active, submission>>

DeleteAdjustmentRow(k) ==
    /\ ServiceRuns
    /\ adjustments' = RemoveAt(adjustments, k)
    /\ balance' = balance - adjustments[k]
    /\ UNCHANGED <<saleVars, charge, reversals, payments, active, submission>>

SaleStep(s) ==
    \/ \E p \in Prices : CreateSale(s, p) \/ EditPrice(s, p)
    \/ ApproveSale(s)
    \/ MarkPaid(s)
    \/ CancelSale(s)
    \/ DeleteSale(s)
    \/ DeleteChargeRow(s)
    \/ \E k \in DOMAIN reversals[s] : DeleteReversalRow(s, k)

PaymentStep ==
    \/ \E a \in Amounts : RecordPayment(a) \/ SubmitPayment(a) \/ EditSubmission(a)
    \/ \E i \in DOMAIN payments : DeletePayment(i)
    \/ ApproveSubmission
    \/ RejectSubmission
    \/ UndoSubmission

ManualStep ==
    \/ \E x \in Corrections : Adjust(x)
    \/ \E k \in DOMAIN adjustments : DeleteAdjustmentRow(k)
    \/ WriteOff

FormStep == OpenForm \/ \E on \in BOOLEAN : SaveForm(on)

Next == (\E s \in Sale : SaleStep(s)) \/ PaymentStep \/ ManualStep \/ FormStep

Spec == Init /\ [][Next]_vars

-----------------------------------------------------------------------------
\* Properties.

PaidSales == {s \in Sale : status[s] = "paid"}

\* The running balance is the sum of the ledger rows, through every order of
\* edits, cancellations, deletions and write-offs: each changes the balance by a
\* difference it computes, never from the rows.
BalanceMatchesLedger ==
    balance = Total(charge, NumSales) + Sum(adjustments) - Sum(payments)
              - Total([s \in Sale |-> Sum(reversals[s])], NumSales)

\* The CHARGE row of an open or settled sale is its price, so that the headroom
\* (computed from prices) and the balance (from rows) speak of the same debt.
ChargeFollowsPrice == \A s \in Sale : Posted(s) => charge[s] = price[s]

\* A paid sale that was not marked paid by hand names a payment that still
\* exists: deleting a payment, from the payment list or by undoing a submission,
\* reopens or re-stamps its sales.
PaidSaleNamesAPayment ==
    \A s \in Sale \ byHand : status[s] = "paid" =>
        stamp[s] \in DOMAIN payments /\ payments[stamp[s]] # 0

\* The sales this step marks paid by hand.
MarkedNow == {s \in byHand' : status[s] # "paid"}

\* A pass settles a sale only by money that no other paid sale and no manual debt
\* needs.  Sales marked paid by hand before the pass count as paid; those marked
\* while it ran do not.
SettlesOnlyWithMoney ==
    [][(\E s \in Sale \ byHand' : status[s] # "paid" /\ status'[s] = "paid") =>
         Worth(PaidSales' \ MarkedNow, price') + Larger(0, Sum(adjustments'))
             <= Sum(payments')]_vars

\* First in, first out: a pass settles no sale while it leaves an older one
\* pending.  A mark by hand may pick any sale.
SettlesOldestFirst ==
    [][\A s \in Sale, t \in Sale \ byHand' :
         s < t /\ status[t] # "paid" /\ status'[t] = "paid" => status'[s] # "pending"]_vars

\* "Remove a recorded customer payment and undo its effects": what is settled
\* after a payment was deleted is covered by the payments that are left.
DeletionUndoesSettlement ==
    [][(\E i \in DOMAIN payments : payments[i] # 0 /\ payments'[i] = 0) =>
         Worth(PaidSales' \ byHand', price') <= Sum(payments')]_vars

\* "Zero out their balance": writing off leaves neither debt nor credit.
WriteOffZeroesBalance ==
    [][(\E s \in Sale : status[s] # "written_off" /\ status'[s] = "written_off")
         => balance' = 0]_vars
=============================================================================
