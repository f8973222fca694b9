------------------------ MODULE CustomerAccountProofs ------------------------
(***************************************************************************)
(* Proofs about CustomerAccount, for any number of sales and payments and  *)
(* any amounts.                                                            *)
(*                                                                         *)
(* A sale the account settled names a payment that exists, and the CHARGE  *)
(* row of an open sale is its price: what Headroom and Oldest compute only *)
(* decides which pending sales are settled, and the proof holds for every  *)
(* choice.                                                                 *)
(* The balance is the sum of the rows, because each operation moves it by  *)
(* what it adds to them or takes away.  A settlement spends only money     *)
(* nobody else needs, and begins with the oldest sale: here the sums of    *)
(* Headroom and the choice of Oldest are what the proof is about, also for *)
(* a pass in which sales are marked paid by hand between its reads.        *)
(***************************************************************************)
EXTENDS CustomerAccount, LedgerSumProofs, SequenceTheorems

Shape ==
    /\ status \in [Sale -> SaleStatus]
    /\ stamp \in [Sale -> Nat]
    /\ payments \in Seq(Amounts \cup {0})

\* The amount an approval pays in.
SubmissionShape ==
    submission \in [status: {"none", "awaiting", "approved", "rejected"},
                    amount: Amounts \cup {0}, payment: Nat]

\* The part of the inductive invariant the settlement needs.
SettlementInv == Shape /\ PaidSaleNamesAPayment

\* What is demanded of the states and stamps a settlement starts from.
Named(st, by, pays) ==
    /\ st \in [Sale -> SaleStatus]
    /\ by \in [Sale -> Nat]
    /\ pays \in Seq(Amounts \cup {0})
    /\ \A s \in Sale \ byHand : st[s] = "paid" => by[s] \in DOMAIN pays /\ pays[by[s]] # 0

-----------------------------------------------------------------------------
\* When there is a payment row, _pick_settling_payment finds the latest.
LEMMA LatestExists ==
    ASSUME NEW pays \in Seq(Amounts \cup {0}), PaymentRows(pays) # {}
    PROVE  LatestPayment(pays) \in PaymentRows(pays)
<1> DEFINE n == Len(pays)
           T == {n - i : i \in PaymentRows(pays)}
<1>1. n \in Nat /\ PaymentRows(pays) \subseteq 1..n
  BY DEF PaymentRows
<1>2. T \subseteq Nat /\ T # {}
  BY <1>1
<1>3. PICK x \in T : \A y \in T : ~(<<y, x>> \in OpToRel(<, Nat))
  BY <1>2, NatLessThanWellFounded, WFMin
<1>4. \A y \in T : ~(y < x)
  BY <1>2, <1>3 DEF OpToRel
<1>5. PICK i \in PaymentRows(pays) : x = n - i
  OBVIOUS
<1>6. \A j \in PaymentRows(pays) : j <= i
  <2> SUFFICES ASSUME NEW j \in PaymentRows(pays) PROVE j <= i
    OBVIOUS
  <2>1. ~(n - j < n - i)
    BY <1>4, <1>5
  <2> QED
    BY <2>1, <1>1
<1> QED
  BY <1>6 DEF LatestPayment

\* A settlement settles some pending sales, only when there is a payment, while
\* others are marked by hand.
LEMMA ReapplySteps ==
    ASSUME NEW st, NEW by, NEW held, Reapply(st, by, held)
    PROVE  \E now, hand \in SUBSET {s \in Sale : st[s] = "pending"} :
             /\ now # {} => PaymentRows(payments') # {}
             /\ now \cap hand = {}
             /\ status' = [s \in Sale |-> IF s \in now \cup hand THEN "paid" ELSE st[s]]
             /\ stamp' = [s \in Sale |-> IF s \in now THEN LatestPayment(payments') ELSE by[s]]
             /\ byHand' = {s \in byHand : st[s] = "paid"} \cup hand
<1> DEFINE pending == {s \in Sale : st[s] = "pending"}
<1>1. PICK counted \in SUBSET pending, left \in SUBSET pending : Pass(st, by, counted, left)
  BY DEF Reapply
<1> DEFINE paid == {s \in Sale : st[s] = "paid"}
           now == Settled(counted, left, paid, price', payments', adjustments', balance')
           hand == pending \ left
<1>2. now \subseteq left /\ (now # {} => PaymentRows(payments') # {})
  BY DEF Settled, Oldest
<1>3. /\ status' = [s \in Sale |-> IF s \in now \cup hand THEN "paid" ELSE st[s]]
      /\ stamp' = [s \in Sale |-> IF s \in now THEN LatestPayment(payments') ELSE by[s]]
      /\ byHand' = {s \in byHand : st[s] = "paid"} \cup hand
  BY <1>1 DEF Pass
<1>4. now \in SUBSET pending /\ hand \in SUBSET pending /\ now \cap hand = {}
  BY <1>2
<1> HIDE DEF now, hand
<1> QED
  BY <1>2, <1>3, <1>4

\* The settlement keeps every sale the account settled stamped by an existing
\* payment, whichever sales it settles.
LEMMA ReapplyNames ==
    ASSUME NEW st, NEW by, NEW held, Named(st, by, payments'), Reapply(st, by, held)
    PROVE  SettlementInv'
<1>1. PICK now \in SUBSET {s \in Sale : st[s] = "pending"},
           hand \in SUBSET {s \in Sale : st[s] = "pending"} :
             /\ now # {} => PaymentRows(payments') # {}
             /\ now \cap hand = {}
             /\ status' = [s \in Sale |-> IF s \in now \cup hand THEN "paid" ELSE st[s]]
             /\ stamp' = [s \in Sale |-> IF s \in now THEN LatestPayment(payments') ELSE by[s]]
             /\ byHand' = {s \in byHand : st[s] = "paid"} \cup hand
  BY ReapplySteps
<1>2. ASSUME now # {}
      PROVE  LatestPayment(payments') \in PaymentRows(payments')
  BY <1>1, <1>2, LatestExists DEF Named
<1>3. PaymentRows(payments') \subseteq Nat
  BY DEF Named, PaymentRows
<1>4. Shape'
  <2>1. status' \in [Sale -> SaleStatus]
    BY <1>1 DEF Named, SaleStatus
  <2>2. stamp' \in [Sale -> Nat]
    BY <1>1, <1>2, <1>3 DEF Named
  <2> QED
    BY <2>1, <2>2 DEF Shape, Named
<1>5. ASSUME NEW s \in Sale \ byHand', status'[s] = "paid"
      PROVE  stamp'[s] \in DOMAIN payments' /\ payments'[stamp'[s]] # 0
  <2>1. CASE s \in now
    <3>1. stamp'[s] \in PaymentRows(payments')
      BY <1>1, <1>2, <2>1
    <3> QED
      BY <3>1 DEF PaymentRows
  <2>2. CASE s \notin now
    <3>1. st[s] = "paid" /\ s \notin byHand /\ stamp'[s] = by[s]
      BY <1>1, <1>5, <2>2
    <3> QED
      BY <3>1 DEF Named
  <2> QED
    BY <2>1, <2>2
<1> QED
  BY <1>4, <1>5 DEF SettlementInv, PaidSaleNamesAPayment

\* A step that changes neither payments nor stamps, and settles nothing, keeps
\* the invariant.
LEMMA NothingSettled ==
    ASSUME SettlementInv, payments' = payments,
           status' \in [Sale -> SaleStatus], stamp' \in [Sale -> Nat],
           \A s \in Sale \ byHand' : status'[s] = "paid" =>
               status[s] = "paid" /\ s \notin byHand /\ stamp'[s] = stamp[s]
    PROVE  SettlementInv'
BY DEF SettlementInv, Shape, PaidSaleNamesAPayment

\* Steps on a sale keep the invariant.
LEMMA SaleStepNames ==
    ASSUME SettlementInv, NEW s \in Sale, SaleStep(s)
    PROVE  SettlementInv'
<1> USE DEF SettlementInv, Shape
<1>1. ASSUME NEW p \in Prices, CreateSale(s, p)
      PROVE  SettlementInv'
  <2>1. /\ status' \in [Sale -> SaleStatus] /\ stamp' = stamp /\ payments' = payments
        /\ byHand' = byHand
    BY <1>1 DEF CreateSale, SaleStatus, rowVars
  <2>2. \A t \in Sale : status'[t] = "paid" => status[t] = "paid"
    BY <1>1 DEF CreateSale
  <2> QED
    BY <2>1, <2>2, NothingSettled
<1>2. ASSUME NEW p \in Prices, EditPrice(s, p)
      PROVE  SettlementInv'
  <2>1. payments' = payments
    BY <1>2 DEF EditPrice
  <2>2. CASE UNCHANGED <<charge, balance, status, stamp, byHand>>
    BY <2>1, <2>2, NothingSettled
  <2>3. CASE Reapply([status EXCEPT ![s] = "pending"],
                     [stamp EXCEPT ![s] = IF status[s] = "paid" THEN 0 ELSE @], {s})
    <3> DEFINE st == [status EXCEPT ![s] = "pending"]
               by == [stamp EXCEPT ![s] = IF status[s] = "paid" THEN 0 ELSE @]
    <3>1. st \in [Sale -> SaleStatus] /\ by \in [Sale -> Nat]
      BY DEF SaleStatus
    <3>2. \A t \in Sale : st[t] = "paid" => status[t] = "paid" /\ by[t] = stamp[t]
      OBVIOUS
    <3>3. Named(st, by, payments')
      BY <2>1, <3>1, <3>2 DEF Named, PaidSaleNamesAPayment
    <3> HIDE DEF st, by
    <3>4. Reapply(st, by, {s})
      BY <2>3 DEF st, by
    <3> QED
      BY <3>3, <3>4, ReapplyNames
  <2> QED
    BY <1>2, <2>2, <2>3 DEF EditPrice
<1>3. CASE ApproveSale(s)
  <2> DEFINE st == [status EXCEPT ![s] = "pending"]
  <2>1. payments' = payments
    BY <1>3 DEF ApproveSale
  <2>2. st \in [Sale -> SaleStatus]
    BY DEF SaleStatus
  <2>3. \A t \in Sale : st[t] = "paid" => status[t] = "paid"
    OBVIOUS
  <2>4. Named(st, stamp, payments')
    BY <2>1, <2>2, <2>3 DEF Named, PaidSaleNamesAPayment
  <2> HIDE DEF st
  <2>5. Reapply(st, stamp, {s})
    BY <1>3 DEF ApproveSale, st
  <2> QED
    BY <2>4, <2>5, ReapplyNames
<1>4. CASE CancelSale(s)
  <2>1. status' \in [Sale -> SaleStatus] /\ stamp' = stamp /\ payments' = payments
    BY <1>4 DEF CancelSale, SaleStatus
  <2>2. \A t \in Sale \ byHand' : status'[t] = "paid" => status[t] = "paid" /\ t \notin byHand
    BY <1>4 DEF CancelSale
  <2> QED
    BY <2>1, <2>2, NothingSettled
<1>5. CASE DeleteSale(s)
  <2>1. status' \in [Sale -> SaleStatus] /\ payments' = payments
    BY <1>5 DEF DeleteSale, SaleStatus
  <2>2. stamp' \in [Sale -> Nat]
    BY <1>5 DEF DeleteSale
  <2>3. \A t \in Sale \ byHand' : status'[t] = "paid" =>
            status[t] = "paid" /\ t \notin byHand /\ stamp'[t] = stamp[t]
    BY <1>5 DEF DeleteSale
  <2> QED
    BY <2>1, <2>2, <2>3, NothingSettled
<1>6. CASE DeleteChargeRow(s)
  BY <1>6, NothingSettled DEF DeleteChargeRow, saleVars
<1>7. ASSUME NEW k \in DOMAIN reversals[s], DeleteReversalRow(s, k)
      PROVE  SettlementInv'
  BY <1>7, NothingSettled DEF DeleteReversalRow, saleVars
<1>8. CASE MarkPaid(s)
  <2>1. /\ status' \in [Sale -> SaleStatus] /\ stamp' = stamp /\ payments' = payments
        /\ byHand' = byHand \cup {s}
    BY <1>8 DEF MarkPaid, SaleStatus, rowVars
  <2>2. \A t \in Sale \ byHand' : status'[t] = "paid" => status[t] = "paid"
    BY <1>8, <2>1 DEF MarkPaid
  <2> QED
    BY <2>1, <2>2, NothingSettled
<1> QED
  BY <1>1, <1>2, <1>3, <1>4, <1>5, <1>6, <1>7, <1>8 DEF SaleStep

\* A payment, however it is recorded, keeps the invariant.
LEMMA ApplyNames ==
    ASSUME SettlementInv, NEW a \in Amounts \cup {0}, ApplyPayment(a)
    PROVE  SettlementInv'
<1> USE DEF SettlementInv, Shape
<1>1. payments' = Append(payments, a)
  BY DEF ApplyPayment
<1>2. payments' \in Seq(Amounts \cup {0})
  BY <1>1
<1>3. \A i \in DOMAIN payments : i \in DOMAIN payments' /\ payments'[i] = payments[i]
  BY <1>1
<1>4. Named(status, stamp, payments')
  BY <1>2, <1>3 DEF Named, PaidSaleNamesAPayment
<1> QED
  BY <1>4, ReapplyNames DEF ApplyPayment

\* Deleting a payment reopens the sales that name it.
LEMMA RemoveNames ==
    ASSUME SettlementInv, NEW i, RemovePayment(i)
    PROVE  SettlementInv'
<1> USE DEF SettlementInv, Shape
<1> DEFINE st == [s \in Sale |-> IF status[s] = "paid" /\ stamp[s] = i
                                 THEN "pending" ELSE status[s]]
           by == [s \in Sale |-> IF stamp[s] = i THEN 0 ELSE stamp[s]]
<1>1. payments' = [payments EXCEPT ![i] = 0]
  BY DEF RemovePayment
<1>2. payments' \in Seq(Amounts \cup {0}) /\ DOMAIN payments' = DOMAIN payments
  <2>1. DOMAIN payments' = DOMAIN payments
    BY <1>1
  <2>2. CASE i \in 1..Len(payments)
    BY <1>1, <2>1, <2>2, ExceptSeq
  <2>3. CASE i \notin 1..Len(payments)
    <3>1. payments' = payments
      BY <1>1, <2>3
    <3> QED
      BY <3>1
  <2> QED
    BY <2>2, <2>3
<1>3. \A j \in DOMAIN payments : j # i => payments'[j] = payments[j]
  BY <1>1
<1>4. st \in [Sale -> SaleStatus] /\ by \in [Sale -> Nat]
  BY DEF SaleStatus
<1>5. \A s \in Sale : st[s] = "paid" =>
          status[s] = "paid" /\ stamp[s] # i /\ by[s] = stamp[s]
  OBVIOUS
<1>6. Named(st, by, payments')
  BY <1>2, <1>3, <1>4, <1>5 DEF Named, PaidSaleNamesAPayment
<1>7. Reapply(st, by, {})
  BY DEF RemovePayment
<1> HIDE DEF st, by
<1> QED
  BY <1>6, <1>7, ReapplyNames

\* A step on the payments keeps the invariant.
LEMMA PaymentStepNames ==
    ASSUME SettlementInv, SubmissionShape, PaymentStep
    PROVE  SettlementInv'
<1>1. ASSUME NEW a \in Amounts, RecordPayment(a)
      PROVE  SettlementInv'
  BY <1>1, ApplyNames DEF RecordPayment
<1>2. ASSUME UNCHANGED <<saleVars, rowVars>>
      PROVE  SettlementInv'
  BY <1>2, NothingSettled DEF SettlementInv, Shape, saleVars, rowVars
<1>3. ASSUME NEW a \in Amounts, SubmitPayment(a) \/ EditSubmission(a)
      PROVE  SettlementInv'
  BY <1>2, <1>3 DEF SubmitPayment, EditSubmission
<1>4. ASSUME NEW i \in DOMAIN payments, DeletePayment(i)
      PROVE  SettlementInv'
  BY <1>4, RemoveNames DEF DeletePayment
<1>5. CASE ApproveSubmission
  <2>1. submission.amount \in Amounts \cup {0}
    BY DEF SubmissionShape
  <2> QED
    BY <1>5, <2>1, ApplyNames DEF ApproveSubmission
<1>6. CASE RejectSubmission
  BY <1>2, <1>6 DEF RejectSubmission
<1>7. CASE UndoSubmission
  BY <1>2, <1>7, RemoveNames DEF UndoSubmission
<1> QED
  BY <1>1, <1>3, <1>4, <1>5, <1>6, <1>7 DEF PaymentStep

\* What is done to the account by hand keeps the invariant.
LEMMA ManualNames ==
    ASSUME SettlementInv,
           \/ \E x \in Corrections : Adjust(x)
           \/ \E k \in DOMAIN adjustments : DeleteAdjustmentRow(k)
           \/ WriteOff
           \/ FormStep
    PROVE  SettlementInv'
<1> USE DEF SettlementInv, Shape
<1>1. ASSUME NEW x \in Corrections, Adjust(x)
      PROVE  SettlementInv'
  <2>1. payments' = payments /\ Reapply(status, stamp, {})
    BY <1>1 DEF Adjust
  <2>2. Named(status, stamp, payments')
    BY <2>1 DEF Named, PaidSaleNamesAPayment
  <2> QED
    BY <2>1, <2>2, ReapplyNames
<1>2. ASSUME NEW k \in DOMAIN adjustments, DeleteAdjustmentRow(k)
      PROVE  SettlementInv'
  BY <1>2, NothingSettled DEF DeleteAdjustmentRow, saleVars
<1>3. CASE WriteOff
  <2>1. stamp' = stamp /\ payments' = payments /\ byHand' = byHand
    BY <1>3 DEF WriteOff
  <2>2. status' = [s \in Sale |-> IF status[s] = "pending" THEN "written_off"
                                  ELSE status[s]]
    BY <1>3 DEF WriteOff
  <2>3. status' \in [Sale -> SaleStatus]
    BY <2>2 DEF SaleStatus
  <2>4. \A s \in Sale : status'[s] = "paid" => status[s] = "paid"
    BY <2>2
  <2> QED
    BY <2>1, <2>3, <2>4, NothingSettled
<1>4. CASE FormStep
  BY <1>4, NothingSettled DEF FormStep, OpenForm, SaveForm, saleVars, rowVars
<1> QED
  BY <1>1, <1>2, <1>3, <1>4

\* A submission keeps its shape.
LEMMA SubmissionKeeps ==
    ASSUME Shape, SubmissionShape, [Next]_vars
    PROVE  SubmissionShape'
<1> USE DEF SubmissionShape
<1>1. CASE submission' = submission
  BY <1>1
<1>2. ASSUME NEW a \in Amounts, SubmitPayment(a) \/ EditSubmission(a)
      PROVE  SubmissionShape'
  BY <1>2 DEF SubmitPayment, EditSubmission
<1>3. ASSUME NEW i \in DOMAIN payments, DeletePayment(i)
      PROVE  SubmissionShape'
  BY <1>3 DEF DeletePayment
<1>4. CASE ApproveSubmission
  <2>1. payments' = Append(payments, submission.amount)
    BY <1>4 DEF ApproveSubmission, ApplyPayment
  <2>2. Len(payments') \in Nat
    BY <2>1 DEF Shape
  <2> QED
    BY <1>4, <2>2 DEF ApproveSubmission
<1>5. CASE RejectSubmission
  BY <1>5 DEF RejectSubmission
<1>6. CASE UndoSubmission
  BY <1>6 DEF UndoSubmission, NoSubmission
<1>7. ASSUME NEW a \in Amounts, RecordPayment(a)
      PROVE  submission' = submission
  BY <1>7 DEF RecordPayment
<1>8. CASE PaymentStep
  BY <1>1, <1>2, <1>3, <1>4, <1>5, <1>6, <1>7, <1>8 DEF PaymentStep
<1>9. ASSUME NEW s \in Sale, SaleStep(s)
      PROVE  submission' = submission
  BY <1>9 DEF SaleStep, CreateSale, EditPrice, ApproveSale, CancelSale, DeleteSale,
              DeleteChargeRow, DeleteReversalRow, MarkPaid
<1>10. ASSUME NEW x \in Corrections, Adjust(x)
       PROVE  submission' = submission
  BY <1>10 DEF Adjust
<1>11. ASSUME NEW k \in DOMAIN adjustments, DeleteAdjustmentRow(k)
       PROVE  submission' = submission
  BY <1>11 DEF DeleteAdjustmentRow
<1>12. CASE WriteOff \/ FormStep
  BY <1>1, <1>12 DEF WriteOff, FormStep, OpenForm, SaveForm
<1>13. CASE UNCHANGED vars
  BY <1>1, <1>13 DEF vars
<1> QED
  BY <1>1, <1>8, <1>9, <1>10, <1>11, <1>12, <1>13 DEF Next, ManualStep

\* A paid sale that was not marked by hand names an existing payment: no order of
\* settling, editing, marking, undoing submissions and deleting payments leaves a
\* stamp behind that names nothing.
THEOREM PaidNamed == Spec => []PaidSaleNamesAPayment
<1> DEFINE IInv == SettlementInv /\ SubmissionShape
<1>1. Init => IInv
  <2> SUFFICES ASSUME Init PROVE IInv
    OBVIOUS
  <2>1. status \in [Sale -> SaleStatus] /\ \A s \in Sale : status[s] # "paid"
    BY DEF Init, SaleStatus
  <2>2. stamp \in [Sale -> Nat] /\ payments \in Seq(Amounts \cup {0})
    BY DEF Init
  <2>3. SubmissionShape
    BY DEF Init, NoSubmission, SubmissionShape
  <2> QED
    BY <2>1, <2>2, <2>3 DEF SettlementInv, Shape, PaidSaleNamesAPayment
<1>2. IInv /\ [Next]_vars => IInv'
  <2> SUFFICES ASSUME IInv, [Next]_vars PROVE IInv'
    OBVIOUS
  <2>1. SubmissionShape'
    BY SubmissionKeeps DEF SettlementInv
  <2>2. ASSUME NEW s \in Sale, SaleStep(s)
        PROVE  SettlementInv'
    BY <2>2, SaleStepNames
  <2>3. CASE PaymentStep
    BY <2>1, <2>3, PaymentStepNames
  <2>4. CASE \/ \E x \in Corrections : Adjust(x)
             \/ \E k \in DOMAIN adjustments : DeleteAdjustmentRow(k)
             \/ WriteOff
             \/ FormStep
    BY <2>1, <2>4, ManualNames
  <2>5. CASE UNCHANGED vars
    BY <2>1, <2>5, NothingSettled DEF SettlementInv, Shape, vars, saleVars, rowVars
  <2> QED
    BY <2>1, <2>2, <2>3, <2>4, <2>5 DEF Next, ManualStep
<1>3. IInv => PaidSaleNamesAPayment
  BY DEF SettlementInv
<1> QED
  BY <1>1, <1>2, <1>3, PTL DEF Spec

-----------------------------------------------------------------------------
\* The ledger follows the prices.

Open == {"pending", "paid"}

\* A sale that was not approved has no CHARGE row, and the row of an open one is
\* its price.
RowInv ==
    /\ status \in [Sale -> SaleStatus]
    /\ price \in [Sale -> Nat]
    /\ charge \in [Sale -> Nat]
    /\ \A s \in Sale : status[s] \in {"none", "awaiting"} => charge[s] = 0
    /\ ChargeFollowsPrice

\* The settlement pass moves sales between "pending" and "paid" only.
LEMMA ReapplyKeepsOpen ==
    ASSUME NEW st \in [Sale -> SaleStatus], NEW by, NEW held, Reapply(st, by, held)
    PROVE  /\ status' \in [Sale -> SaleStatus]
           /\ \A s \in Sale : status'[s] = st[s] \/ (st[s] = "pending" /\ status'[s] = "paid")
<1>1. PICK now \in SUBSET {s \in Sale : st[s] = "pending"},
           hand \in SUBSET {s \in Sale : st[s] = "pending"} :
             status' = [s \in Sale |-> IF s \in now \cup hand THEN "paid" ELSE st[s]]
  BY ReapplySteps
<1> QED
  BY <1>1 DEF SaleStatus

\* A step that changes no price and no CHARGE row, and opens no sale, keeps the
\* invariant.
LEMMA RowsKept ==
    ASSUME RowInv, price' = price, charge' = charge,
           status' \in [Sale -> SaleStatus],
           \A s \in Sale : \/ status'[s] = status[s]
                           \/ status'[s] \in Open /\ status[s] \in Open
                           \/ status'[s] \notin Open \cup {"none", "awaiting"}
                           \/ status'[s] = "awaiting" /\ status[s] = "none"
    PROVE  RowInv'
BY DEF RowInv, ChargeFollowsPrice, Posted, Open

\* Likewise for a step that ends in a settlement.
LEMMA RowsKeptBySettlement ==
    ASSUME RowInv, price' = price, charge' = charge,
           NEW st \in [Sale -> SaleStatus], NEW by, NEW held, Reapply(st, by, held),
           \A s \in Sale : \/ st[s] = status[s]
                           \/ st[s] = "pending" /\ status[s] = "paid"
    PROVE  RowInv'
<1>1. /\ status' \in [Sale -> SaleStatus]
      /\ \A s \in Sale : status'[s] = st[s] \/ (st[s] = "pending" /\ status'[s] = "paid")
  BY ReapplyKeepsOpen
<1>2. \A s \in Sale : \/ status'[s] = status[s]
                      \/ status'[s] \in Open /\ status[s] \in Open
  BY <1>1 DEF Open
<1> QED
  BY <1>1, <1>2, RowsKept

\* Steps on a sale keep the rows in line with the prices.
LEMMA SaleStepRows ==
    ASSUME RowInv, NEW s \in Sale, SaleStep(s)
    PROVE  RowInv'
<1> USE PricesAssumption DEF RowInv
<1>1. ASSUME NEW p \in Prices, CreateSale(s, p)
      PROVE  RowInv'
  <2>1. /\ status' = [status EXCEPT ![s] = "awaiting"]
        /\ price' = [price EXCEPT ![s] = p]
        /\ charge' = charge
        /\ charge[s] = 0
    BY <1>1 DEF CreateSale, rowVars
  <2> QED
    BY <2>1 DEF ChargeFollowsPrice, Posted, SaleStatus
<1>2. ASSUME NEW p \in Prices, EditPrice(s, p)
      PROVE  RowInv'
  <2>1. price' = [price EXCEPT ![s] = p]
    BY <1>2 DEF EditPrice
  <2>2. CASE /\ ~Posted(s) \/ charge[s] = p
             /\ UNCHANGED <<charge, balance, status, stamp, byHand>>
    BY <2>1, <2>2 DEF ChargeFollowsPrice, Posted
  <2>3. CASE /\ Posted(s)
             /\ charge' = [charge EXCEPT ![s] = p]
             /\ Reapply([status EXCEPT ![s] = "pending"],
                        [stamp EXCEPT ![s] = IF status[s] = "paid" THEN 0 ELSE @], {s})
    <3> DEFINE st == [status EXCEPT ![s] = "pending"]
               by == [stamp EXCEPT ![s] = IF status[s] = "paid" THEN 0 ELSE @]
    <3>1. st \in [Sale -> SaleStatus]
      BY DEF SaleStatus
    <3>2. \A t \in Sale : t # s => st[t] = status[t]
      OBVIOUS
    <3>3. st[s] = "pending"
      OBVIOUS
    <3> HIDE DEF st, by
    <3>4. Reapply(st, by, {s})
      BY <2>3 DEF st, by
    <3>5. /\ status' \in [Sale -> SaleStatus]
          /\ \A t \in Sale : status'[t] = st[t] \/ (st[t] = "pending" /\ status'[t] = "paid")
      BY <3>1, <3>4, ReapplyKeepsOpen
    <3>6. ASSUME NEW t \in Sale
          PROVE  /\ status'[t] \in {"none", "awaiting"} => charge'[t] = 0
                 /\ Posted(t)' => charge'[t] = price'[t]
      BY <2>1, <2>3, <3>2, <3>3, <3>5 DEF ChargeFollowsPrice, Posted
    <3> QED
      BY <2>1, <2>3, <3>5, <3>6 DEF ChargeFollowsPrice
  <2> QED
    BY <1>2, <2>2, <2>3 DEF EditPrice
<1>3. CASE ApproveSale(s)
  <2> DEFINE st == [status EXCEPT ![s] = "pending"]
  <2>1. /\ status[s] = "awaiting" /\ charge[s] = 0
        /\ charge' = [charge EXCEPT ![s] = price[s]]
        /\ price' = price
    BY <1>3 DEF ApproveSale
  <2>2. st \in [Sale -> SaleStatus] /\ \A t \in Sale : t # s => st[t] = status[t]
    BY DEF SaleStatus
  <2>3. st[s] = "pending"
    OBVIOUS
  <2> HIDE DEF st
  <2>4. Reapply(st, stamp, {s})
    BY <1>3 DEF ApproveSale, st
  <2>5. /\ status' \in [Sale -> SaleStatus]
        /\ \A t \in Sale : status'[t] = st[t] \/ (st[t] = "pending" /\ status'[t] = "paid")
    BY <2>2, <2>4, ReapplyKeepsOpen
  <2>6. ASSUME NEW t \in Sale
        PROVE  /\ status'[t] \in {"none", "awaiting"} => charge'[t] = 0
               /\ Posted(t)' => charge'[t] = price'[t]
    BY <2>1, <2>2, <2>3, <2>5 DEF ChargeFollowsPrice, Posted
  <2> QED
    BY <2>1, <2>5, <2>6 DEF ChargeFollowsPrice
<1>4. CASE CancelSale(s)
  BY <1>4, RowsKept DEF CancelSale, SaleStatus, Open
<1>5. CASE DeleteSale(s)
  <2>1. /\ status' = [status EXCEPT ![s] = "deleted"]
        /\ charge' = [charge EXCEPT ![s] = 0]
        /\ price' = [price EXCEPT ![s] = 0]
    BY <1>5 DEF DeleteSale
  <2> QED
    BY <2>1 DEF ChargeFollowsPrice, Posted, SaleStatus
<1>6. CASE DeleteChargeRow(s)
  BY <1>6 DEF DeleteChargeRow, saleVars, ChargeFollowsPrice, Posted
<1>7. ASSUME NEW k \in DOMAIN reversals[s], DeleteReversalRow(s, k)
      PROVE  RowInv'
  BY <1>7, RowsKept DEF DeleteReversalRow, saleVars
<1>8. CASE MarkPaid(s)
  BY <1>8, RowsKept DEF MarkPaid, SaleStatus, Open, rowVars
<1> QED
  BY <1>1, <1>2, <1>3, <1>4, <1>5, <1>6, <1>7, <1>8 DEF SaleStep

\* Payments, submissions and manual work touch neither prices nor CHARGE rows.
LEMMA OtherStepRows ==
    ASSUME RowInv,
           \/ PaymentStep
           \/ \E x \in Corrections : Adjust(x)
           \/ \E k \in DOMAIN adjustments : DeleteAdjustmentRow(k)
           \/ WriteOff
           \/ FormStep
    PROVE  RowInv'
<1> USE DEF RowInv
<1>1. ASSUME NEW a, ApplyPayment(a)
      PROVE  RowInv'
  BY <1>1, RowsKeptBySettlement DEF ApplyPayment
<1>2. ASSUME NEW i, RemovePayment(i)
      PROVE  RowInv'
  <2> DEFINE st == [s \in Sale |-> IF status[s] = "paid" /\ stamp[s] = i
                                   THEN "pending" ELSE status[s]]
             by == [s \in Sale |-> IF stamp[s] = i THEN 0 ELSE stamp[s]]
  <2>1. st \in [Sale -> SaleStatus]
    BY DEF SaleStatus
  <2>2. \A s \in Sale : st[s] = status[s] \/ (st[s] = "pending" /\ status[s] = "paid")
    OBVIOUS
  <2>3. Reapply(st, by, {}) /\ price' = price /\ charge' = charge
    BY <1>2 DEF RemovePayment
  <2> HIDE DEF st, by
  <2> QED
    BY <2>1, <2>2, <2>3, RowsKeptBySettlement
<1>3. ASSUME UNCHANGED <<saleVars, rowVars>>
      PROVE  RowInv'
  BY <1>3, RowsKept DEF saleVars, rowVars
<1>4. CASE PaymentStep
  BY <1>1, <1>2, <1>3, <1>4 DEF PaymentStep, RecordPayment, SubmitPayment,
     EditSubmission, DeletePayment, ApproveSubmission, RejectSubmission, UndoSubmission
<1>5. ASSUME NEW x \in Corrections, Adjust(x)
      PROVE  RowInv'
  BY <1>5, RowsKeptBySettlement DEF Adjust
<1>6. ASSUME NEW k \in DOMAIN adjustments, DeleteAdjustmentRow(k)
      PROVE  RowInv'
  BY <1>6, RowsKept DEF DeleteAdjustmentRow, saleVars
<1>7. CASE WriteOff
  <2>1. price' = price /\ charge' = charge
    BY <1>7 DEF WriteOff
  <2>2. status' = [s \in Sale |-> IF status[s] = "pending" THEN "written_off"
                                  ELSE status[s]]
    BY <1>7 DEF WriteOff
  <2> QED
    BY <2>1, <2>2, RowsKept DEF SaleStatus, Open
<1>8. CASE FormStep
  BY <1>3, <1>8 DEF FormStep, OpenForm, SaveForm
<1> QED
  BY <1>4, <1>5, <1>6, <1>7, <1>8

\* The CHARGE row of an open sale is its price, however often the price is edited
\* and the sale settled and reopened.
THEOREM RowsFollowPrices == Spec => []ChargeFollowsPrice
<1>1. Init => RowInv
  BY DEF Init, RowInv, SaleStatus, ChargeFollowsPrice, Posted
<1>2. RowInv /\ [Next]_vars => RowInv'
  <2> SUFFICES ASSUME RowInv, [Next]_vars PROVE RowInv'
    OBVIOUS
  <2>1. CASE Next
    BY <2>1, SaleStepRows, OtherStepRows DEF Next, ManualStep
  <2>2. CASE UNCHANGED vars
    BY <2>2, RowsKept DEF vars, saleVars, rowVars, RowInv
  <2> QED
    BY <2>1, <2>2
<1>3. RowInv => ChargeFollowsPrice
  BY DEF RowInv
<1> QED
  BY <1>1, <1>2, <1>3, PTL DEF Spec
-----------------------------------------------------------------------------
(***************************************************************************)
(* Sums of rows: what each way of posting or deleting a row does to them.  *)
(***************************************************************************)

\* Amounts add up to an integer.
LEMMA SumType ==
    ASSUME NEW rows \in Seq(Int)
    PROVE  Sum(rows) \in Int
BY LenProperties, TotalType DEF Sum

\* Nothing adds up to 0.
LEMMA SumOfNothing == Sum(<<>>) = 0
<1> DEFINE z == [j \in 1..0 |-> 0]
<1>1. <<>> \in [1..0 -> Int] /\ \A j \in 1..0 : <<>>[j] = 0
  OBVIOUS
<1>2. Total(<<>>, 0) = 0
  BY <1>1, TotalOfZeros
<1>3. Len(<<>>) = 0
  OBVIOUS
<1> QED
  BY <1>2, <1>3 DEF Sum

\* A row is posted at the end.
LEMMA SumAppend ==
    ASSUME NEW rows \in Seq(Int), NEW a \in Int
    PROVE  Append(rows, a) \in Seq(Int) /\ Sum(Append(rows, a)) = Sum(rows) + a
<1> DEFINE n == Len(rows)
           longer == Append(rows, a)
<1>1. n \in Nat /\ rows \in [1..n -> Int]
  BY LenProperties
<1>2. longer \in Seq(Int) /\ Len(longer) = n + 1
  OBVIOUS
<1>3. longer[n + 1] = a /\ \A j \in 1..n : longer[j] = rows[j]
  OBVIOUS
<1>4. longer \in [1..(n + 1) -> Int]
  BY <1>2, LenProperties
<1> HIDE DEF n, longer
<1>5. Total(longer, n + 1) = Total(rows, n) + a
  BY <1>1, <1>3, <1>4, TotalNext
<1>6. Sum(longer) = Total(longer, n + 1) /\ Sum(rows) = Total(rows, n)
  BY <1>2 DEF Sum, n
<1> QED
  BY <1>2, <1>5, <1>6 DEF longer

\* A row's amount is changed.
LEMMA SumChange ==
    ASSUME NEW rows \in Seq(Int), NEW i \in DOMAIN rows, NEW a \in Int
    PROVE  Sum([rows EXCEPT ![i] = a]) = Sum(rows) + (a - rows[i])
<1> DEFINE n == Len(rows)
           changed == [rows EXCEPT ![i] = a]
<1>1. n \in Nat /\ rows \in [1..n -> Int] /\ i \in 1..n
  BY LenProperties
<1>2. Len(changed) = n
  OBVIOUS
<1>3. changed \in [1..n -> Int] /\ changed[i] = a
  BY <1>1
<1>4. \A j \in 1..n : j # i => changed[j] = rows[j]
  BY <1>1
<1> HIDE DEF n, changed
<1>5. Total(changed, n) = Total(rows, n) + (a - rows[i])
  BY <1>1, <1>3, <1>4, TotalChange
<1>6. Sum(changed) = Total(changed, n) /\ Sum(rows) = Total(rows, n)
  BY <1>2 DEF Sum, n
<1> QED
  BY <1>5, <1>6 DEF changed

\* A row is deleted.
LEMMA SumRemove ==
    ASSUME NEW S, S \subseteq Int, NEW rows \in Seq(S), NEW k \in DOMAIN rows
    PROVE  /\ RemoveAt(rows, k) \in Seq(S)
           /\ Sum(RemoveAt(rows, k)) = Sum(rows) - rows[k]
<1> DEFINE n == Len(rows)
           front == SubSeq(rows, 1, k - 1)
           rest == SubSeq(rows, k + 1, n)
           shorter == front \o rest
<1>0. rows \in Seq(Int)
  BY SeqMonotonic
<1>1. /\ n \in Nat /\ rows \in [1..n -> Int] /\ k \in 1..n
      /\ \A j \in 1..n : rows[j] \in S
  BY <1>0, LenProperties, ElementOfSeq
<1>2. /\ front \in Seq(S) /\ Len(front) = k - 1
      /\ \A j \in 1..(k - 1) : front[j] = rows[j]
  BY <1>1
<1>3. /\ rest \in Seq(S) /\ Len(rest) = n - k
      /\ \A j \in 1..(n - k) : rest[j] = rows[j + k]
  <2>1. k + 1 \in Int /\ n \in Int /\ \A i \in (k + 1)..n : rows[i] \in S
    BY <1>1
  <2>2. /\ rest \in Seq(S) /\ Len(rest) = IF k + 1 <= n THEN n - (k + 1) + 1 ELSE 0
        /\ \A j \in 1..(n - (k + 1) + 1) : rest[j] = rows[k + 1 + j - 1]
    <3> HIDE DEF n
    <3> QED
      BY <2>1, SubSeqProperties
  <2> HIDE DEF rest, n
  <2>3. n - (k + 1) + 1 = n - k /\ Len(rest) = n - k
    BY <1>1, <2>2
  <2>4. \A j \in 1..(n - k) : k + 1 + j - 1 = j + k
    BY <1>1
  <2> QED
    BY <2>2, <2>3, <2>4
<1> HIDE DEF front, rest
<1>4. /\ shorter \in Seq(S) /\ Len(shorter) = n - 1
      /\ \A j \in 1..(n - 1) : shorter[j] = IF j <= k - 1 THEN front[j] ELSE rest[j - (k - 1)]
  <2>1. /\ shorter \in Seq(S) /\ Len(shorter) = Len(front) + Len(rest)
        /\ \A j \in 1..(Len(front) + Len(rest)) :
             shorter[j] = IF j <= Len(front) THEN front[j] ELSE rest[j - Len(front)]
    BY <1>2, <1>3, ConcatProperties
  <2>2. Len(front) + Len(rest) = n - 1
    BY <1>1, <1>2, <1>3
  <2> QED
    BY <1>2, <2>1, <2>2
<1>5. ASSUME NEW j \in 1..(n - 1)
      PROVE  shorter[j] = IF j < k THEN rows[j] ELSE rows[j + 1]
  <2>1. CASE j < k
    BY <1>1, <1>2, <1>4, <2>1
  <2>2. CASE ~(j < k)
    <3>1. shorter[j] = rest[j - (k - 1)]
      BY <1>1, <1>4, <2>2
    <3>2. j - (k - 1) \in 1..(n - k) /\ (j - (k - 1)) + k = j + 1
      BY <1>1, <2>2
    <3> QED
      BY <1>3, <2>2, <3>1, <3>2
  <2> QED
    BY <2>1, <2>2
<1> HIDE DEF shorter
<1> DEFINE m == n - 1
<1>6. m \in Nat /\ n = m + 1
  BY <1>1
<1>7. shorter \in [1..m -> Int]
  <2>1. shorter \in Seq(Int)
    BY <1>4, SeqMonotonic
  <2> QED
    BY <1>4, <2>1, LenProperties
<1>8. \A j \in 1..m : shorter[j] = IF j < k THEN rows[j] ELSE rows[j + 1]
  BY <1>5
<1>9. Len(shorter) = m /\ Len(rows) = n
  BY <1>4
<1>10. rows \in [1..(m + 1) -> Int] /\ k \in 1..(m + 1)
  BY <1>1, <1>6
<1> HIDE DEF n, m
<1>11. Total(shorter, m) = Total(rows, m + 1) - rows[k]
  BY <1>6, <1>7, <1>8, <1>10, TotalWithout
<1>12. Sum(shorter) = Sum(rows) - rows[k]
  BY <1>6, <1>9, <1>11 DEF Sum
<1>13. RemoveAt(rows, k) = shorter
  BY <1>9 DEF RemoveAt, shorter, front, rest
<1> QED
  BY <1>4, <1>12, <1>13

\* What sales are worth together is an integer.
LEMMA WorthType ==
    ASSUME NEW prices \in [Sale -> Nat], NEW S
    PROVE  /\ [s \in Sale |-> IF s \in S THEN prices[s] ELSE 0] \in [1..NumSales -> Int]
           /\ Worth(S, prices) \in Int
<1> DEFINE f == [s \in Sale |-> IF s \in S THEN prices[s] ELSE 0]
<1>1. f \in [1..NumSales -> Int]
  BY DEF Sale
<1> HIDE DEF f
<1>2. Total(f, NumSales) \in Int
  BY <1>1, BoundsAssumption, TotalType
<1> QED
  BY <1>1, <1>2 DEF f, Worth

\* More sales are worth no less.
LEMMA WorthMonotone ==
    ASSUME NEW prices \in [Sale -> Nat], NEW S, NEW R, S \subseteq R
    PROVE  Worth(S, prices) <= Worth(R, prices)
<1> DEFINE f == [s \in Sale |-> IF s \in S THEN prices[s] ELSE 0]
           g == [s \in Sale |-> IF s \in R THEN prices[s] ELSE 0]
<1>1. f \in [1..NumSales -> Int] /\ g \in [1..NumSales -> Int]
  BY WorthType
<1>2. \A j \in 1..NumSales : f[j] <= g[j]
  BY DEF Sale
<1> HIDE DEF f, g
<1>3. Total(f, NumSales) <= Total(g, NumSales)
  BY <1>1, <1>2, BoundsAssumption, TotalMonotone
<1> QED
  BY <1>3 DEF f, g, Worth

\* What two sets without a common sale are worth adds up.
LEMMA WorthUnion ==
    ASSUME NEW prices \in [Sale -> Nat], NEW S, NEW R, S \cap R = {}
    PROVE  Worth(S \cup R, prices) = Worth(S, prices) + Worth(R, prices)
<1> DEFINE f == [s \in Sale |-> IF s \in S THEN prices[s] ELSE 0]
           g == [s \in Sale |-> IF s \in R THEN prices[s] ELSE 0]
           h == [s \in Sale |-> IF s \in S \cup R THEN prices[s] ELSE 0]
<1>1. f \in [1..NumSales -> Int] /\ g \in [1..NumSales -> Int] /\ h \in [1..NumSales -> Int]
  BY WorthType
<1>2. \A j \in 1..NumSales : h[j] = f[j] + g[j]
  BY DEF Sale
<1> HIDE DEF f, g, h
<1>3. Total(h, NumSales) = Total(f, NumSales) + Total(g, NumSales)
  BY <1>1, <1>2, BoundsAssumption, TotalOfSums
<1> QED
  BY <1>3 DEF f, g, h, Worth

-----------------------------------------------------------------------------
(***************************************************************************)
(* Type correctness.  Two facts are needed beside the types: a sale that   *)
(* exists has a price, so that a REVERSAL row is never empty, and the      *)
(* payment an approval made is one of the payments.                        *)
(***************************************************************************)

TypeInv ==
    /\ TypeOK
    /\ \A s \in Sale : Exists(s) => price[s] # 0
    /\ submission.payment <= Len(payments)

\* The balance as a number moves by numbers only.
LEMMA AmountsAreNumbers ==
    ASSUME TypeOK
    PROVE  /\ price \in [Sale -> Nat] /\ charge \in [Sale -> Nat] /\ balance \in Int
           /\ charge \in [1..NumSales -> Int]
           /\ payments \in Seq(Int) /\ adjustments \in Seq(Int)
           /\ \A s \in Sale : reversals[s] \in Seq(Int) /\ Sum(reversals[s]) \in Int
           /\ Sum(payments) \in Int /\ Sum(adjustments) \in Int
           /\ Len(payments) \in Nat
<1>t. /\ price \in [Sale -> Prices \cup {0}] /\ charge \in [Sale -> Prices \cup {0}]
      /\ reversals \in [Sale -> Seq(Prices)] /\ payments \in Seq(Amounts \cup {0})
      /\ adjustments \in Seq(Int) /\ balance \in Int
  BY DEF TypeOK
<1>p. /\ Prices \cup {0} \subseteq Nat /\ Prices \subseteq Int
      /\ Amounts \cup {0} \subseteq Int /\ Nat \subseteq Int
  BY PricesAssumption, AmountsAssumption
<1>1. /\ price \in [Sale -> Nat] /\ charge \in [Sale -> Nat] /\ balance \in Int
      /\ charge \in [1..NumSales -> Int]
  <2>1. \A s \in Sale : price[s] \in Nat /\ charge[s] \in Nat
    BY <1>t, <1>p
  <2> QED
    BY <1>t, <2>1 DEF Sale
<1>2. payments \in Seq(Int) /\ adjustments \in Seq(Int)
  BY <1>t, <1>p, SeqMonotonic
<1>3. ASSUME NEW s \in Sale PROVE reversals[s] \in Seq(Int)
  <2>1. reversals[s] \in Seq(Prices)
    BY <1>t
  <2> QED
    BY <1>p, <2>1, SeqMonotonic
<1> QED
  BY <1>1, <1>2, <1>3, SumType, LenProperties

\* A settlement gives every sale it settles a payment that is there.
LEMMA ReapplyTypes ==
    ASSUME NEW st \in [Sale -> SaleStatus], NEW by \in [Sale -> 0..Len(payments')],
           payments' \in Seq(Amounts \cup {0}), byHand \subseteq Sale,
           NEW held, Reapply(st, by, held)
    PROVE  /\ status' \in [Sale -> SaleStatus] /\ stamp' \in [Sale -> 0..Len(payments')]
           /\ byHand' \subseteq Sale
<1>1. PICK now \in SUBSET {s \in Sale : st[s] = "pending"},
           hand \in SUBSET {s \in Sale : st[s] = "pending"} :
             /\ now # {} => PaymentRows(payments') # {}
             /\ now \cap hand = {}
             /\ status' = [s \in Sale |-> IF s \in now \cup hand THEN "paid" ELSE st[s]]
             /\ stamp' = [s \in Sale |-> IF s \in now THEN LatestPayment(payments') ELSE by[s]]
             /\ byHand' = {s \in byHand : st[s] = "paid"} \cup hand
  BY ReapplySteps
<1>2. ASSUME now # {}
      PROVE  LatestPayment(payments') \in 0..Len(payments')
  <2>1. LatestPayment(payments') \in PaymentRows(payments')
    BY <1>1, <1>2, LatestExists
  <2> QED
    BY <2>1, LenProperties DEF PaymentRows
<1>3. status' \in [Sale -> SaleStatus]
  BY <1>1 DEF SaleStatus
<1>4. stamp' \in [Sale -> 0..Len(payments')]
  BY <1>1, <1>2
<1> QED
  BY <1>1, <1>3, <1>4

\* A settlement opens no sale and settles none that does not exist.
LEMMA ReapplyExists ==
    ASSUME NEW st \in [Sale -> SaleStatus], NEW by, NEW held, Reapply(st, by, held),
           NEW s \in Sale, Exists(s)'
    PROVE  st[s] \notin {"none", "deleted"}
BY ReapplyKeepsOpen DEF Exists

\* Steps on a sale.
LEMMA SaleStepTypes ==
    ASSUME TypeInv, NEW s \in Sale, SaleStep(s)
    PROVE  TypeInv'
<1>t. /\ status \in [Sale -> SaleStatus] /\ price \in [Sale -> Prices \cup {0}]
      /\ charge \in [Sale -> Prices \cup {0}] /\ reversals \in [Sale -> Seq(Prices)]
      /\ payments \in Seq(Amounts \cup {0}) /\ Len(payments) <= MaxPayments
      /\ stamp \in [Sale -> 0..Len(payments)] /\ adjustments \in Seq(Int)
      /\ balance \in Int /\ active \in BOOLEAN /\ submission \in Submission /\ form \in Seq(Int)
      /\ submission.payment <= Len(payments) /\ byHand \subseteq Sale
      /\ \A t \in Sale : status[t] \notin {"none", "deleted"} => price[t] # 0
  BY DEF TypeInv, TypeOK, Exists
<1>n. /\ Len(payments) \in Nat /\ \A t \in Sale : charge[t] \in Int /\ price[t] \in Int
      /\ \A p \in Prices : p \in Int /\ p # 0
      /\ \A t \in Sale : Sum(reversals[t]) \in Int
  BY PricesAssumption, AmountsAreNumbers DEF TypeInv
\* What is left to show when the payments are untouched.
<1> DEFINE Moved ==
            /\ status' \in [Sale -> SaleStatus] /\ price' \in [Sale -> Prices \cup {0}]
            /\ charge' \in [Sale -> Prices \cup {0}] /\ reversals' \in [Sale -> Seq(Prices)]
            /\ stamp' \in [Sale -> 0..Len(payments)] /\ balance' \in Int
            /\ byHand' \subseteq Sale
            /\ \A t \in Sale : status'[t] \notin {"none", "deleted"} => price'[t] # 0
<1>m. ASSUME Moved, UNCHANGED <<payments, adjustments, active, submission, form>>
      PROVE  TypeInv'
  BY <1>t, <1>m DEF TypeInv, TypeOK, Exists
<1> HIDE DEF Moved
<1>1. ASSUME NEW p \in Prices, CreateSale(s, p)
      PROVE  TypeInv'
  <2>1. Moved
    BY <1>1, <1>t, <1>n DEF Moved, CreateSale, rowVars, SaleStatus
  <2> QED
    BY <1>1, <1>m, <2>1 DEF CreateSale, ServiceRuns, rowVars
<1>2. ASSUME NEW p \in Prices, EditPrice(s, p)
      PROVE  TypeInv'
  <2>1. /\ price' = [price EXCEPT ![s] = p] /\ Exists(s)
        /\ UNCHANGED <<reversals, payments, adjustments, active, submission, form>>
    BY <1>2 DEF EditPrice, ServiceRuns
  <2>2. CASE UNCHANGED <<charge, balance, status, stamp, byHand>>
    <3>1. Moved
      BY <1>t, <1>n, <2>1, <2>2 DEF Moved
    <3> QED
      BY <1>m, <2>1, <3>1
  <2>3. CASE /\ Posted(s) /\ charge[s] # p
             /\ charge' = [charge EXCEPT ![s] = p]
             /\ balance' = balance + p - charge[s]
             /\ Reapply([status EXCEPT ![s] = "pending"],
                        [stamp EXCEPT ![s] = IF status[s] = "paid" THEN 0 ELSE @], {s})
    <3> DEFINE st == [status EXCEPT ![s] = "pending"]
               by == [stamp EXCEPT ![s] = IF status[s] = "paid" THEN 0 ELSE @]
    <3>1. st \in [Sale -> SaleStatus] /\ by \in [Sale -> 0..Len(payments')]
      BY <1>t, <1>n, <2>1 DEF SaleStatus
    <3>2. \A t \in Sale : t # s => st[t] = status[t]
      BY <1>t
    <3> HIDE DEF st, by
    <3>3. Reapply(st, by, {s}) /\ payments' \in Seq(Amounts \cup {0})
      BY <1>t, <2>1, <2>3 DEF st, by
    <3>4. /\ status' \in [Sale -> SaleStatus] /\ stamp' \in [Sale -> 0..Len(payments)]
          /\ byHand' \subseteq Sale
      BY <1>t, <2>1, <3>1, <3>3, ReapplyTypes
    <3>5. \A t \in Sale : status'[t] \notin {"none", "deleted"} => st[t] \notin {"none", "deleted"}
      BY <3>1, <3>3, ReapplyExists DEF Exists
    <3>6. price' \in [Sale -> Prices \cup {0}] /\ charge' \in [Sale -> Prices \cup {0}]
      BY <1>t, <2>1, <2>3
    <3>7. reversals' \in [Sale -> Seq(Prices)] /\ balance' \in Int
      BY <1>t, <1>n, <2>1, <2>3
    <3>8. ASSUME NEW t \in Sale, status'[t] \notin {"none", "deleted"} PROVE price'[t] # 0
      BY <1>t, <1>n, <2>1, <3>2, <3>5, <3>8
    <3>9. Moved
      BY <3>4, <3>6, <3>7, <3>8 DEF Moved
    <3> QED
      BY <1>m, <2>1, <3>9
  <2> QED
    BY <1>2, <2>2, <2>3 DEF EditPrice
<1>3. CASE ApproveSale(s)
  <2> DEFINE st == [status EXCEPT ![s] = "pending"]
  <2>1. /\ status[s] = "awaiting"
        /\ charge' = [charge EXCEPT ![s] = IF @ = 0 THEN price[s] ELSE @]
        /\ balance' = IF charge[s] = 0 THEN balance + price[s] ELSE balance
        /\ UNCHANGED <<price, reversals, payments, adjustments, active, submission, form>>
    BY <1>3 DEF ApproveSale, ServiceRuns
  <2>2. st \in [Sale -> SaleStatus] /\ stamp \in [Sale -> 0..Len(payments')]
    BY <1>t, <2>1 DEF SaleStatus
  <2>3. \A t \in Sale : t # s => st[t] = status[t]
    BY <1>t
  <2> HIDE DEF st
  <2>4. Reapply(st, stamp, {s}) /\ payments' \in Seq(Amounts \cup {0})
    BY <1>3, <1>t, <2>1 DEF ApproveSale, st
  <2>5. /\ status' \in [Sale -> SaleStatus] /\ stamp' \in [Sale -> 0..Len(payments)]
        /\ byHand' \subseteq Sale
    BY <1>t, <2>1, <2>2, <2>4, ReapplyTypes
  <2>6. \A t \in Sale : status'[t] \notin {"none", "deleted"} => st[t] \notin {"none", "deleted"}
    BY <2>2, <2>4, ReapplyExists DEF Exists
  <2>7. price' \in [Sale -> Prices \cup {0}] /\ charge' \in [Sale -> Prices \cup {0}]
    BY <1>t, <2>1
  <2>8. reversals' \in [Sale -> Seq(Prices)] /\ balance' \in Int
    BY <1>t, <1>n, <2>1
  <2>9. ASSUME NEW t \in Sale, status'[t] \notin {"none", "deleted"} PROVE price'[t] # 0
    BY <1>t, <2>1, <2>3, <2>6, <2>9
  <2>10. Moved
    BY <2>5, <2>7, <2>8, <2>9 DEF Moved
  <2> QED
    BY <1>m, <2>1, <2>10
<1>4. CASE CancelSale(s)
  <2>1. /\ status[s] \notin {"none", "deleted"} /\ price[s] \in Prices
        /\ status' = [status EXCEPT ![s] = "cancelled"] /\ byHand' = byHand \ {s}
        /\ UNCHANGED <<price, stamp, charge, payments, adjustments, active, submission, form>>
    BY <1>4, <1>t DEF CancelSale, Exists, ServiceRuns
  <2>2. reversals' \in [Sale -> Seq(Prices)] /\ balance' \in Int
    <3>1. CASE UNCHANGED <<reversals, balance>>
      BY <1>t, <3>1
    <3>2. CASE /\ reversals' = [reversals EXCEPT ![s] = Append(@, price[s])]
               /\ balance' = balance - price[s]
      <4>1. reversals[s] \in Seq(Prices)
        BY <1>t
      <4>2. Append(reversals[s], price[s]) \in Seq(Prices)
        BY <2>1, <4>1
      <4> QED
        BY <1>t, <1>n, <3>2, <4>2
    <3> QED
      BY <1>4, <3>1, <3>2 DEF CancelSale
  <2>3. Moved
    BY <1>t, <2>1, <2>2 DEF Moved, SaleStatus
  <2> QED
    BY <1>m, <2>1, <2>3
<1>5. CASE DeleteSale(s)
  <2>1. /\ status' = [status EXCEPT ![s] = "deleted"] /\ charge' = [charge EXCEPT ![s] = 0]
        /\ reversals' = [reversals EXCEPT ![s] = <<>>]
        /\ balance' = balance - charge[s] + Sum(reversals[s])
        /\ price' = [price EXCEPT ![s] = 0] /\ stamp' = [stamp EXCEPT ![s] = 0]
        /\ byHand' = byHand \ {s}
        /\ UNCHANGED <<payments, adjustments, active, submission, form>>
    BY <1>5 DEF DeleteSale, ServiceRuns
  <2>2. <<>> \in Seq(Prices)
    OBVIOUS
  <2>3. Moved
    BY <1>t, <1>n, <2>1, <2>2 DEF Moved, SaleStatus
  <2> QED
    BY <1>m, <2>1, <2>3
<1>6. CASE DeleteChargeRow(s)
  <2>1. Moved
    BY <1>6, <1>t, <1>n DEF Moved, DeleteChargeRow, saleVars
  <2> QED
    BY <1>6, <1>m, <2>1 DEF DeleteChargeRow, ServiceRuns
<1>7. ASSUME NEW k \in DOMAIN reversals[s], DeleteReversalRow(s, k)
      PROVE  TypeInv'
  <2>1. reversals[s] \in Seq(Prices) /\ Prices \subseteq Int
    BY <1>t, PricesAssumption
  <2>2. RemoveAt(reversals[s], k) \in Seq(Prices)
    BY <2>1, SumRemove
  <2>3. reversals[s][k] \in Int
    BY <2>1, LenProperties, ElementOfSeq
  <2>4. /\ reversals' = [reversals EXCEPT ![s] = RemoveAt(@, k)]
        /\ balance' = balance + reversals[s][k]
        /\ UNCHANGED <<saleVars, charge, payments, adjustments, active, submission, form>>
    BY <1>7 DEF DeleteReversalRow, ServiceRuns
  <2>5. Moved
    BY <1>t, <2>2, <2>3, <2>4 DEF Moved, saleVars
  <2> QED
    BY <1>m, <2>4, <2>5
<1>8. CASE MarkPaid(s)
  <2>1. Moved
    BY <1>8, <1>t, <1>n DEF Moved, MarkPaid, rowVars, SaleStatus
  <2> QED
    BY <1>8, <1>m, <2>1 DEF MarkPaid, ServiceRuns, rowVars
<1> QED
  BY <1>1, <1>2, <1>3, <1>4, <1>5, <1>6, <1>7, <1>8 DEF SaleStep

\* A step that ends in a settlement and changes payments or adjustments.
LEMMA SettledTypes ==
    ASSUME TypeInv, NEW st \in [Sale -> SaleStatus], NEW by \in [Sale -> 0..Len(payments')],
           NEW held, Reapply(st, by, held),
           \A s \in Sale : st[s] \notin {"none", "deleted"} => Exists(s),
           payments' \in Seq(Amounts \cup {0}), Len(payments') <= MaxPayments,
           adjustments' \in Seq(Int), balance' \in Int,
           submission' \in Submission, submission'.payment <= Len(payments'),
           UNCHANGED <<price, charge, reversals, active, form>>
    PROVE  TypeInv'
<1>0. byHand \subseteq Sale
  BY DEF TypeInv, TypeOK
<1>1. /\ status' \in [Sale -> SaleStatus] /\ stamp' \in [Sale -> 0..Len(payments')]
      /\ byHand' \subseteq Sale
  BY <1>0, ReapplyTypes
<1>2. \A s \in Sale : Exists(s)' => Exists(s)
  BY ReapplyExists
<1> QED
  BY <1>1, <1>2 DEF TypeInv, TypeOK

\* A step that changes neither sales nor rows.
LEMMA SubmissionTypes ==
    ASSUME TypeInv, UNCHANGED <<saleVars, rowVars, balance, active, form>>,
           submission' \in Submission, submission'.payment <= Len(payments)
    PROVE  TypeInv'
BY DEF TypeInv, TypeOK, Exists, saleVars, rowVars

\* A payment is added.
LEMMA ApplyTypes ==
    ASSUME TypeInv, NEW a \in Amounts \cup {0}, ApplyPayment(a),
           \/ submission' = submission
           \/ submission' = [submission EXCEPT !.status = "approved", !.payment = Len(payments')]
    PROVE  TypeInv'
<1>1. /\ payments \in Seq(Amounts \cup {0}) /\ Len(payments) < MaxPayments
      /\ payments' = Append(payments, a) /\ balance' = balance - a
      /\ UNCHANGED <<price, charge, reversals, adjustments, active, form>>
      /\ Reapply(status, stamp, {})
  BY DEF ApplyPayment, ServiceRuns, TypeInv, TypeOK
<1>2. /\ payments' \in Seq(Amounts \cup {0}) /\ Len(payments') = Len(payments) + 1
      /\ Len(payments) \in Nat
  BY <1>1
<1>3. Len(payments') \in 0..MaxPayments /\ balance' \in Int
  <2>1. a \in Int
    BY AmountsAssumption
  <2> QED
    BY <1>1, <1>2, <2>1, BoundsAssumption DEF TypeInv, TypeOK
<1>4. submission' \in Submission /\ submission'.payment <= Len(payments')
  <2>1. CASE submission' = submission
    <3>1. submission \in Submission /\ submission.payment <= Len(payments)
      BY DEF TypeInv, TypeOK
    <3>2. submission.payment \in Int
      BY <3>1, BoundsAssumption DEF Submission
    <3> QED
      BY <1>2, <2>1, <3>1, <3>2
  <2>2. CASE submission' = [submission EXCEPT !.status = "approved", !.payment = Len(payments')]
    <3> DEFINE n == Len(payments')
    <3>1. submission \in Submission /\ n \in 0..MaxPayments /\ n \in Nat
      BY <1>2, <1>3 DEF TypeInv, TypeOK
    <3>2. submission' = [submission EXCEPT !.status = "approved", !.payment = n]
      BY <2>2
    <3> HIDE DEF n
    <3>3. submission' \in Submission /\ submission'.payment = n
      BY <3>1, <3>2 DEF Submission
    <3> QED
      BY <3>1, <3>3 DEF n
  <2> QED
    BY <2>1, <2>2
<1>5. status \in [Sale -> SaleStatus] /\ stamp \in [Sale -> 0..Len(payments')]
  BY <1>2 DEF TypeInv, TypeOK
<1>6. \A s \in Sale : status[s] \notin {"none", "deleted"} => Exists(s)
  BY DEF Exists
<1>7. adjustments' \in Seq(Int) /\ Len(payments') <= MaxPayments
  BY <1>1, <1>3 DEF TypeInv, TypeOK
<1> QED
  BY <1>1, <1>2, <1>3, <1>4, <1>5, <1>6, <1>7, SettledTypes

\* A payment is deleted.
LEMMA RemoveTypes ==
    ASSUME TypeInv, NEW i \in DOMAIN payments, RemovePayment(i),
           submission' \in Submission, submission'.payment \in {0, submission.payment}
    PROVE  TypeInv'
<1> DEFINE st == [s \in Sale |-> IF status[s] = "paid" /\ stamp[s] = i
                                 THEN "pending" ELSE status[s]]
           by == [s \in Sale |-> IF stamp[s] = i THEN 0 ELSE stamp[s]]
<1>1. /\ payments \in Seq(Amounts \cup {0}) /\ i \in 1..Len(payments)
      /\ payments' = [payments EXCEPT ![i] = 0] /\ balance' = balance + payments[i]
      /\ UNCHANGED <<price, charge, reversals, adjustments, active, form>>
      /\ Reapply(st, by, {})
  BY DEF RemovePayment, ServiceRuns, TypeInv, TypeOK
<1>2. payments' \in Seq(Amounts \cup {0}) /\ Len(payments') = Len(payments)
  BY <1>1, ExceptSeq
<1>3. balance' \in Int
  <2>1. payments[i] \in Int
    BY <1>1, AmountsAreNumbers, ElementOfSeq DEF TypeInv
  <2> QED
    BY <1>1, <2>1 DEF TypeInv, TypeOK
<1>4. st \in [Sale -> SaleStatus] /\ by \in [Sale -> 0..Len(payments')]
  <2>1. status \in [Sale -> SaleStatus] /\ stamp \in [Sale -> 0..Len(payments)] /\ Len(payments) \in Nat
    BY <1>1 DEF TypeInv, TypeOK
  <2>2. \A s \in Sale : st[s] \in SaleStatus
    BY <2>1 DEF SaleStatus
  <2>3. \A s \in Sale : by[s] \in 0..Len(payments)
    BY <2>1
  <2> QED
    BY <1>2, <2>2, <2>3
<1>5. \A s \in Sale : st[s] \notin {"none", "deleted"} => Exists(s)
  BY DEF Exists
<1>6. submission'.payment <= Len(payments')
  <2>1. submission.payment <= Len(payments) /\ submission.payment \in Int /\ Len(payments) \in Nat
    BY <1>1, BoundsAssumption DEF TypeInv, TypeOK, Submission
  <2> QED
    BY <1>2, <2>1
<1>7. adjustments' \in Seq(Int) /\ Len(payments') <= MaxPayments
  BY <1>1, <1>2 DEF TypeInv, TypeOK
<1> HIDE DEF st, by
<1> QED
  BY <1>1, <1>2, <1>3, <1>4, <1>5, <1>6, <1>7, SettledTypes

\* The submission that is undone made one of the payments.
LEMMA UndonePaymentExists ==
    ASSUME TypeInv, submission.payment # 0
    PROVE  submission.payment \in DOMAIN payments
<1>1. /\ submission.payment \in 0..MaxPayments /\ submission.payment <= Len(payments)
      /\ Len(payments) \in Nat /\ DOMAIN payments = 1..Len(payments)
  BY LenProperties DEF TypeInv, TypeOK, Submission
<1> QED
  BY <1>1, BoundsAssumption

\* Steps on the payments.
LEMMA PaymentStepTypes ==
    ASSUME TypeInv, PaymentStep
    PROVE  TypeInv'
<1>t. /\ submission \in Submission /\ submission.payment <= Len(payments)
      /\ Len(payments) \in Nat /\ 0 \in 0..MaxPayments
  BY BoundsAssumption, LenProperties DEF TypeInv, TypeOK
<1>1. ASSUME NEW a \in Amounts, RecordPayment(a)
      PROVE  TypeInv'
  BY <1>1, ApplyTypes DEF RecordPayment
<1>2. ASSUME NEW a \in Amounts, SubmitPayment(a)
      PROVE  TypeInv'
  <2>1. submission' \in Submission /\ submission'.payment = 0
    BY <1>2, <1>t DEF SubmitPayment, Submission
  <2>2. submission'.payment <= Len(payments)
    BY <1>t, <2>1
  <2> QED
    BY <1>2, <2>1, <2>2, SubmissionTypes DEF SubmitPayment, ServiceRuns
<1>3. ASSUME NEW a \in Amounts, EditSubmission(a)
      PROVE  TypeInv'
  <2>1. submission' \in Submission /\ submission'.payment = submission.payment
    BY <1>3, <1>t DEF EditSubmission, Submission
  <2> QED
    BY <1>3, <1>t, <2>1, SubmissionTypes DEF EditSubmission, ServiceRuns
<1>4. ASSUME NEW i \in DOMAIN payments, DeletePayment(i)
      PROVE  TypeInv'
  <2>1. submission' = [submission EXCEPT !.payment = IF @ = i THEN 0 ELSE @]
    BY <1>4 DEF DeletePayment
  <2>2. submission' \in Submission /\ submission'.payment \in {0, submission.payment}
    BY <1>t, <2>1 DEF Submission
  <2> QED
    BY <1>4, <2>2, RemoveTypes DEF DeletePayment
<1>5. CASE ApproveSubmission
  <2>1. submission.amount \in Amounts \cup {0}
    BY <1>t DEF Submission
  <2> QED
    BY <1>5, <2>1, ApplyTypes DEF ApproveSubmission
<1>6. CASE RejectSubmission
  <2>1. submission' \in Submission /\ submission'.payment = submission.payment
    BY <1>6, <1>t DEF RejectSubmission, Submission
  <2> QED
    BY <1>6, <1>t, <2>1, SubmissionTypes DEF RejectSubmission, ServiceRuns
<1>7. CASE UndoSubmission
  <2>1. submission' \in Submission /\ submission'.payment = 0
    BY <1>7, <1>t DEF UndoSubmission, NoSubmission, Submission
  <2>2. CASE ServiceRuns /\ UNCHANGED <<saleVars, rowVars, balance, active>>
    <3>1. submission'.payment <= Len(payments)
      BY <1>t, <2>1
    <3> QED
      BY <2>1, <2>2, <3>1, SubmissionTypes DEF ServiceRuns
  <2>3. CASE submission.payment # 0 /\ RemovePayment(submission.payment)
    BY <2>1, <2>3, UndonePaymentExists, RemoveTypes
  <2> QED
    BY <1>7, <2>2, <2>3 DEF UndoSubmission
<1> QED
  BY <1>1, <1>2, <1>3, <1>4, <1>5, <1>6, <1>7 DEF PaymentStep

\* Manual work and the customer form.
LEMMA ManualTypes ==
    ASSUME TypeInv, ManualStep \/ FormStep
    PROVE  TypeInv'
<1>n. /\ balance \in Int /\ adjustments \in Seq(Int) /\ Corrections \subseteq Int
      /\ price \in [Sale -> Nat]
  BY AmountsAreNumbers, CorrectionsAssumption DEF TypeInv
<1>1. ASSUME NEW x \in Corrections, Adjust(x)
      PROVE  TypeInv'
  <2>1. /\ adjustments' = Append(adjustments, x) /\ balance' = balance + x
        /\ UNCHANGED <<price, charge, reversals, payments, active, submission, form>>
        /\ Reapply(status, stamp, {})
    BY <1>1 DEF Adjust, ServiceRuns
  <2>2. adjustments' \in Seq(Int) /\ balance' \in Int
    BY <1>n, <2>1
  <2>3. /\ status \in [Sale -> SaleStatus] /\ stamp \in [Sale -> 0..Len(payments')]
        /\ payments' \in Seq(Amounts \cup {0}) /\ Len(payments') <= MaxPayments
        /\ submission' \in Submission /\ submission'.payment <= Len(payments')
    BY <2>1 DEF TypeInv, TypeOK
  <2>4. \A s \in Sale : status[s] \notin {"none", "deleted"} => Exists(s)
    BY DEF Exists
  <2> QED
    BY <2>1, <2>2, <2>3, <2>4, SettledTypes
<1>2. ASSUME NEW k \in DOMAIN adjustments, DeleteAdjustmentRow(k)
      PROVE  TypeInv'
  <2>1. RemoveAt(adjustments, k) \in Seq(Int)
    BY <1>n, SumRemove
  <2>2. adjustments[k] \in Int
    BY <1>n, LenProperties, ElementOfSeq
  <2>3. /\ adjustments' = RemoveAt(adjustments, k) /\ balance' = balance - adjustments[k]
        /\ UNCHANGED <<saleVars, charge, reversals, payments, active, submission, form>>
    BY <1>2 DEF DeleteAdjustmentRow, ServiceRuns
  <2> QED
    BY <1>n, <2>1, <2>2, <2>3 DEF TypeInv, TypeOK, Exists, saleVars
<1>3. CASE WriteOff
  <2> DEFINE unpaid == {s \in Sale : status[s] = "pending"}
             leftover == balance - Worth(unpaid, price)
  <2>1. /\ status' = [s \in Sale |-> IF s \in unpaid THEN "written_off" ELSE status[s]]
        /\ reversals' = [s \in Sale |-> IF s \in unpaid THEN Append(reversals[s], price[s])
                                        ELSE reversals[s]]
        /\ \/ adjustments' = Append(adjustments, -leftover) /\ balance' = 0
           \/ adjustments' = adjustments /\ balance' = leftover
        /\ active' = FALSE
        /\ UNCHANGED <<price, stamp, byHand, charge, payments, submission, form>>
    BY <1>3 DEF WriteOff, ServiceRuns
  <2>2. leftover \in Int
    <3>1. Worth(unpaid, price) \in Int
      BY <1>n, WorthType
    <3> QED
      BY <1>n, <3>1
  <2>3. adjustments' \in Seq(Int) /\ balance' \in Int
    <3> HIDE DEF leftover
    <3>1. CASE adjustments' = Append(adjustments, -leftover) /\ balance' = 0
      <4>1. -leftover \in Int
        BY <2>2
      <4> QED
        BY <1>n, <3>1, <4>1, SumAppend
    <3>2. CASE adjustments' = adjustments /\ balance' = leftover
      BY <1>n, <2>2, <3>2
    <3> QED
      BY <2>1, <3>1, <3>2
  <2>4. status' \in [Sale -> SaleStatus] /\ \A s \in Sale : Exists(s)' => Exists(s)
    BY <2>1 DEF TypeInv, TypeOK, SaleStatus, Exists
  <2>5. reversals' \in [Sale -> Seq(Prices)]
    <3>1. ASSUME NEW s \in Sale
          PROVE  reversals'[s] \in Seq(Prices)
      <4>1. reversals[s] \in Seq(Prices) /\ (s \in unpaid => price[s] \in Prices)
        BY DEF TypeInv, TypeOK, Exists
      <4> QED
        BY <2>1, <4>1
    <3>2. reversals' = [s \in Sale |-> reversals'[s]]
      BY <2>1
    <3> QED
      BY <3>1, <3>2
  <2> HIDE DEF unpaid, leftover
  <2> QED
    BY <2>1, <2>3, <2>4, <2>5 DEF TypeInv, TypeOK
<1>4. CASE OpenForm
  <2>1. form' \in Seq(Int)
    BY <1>4, <1>n DEF OpenForm
  <2> QED
    BY <1>4, <2>1 DEF OpenForm, TypeInv, TypeOK, Exists, saleVars, rowVars
<1>5. ASSUME NEW on \in BOOLEAN, SaveForm(on)
      PROVE  TypeInv'
  <2>1. form' \in Seq(Int) /\ form[1] \in Int
    BY <1>5 DEF SaveForm, TypeInv, TypeOK
  <2> QED
    BY <1>5, <2>1 DEF SaveForm, TypeInv, TypeOK, Exists, saleVars, rowVars
<1> QED
  BY <1>1, <1>2, <1>3, <1>4, <1>5 DEF ManualStep, FormStep

\* The account is well typed at first, and every step keeps it so.
LEMMA TypesAtFirst ==
    ASSUME Init
    PROVE  TypeInv
<1>1. <<>> \in Seq(Prices) /\ <<>> \in Seq(Int) /\ <<>> \in Seq(Amounts \cup {0}) /\ Len(<<>>) = 0
  OBVIOUS
<1>2. NoSubmission \in Submission /\ NoSubmission.payment = 0
  BY BoundsAssumption DEF NoSubmission, Submission
<1> QED
  BY <1>1, <1>2, BoundsAssumption DEF Init, TypeInv, TypeOK, Exists, SaleStatus

LEMMA TypesKept ==
    ASSUME TypeInv, [Next]_vars
    PROVE  TypeInv'
<1>1. CASE Next
  BY <1>1, SaleStepTypes, PaymentStepTypes, ManualTypes DEF Next
<1>2. CASE UNCHANGED vars
  BY <1>2 DEF vars, saleVars, rowVars, TypeInv, TypeOK, Exists
<1> QED
  BY <1>1, <1>2

\* The account is well typed: no REVERSAL row is empty, no stamp points beyond
\* the payments.
THEOREM Typing == Spec => []TypeOK
<1>1. Init => TypeInv
  BY TypesAtFirst
<1>2. TypeInv /\ [Next]_vars => TypeInv'
  BY TypesKept
<1>3. TypeInv => TypeOK
  BY DEF TypeInv
<1> QED
  BY <1>1, <1>2, <1>3, PTL DEF Spec

-----------------------------------------------------------------------------
(***************************************************************************)
(* The running balance.  Every operation moves the balance by what it does *)
(* to the sum of the rows.                                                 *)
(***************************************************************************)

\* What the CHARGE, ADJUSTMENT, PAYMENT and REVERSAL rows add up to.
Charged == Total(charge, NumSales)
Adjusted == Sum(adjustments)
Received == Sum(payments)
ReversalOf == [s \in Sale |-> Sum(reversals[s])]
Returned == Total(ReversalOf, NumSales)

\* Rows of the right types add up to integers.
LEMMA RowsAddUp ==
    ASSUME NEW ch \in [Sale -> Prices \cup {0}], NEW rev \in [Sale -> Seq(Prices)],
           NEW pay \in Seq(Amounts \cup {0}), NEW adj \in Seq(Int)
    PROVE  /\ ch \in [Sale -> Nat] /\ ch \in [1..NumSales -> Int] /\ \A s \in Sale : ch[s] \in Int
           /\ \A s \in Sale : Sum(rev[s]) \in Int
           /\ [s \in Sale |-> Sum(rev[s])] \in [1..NumSales -> Int]
           /\ Sum(pay) \in Int /\ Sum(adj) \in Int
           /\ Total(ch, NumSales) \in Int
           /\ Total([s \in Sale |-> Sum(rev[s])], NumSales) \in Int
<1> DEFINE f == [s \in Sale |-> Sum(rev[s])]
<1>p. /\ Prices \cup {0} \subseteq Nat /\ Prices \subseteq Int
      /\ Amounts \cup {0} \subseteq Int /\ Nat \subseteq Int
  BY PricesAssumption, AmountsAssumption
<1>1. \A s \in Sale : ch[s] \in Nat /\ ch[s] \in Int
  BY <1>p
<1>2. ch \in [Sale -> Nat] /\ ch \in [1..NumSales -> Int]
  BY <1>1 DEF Sale
<1>3. ASSUME NEW s \in Sale PROVE Sum(rev[s]) \in Int
  <2>1. rev[s] \in Seq(Int)
    BY <1>p, SeqMonotonic
  <2> QED
    BY <2>1, SumType
<1>4. f \in [1..NumSales -> Int]
  BY <1>3 DEF Sale
<1>5. Sum(pay) \in Int /\ Sum(adj) \in Int
  <2>1. pay \in Seq(Int)
    BY <1>p, SeqMonotonic
  <2> QED
    BY <2>1, SumType
<1> HIDE DEF f
<1>6. Total(ch, NumSales) \in Int /\ Total(f, NumSales) \in Int
  BY <1>2, <1>4, TotalType, BoundsAssumption
<1> QED
  BY <1>1, <1>2, <1>3, <1>4, <1>5, <1>6 DEF f

Numbers ==
    /\ charge \in [1..NumSales -> Int] /\ \A s \in Sale : charge[s] \in Int
    /\ ReversalOf \in [1..NumSales -> Int] /\ \A s \in Sale : Sum(reversals[s]) \in Int
    /\ Charged \in Int /\ Adjusted \in Int /\ Received \in Int /\ Returned \in Int
    /\ balance \in Int

\* The sums are integers, before a step and after it.
LEMMA SumsAreNumbers ==
    ASSUME TypeInv
    PROVE  Numbers
<1>1. /\ charge \in [Sale -> Prices \cup {0}] /\ reversals \in [Sale -> Seq(Prices)]
      /\ payments \in Seq(Amounts \cup {0}) /\ adjustments \in Seq(Int) /\ balance \in Int
  BY DEF TypeInv, TypeOK
<1> QED
  BY <1>1, RowsAddUp DEF Numbers, Charged, Adjusted, Received, Returned, ReversalOf

LEMMA SumsStayNumbers ==
    ASSUME TypeInv'
    PROVE  Numbers'
<1>1. /\ charge' \in [Sale -> Prices \cup {0}] /\ reversals' \in [Sale -> Seq(Prices)]
      /\ payments' \in Seq(Amounts \cup {0}) /\ adjustments' \in Seq(Int) /\ balance' \in Int
  BY DEF TypeInv, TypeOK
<1> QED
  BY <1>1, RowsAddUp DEF Numbers, Charged, Adjusted, Received, Returned, ReversalOf

\* What the balance is away from the rows.
Drift == balance - (Charged + Adjusted - Received - Returned)

\* The balance moves as the sums do.
LEMMA BalanceMoves ==
    ASSUME TypeInv, TypeInv',
           balance' = balance + (Charged' - Charged) + (Adjusted' - Adjusted)
                      - (Received' - Received) - (Returned' - Returned)
    PROVE  Drift' = Drift
<1>1. Charged \in Int /\ Adjusted \in Int /\ Received \in Int /\ Returned \in Int /\ balance \in Int
  BY SumsAreNumbers DEF Numbers
<1>2. /\ Charged' \in Int /\ Adjusted' \in Int /\ Received' \in Int /\ Returned' \in Int
      /\ balance' \in Int
  BY SumsStayNumbers DEF Numbers
<1> DEFINE c == Charged'
           a == Adjusted'
           r == Received'
           o == Returned'
           m == balance'
<1>3. /\ m = balance + (c - Charged) + (a - Adjusted) - (r - Received) - (o - Returned)
      /\ c \in Int /\ a \in Int /\ r \in Int /\ o \in Int /\ m \in Int
  BY <1>2
<1> HIDE DEF c, a, r, o, m
<1>4. m - (c + a - r - o) = balance - (Charged + Adjusted - Received - Returned)
  BY <1>1, <1>3
<1> QED
  BY <1>4 DEF Drift, c, a, r, o, m

\* Nothing moves.
LEMMA BalanceStays ==
    ASSUME UNCHANGED <<rowVars, balance>>
    PROVE  Drift' = Drift
BY DEF Drift, rowVars, Charged, Adjusted, Received, Returned, ReversalOf

\* The CHARGE row of one sale moves.
LEMMA ChargeMoves ==
    ASSUME TypeInv, TypeInv', NEW s \in Sale,
           \A t \in Sale : t # s => charge'[t] = charge[t]
    PROVE  Charged' = Charged + (charge'[s] - charge[s])
<1>1. charge \in [1..NumSales -> Int]
  BY SumsAreNumbers DEF Numbers
<1>2. charge' \in [1..NumSales -> Int]
  BY SumsStayNumbers DEF Numbers
<1>3. s \in 1..NumSales /\ \A t \in 1..NumSales : t # s => charge'[t] = charge[t]
  BY DEF Sale
<1> QED
  BY <1>1, <1>2, <1>3, BoundsAssumption, TotalChange DEF Charged

\* The REVERSAL rows of one sale move.
LEMMA ReversalsMove ==
    ASSUME TypeInv, TypeInv', NEW s \in Sale,
           \A t \in Sale : t # s => reversals'[t] = reversals[t]
    PROVE  Returned' = Returned + (Sum(reversals'[s]) - Sum(reversals[s]))
<1>3. ReversalOf \in [1..NumSales -> Int] /\ ReversalOf' \in [1..NumSales -> Int]
  BY SumsAreNumbers, SumsStayNumbers DEF Numbers
<1>4. s \in 1..NumSales /\ \A t \in 1..NumSales : t # s => ReversalOf'[t] = ReversalOf[t]
  BY DEF ReversalOf, Sale
<1>5. Returned' = Returned + (ReversalOf'[s] - ReversalOf[s])
  BY <1>3, <1>4, BoundsAssumption, TotalChange DEF Returned
<1> QED
  BY <1>5 DEF ReversalOf

\* Only the CHARGE row of one sale moves.
LEMMA OnlyChargeMoves ==
    ASSUME TypeInv, TypeInv', NEW s \in Sale,
           \A t \in Sale : t # s => charge'[t] = charge[t],
           balance' = balance + (charge'[s] - charge[s]),
           UNCHANGED <<adjustments, payments, reversals>>
    PROVE  Drift' = Drift
<1>1. Charged' = Charged + (charge'[s] - charge[s])
  BY ChargeMoves
<1>2. Adjusted' = Adjusted /\ Received' = Received /\ Returned' = Returned
  BY DEF Adjusted, Received, Returned, ReversalOf
<1>3. /\ Charged \in Int /\ Adjusted \in Int /\ Received \in Int /\ Returned \in Int
      /\ balance \in Int /\ charge[s] \in Int
  BY SumsAreNumbers DEF Numbers
<1>4. charge'[s] \in Int
  BY SumsStayNumbers DEF Numbers
<1>5. balance' = balance + (Charged' - Charged) + (Adjusted' - Adjusted)
                 - (Received' - Received) - (Returned' - Returned)
  BY <1>1, <1>2, <1>3, <1>4
<1> QED
  BY <1>5, BalanceMoves

\* Only the REVERSAL rows of one sale move.
LEMMA OnlyReversalsMove ==
    ASSUME TypeInv, TypeInv', NEW s \in Sale,
           \A t \in Sale : t # s => reversals'[t] = reversals[t],
           balance' = balance - (Sum(reversals'[s]) - Sum(reversals[s])),
           UNCHANGED <<charge, adjustments, payments>>
    PROVE  Drift' = Drift
<1>1. Returned' = Returned + (Sum(reversals'[s]) - Sum(reversals[s]))
  BY ReversalsMove
<1>2. Adjusted' = Adjusted /\ Received' = Received /\ Charged' = Charged
  BY DEF Adjusted, Received, Charged
<1>3. /\ Charged \in Int /\ Adjusted \in Int /\ Received \in Int /\ Returned \in Int
      /\ balance \in Int /\ Sum(reversals[s]) \in Int
  BY SumsAreNumbers DEF Numbers
<1>4. Sum(reversals'[s]) \in Int
  BY SumsStayNumbers DEF Numbers
<1>5. balance' = balance + (Charged' - Charged) + (Adjusted' - Adjusted)
                 - (Received' - Received) - (Returned' - Returned)
  BY <1>1, <1>2, <1>3, <1>4
<1> QED
  BY <1>5, BalanceMoves

\* Steps on a sale move the balance as they move the rows.
LEMMA SaleStepBalance ==
    ASSUME TypeInv, NEW s \in Sale, SaleStep(s)
    PROVE  Drift' = Drift
<1>p. TypeInv'
  BY SaleStepTypes
<1>t. /\ charge \in [Sale -> Nat] /\ reversals \in [Sale -> Seq(Prices)] /\ Prices \subseteq Int
      /\ reversals[s] \in Seq(Int) /\ Sum(reversals[s]) \in Int
      /\ charge[s] \in Int /\ price[s] \in Int /\ balance \in Int
  <2>1. price \in [Sale -> Nat]
    BY AmountsAreNumbers DEF TypeInv
  <2> QED
    BY <2>1, AmountsAreNumbers, PricesAssumption DEF TypeInv, TypeOK
<1>1. ASSUME NEW p \in Prices, CreateSale(s, p)
      PROVE  Drift' = Drift
  BY <1>1, BalanceStays DEF CreateSale
<1>2. ASSUME NEW p \in Prices, EditPrice(s, p)
      PROVE  Drift' = Drift
  <2>1. p \in Int /\ UNCHANGED <<reversals, payments, adjustments>>
    BY <1>2, <1>t DEF EditPrice
  <2>2. CASE UNCHANGED <<charge, balance>>
    BY <2>1, <2>2, BalanceStays DEF rowVars
  <2>3. CASE charge' = [charge EXCEPT ![s] = p] /\ balance' = balance + p - charge[s]
    <3>1. charge'[s] = p /\ \A t \in Sale : t # s => charge'[t] = charge[t]
      BY <1>t, <2>3
    <3>2. balance' = balance + (charge'[s] - charge[s])
      BY <1>t, <2>1, <2>3, <3>1
    <3> QED
      BY <1>p, <2>1, <3>1, <3>2, OnlyChargeMoves
  <2> QED
    BY <1>2, <2>2, <2>3 DEF EditPrice
<1>3. CASE ApproveSale(s)
  <2>1. /\ charge' = [charge EXCEPT ![s] = IF @ = 0 THEN price[s] ELSE @]
        /\ balance' = IF charge[s] = 0 THEN balance + price[s] ELSE balance
        /\ UNCHANGED <<reversals, payments, adjustments>>
    BY <1>3 DEF ApproveSale
  <2>2. /\ charge'[s] = IF charge[s] = 0 THEN price[s] ELSE charge[s]
        /\ \A t \in Sale : t # s => charge'[t] = charge[t]
    BY <1>t, <2>1
  <2>3. balance' = balance + (charge'[s] - charge[s])
    BY <1>t, <2>1, <2>2
  <2> QED
    BY <1>p, <2>1, <2>2, <2>3, OnlyChargeMoves
<1>4. CASE CancelSale(s)
  <2>1. UNCHANGED <<charge, payments, adjustments>>
    BY <1>4 DEF CancelSale
  <2>2. CASE UNCHANGED <<reversals, balance>>
    BY <2>1, <2>2, BalanceStays DEF rowVars
  <2>3. CASE /\ reversals' = [reversals EXCEPT ![s] = Append(@, price[s])]
             /\ balance' = balance - price[s]
    <3>1. /\ reversals'[s] = Append(reversals[s], price[s])
          /\ \A t \in Sale : t # s => reversals'[t] = reversals[t]
      BY <1>t, <2>3
    <3>2. Sum(reversals'[s]) = Sum(reversals[s]) + price[s]
      BY <1>t, <3>1, SumAppend
    <3>3. balance' = balance - (Sum(reversals'[s]) - Sum(reversals[s]))
      BY <1>t, <2>3, <3>2
    <3> QED
      BY <1>p, <2>1, <3>1, <3>3, OnlyReversalsMove
  <2> QED
    BY <1>4, <2>2, <2>3 DEF CancelSale
<1>5. CASE DeleteSale(s)
  <2>1. /\ charge' = [charge EXCEPT ![s] = 0] /\ reversals' = [reversals EXCEPT ![s] = <<>>]
        /\ balance' = balance - charge[s] + Sum(reversals[s])
        /\ UNCHANGED <<payments, adjustments>>
    BY <1>5 DEF DeleteSale
  <2>2. charge'[s] = 0 /\ \A t \in Sale : t # s => charge'[t] = charge[t]
    BY <1>t, <2>1
  <2>3. reversals'[s] = <<>> /\ \A t \in Sale : t # s => reversals'[t] = reversals[t]
    BY <1>t, <2>1
  <2>4. Sum(reversals'[s]) = 0
    BY <2>3, SumOfNothing
  <2>5. Charged' = Charged + (charge'[s] - charge[s])
    BY <1>p, <2>2, ChargeMoves
  <2>6. Returned' = Returned + (Sum(reversals'[s]) - Sum(reversals[s]))
    BY <1>p, <2>3, ReversalsMove
  <2>7. Adjusted' = Adjusted /\ Received' = Received
    BY <2>1 DEF Adjusted, Received
  <2>8. Charged \in Int /\ Adjusted \in Int /\ Received \in Int /\ Returned \in Int
    BY SumsAreNumbers DEF Numbers
  <2>9. balance' = balance + (Charged' - Charged) + (Adjusted' - Adjusted)
                   - (Received' - Received) - (Returned' - Returned)
    <3> DEFINE dc == charge'[s] - charge[s]
               dr == Sum(reversals'[s]) - Sum(reversals[s])
    <3>1. dc \in Int /\ dr \in Int /\ balance' = balance + dc - dr
      BY <1>t, <2>1, <2>2, <2>4
    <3>2. Charged' = Charged + dc /\ Returned' = Returned + dr
      BY <2>5, <2>6
    <3> HIDE DEF dc, dr
    <3> QED
      BY <1>t, <2>7, <2>8, <3>1, <3>2
  <2> QED
    BY <1>p, <2>9, BalanceMoves
<1>6. CASE DeleteChargeRow(s)
  <2>1. /\ charge' = [charge EXCEPT ![s] = 0] /\ balance' = balance - charge[s]
        /\ UNCHANGED <<reversals, payments, adjustments>>
    BY <1>6 DEF DeleteChargeRow
  <2>2. charge'[s] = 0 /\ \A t \in Sale : t # s => charge'[t] = charge[t]
    BY <1>t, <2>1
  <2>3. balance' = balance + (charge'[s] - charge[s])
    BY <1>t, <2>1, <2>2
  <2> QED
    BY <1>p, <2>1, <2>2, <2>3, OnlyChargeMoves
<1>7. ASSUME NEW k \in DOMAIN reversals[s], DeleteReversalRow(s, k)
      PROVE  Drift' = Drift
  <2>1. /\ reversals' = [reversals EXCEPT ![s] = RemoveAt(@, k)]
        /\ balance' = balance + reversals[s][k]
        /\ UNCHANGED <<charge, payments, adjustments>>
    BY <1>7 DEF DeleteReversalRow
  <2>2. /\ reversals'[s] = RemoveAt(reversals[s], k)
        /\ \A t \in Sale : t # s => reversals'[t] = reversals[t]
    BY <1>t, <2>1
  <2>3. Sum(reversals'[s]) = Sum(reversals[s]) - reversals[s][k] /\ reversals[s][k] \in Int
    BY <1>t, <2>2, SumRemove, LenProperties, ElementOfSeq
  <2>4. balance' = balance - (Sum(reversals'[s]) - Sum(reversals[s]))
    BY <1>t, <2>1, <2>3
  <2> QED
    BY <1>p, <2>1, <2>2, <2>4, OnlyReversalsMove
<1>8. CASE MarkPaid(s)
  BY <1>8, BalanceStays DEF MarkPaid
<1> QED
  BY <1>1, <1>2, <1>3, <1>4, <1>5, <1>6, <1>7, <1>8 DEF SaleStep

\* A payment is added.
LEMMA ApplyBalance ==
    ASSUME TypeInv, TypeInv', NEW a \in Int, ApplyPayment(a)
    PROVE  Drift' = Drift
<1>1. /\ payments' = Append(payments, a) /\ balance' = balance - a
      /\ UNCHANGED <<charge, reversals, adjustments>>
  BY DEF ApplyPayment
<1>2. payments \in Seq(Int)
  BY AmountsAreNumbers DEF TypeInv
<1>3. Received' = Received + a
  BY <1>1, <1>2, SumAppend DEF Received
<1>4. Charged' = Charged /\ Adjusted' = Adjusted /\ Returned' = Returned
  BY <1>1 DEF Charged, Adjusted, Returned, ReversalOf
<1>5. Charged \in Int /\ Adjusted \in Int /\ Received \in Int /\ Returned \in Int /\ balance \in Int
  BY SumsAreNumbers DEF Numbers
<1>6. balance' = balance + (Charged' - Charged) + (Adjusted' - Adjusted)
                 - (Received' - Received) - (Returned' - Returned)
  BY <1>1, <1>3, <1>4, <1>5
<1> QED
  BY <1>6, BalanceMoves

\* A payment is deleted.
LEMMA RemoveBalance ==
    ASSUME TypeInv, TypeInv', NEW i \in DOMAIN payments, RemovePayment(i)
    PROVE  Drift' = Drift
<1>1. /\ payments' = [payments EXCEPT ![i] = 0] /\ balance' = balance + payments[i]
      /\ UNCHANGED <<charge, reversals, adjustments>>
  BY DEF RemovePayment
<1>2. payments \in Seq(Int) /\ payments[i] \in Int
  BY AmountsAreNumbers, LenProperties, ElementOfSeq DEF TypeInv
<1>3. Received' = Received + (0 - payments[i])
  <2> DEFINE z == 0
  <2>1. z \in Int /\ payments' = [payments EXCEPT ![i] = z]
    BY <1>1
  <2> HIDE DEF z
  <2>2. Sum(payments') = Sum(payments) + (z - payments[i])
    BY <1>2, <2>1, SumChange
  <2> QED
    BY <2>2 DEF z, Received
<1>4. Charged' = Charged /\ Adjusted' = Adjusted /\ Returned' = Returned
  BY <1>1 DEF Charged, Adjusted, Returned, ReversalOf
<1>5. Charged \in Int /\ Adjusted \in Int /\ Received \in Int /\ Returned \in Int /\ balance \in Int
  BY SumsAreNumbers DEF Numbers
<1>6. balance' = balance + (Charged' - Charged) + (Adjusted' - Adjusted)
                 - (Received' - Received) - (Returned' - Returned)
  BY <1>1, <1>2, <1>3, <1>4, <1>5
<1> QED
  BY <1>6, BalanceMoves

\* Steps on the payments move the balance as they move the rows.
LEMMA PaymentStepBalance ==
    ASSUME TypeInv, PaymentStep
    PROVE  Drift' = Drift
<1>p. TypeInv'
  BY PaymentStepTypes
<1>1. ASSUME NEW a \in Amounts, RecordPayment(a)
      PROVE  Drift' = Drift
  <2>1. a \in Int /\ ApplyPayment(a)
    BY <1>1, AmountsAssumption DEF RecordPayment
  <2> QED
    BY <1>p, <2>1, ApplyBalance
<1>2. ASSUME NEW a \in Amounts, SubmitPayment(a) \/ EditSubmission(a)
      PROVE  Drift' = Drift
  BY <1>2, BalanceStays DEF SubmitPayment, EditSubmission
<1>3. ASSUME NEW i \in DOMAIN payments, DeletePayment(i)
      PROVE  Drift' = Drift
  BY <1>p, <1>3, RemoveBalance DEF DeletePayment
<1>4. CASE ApproveSubmission
  <2>1. submission.amount \in Int /\ ApplyPayment(submission.amount)
    BY <1>4, AmountsAssumption DEF ApproveSubmission, TypeInv, TypeOK, Submission
  <2> QED
    BY <1>p, <2>1, ApplyBalance
<1>5. CASE RejectSubmission
  BY <1>5, BalanceStays DEF RejectSubmission
<1>6. CASE UndoSubmission
  <2>1. CASE UNCHANGED <<rowVars, balance>>
    BY <2>1, BalanceStays
  <2>2. CASE submission.payment # 0 /\ RemovePayment(submission.payment)
    BY <1>p, <2>2, UndonePaymentExists, RemoveBalance
  <2> QED
    BY <1>6, <2>1, <2>2 DEF UndoSubmission
<1> QED
  BY <1>1, <1>2, <1>3, <1>4, <1>5, <1>6 DEF PaymentStep

\* A write-off returns every pending sale at its price, and clears what the
\* balance holds beyond them.
LEMMA WriteOffBalance ==
    ASSUME TypeInv, TypeInv', WriteOff
    PROVE  Drift' = Drift
<1> DEFINE unpaid == {s \in Sale : status[s] = "pending"}
           owed == Worth(unpaid, price)
           leftover == balance - owed
           due == [s \in Sale |-> IF s \in unpaid THEN price[s] ELSE 0]
<1>1. /\ reversals' = [s \in Sale |-> IF s \in unpaid THEN Append(reversals[s], price[s])
                                      ELSE reversals[s]]
      /\ \/ adjustments' = Append(adjustments, -leftover) /\ balance' = 0
         \/ adjustments' = adjustments /\ balance' = leftover
      /\ UNCHANGED <<charge, payments>>
  BY DEF WriteOff
<1>2. /\ price \in [Sale -> Nat] /\ adjustments \in Seq(Int)
      /\ \A s \in Sale : reversals[s] \in Seq(Int) /\ Sum(reversals[s]) \in Int /\ price[s] \in Int
  BY AmountsAreNumbers DEF TypeInv
<1>3. due \in [1..NumSales -> Int] /\ owed \in Int
  BY <1>2, WorthType
<1>4. Total(due, NumSales) = owed
  BY DEF Worth
<1>5. ASSUME NEW s \in Sale
      PROVE  ReversalOf'[s] = ReversalOf[s] + due[s]
  <2>0. ReversalOf'[s] = Sum(reversals'[s]) /\ ReversalOf[s] = Sum(reversals[s])
    BY DEF ReversalOf
  <2>1. CASE s \in unpaid
    <3>1. reversals'[s] = Append(reversals[s], price[s]) /\ due[s] = price[s]
      BY <1>1, <2>1
    <3>2. Sum(reversals'[s]) = Sum(reversals[s]) + price[s]
      BY <1>2, <3>1, SumAppend
    <3> HIDE DEF due
    <3> QED
      BY <2>0, <3>1, <3>2
  <2>2. CASE s \notin unpaid
    <3>1. reversals'[s] = reversals[s] /\ due[s] = 0
      BY <1>1, <2>2
    <3> HIDE DEF due
    <3> QED
      BY <1>2, <2>0, <3>1
  <2> QED
    BY <2>1, <2>2
<1>6. ReversalOf \in [1..NumSales -> Int] /\ ReversalOf' \in [1..NumSales -> Int]
  BY SumsAreNumbers, SumsStayNumbers DEF Numbers
<1>7. Returned' = Returned + owed
  <2>1. \A j \in 1..NumSales : ReversalOf'[j] = ReversalOf[j] + due[j]
    BY <1>5 DEF Sale
  <2> HIDE DEF due, owed
  <2>2. Total(ReversalOf', NumSales) = Total(ReversalOf, NumSales) + Total(due, NumSales)
    BY <1>3, <1>6, <2>1, BoundsAssumption, TotalOfSums
  <2> QED
    BY <1>4, <2>2 DEF Returned
<1>8. Charged' = Charged /\ Received' = Received
  BY <1>1 DEF Charged, Received
<1>9. Charged \in Int /\ Adjusted \in Int /\ Received \in Int /\ Returned \in Int /\ balance \in Int
  BY SumsAreNumbers DEF Numbers
<1>10. balance' + owed = balance + (Adjusted' - Adjusted)
  <2> DEFINE cleared == -leftover
  <2>1. cleared \in Int /\ cleared = owed - balance /\ leftover = balance - owed
    <3> HIDE DEF owed
    <3> QED
      BY <1>3, <1>9
  <2> HIDE DEF owed
  <2>2. CASE adjustments' = Append(adjustments, -leftover) /\ balance' = 0
    <3>1. adjustments' = Append(adjustments, cleared)
      BY <2>2
    <3> HIDE DEF cleared, leftover
    <3>2. Adjusted' = Adjusted + cleared
      BY <1>2, <2>1, <3>1, SumAppend DEF Adjusted
    <3> QED
      BY <1>3, <1>9, <2>1, <2>2, <3>2
  <2>3. CASE adjustments' = adjustments /\ balance' = leftover
    <3>1. Adjusted' = Adjusted
      BY <2>3 DEF Adjusted
    <3> HIDE DEF cleared, leftover
    <3> QED
      BY <1>3, <1>9, <2>1, <2>3, <3>1
  <2> HIDE DEF cleared, leftover
  <2> QED
    BY <1>1, <2>2, <2>3 DEF leftover
<1>11. Adjusted' \in Int /\ balance' \in Int
  BY SumsStayNumbers DEF Numbers
<1> HIDE DEF unpaid, owed, leftover, due
<1>12. balance' = balance + (Charged' - Charged) + (Adjusted' - Adjusted)
                  - (Received' - Received) - (Returned' - Returned)
  <2>1. Returned' - Returned = owed /\ Charged' - Charged = 0 /\ Received' - Received = 0
    BY <1>3, <1>7, <1>8, <1>9
  <2>2. balance' = balance + (Adjusted' - Adjusted) - owed
    <3> DEFINE b == balance'
               d == Adjusted' - Adjusted
    <3>1. b \in Int /\ d \in Int /\ balance \in Int /\ owed \in Int
      BY <1>3, <1>9, <1>11
    <3>2. b + owed = balance + d
      BY <1>10
    <3> HIDE DEF b, d
    <3>3. b = balance + d - owed
      BY <3>1, <3>2
    <3> QED
      BY <3>3 DEF b, d
  <2> QED
    BY <1>9, <1>11, <2>1, <2>2
<1> QED
  BY <1>12, BalanceMoves

\* Manual work moves the balance as it moves the rows.
LEMMA ManualBalance ==
    ASSUME TypeInv, ManualStep
    PROVE  Drift' = Drift
<1>p. TypeInv'
  BY ManualTypes
<1>n. /\ Charged \in Int /\ Adjusted \in Int /\ Received \in Int /\ Returned \in Int
      /\ balance \in Int /\ adjustments \in Seq(Int)
  BY SumsAreNumbers DEF Numbers, TypeInv, TypeOK
<1>1. ASSUME NEW x \in Corrections, Adjust(x)
      PROVE  Drift' = Drift
  <2>1. /\ adjustments' = Append(adjustments, x) /\ balance' = balance + x /\ x \in Int
        /\ UNCHANGED <<charge, reversals, payments>>
    BY <1>1, CorrectionsAssumption DEF Adjust
  <2>2. Adjusted' = Adjusted + x
    BY <1>n, <2>1, SumAppend DEF Adjusted
  <2>3. Charged' = Charged /\ Received' = Received /\ Returned' = Returned
    BY <2>1 DEF Charged, Received, Returned, ReversalOf
  <2>4. balance' = balance + (Charged' - Charged) + (Adjusted' - Adjusted)
                   - (Received' - Received) - (Returned' - Returned)
    BY <1>n, <2>1, <2>2, <2>3
  <2> QED
    BY <1>p, <2>4, BalanceMoves
<1>2. ASSUME NEW k \in DOMAIN adjustments, DeleteAdjustmentRow(k)
      PROVE  Drift' = Drift
  <2>1. /\ adjustments' = RemoveAt(adjustments, k) /\ balance' = balance - adjustments[k]
        /\ UNCHANGED <<charge, reversals, payments>>
    BY <1>2 DEF DeleteAdjustmentRow
  <2>2. Adjusted' = Adjusted - adjustments[k] /\ adjustments[k] \in Int
    BY <1>n, <2>1, SumRemove, LenProperties, ElementOfSeq DEF Adjusted
  <2>3. Charged' = Charged /\ Received' = Received /\ Returned' = Returned
    BY <2>1 DEF Charged, Received, Returned, ReversalOf
  <2>4. balance' = balance + (Charged' - Charged) + (Adjusted' - Adjusted)
                   - (Received' - Received) - (Returned' - Returned)
    BY <1>n, <2>1, <2>2, <2>3
  <2> QED
    BY <1>p, <2>4, BalanceMoves
<1>3. CASE WriteOff
  BY <1>p, <1>3, WriteOffBalance
<1> QED
  BY <1>1, <1>2, <1>3 DEF ManualStep

\* What a request of the customer form has read is still the balance, as long as
\* nothing runs in between.
FormIsFresh == form = <<>> \/ form = <<balance>>

\* Services wait for the request to end.
LEMMA ServicesLeaveTheForm ==
    ASSUME Overtaken = FALSE, ServiceRuns
    PROVE  FormIsFresh'
BY DEF ServiceRuns, FormIsFresh

\* A customer form saves another balance than the account has at that moment.
StaleFormSaved == (\E on \in BOOLEAN : SaveForm(on)) /\ form[1] # balance

\* The customer form writes back the balance it has read: another one than the
\* account has now only when it was overtaken.
LEMMA FormStepBalance ==
    ASSUME FormStep
    PROVE  Drift' = Drift \/ StaleFormSaved
<1>1. CASE OpenForm
  <2>1. UNCHANGED <<rowVars, balance>>
    BY <1>1 DEF OpenForm
  <2> QED
    BY <2>1, BalanceStays
<1>2. ASSUME NEW on \in BOOLEAN, SaveForm(on), form[1] = balance
      PROVE  Drift' = Drift
  <2>1. UNCHANGED <<rowVars, balance>>
    BY <1>2 DEF SaveForm
  <2> QED
    BY <2>1, BalanceStays
<1> QED
  BY <1>1, <1>2 DEF FormStep, StaleFormSaved

\* A form that nothing overtakes is fresh all the time.
LEMMA FormStaysFresh ==
    ASSUME FormIsFresh, FormStep
    PROVE  FormIsFresh' /\ ~StaleFormSaved
BY DEF FormIsFresh, FormStep, OpenForm, SaveForm, StaleFormSaved

\* Every operation but those of the form is one of the services.
LEMMA ServicesRun ==
    ASSUME (\E s \in Sale : SaleStep(s)) \/ PaymentStep \/ ManualStep
    PROVE  ServiceRuns
<1>1. ASSUME NEW s \in Sale, SaleStep(s) PROVE ServiceRuns
  BY <1>1 DEF SaleStep, CreateSale, EditPrice, ApproveSale, CancelSale, DeleteSale,
              DeleteChargeRow, DeleteReversalRow, MarkPaid
<1>2. CASE PaymentStep
  BY <1>2 DEF PaymentStep, RecordPayment, SubmitPayment, EditSubmission, DeletePayment,
              ApproveSubmission, RejectSubmission, UndoSubmission, ApplyPayment, RemovePayment
<1>3. CASE ManualStep
  BY <1>3 DEF ManualStep, Adjust, DeleteAdjustmentRow, WriteOff
<1> QED
  BY <1>1, <1>2, <1>3

\* No step moves the balance away from the rows, or back to them, but a customer
\* form that saves another balance than the account has at that moment.
LEMMA StepKeepsDrift ==
    ASSUME TypeInv, [Next]_vars
    PROVE  Drift' = Drift \/ StaleFormSaved
<1>1. CASE \E s \in Sale : SaleStep(s)
  BY <1>1, SaleStepBalance
<1>2. CASE PaymentStep
  BY <1>2, PaymentStepBalance
<1>3. CASE ManualStep
  BY <1>3, ManualBalance
<1>4. CASE FormStep
  BY <1>4, FormStepBalance
<1>5. CASE UNCHANGED vars
  <2>1. UNCHANGED <<rowVars, balance>>
    BY <1>5 DEF vars
  <2> QED
    BY <2>1, BalanceStays
<1> QED
  BY <1>1, <1>2, <1>3, <1>4, <1>5 DEF Next

\* Each service moves the balance by exactly what it does to the rows, whatever the
\* balance has become: only a stale customer form parts the two.
THEOREM OnlyStaleFormsDrift ==
    Spec => [][Drift' = Drift \/ StaleFormSaved]_vars
<1>1. Init => TypeInv
  BY TypesAtFirst
<1>2. TypeInv /\ [Next]_vars => TypeInv'
  BY TypesKept
<1>3. TypeInv /\ [Next]_vars
        => [Drift' = Drift \/ StaleFormSaved]_vars
  BY StepKeepsDrift
<1> QED
  BY <1>1, <1>2, <1>3, PTL DEF Spec

LEMMA NoDrift ==
    /\ TypeInv => (BalanceMatchesLedger <=> Drift = 0)
    /\ TypeInv' => (BalanceMatchesLedger' <=> Drift' = 0)
<1>1. BalanceMatchesLedger <=> balance = Charged + Adjusted - Received - Returned
  BY DEF BalanceMatchesLedger, Charged, Adjusted, Received, Returned, ReversalOf
<1>2. BalanceMatchesLedger' <=> balance' = Charged' + Adjusted' - Received' - Returned'
  BY DEF BalanceMatchesLedger, Charged, Adjusted, Received, Returned, ReversalOf
<1>3. \A m, c, a, r, o \in Int : m = c + a - r - o <=> m - (c + a - r - o) = 0
  OBVIOUS
<1>4. ASSUME TypeInv PROVE BalanceMatchesLedger <=> Drift = 0
  <2>1. Charged \in Int /\ Adjusted \in Int /\ Received \in Int /\ Returned \in Int /\ balance \in Int
    BY <1>4, SumsAreNumbers DEF Numbers
  <2> QED
    BY <1>1, <1>3, <2>1 DEF Drift
<1>5. ASSUME TypeInv' PROVE BalanceMatchesLedger' <=> Drift' = 0
  <2>1. /\ Charged' \in Int /\ Adjusted' \in Int /\ Received' \in Int /\ Returned' \in Int
        /\ balance' \in Int
    BY <1>5, SumsStayNumbers DEF Numbers
  <2> DEFINE c == Charged'
             a == Adjusted'
             r == Received'
             o == Returned'
             m == balance'
  <2>2. c \in Int /\ a \in Int /\ r \in Int /\ o \in Int /\ m \in Int
    BY <2>1
  <2>3. m = c + a - r - o <=> m - (c + a - r - o) = 0
    <3> HIDE DEF c, a, r, o, m
    <3> QED
      BY <1>3, <2>2
  <2> QED
    BY <1>2, <2>3 DEF Drift
<1> QED
  BY <1>4, <1>5

\* As long as no operation overtakes a request of the customer form, the running
\* balance is the sum of the ledger rows: for any number of sales, payments and
\* adjustments, any prices and amounts, and through every order of approvals,
\* price edits, cancellations, deletions, settlements and write-offs.
THEOREM BalanceIsExplained ==
    ASSUME Overtaken = FALSE
    PROVE  Spec => []BalanceMatchesLedger
<1> DEFINE IInv == TypeInv /\ FormIsFresh /\ BalanceMatchesLedger
<1>1. Init => IInv
  <2> SUFFICES ASSUME Init PROVE IInv
    OBVIOUS
  <2>1. TypeInv
    BY TypesAtFirst
  <2>2. /\ charge = [s \in Sale |-> 0] /\ ReversalOf = [s \in Sale |-> 0]
        /\ Received = 0 /\ Adjusted = 0 /\ balance = 0 /\ form = <<>>
    BY SumOfNothing DEF Init, ReversalOf, Received, Adjusted
  <2>3. Charged = 0 /\ Returned = 0
    <3> DEFINE none == [s \in Sale |-> 0]
    <3>1. none \in [1..NumSales -> Int] /\ \A j \in 1..NumSales : none[j] = 0
      BY DEF Sale
    <3> HIDE DEF none
    <3>2. Total(none, NumSales) = 0
      BY <3>1, BoundsAssumption, TotalOfZeros
    <3> QED
      BY <2>2, <3>2 DEF none, Charged, Returned
  <2>4. balance = Charged + Adjusted - Received - Returned
    BY <2>2, <2>3
  <2> QED
    BY <2>1, <2>2, <2>4
       DEF FormIsFresh, BalanceMatchesLedger, Charged, Adjusted, Received, Returned, ReversalOf
<1>2. IInv /\ [Next]_vars => IInv'
  <2> SUFFICES ASSUME IInv, [Next]_vars PROVE IInv'
    OBVIOUS
  <2>1. TypeInv'
    BY TypesKept
  <2>2. FormIsFresh' /\ ~StaleFormSaved
    <3>1. CASE (\E s \in Sale : SaleStep(s)) \/ PaymentStep \/ ManualStep
      <4>1. ServiceRuns
        BY <3>1, ServicesRun
      <4> QED
        BY <4>1, ServicesLeaveTheForm DEF ServiceRuns, SaveForm, StaleFormSaved
    <3>2. CASE FormStep
      BY <3>2, FormStaysFresh
    <3>3. CASE UNCHANGED vars
      BY <3>3 DEF vars, FormIsFresh, SaveForm, StaleFormSaved
    <3> QED
      BY <3>1, <3>2, <3>3 DEF Next
  <2>3. Drift' = Drift
    BY <2>2, StepKeepsDrift
  <2> QED
    BY <2>1, <2>2, <2>3, NoDrift
<1>3. IInv => BalanceMatchesLedger
  OBVIOUS
<1> QED
  BY <1>1, <1>2, <1>3, PTL DEF Spec

-----------------------------------------------------------------------------
(***************************************************************************)
(* The settlement.  What it settles is the front of the queue of pending   *)
(* sales, and the payments cover it.                                       *)
(***************************************************************************)

PaidIn(st) == {s \in Sale : st[s] = "paid"}

\* What is settled was left pending, and fits the headroom together with every
\* older sale that was.
LEMMA SettledIsOldest ==
    ASSUME NEW counted, NEW left, NEW paid, NEW prices, NEW pays, NEW adjusts, NEW bal,
           NEW s \in Settled(counted, left, paid, prices, pays, adjusts, bal)
    PROVE  LET limit == Headroom(counted, paid, prices, pays, adjusts, bal)
           IN  /\ s \in left
               /\ Worth({t \in left : t <= s}, prices) <= limit
               /\ Settled(counted, left, paid, prices, pays, adjusts, bal)
                    = Oldest(left, prices, limit)
BY DEF Settled, Oldest

\* The headroom leaves out the sales that are settled and the manual debt.
LEMMA HeadroomLeavesOut ==
    ASSUME NEW prices \in [Sale -> Nat], NEW pays \in Seq(Int), NEW adjusts \in Seq(Int),
           NEW bal \in Int, NEW pending, NEW paid
    PROVE  /\ Headroom(pending, paid, prices, pays, adjusts, bal) \in Int
           /\ Headroom(pending, paid, prices, pays, adjusts, bal)
                <= Sum(pays) - Worth(paid, prices) - Larger(0, Sum(adjusts))
<1> DEFINE p == Sum(pays)
           a == Sum(adjusts)
           w == Worth(paid, prices)
           o == Worth(pending, prices)
<1>1. p \in Int /\ a \in Int /\ w \in Int /\ o \in Int
  BY SumType, WorthType
<1> HIDE DEF p, a, w, o
<1>2. Headroom(pending, paid, prices, pays, adjusts, bal)
        = p - w - Larger(Larger(0, a), Larger(0, bal - o))
  BY DEF Headroom, p, a, w, o
<1>3. /\ p - w - Larger(Larger(0, a), Larger(0, bal - o)) \in Int
      /\ p - w - Larger(Larger(0, a), Larger(0, bal - o)) <= p - w - Larger(0, a)
  BY <1>1 DEF Larger
<1> QED
  BY <1>2, <1>3 DEF p, a, w

\* When a settlement settles anything, the payments cover all it has counted as
\* paid, what it settles, and the manual debt.
LEMMA SettlementIsCovered ==
    ASSUME NEW counted, NEW left, NEW paid, left \subseteq Sale, paid \cap left = {},
           NEW prices \in [Sale -> Nat],
           NEW pays \in Seq(Int), NEW adjusts \in Seq(Int), NEW bal \in Int,
           Settled(counted, left, paid, prices, pays, adjusts, bal) # {}
    PROVE  Worth(paid \cup Settled(counted, left, paid, prices, pays, adjusts, bal), prices)
             + Larger(0, Sum(adjusts)) <= Sum(pays)
<1> DEFINE now == Settled(counted, left, paid, prices, pays, adjusts, bal)
           limit == Headroom(counted, paid, prices, pays, adjusts, bal)
<1>1. \A s \in now : s \in left /\ Worth({t \in left : t <= s}, prices) <= limit
  BY SettledIsOldest
<1>2. now \subseteq 0..NumSales /\ now # {} /\ NumSales \in Nat
  <2>1. left \subseteq 0..NumSales /\ NumSales \in Nat
    BY BoundsAssumption DEF Sale
  <2> HIDE DEF limit
  <2> QED
    BY <1>1, <2>1
<1>3. PICK m \in now : \A s \in now : s <= m
  <2> HIDE DEF now
  <2> QED
    BY <1>2, GreatestElement
<1> DEFINE front == {t \in left : t <= m}
<1>4. Worth(front, prices) <= limit /\ now \subseteq front
  BY <1>1, <1>3
<1>5. paid \cap now = {}
  BY <1>1
<1>6. limit \in Int /\ limit <= Sum(pays) - Worth(paid, prices) - Larger(0, Sum(adjusts))
  BY HeadroomLeavesOut
<1>7. Sum(pays) \in Int /\ Larger(0, Sum(adjusts)) \in Int
  BY SumType DEF Larger
<1> HIDE DEF now, front, limit
<1>8. Worth(now, prices) <= Worth(front, prices)
  BY <1>4, WorthMonotone
<1>9. Worth(paid \cup now, prices) = Worth(paid, prices) + Worth(now, prices)
  BY <1>5, WorthUnion
<1>10. /\ Worth(now, prices) \in Int /\ Worth(front, prices) \in Int
       /\ Worth(paid, prices) \in Int
  BY WorthType
<1>11. Worth(paid \cup now, prices) + Larger(0, Sum(adjusts)) <= Sum(pays)
  BY <1>4, <1>6, <1>7, <1>8, <1>9, <1>10
<1> QED
  BY <1>11 DEF now

\* A settlement that reaches a sale reaches every older one that was left pending.
LEMMA OlderIsSettled ==
    ASSUME NEW counted, NEW left, NEW paid, left \subseteq Sale,
           NEW prices \in [Sale -> Nat],
           NEW pays \in Seq(Int), NEW adjusts \in Seq(Int), NEW bal \in Int,
           NEW s \in left, NEW t \in Settled(counted, left, paid, prices, pays, adjusts, bal),
           s < t
    PROVE  s \in Settled(counted, left, paid, prices, pays, adjusts, bal)
<1> DEFINE limit == Headroom(counted, paid, prices, pays, adjusts, bal)
           upTo(r) == {q \in left : q <= r}
<1>1. /\ t \in left /\ Worth({q \in left : q <= t}, prices) <= limit
      /\ Settled(counted, left, paid, prices, pays, adjusts, bal) = Oldest(left, prices, limit)
  <2> HIDE DEF upTo
  <2>1. t \in left
    BY SettledIsOldest
  <2>2. Worth({q \in left : q <= t}, prices) <= limit
    BY SettledIsOldest
  <2>3. Settled(counted, left, paid, prices, pays, adjusts, bal) = Oldest(left, prices, limit)
    BY DEF Settled
  <2> QED
    BY <2>1, <2>2, <2>3
<1>2. upTo(s) \subseteq upTo(t)
  <2>1. \A q \in left : q \in Int
    BY BoundsAssumption DEF Sale
  <2>2. \A q \in left : q <= s => q <= t
    BY <1>1, <2>1
  <2> QED
    BY <2>2
<1>3. limit \in Int
  BY HeadroomLeavesOut
<1>4. Worth(upTo(s), prices) <= Worth(upTo(t), prices)
  <2> HIDE DEF upTo
  <2> QED
    BY <1>2, WorthMonotone
<1>5. Worth(upTo(s), prices) \in Int /\ Worth(upTo(t), prices) \in Int
  <2> HIDE DEF upTo
  <2> QED
    BY WorthType
<1>6. Worth(upTo(s), prices) <= limit
  <2> HIDE DEF upTo, limit
  <2> QED
    BY <1>1, <1>3, <1>4, <1>5 DEF upTo
<1> QED
  BY <1>1, <1>6 DEF Oldest

\* A step settles nothing, or ends in the settlement pass.
SettlesNothing == \A s \in Sale \ byHand' : status'[s] = "paid" => status[s] = "paid"

Reapplies ==
    \E st \in [Sale -> SaleStatus] :
        /\ \A s \in Sale : st[s] = "paid" => status[s] = "paid"
        /\ \E by, held : Reapply(st, by, held)

LEMMA SaleStepReapplies ==
    ASSUME TypeInv, NEW s \in Sale, SaleStep(s)
    PROVE  SettlesNothing \/ Reapplies
<1>t. status \in [Sale -> SaleStatus]
  BY DEF TypeInv, TypeOK
<1> DEFINE st == [status EXCEPT ![s] = "pending"]
<1>s. st \in [Sale -> SaleStatus] /\ \A t \in Sale : st[t] = "paid" => status[t] = "paid"
  BY <1>t DEF SaleStatus
<1> HIDE DEF st
<1>1. ASSUME NEW p \in Prices, CreateSale(s, p)
      PROVE  SettlesNothing
  BY <1>t, <1>1 DEF CreateSale, SettlesNothing
<1>2. ASSUME NEW p \in Prices, EditPrice(s, p)
      PROVE  SettlesNothing \/ Reapplies
  <2>1. CASE status' = status
    BY <2>1 DEF SettlesNothing
  <2>2. CASE Reapply([status EXCEPT ![s] = "pending"],
                     [stamp EXCEPT ![s] = IF status[s] = "paid" THEN 0 ELSE @], {s})
    BY <1>s, <2>2 DEF Reapplies, st
  <2> QED
    BY <1>2, <2>1, <2>2 DEF EditPrice
<1>3. CASE ApproveSale(s)
  BY <1>s, <1>3 DEF ApproveSale, Reapplies, st
<1>4. CASE CancelSale(s) \/ DeleteSale(s)
  BY <1>t, <1>4 DEF CancelSale, DeleteSale, SettlesNothing
<1>5. CASE DeleteChargeRow(s) \/ \E k \in DOMAIN reversals[s] : DeleteReversalRow(s, k)
  BY <1>5 DEF DeleteChargeRow, DeleteReversalRow, saleVars, SettlesNothing
<1>6. CASE MarkPaid(s)
  BY <1>t, <1>6 DEF MarkPaid, SettlesNothing
<1> QED
  BY <1>1, <1>2, <1>3, <1>4, <1>5, <1>6 DEF SaleStep

LEMMA PaymentStepReapplies ==
    ASSUME TypeInv, PaymentStep
    PROVE  SettlesNothing \/ Reapplies
<1>t. status \in [Sale -> SaleStatus]
  BY DEF TypeInv, TypeOK
<1>1. ASSUME NEW a, ApplyPayment(a)
      PROVE  Reapplies
  BY <1>t, <1>1 DEF ApplyPayment, Reapplies
<1>2. ASSUME NEW i, RemovePayment(i)
      PROVE  Reapplies
  <2> DEFINE st == [s \in Sale |-> IF status[s] = "paid" /\ stamp[s] = i
                                   THEN "pending" ELSE status[s]]
  <2>1. st \in [Sale -> SaleStatus] /\ \A s \in Sale : st[s] = "paid" => status[s] = "paid"
    BY <1>t DEF SaleStatus
  <2>2. \E by, held : Reapply(st, by, held)
    BY <1>2 DEF RemovePayment
  <2> HIDE DEF st
  <2> QED
    BY <2>1, <2>2 DEF Reapplies
<1>3. CASE UNCHANGED saleVars
  BY <1>3 DEF saleVars, SettlesNothing
<1> QED
  BY <1>1, <1>2, <1>3 DEF PaymentStep, RecordPayment, SubmitPayment, EditSubmission,
     DeletePayment, ApproveSubmission, RejectSubmission, UndoSubmission

LEMMA OtherStepReapplies ==
    ASSUME TypeInv, ManualStep \/ FormStep \/ UNCHANGED vars
    PROVE  SettlesNothing \/ Reapplies
<1>t. status \in [Sale -> SaleStatus]
  BY DEF TypeInv, TypeOK
<1>1. ASSUME NEW x, Adjust(x)
      PROVE  Reapplies
  BY <1>t, <1>1 DEF Adjust, Reapplies
<1>2. CASE WriteOff
  <2>1. status' = [s \in Sale |-> IF s \in {r \in Sale : status[r] = "pending"}
                                  THEN "written_off" ELSE status[s]]
    BY <1>2 DEF WriteOff
  <2> QED
    BY <2>1 DEF SettlesNothing
<1>3. CASE UNCHANGED saleVars
  BY <1>3 DEF saleVars, SettlesNothing
<1> QED
  BY <1>1, <1>2, <1>3 DEF ManualStep, DeleteAdjustmentRow, FormStep, OpenForm, SaveForm, vars

\* What a settlement pass settles, as the state after it shows.
LEMMA ReapplySettles ==
    ASSUME TypeInv', NEW st \in [Sale -> SaleStatus], NEW by, NEW held, Reapply(st, by, held),
           \A s \in Sale : st[s] = "paid" => status[s] = "paid"
    PROVE  /\ (\E s \in Sale \ byHand' : st[s] # "paid" /\ status'[s] = "paid") =>
                Worth(PaidSales' \ MarkedNow, price') + Larger(0, Sum(adjustments'))
                    <= Sum(payments')
           /\ \A s \in Sale, t \in Sale \ byHand' :
                s < t /\ st[t] # "paid" /\ status'[t] = "paid" => status'[s] # "pending"
<1> DEFINE pending == {s \in Sale : st[s] = "pending"}
           paid == PaidIn(st)
<1>1. PICK counted \in SUBSET pending, left \in SUBSET pending :
           /\ \A s \in pending \ left : status[s] = "pending"
           /\ Pass(st, by, counted, left)
  BY DEF Reapply
<1> DEFINE now == Settled(counted, left, paid, price', payments', adjustments', balance')
           hand == pending \ left
<1>2. /\ \A s \in Sale : status'[s] = IF s \in now \cup hand THEN "paid" ELSE st[s]
      /\ byHand' = {s \in byHand : st[s] = "paid"} \cup hand
  BY <1>1 DEF Pass, PaidIn
<1>3. now \subseteq left /\ left \subseteq Sale /\ paid \cap left = {}
  BY DEF Settled, Oldest, PaidIn
<1>4. /\ price' \in [Sale -> Nat] /\ payments' \in Seq(Int)
      /\ adjustments' \in Seq(Int) /\ balance' \in Int
  <2>1. /\ price' \in [Sale -> Prices \cup {0}] /\ payments' \in Seq(Amounts \cup {0})
        /\ adjustments' \in Seq(Int) /\ balance' \in Int
    BY DEF TypeInv, TypeOK
  <2>2. Prices \cup {0} \subseteq Nat /\ Amounts \cup {0} \subseteq Int
    BY PricesAssumption, AmountsAssumption
  <2>3. price' \in [Sale -> Nat]
    BY <2>1, <2>2
  <2> QED
    BY <2>1, <2>2, <2>3, SeqMonotonic
<1>5. ASSUME NEW s \in Sale \ byHand', st[s] # "paid", status'[s] = "paid"
      PROVE  s \in now
  <2>1. s \in now \cup hand
    BY <1>2, <1>5
  <2> QED
    BY <1>2, <1>5, <2>1
<1>6. ASSUME NEW s \in Sale \ byHand', st[s] # "paid", status'[s] = "paid"
      PROVE  Worth(PaidSales' \ MarkedNow, price') + Larger(0, Sum(adjustments'))
                 <= Sum(payments')
  <2>1. now # {}
    BY <1>5, <1>6
  <2>2. Worth(paid \cup now, price') + Larger(0, Sum(adjustments')) <= Sum(payments')
    <3> HIDE DEF paid, pending
    <3> QED
      BY <1>3, <1>4, <2>1, SettlementIsCovered
  <2>3. PaidSales' \ MarkedNow = paid \cup now
    <3>1. PaidSales' = paid \cup now \cup hand
      <4> HIDE DEF now
      <4> QED
        BY <1>2, <1>3 DEF PaidSales, PaidIn
    <3>2. hand \subseteq MarkedNow
      BY <1>1, <1>2 DEF MarkedNow
    <3>3. (paid \cup now) \cap MarkedNow = {}
      <4>1. paid \cap MarkedNow = {}
        BY DEF MarkedNow, PaidIn
      <4>2. now \cap byHand' = {}
        <5> HIDE DEF now
        <5> QED
          BY <1>2, <1>3
      <4> QED
        BY <4>1, <4>2 DEF MarkedNow
    <3> HIDE DEF paid, now, hand
    <3> QED
      BY <3>1, <3>2, <3>3
  <2> QED
    BY <2>2, <2>3
<1>7. ASSUME NEW s \in Sale, NEW t \in Sale \ byHand', s < t, st[t] # "paid",
             status'[t] = "paid", status'[s] = "pending"
      PROVE  FALSE
  <2>1. t \in now
    BY <1>5, <1>7
  <2>2. s \notin now /\ s \in left
    <3> HIDE DEF now
    <3> QED
      BY <1>2, <1>7
  <2> HIDE DEF paid, pending
  <2> QED
    BY <1>3, <1>4, <1>7, <2>1, <2>2, OlderIsSettled
<1> QED
  BY <1>6, <1>7

\* Both properties of the settlement, for any step.
LEMMA StepSettles ==
    ASSUME TypeInv, [Next]_vars
    PROVE  /\ (\E s \in Sale \ byHand' : status[s] # "paid" /\ status'[s] = "paid") =>
                Worth(PaidSales' \ MarkedNow, price') + Larger(0, Sum(adjustments')) <= Sum(payments')
           /\ \A s \in Sale, t \in Sale \ byHand' :
                s < t /\ status[t] # "paid" /\ status'[t] = "paid" => status'[s] # "pending"
<1>1. TypeInv'
  BY TypesKept
<1>2. SettlesNothing \/ Reapplies
  BY SaleStepReapplies, PaymentStepReapplies, OtherStepReapplies DEF Next
<1>3. CASE SettlesNothing
  BY <1>3 DEF SettlesNothing
<1>4. CASE Reapplies
  <2>1. PICK st \in [Sale -> SaleStatus] :
             /\ \A s \in Sale : st[s] = "paid" => status[s] = "paid"
             /\ \E by, held : Reapply(st, by, held)
    BY <1>4 DEF Reapplies
  <2>2. PICK by, held : Reapply(st, by, held)
    BY <2>1
  <2>3. \A s \in Sale : status[s] # "paid" => st[s] # "paid"
    BY <2>1
  <2>4. /\ (\E s \in Sale \ byHand' : st[s] # "paid" /\ status'[s] = "paid") =>
             Worth(PaidSales' \ MarkedNow, price') + Larger(0, Sum(adjustments')) <= Sum(payments')
        /\ \A s \in Sale, t \in Sale \ byHand' :
             s < t /\ st[t] # "paid" /\ status'[t] = "paid" => status'[s] # "pending"
    BY <1>1, <2>1, <2>2, ReapplySettles
  <2> QED
    BY <2>3, <2>4
<1> QED
  BY <1>2, <1>3, <1>4

\* A pass settles a sale only by money that no other paid sale and no manual debt
\* needs, whatever else has happened on the account; only what is marked by hand in
\* the middle of the pass is not counted.
THEOREM SettlementIsFunded == Spec => SettlesOnlyWithMoney
<1>1. Init => TypeInv
  BY TypesAtFirst
<1>2. TypeInv /\ [Next]_vars => TypeInv'
  BY TypesKept
<1>3. TypeInv /\ [Next]_vars
        => [(\E s \in Sale \ byHand' : status[s] # "paid" /\ status'[s] = "paid") =>
              Worth(PaidSales' \ MarkedNow, price') + Larger(0, Sum(adjustments')) <= Sum(payments')]_vars
  BY StepSettles
<1> QED
  BY <1>1, <1>2, <1>3, PTL DEF Spec, SettlesOnlyWithMoney

\* First in, first out: no pass settles a sale while it leaves an older one pending.
THEOREM SettlementInTurn == Spec => SettlesOldestFirst
<1>1. Init => TypeInv
  BY TypesAtFirst
<1>2. TypeInv /\ [Next]_vars => TypeInv'
  BY TypesKept
<1>3. TypeInv /\ [Next]_vars
        => [\A s \in Sale, t \in Sale \ byHand' :
              s < t /\ status[t] # "paid" /\ status'[t] = "paid" => status'[s] # "pending"]_vars
  BY StepSettles
<1> QED
  BY <1>1, <1>2, <1>3, PTL DEF Spec, SettlesOldestFirst
=============================================================================
