--------------------------- MODULE SaleLedgersProofs ---------------------------
(***************************************************************************)
(* Proofs about SaleLedgers: for any number of sales, months and payments  *)
(* and any amounts.  A step touches each ledger by one operation at most,  *)
(* so the steps of the composition are first reduced to SupplierOp and     *)
(* EmployeeOp, and each property is proved operation by operation.         *)
(***************************************************************************)
EXTENDS SaleLedgers, LedgerSumProofs

\* What a step may do to the supplier's ledger.
SupplierOp ==
    \/ UNCHANGED supplierVars
    \/ \E s \in Sale, newSim \in BOOLEAN : PostDeduction(s, newSim)
    \/ \E s \in Sale : PostRestoration(s)
    \/ \E s \in Sale : UndoPostings(s)
    \/ \E amount \in Openings : OpenCompany(amount)
    \/ \E k \in FreeRow(manual, MaxManual), amount \in Corrections : Correct(k, amount)
    \/ \E p \in Packages, c \in Chips : Reprice(p, c)
    \/ SweepReadsSales
    \/ SweepReadsRows
    \/ SweepApplies
    \/ CompanyFormOpens
    \/ \E amount \in Openings : CompanyFormSaves(amount)

\* What a step may do to the employee's ledger.
EmployeeOp ==
    \/ UNCHANGED employeeVars
    \/ \E s \in Sale : PostSalesPayment(s)
    \/ \E s \in Sale : UndoReads(s)
    \/ \E s \in Sale : UndoWrites(s)
    \/ \E s \in Sale, price \in Prices \cup {0} : RepostWrites(s, price)
    \/ undoing' = <<>> /\ UNCHANGED <<employee, profileVars, employeeRows, employeeForm>>
    \/ \E m \in Month : AccrueSalary(m)
    \/ \E m \in Month : DeleteExpense(m)
    \/ \E p \in 1..NumPayments, amount \in Handed : HandPayment(p, amount)
    \/ \E k \in FreeRow(adjustRow, MaxAdjustments), amount \in Adjustments : Adjust(k, amount)
    \/ \E s \in Sale : DeleteSaleRow(s)
    \/ \E m \in Month : DeleteSalaryRow(m)
    \/ \E p \in 1..NumPayments : DeletePayment(p)
    \/ \E k \in 1..MaxAdjustments : DeleteAdjustment(k)
    \/ EmployeeFormOpens
    \/ \E amount \in Salaries, isActive \in BOOLEAN : EmployeeFormSaves(amount, isActive)

\* Every step is one operation, or none, of each ledger.
LEMMA StepTouchesEachLedgerOnce ==
    ASSUME TypeOK, Next
    PROVE  SupplierOp /\ EmployeeOp
<1>1. CASE SaleStep
  <2>1. ASSUME NEW s \in Sale, NEW newSim \in BOOLEAN, NEW via \in BOOLEAN, NEW price \in Prices,
               EnterSale(s, newSim, via, price)
        PROVE  SupplierOp /\ EmployeeOp
    BY <2>1 DEF EnterSale, SupplierOp, EmployeeOp
  <2>2. ASSUME NEW s \in Sale, PaySale(s)
        PROVE  SupplierOp /\ EmployeeOp
    BY <2>2 DEF PaySale, SupplierOp, EmployeeOp
  <2>3. ASSUME NEW s \in Sale, CancelSale(s)
        PROVE  SupplierOp /\ EmployeeOp
    BY <2>3 DEF CancelSale, SupplierOp, EmployeeOp
  <2>4. ASSUME NEW s \in Sale, DeleteSale(s)
        PROVE  SupplierOp /\ EmployeeOp
    BY <2>4 DEF DeleteSale, SupplierOp, EmployeeOp
  <2>5. ASSUME NEW s \in Sale, DeleteBegins(s)
        PROVE  SupplierOp /\ EmployeeOp
    BY <2>5 DEF DeleteBegins, SupplierOp, EmployeeOp
  <2>6. ASSUME NEW s \in Sale, EraseSale(s)
        PROVE  SupplierOp /\ EmployeeOp
    BY <2>6 DEF EraseSale, SupplierOp, EmployeeOp
  <2>7. ASSUME NEW s \in Sale, NEW price \in Prices, ManagementEdits(s, price) \/ EmployeeEdits(s, price)
        PROVE  SupplierOp /\ EmployeeOp
    BY <2>7 DEF ManagementEdits, EmployeeEdits, SupplierOp, EmployeeOp
  <2>8. ASSUME DeleteEnds
        PROVE  SupplierOp /\ EmployeeOp
    <3>1. request.sale \in Sale
      BY <2>8 DEF TypeOK, DeleteEnds
    <3> QED BY <2>8, <3>1 DEF DeleteEnds, SupplierOp, EmployeeOp
  <2>9. ASSUME EditReads
        PROVE  SupplierOp /\ EmployeeOp
    <3>1. request.sale \in Sale
      BY <2>9 DEF TypeOK, EditReads
    <3> QED BY <2>9, <3>1 DEF EditReads, SupplierOp, EmployeeOp
  <2>10. ASSUME EditPosts
         PROVE  SupplierOp /\ EmployeeOp
    <3>1. request.sale \in Sale /\ request.price \in Prices \cup {0}
      BY <2>10 DEF TypeOK, EditPosts
    <3> QED BY <2>10, <3>1 DEF EditPosts, SupplierOp, EmployeeOp
  <2>11. ASSUME EditDies
         PROVE  SupplierOp /\ EmployeeOp
    BY <2>11 DEF EditDies, SupplierOp, EmployeeOp
  <2> QED
    BY <1>1, <2>1, <2>2, <2>3, <2>4, <2>5, <2>6, <2>7, <2>8, <2>9, <2>10, <2>11 DEF SaleStep
<1>2. CASE SupplierStep
  <2>1. UNCHANGED employeeVars
    BY <1>2 DEF SupplierStep, supplierAlone
  <2>2. SupplierOp
    BY <1>2 DEF SupplierStep, SupplierOp
  <2> QED BY <2>1, <2>2 DEF EmployeeOp
<1>3. CASE EmployeeStep
  <2>1. UNCHANGED supplierVars
    BY <1>3 DEF EmployeeStep, employeeAlone
  <2>2. EmployeeOp
    BY <1>3 DEF EmployeeStep, EmployeeOp
  <2> QED BY <2>1, <2>2 DEF SupplierOp
<1> QED BY <1>1, <1>2, <1>3 DEF Next

-----------------------------------------------------------------------------
\* Types.

\* A cost is a positive amount, and so is the supplier's share of it.
LEMMA CostsArePositive ==
    ASSUME TypeOK, NEW newSim \in BOOLEAN
    PROVE  /\ EffectiveCost(newSim) \in Nat \ {0}
           /\ ProviderCost(newSim, EffectiveCost(newSim)) \in Nat \ {0}
<1>1. package \in Nat \ {0} /\ chip \in Nat
  BY CostsAssumption DEF TypeOK, SupplierTypeOK
<1> QED BY <1>1 DEF EffectiveCost, ProviderCost

\* The supplier's share of a snapshot is not negative.
LEMMA ShareIsNatural ==
    ASSUME TypeOK, NEW newSim \in BOOLEAN, NEW snapshot \in Nat
    PROVE  ProviderCost(newSim, snapshot) \in Nat
<1>1. package \in Nat \ {0} /\ chip \in Nat
  BY CostsAssumption DEF TypeOK, SupplierTypeOK
<1> QED BY <1>1 DEF ProviderCost

\* Each operation of the supplier's ledger keeps its types.
LEMMA SupplierTypes ==
    ASSUME TypeOK, SupplierOp
    PROVE  SupplierTypeOK'
<1> USE DEF supplierVars, rowVars, costVars, halfVars
<1>0. /\ SupplierTypeOK
      /\ \A s \in Sale : sale[s].newSim \in BOOLEAN /\ sale[s].snapshot \in Nat
  BY DEF TypeOK, SaleRow
<1>1. CASE UNCHANGED supplierVars
  BY <1>0, <1>1 DEF SupplierTypeOK
<1>2. ASSUME NEW s \in Sale, NEW newSim \in BOOLEAN, PostDeduction(s, newSim)
      PROVE  SupplierTypeOK'
  <2>1. ProviderCost(newSim, EffectiveCost(newSim)) \in Nat
    BY CostsArePositive
  <2> QED BY <1>0, <1>2, <2>1 DEF PostDeduction, SupplierTypeOK
<1>3. ASSUME NEW s \in Sale, PostRestoration(s)
      PROVE  SupplierTypeOK'
  <2>1. ProviderCost(sale[s].newSim, sale[s].snapshot) \in Nat
    BY <1>0, ShareIsNatural
  <2> QED BY <1>0, <1>3, <2>1 DEF PostRestoration, SupplierTypeOK
<1>4. ASSUME NEW s \in Sale, UndoPostings(s)
      PROVE  SupplierTypeOK'
  BY <1>0, <1>4 DEF UndoPostings, SupplierTypeOK
<1>5. ASSUME NEW amount \in Openings, OpenCompany(amount)
      PROVE  SupplierTypeOK'
  BY <1>0, <1>5, CorrectionsAssumption DEF OpenCompany, SupplierTypeOK
<1>6. ASSUME NEW k \in FreeRow(manual, MaxManual), NEW amount \in Corrections, Correct(k, amount)
      PROVE  SupplierTypeOK'
  <2>1. k \in 1..MaxManual
    BY DEF FreeRow
  <2> QED BY <1>0, <1>6, <2>1, CorrectionsAssumption DEF Correct, SupplierTypeOK
<1>7. ASSUME NEW p \in Packages, NEW c \in Chips, Reprice(p, c)
      PROVE  SupplierTypeOK'
  BY <1>0, <1>7 DEF Reprice, SupplierTypeOK
<1>8. CASE SweepReadsSales
  BY <1>0, <1>8 DEF SweepReadsSales, SupplierTypeOK
<1>9. CASE SweepReadsRows
  BY <1>0, <1>9 DEF SweepReadsRows, SupplierTypeOK
<1>10. CASE SweepApplies
  <2>1. Total([s \in Sale |-> sweep.debit[s] - sweep.credit[s]], NumSales) \in Int
    <3>1. sweep.debit \in [Sale -> Nat] /\ sweep.credit \in [Sale -> Nat]
      BY <1>0 DEF SupplierTypeOK
    <3>2. \A s \in Sale : sweep.debit[s] - sweep.credit[s] \in Int
      <4>1. \A f, g \in [Sale -> Nat] : \A s \in Sale : f[s] - g[s] \in Int
        OBVIOUS
      <4> QED BY <3>1, <4>1
    <3>3. [s \in Sale |-> sweep.debit[s] - sweep.credit[s]] \in [1..NumSales -> Int]
      BY <3>2 DEF Sale
    <3> QED BY <3>3, TotalType, SalesAssumption
  <2>2. /\ deduction' \in [Sale -> Nat]
        /\ restoration' \in [Sale -> Nat]
    <3>1. deduction' = [s \in Sale |-> IF sweep.debit[s] > 0 THEN 0 ELSE deduction[s]]
      BY <1>10 DEF SweepApplies, DeleteListed
    <3>2. restoration' = [s \in Sale |-> IF sweep.credit[s] > 0 THEN 0 ELSE restoration[s]]
      BY <1>10 DEF SweepApplies, DeleteListed
    <3>3. deduction \in [Sale -> Nat] /\ restoration \in [Sale -> Nat]
      BY <1>0 DEF SupplierTypeOK
    <3> QED BY <3>1, <3>2, <3>3
  <2>3. sweep' \in [step: {"none", "sales", "rows"}, known: SUBSET Sale,
                    debit: [Sale -> Nat], credit: [Sale -> Nat]]
    BY <1>10 DEF SweepApplies, NoSweep, NoRows
  <2> QED BY <1>0, <1>10, <2>1, <2>2, <2>3 DEF SweepApplies, SupplierTypeOK
<1>11. CASE CompanyFormOpens
  BY <1>0, <1>11 DEF CompanyFormOpens, SupplierTypeOK
<1>12. ASSUME NEW amount \in Openings, CompanyFormSaves(amount)
       PROVE  SupplierTypeOK'
  BY <1>0, <1>12, CorrectionsAssumption DEF CompanyFormSaves, SupplierTypeOK
<1> QED
  BY <1>1, <1>2, <1>3, <1>4, <1>5, <1>6, <1>7, <1>8, <1>9, <1>10, <1>11, <1>12 DEF SupplierOp

\* Each operation of the employee's ledger keeps its types.
LEMMA EmployeeTypes ==
    ASSUME TypeOK, EmployeeOp
    PROVE  EmployeeTypeOK'
<1> USE DEF employeeVars, profileVars, employeeRows
<1>0. /\ EmployeeTypeOK
      /\ \A s \in Sale : sale[s].price \in Int
      /\ \A price \in Prices \cup {0} : price \in Int
  <2>1. \A price \in Prices \cup {0} : price \in Int
    BY PricesAssumption
  <2>2. \A s \in Sale : sale[s].price \in Prices \cup {0}
    BY DEF TypeOK, SaleRow
  <2> QED BY <2>1, <2>2 DEF TypeOK
<1>1. CASE UNCHANGED employeeVars
  BY <1>0, <1>1 DEF EmployeeTypeOK
<1>2. ASSUME NEW s \in Sale, PostSalesPayment(s)
      PROVE  EmployeeTypeOK'
  BY <1>0, <1>2 DEF PostSalesPayment, EmployeeTypeOK
<1>3. ASSUME NEW s \in Sale, UndoReads(s)
      PROVE  EmployeeTypeOK'
  BY <1>0, <1>3 DEF UndoReads, EmployeeTypeOK
<1>4. ASSUME NEW s \in Sale, UndoWrites(s)
      PROVE  EmployeeTypeOK'
  BY <1>0, <1>4 DEF UndoWrites, EmployeeTypeOK
<1>5. ASSUME NEW s \in Sale, NEW price \in Prices \cup {0}, RepostWrites(s, price)
      PROVE  EmployeeTypeOK'
  BY <1>0, <1>5 DEF RepostWrites, EmployeeTypeOK
<1>6. CASE undoing' = <<>> /\ UNCHANGED <<employee, profileVars, employeeRows, employeeForm>>
  BY <1>0, <1>6 DEF EmployeeTypeOK
<1>7. ASSUME NEW m \in Month, AccrueSalary(m)
      PROVE  EmployeeTypeOK'
  BY <1>0, <1>7, EmployeeAmountsAssumption DEF AccrueSalary, EmployeeTypeOK
<1>8. ASSUME NEW m \in Month, DeleteExpense(m)
      PROVE  EmployeeTypeOK'
  BY <1>0, <1>8 DEF DeleteExpense, EmployeeTypeOK
<1>9. ASSUME NEW p \in 1..NumPayments, NEW amount \in Handed, HandPayment(p, amount)
      PROVE  EmployeeTypeOK'
  BY <1>0, <1>9, EmployeeAmountsAssumption DEF HandPayment, EmployeeTypeOK
<1>10. ASSUME NEW k \in FreeRow(adjustRow, MaxAdjustments), NEW amount \in Adjustments, Adjust(k, amount)
       PROVE  EmployeeTypeOK'
  <2>1. k \in 1..MaxAdjustments
    BY DEF FreeRow
  <2> QED BY <1>0, <1>10, <2>1, EmployeeAmountsAssumption DEF Adjust, EmployeeTypeOK
<1>11. ASSUME NEW s \in Sale, DeleteSaleRow(s)
       PROVE  EmployeeTypeOK'
  BY <1>0, <1>11 DEF DeleteSaleRow, EmployeeTypeOK
<1>12. ASSUME NEW m \in Month, DeleteSalaryRow(m)
       PROVE  EmployeeTypeOK'
  BY <1>0, <1>12 DEF DeleteSalaryRow, EmployeeTypeOK
<1>13. ASSUME NEW p \in 1..NumPayments, DeletePayment(p)
       PROVE  EmployeeTypeOK'
  BY <1>0, <1>13 DEF DeletePayment, EmployeeTypeOK
<1>14. ASSUME NEW k \in 1..MaxAdjustments, DeleteAdjustment(k)
       PROVE  EmployeeTypeOK'
  BY <1>0, <1>14 DEF DeleteAdjustment, EmployeeTypeOK
<1>15. CASE EmployeeFormOpens
  BY <1>0, <1>15 DEF EmployeeFormOpens, EmployeeTypeOK
<1>16. ASSUME NEW amount \in Salaries, NEW isActive \in BOOLEAN, EmployeeFormSaves(amount, isActive)
       PROVE  EmployeeTypeOK'
  BY <1>0, <1>16 DEF EmployeeFormSaves, EmployeeTypeOK
<1> QED
  BY <1>1, <1>2, <1>3, <1>4, <1>5, <1>6, <1>7, <1>8, <1>9, <1>10, <1>11, <1>12, <1>13, <1>14,
     <1>15, <1>16 DEF EmployeeOp

\* What TypeOK says of the sales and of the request under way.
RequestTypeOK ==
    /\ sale \in [Sale -> SaleRow]
    /\ request \in [op: {"none", "delete", "edited", "sync"},
                    sale: 0..NumSales, price: Prices \cup {0}]
    /\ request.op # "none" => request.sale \in Sale
    /\ request.op \in {"delete", "sync"} <=> undoing # <<>>
    /\ unposted \subseteq Sale

\* A sale that is deleted leaves a row of the right type.
LEMMA GoneSaleIsTyped == [NoSale EXCEPT !.status = "deleted"] \in SaleRow
BY DEF NoSale, SaleRow

\* Each step keeps the types of the sales and of the request under way.
LEMMA RequestTypes ==
    ASSUME TypeOK, Next
    PROVE  RequestTypeOK'
<1> USE DEF employeeVars
<1>0. RequestTypeOK /\ Sale \subseteq 0..NumSales
  BY DEF TypeOK, RequestTypeOK, Sale
<1>1. CASE SaleStep
  <2>1. ASSUME NEW s \in Sale, NEW newSim \in BOOLEAN, NEW via \in BOOLEAN, NEW price \in Prices,
               EnterSale(s, newSim, via, price)
        PROVE  RequestTypeOK'
    <3>1. EffectiveCost(newSim) \in Nat
      BY CostsArePositive
    <3> QED BY <1>0, <2>1, <3>1 DEF EnterSale, RequestTypeOK, SaleRow
  <2>2. ASSUME NEW s \in Sale, PaySale(s)
        PROVE  RequestTypeOK'
    BY <1>0, <2>2 DEF PaySale, MovesTo, PostSalesPayment, RequestTypeOK, SaleRow
  <2>3. ASSUME NEW s \in Sale, CancelSale(s)
        PROVE  RequestTypeOK'
    BY <1>0, <2>3 DEF CancelSale, MovesTo, RequestTypeOK, SaleRow
  <2>4. ASSUME NEW s \in Sale, DeleteSale(s) \/ EraseSale(s)
        PROVE  RequestTypeOK'
    <3>1. sale' \in [Sale -> SaleRow]
      BY <1>0, <2>4, GoneSaleIsTyped DEF DeleteSale, EraseSale, Vanishes, RequestTypeOK
    <3>2. UNCHANGED <<request, undoing, unposted>>
      BY <2>4 DEF DeleteSale, EraseSale
    <3> QED BY <1>0, <3>1, <3>2 DEF RequestTypeOK
  <2>5. ASSUME NEW s \in Sale, DeleteBegins(s)
        PROVE  RequestTypeOK'
    BY <1>0, <2>5 DEF DeleteBegins, UndoReads, RequestTypeOK
  <2>6. ASSUME NEW s \in Sale, NEW price \in Prices, ManagementEdits(s, price) \/ EmployeeEdits(s, price)
        PROVE  RequestTypeOK'
    <3>1. sale' = [sale EXCEPT ![s].price = price]
      BY <2>6 DEF ManagementEdits, EmployeeEdits
    <3>2. sale' \in [Sale -> SaleRow]
      BY <1>0, <3>1 DEF RequestTypeOK, SaleRow
    <3>3. CASE ManagementEdits(s, price)
      BY <1>0, <3>2, <3>3 DEF ManagementEdits, RequestTypeOK
    <3>4. CASE EmployeeEdits(s, price)
      <4>1. undoing = <<>> /\ undoing' = <<>>
        BY <1>0, <3>4 DEF EmployeeEdits, RequestTypeOK
      <4>2. request' = request \/ request' = [op |-> "edited", sale |-> s, price |-> 0]
        BY <3>4 DEF EmployeeEdits
      <4>3. request.op = "none" /\ unposted' \subseteq Sale
        BY <1>0, <3>4 DEF EmployeeEdits, RequestTypeOK
      <4> QED BY <1>0, <3>2, <4>1, <4>2, <4>3 DEF RequestTypeOK
    <3> QED BY <2>6, <3>3, <3>4
  <2>7. CASE DeleteEnds
    <3>1. sale' \in [Sale -> SaleRow]
      BY <1>0, <2>7, GoneSaleIsTyped DEF DeleteEnds, Vanishes, RequestTypeOK
    <3>2. request' = NoRequest /\ undoing' = <<>> /\ unposted' = unposted
      BY <2>7 DEF DeleteEnds, UndoWrites
    <3> QED BY <1>0, <3>1, <3>2, SalesAssumption DEF NoRequest, RequestTypeOK
  <2>8. CASE EditReads
    <3>1. UNCHANGED <<sale, unposted>>
      BY <2>8 DEF EditReads
    <3>2. CASE sale[request.sale].status = "paid"
      <4>1. sale[request.sale].price \in Prices \cup {0} /\ request.sale \in Sale
        BY <1>0, <2>8 DEF EditReads, RequestTypeOK, SaleRow
      <4>2. undoing' = <<saleRow[request.sale]>>
        BY <2>8, <3>2 DEF EditReads, UndoReads
      <4>3. request' = [op |-> "sync", sale |-> request.sale, price |-> sale[request.sale].price]
        BY <2>8, <3>2 DEF EditReads
      <4>4. request'.op = "sync" /\ undoing' # <<>>
        BY <4>2, <4>3
      <4> QED BY <1>0, <3>1, <4>1, <4>3, <4>4 DEF RequestTypeOK
    <3>3. CASE sale[request.sale].status # "paid"
      <4>1. request' = NoRequest /\ undoing' = undoing /\ undoing = <<>>
        BY <1>0, <2>8, <3>3 DEF EditReads, RequestTypeOK
      <4> QED BY <1>0, <3>1, <4>1, SalesAssumption DEF NoRequest, RequestTypeOK
    <3> QED BY <3>2, <3>3
  <2>9. CASE EditPosts
    <3>1. request' = NoRequest /\ undoing' = <<>> /\ sale' = sale /\ unposted' \subseteq Sale
      BY <1>0, <2>9 DEF EditPosts, RepostWrites, RequestTypeOK
    <3> QED BY <1>0, <3>1, SalesAssumption DEF NoRequest, RequestTypeOK
  <2>10. CASE EditDies
    <3>1. request' = NoRequest /\ undoing' = <<>> /\ UNCHANGED <<sale, unposted>>
      BY <2>10 DEF EditDies
    <3> QED BY <1>0, <3>1, SalesAssumption DEF NoRequest, RequestTypeOK
  <2> QED
    BY <1>1, <2>1, <2>2, <2>3, <2>4, <2>5, <2>6, <2>7, <2>8, <2>9, <2>10 DEF SaleStep
<1>2. CASE SupplierStep
  BY <1>0, <1>2 DEF SupplierStep, supplierAlone, RequestTypeOK
<1>3. CASE EmployeeStep
  <2>1. UNCHANGED <<sale, request, unposted, undoing>>
    BY <1>3 DEF EmployeeStep, employeeAlone, AccrueSalary, DeleteExpense, HandPayment, Adjust,
                DeleteSaleRow, DeleteSalaryRow, DeletePayment, DeleteAdjustment, EmployeeFormOpens,
                EmployeeFormSaves, employeeRows
  <2> QED BY <1>0, <2>1 DEF RequestTypeOK
<1> QED BY <1>1, <1>2, <1>3 DEF Next

\* The first state is well typed.
LEMMA InitTyped == Init => TypeOK
<1> SUFFICES ASSUME Init PROVE TypeOK
  OBVIOUS
<1>1. SupplierTypeOK
  <2>1. NoSweep \in [step: {"none", "sales", "rows"}, known: SUBSET Sale,
                     debit: [Sale -> Nat], credit: [Sale -> Nat]]
    BY DEF NoSweep, NoRows
  <2>2. NoRows \in [Sale -> Nat] /\ [k \in 1..MaxManual |-> 0] \in [1..MaxManual -> Int]
    BY DEF NoRows
  <2>3. <<>> \in Seq(Int) /\ Len(<<>>) <= 1
    OBVIOUS
  <2>4. SupplierInit
    BY DEF Init
  <2> HIDE DEF NoRows, NoSweep
  <2>5. companyForm \in Seq(Int) /\ Len(companyForm) <= 1
    BY <2>3, <2>4 DEF SupplierInit
  <2>6. /\ company \in Int /\ opening \in Int /\ openingRow \in Int /\ audits \in Int
        /\ package \in Packages /\ chip \in Chips
    BY <2>4, SMT DEF SupplierInit
  <2>9. opened \in BOOLEAN
    BY <2>4, Zenon DEF SupplierInit
  <2>7. /\ deduction \in [Sale -> Nat] /\ restoration \in [Sale -> Nat]
        /\ manual \in [1..MaxManual -> Int]
    BY <2>2, <2>4 DEF SupplierInit
  <2>8. sweep = NoSweep
    BY <2>4 DEF SupplierInit
  <2> QED BY <2>1, <2>5, <2>6, <2>7, <2>8, <2>9 DEF SupplierTypeOK
<1>2. EmployeeTypeOK
  BY DEF Init, EmployeeInit, EmployeeTypeOK
<1>3. RequestTypeOK
  BY SalesAssumption DEF Init, EmployeeInit, RequestTypeOK, NoRequest, NoSale, SaleRow
<1> QED BY <1>1, <1>2, <1>3 DEF TypeOK, RequestTypeOK

\* A step from a well typed state leads to one.
LEMMA TypeStep == TypeOK /\ [Next]_vars => TypeOK'
<1> SUFFICES ASSUME TypeOK, [Next]_vars PROVE TypeOK'
  OBVIOUS
<1>1. CASE Next
  BY <1>1, StepTouchesEachLedgerOnce, SupplierTypes, EmployeeTypes, RequestTypes
     DEF TypeOK, RequestTypeOK
<1>2. CASE UNCHANGED vars
  <2>1. SupplierTypeOK' /\ EmployeeTypeOK'
    BY <1>2, SupplierTypes, EmployeeTypes DEF vars, SupplierOp, EmployeeOp
  <2> QED BY <1>2, <2>1 DEF vars, TypeOK, employeeVars
<1> QED BY <1>1, <1>2

\* The rows, the balances and every half-done request stay well typed.
THEOREM TypeCorrect == Spec => []TypeOK
BY InitTyped, TypeStep, PTL DEF Spec

-----------------------------------------------------------------------------
\* Requests that run alone.

\* A half-done request of a kind not in Overlaps has no other beside it.
Exclusive == \A kind \in Running \ Overlaps : Running = {kind}

\* A request that begins, and one that ends, keep it so.
LEMMA RunningKeepsExclusive ==
    ASSUME Exclusive,
           Running' \subseteq Running
             \/ \E kind \in Kinds : MayBegin(kind) /\ Running' \subseteq Running \cup {kind}
    PROVE  Exclusive'
<1> DEFINE now == Running   then == Running'
<1>0. \A kind \in now \ Overlaps : now = {kind}
  BY DEF Exclusive
<1>1. CASE then \subseteq now
  <2> HIDE DEF now, then
  <2>1. \A kind \in then \ Overlaps : then = {kind}
    BY <1>0, <1>1
  <2> QED BY <2>1 DEF Exclusive, then
<1>2. ASSUME NEW kind \in Kinds, MayBegin(kind), then \subseteq now \cup {kind}
      PROVE  Exclusive'
  <2>1. now \subseteq Overlaps /\ (now = {} \/ kind \in Overlaps)
    BY <1>2 DEF MayBegin, MayRun
  <2> HIDE DEF now, then
  <2>2. \A k \in then \ Overlaps : then = {k}
    BY <1>2, <2>1
  <2> QED BY <2>2 DEF Exclusive, then
<1> QED BY <1>1, <1>2

\* A step that begins no request leaves no more of them running.
LEMMA RunningOf ==
    ASSUME request' = request \/ request'.op = "none" \/ request.op # "none",
           sweep' = sweep \/ sweep'.step = "none" \/ sweep.step # "none",
           companyForm' = companyForm \/ companyForm' = <<>>,
           employeeForm' = employeeForm \/ employeeForm' = <<>>
    PROVE  Running' \subseteq Running
BY DEF Running

\* Requests that may not run beside others never do.
LEMMA ExclusiveStep ==
    ASSUME Exclusive, [Next]_vars
    PROVE  Exclusive'
<1> USE DEF supplierVars, employeeVars, halfVars
<1> SUFFICES \/ Running' \subseteq Running
             \/ \E kind \in Kinds : MayBegin(kind) /\ Running' \subseteq Running \cup {kind}
  BY RunningKeepsExclusive
<1>1. CASE SaleStep
  <2>1. ASSUME NEW s \in Sale, NEW newSim \in BOOLEAN, NEW via \in BOOLEAN, NEW price \in Prices,
               EnterSale(s, newSim, via, price)
        PROVE  Running' \subseteq Running
    BY <2>1, RunningOf DEF EnterSale, PostDeduction
  <2>2. ASSUME NEW s \in Sale, PaySale(s)
        PROVE  Running' \subseteq Running
    BY <2>2, RunningOf DEF PaySale, PostSalesPayment
  <2>3. ASSUME NEW s \in Sale, CancelSale(s)
        PROVE  Running' \subseteq Running
    BY <2>3, RunningOf DEF CancelSale, PostRestoration
  <2>4. ASSUME NEW s \in Sale, DeleteSale(s) \/ EraseSale(s)
        PROVE  Running' \subseteq Running
    BY <2>4, RunningOf DEF DeleteSale, EraseSale, UndoPostings
  <2>5. ASSUME NEW s \in Sale, DeleteBegins(s)
        PROVE  MayBegin("reversal") /\ Running' \subseteq Running \cup {"reversal"}
    BY <2>5 DEF DeleteBegins, UndoReads, Running
  <2>6. ASSUME NEW s \in Sale, NEW price \in Prices, ManagementEdits(s, price)
        PROVE  Running' \subseteq Running
    BY <2>6, RunningOf DEF ManagementEdits
  <2>7. ASSUME NEW s \in Sale, NEW price \in Prices, EmployeeEdits(s, price)
        PROVE  MayBegin("reversal") /\ Running' \subseteq Running \cup {"reversal"}
    BY <2>7 DEF EmployeeEdits, Running
  <2>8. CASE DeleteEnds
    BY <2>8, RunningOf DEF DeleteEnds, UndoPostings, UndoWrites, NoRequest
  <2>9. CASE EditReads
    BY <2>9, RunningOf DEF EditReads, UndoReads, NoRequest
  <2>10. CASE EditPosts
    BY <2>10, RunningOf DEF EditPosts, RepostWrites, NoRequest
  <2>11. CASE EditDies
    BY <2>11, RunningOf DEF EditDies, NoRequest
  <2> QED
    BY <1>1, <2>1, <2>2, <2>3, <2>4, <2>5, <2>6, <2>7, <2>8, <2>9, <2>10, <2>11 DEF SaleStep, Kinds
<1>2. CASE SupplierStep
  <2>1. UNCHANGED <<request, employeeForm>>
    BY <1>2 DEF SupplierStep, supplierAlone
  <2>2. CASE MayBegin("sweep") /\ SweepReadsSales
    <3>1. Running' \subseteq Running \cup {"sweep"}
      BY <2>1, <2>2 DEF SweepReadsSales, Running
    <3> QED BY <2>2, <3>1 DEF Kinds
  <2>3. CASE MayBegin("company form") /\ CompanyFormOpens
    <3>1. Running' \subseteq Running \cup {"company form"}
      BY <2>1, <2>3 DEF CompanyFormOpens, Running
    <3> QED BY <2>3, <3>1 DEF Kinds
  <2>4. CASE SweepReadsRows \/ SweepApplies
    BY <2>1, <2>4, RunningOf DEF SweepReadsRows, SweepApplies, NoSweep
  <2>5. ASSUME NEW amount, OpenCompany(amount) \/ CompanyFormSaves(amount)
        PROVE  Running' \subseteq Running
    BY <2>1, <2>5, RunningOf DEF OpenCompany, CompanyFormSaves
  <2>6. ASSUME NEW k, NEW amount, Correct(k, amount) \/ Reprice(k, amount)
        PROVE  Running' \subseteq Running
    BY <2>1, <2>6, RunningOf DEF Correct, Reprice
  <2> QED BY <1>2, <2>2, <2>3, <2>4, <2>5, <2>6 DEF SupplierStep
<1>3. CASE EmployeeStep
  <2>1. UNCHANGED <<request, sweep, companyForm>>
    BY <1>3 DEF EmployeeStep, employeeAlone
  <2>2. CASE MayBegin("employee form") /\ EmployeeFormOpens
    <3>1. Running' \subseteq Running \cup {"employee form"}
      BY <2>1, <2>2 DEF EmployeeFormOpens, Running
    <3> QED BY <2>2, <3>1 DEF Kinds
  <2>3. CASE UNCHANGED employeeForm
    BY <2>1, <2>3, RunningOf
  <2>4. ASSUME NEW amount, NEW isActive, EmployeeFormSaves(amount, isActive)
        PROVE  Running' \subseteq Running
    BY <2>1, <2>4, RunningOf DEF EmployeeFormSaves
  <2>5. \/ UNCHANGED employeeForm
        \/ MayBegin("employee form") /\ EmployeeFormOpens
        \/ \E amount \in Salaries, isActive \in BOOLEAN : EmployeeFormSaves(amount, isActive)
    BY <1>3 DEF EmployeeStep, AccrueSalary, DeleteExpense, HandPayment, Adjust, DeleteSaleRow,
                DeleteSalaryRow, DeletePayment, DeleteAdjustment
  <2> QED BY <2>2, <2>3, <2>4, <2>5
<1>4. CASE UNCHANGED vars
  BY <1>4, RunningOf DEF vars
<1> QED BY <1>1, <1>2, <1>3, <1>4 DEF Next

\* A request that runs alone leaves the others ended.
LEMMA RunsAlone ==
    ASSUME Exclusive, NEW kind \in Running, NEW other \in Running, other # kind
    PROVE  kind \in Overlaps /\ other \in Overlaps
BY DEF Exclusive

-----------------------------------------------------------------------------
\* Sales that are still to be entered.

\* A sale has no rows before it is entered.
Fresh == \A s \in Sale : sale[s].status = "none" => deduction[s] = 0 /\ restoration[s] = 0

\* Only entering a sale makes it one that may have rows, and no row is posted
\* for a sale that is not there.
LEMMA FreshStep ==
    ASSUME TypeOK, Fresh, [Next]_vars
    PROVE  Fresh'
<1> USE DEF supplierVars, rowVars, halfVars, costVars
<1>0. /\ sale \in [Sale -> SaleRow]
      /\ deduction \in [Sale -> Nat] /\ restoration \in [Sale -> Nat]
  BY DEF TypeOK, SupplierTypeOK
<1>1. ASSUME NEW u \in Sale, sale'[u].status = "none"
      PROVE  deduction'[u] = 0 /\ restoration'[u] = 0
  <2>0. sale[u].status = "none" => deduction[u] = 0 /\ restoration[u] = 0
    BY DEF Fresh
  <2>1. CASE SaleStep
    <3>1. ASSUME NEW s \in Sale, NEW newSim \in BOOLEAN, NEW via \in BOOLEAN, NEW price \in Prices,
                 EnterSale(s, newSim, via, price)
          PROVE  deduction'[u] = 0 /\ restoration'[u] = 0
      BY <1>0, <1>1, <2>0, <3>1 DEF EnterSale, PostDeduction
    <3>2. ASSUME NEW s \in Sale, PaySale(s)
          PROVE  deduction'[u] = 0 /\ restoration'[u] = 0
      BY <1>0, <1>1, <2>0, <3>2 DEF PaySale, MovesTo
    <3>3. ASSUME NEW s \in Sale, CancelSale(s)
          PROVE  deduction'[u] = 0 /\ restoration'[u] = 0
      BY <1>0, <1>1, <2>0, <3>3 DEF CancelSale, MovesTo, PostRestoration
    <3>4. ASSUME NEW s \in Sale, DeleteSale(s) \/ EraseSale(s)
          PROVE  deduction'[u] = 0 /\ restoration'[u] = 0
      BY <1>0, <1>1, <2>0, <3>4 DEF DeleteSale, EraseSale, Vanishes, NoSale, UndoPostings
    <3>5. ASSUME NEW s \in Sale, DeleteBegins(s)
          PROVE  deduction'[u] = 0 /\ restoration'[u] = 0
      BY <1>0, <1>1, <2>0, <3>5 DEF DeleteBegins
    <3>6. ASSUME NEW s \in Sale, NEW price \in Prices, ManagementEdits(s, price) \/ EmployeeEdits(s, price)
          PROVE  deduction'[u] = 0 /\ restoration'[u] = 0
      <4>1. sale' = [sale EXCEPT ![s].price = price] /\ UNCHANGED <<deduction, restoration>>
        BY <3>6 DEF ManagementEdits, EmployeeEdits
      <4>2. sale'[u].status = sale[u].status
        BY <1>0, <4>1 DEF SaleRow
      <4> QED BY <1>1, <2>0, <4>1, <4>2
    <3>7. CASE DeleteEnds
      BY <1>0, <1>1, <2>0, <3>7 DEF DeleteEnds, Vanishes, NoSale, UndoPostings
    <3>8. CASE EditReads \/ EditPosts \/ EditDies
      BY <1>1, <2>0, <3>8 DEF EditReads, EditPosts, EditDies
    <3> QED BY <2>1, <3>1, <3>2, <3>3, <3>4, <3>5, <3>6, <3>7, <3>8 DEF SaleStep
  <2>2. CASE SupplierStep
    <3>1. sale' = sale
      BY <2>2 DEF SupplierStep, supplierAlone
    <3>2. \/ UNCHANGED <<deduction, restoration>>
          \/ SweepApplies
      BY <2>2 DEF SupplierStep, OpenCompany, Correct, Reprice, SweepReadsSales, SweepReadsRows,
                  CompanyFormOpens, CompanyFormSaves
    <3> QED BY <1>0, <1>1, <2>0, <3>1, <3>2 DEF SweepApplies, DeleteListed
  <2>3. CASE EmployeeStep \/ UNCHANGED vars
    <3>1. UNCHANGED <<sale, deduction, restoration>>
      BY <2>3 DEF EmployeeStep, employeeAlone, vars
    <3> QED BY <1>1, <2>0, <3>1
  <2> QED BY <2>1, <2>2, <2>3 DEF Next
<1> QED BY <1>1 DEF Fresh

-----------------------------------------------------------------------------
\* The supplier's balance.

\* What has been read for the supplier's ledger and not written yet is still so.
SupplierReadsHold ==
    /\ companyForm # <<>> => companyForm[1] = company /\ opened
    /\ sweep.step = "rows" => \A s \in Sale : /\ sweep.debit[s] \in {0, deduction[s]}
                                              /\ sweep.credit[s] \in {0, restoration[s]}

SupplierInv == TypeOK /\ Exclusive /\ Fresh /\ CompanyBalanceExplained /\ SupplierReadsHold

\* Where the form and the sweep run alone, an operation of the supplier's ledger
\* finds them closed, unless it is their own.
SupplierOpAlone ==
    \/ UNCHANGED supplierVars
    \/ /\ companyForm = <<>> /\ sweep.step = "none"
       /\ \/ \E s \in Sale, newSim \in BOOLEAN : sale[s].status = "none" /\ PostDeduction(s, newSim)
          \/ \E s \in Sale : PostRestoration(s)
          \/ \E s \in Sale : UndoPostings(s)
          \/ \E k \in FreeRow(manual, MaxManual), amount \in Corrections : Correct(k, amount)
          \/ \E p \in Packages, c \in Chips : Reprice(p, c)
          \/ SweepReadsSales
          \/ CompanyFormOpens
    \/ companyForm = <<>> /\ (SweepReadsRows \/ SweepApplies)
    \/ \E amount \in Openings : OpenCompany(amount)
    \/ sweep.step = "none" /\ \E amount \in Openings : CompanyFormSaves(amount)

\* Nothing else is half done when a new operation may run.
LEMMA AloneIsQuiet ==
    ASSUME MayRun \/ (request.op # "none" /\ Exclusive), {"sweep", "company form"} \cap Overlaps = {}
    PROVE  companyForm = <<>> /\ sweep.step = "none"
<1>1. companyForm # <<>> => "company form" \in Running
  BY DEF Running
<1>2. sweep.step # "none" => "sweep" \in Running
  BY DEF Running
<1>3. request.op # "none" => "reversal" \in Running
  BY DEF Running
<1>4. CASE MayRun
  BY <1>1, <1>2, <1>4 DEF MayRun
<1>5. CASE request.op # "none" /\ Exclusive
  BY <1>1, <1>2, <1>3, <1>5, RunsAlone
<1> QED BY <1>4, <1>5

\* So every step of the whole is one of these.
LEMMA SupplierStepsAlone ==
    ASSUME TypeOK, Exclusive, Next, {"sweep", "company form"} \cap Overlaps = {}
    PROVE  SupplierOpAlone
<1>1. CASE SaleStep
  <2>1. ASSUME NEW s \in Sale, NEW newSim \in BOOLEAN, NEW via \in BOOLEAN, NEW price \in Prices,
               EnterSale(s, newSim, via, price)
        PROVE  SupplierOpAlone
    BY <2>1, AloneIsQuiet DEF EnterSale, NextSale, SupplierOpAlone
  <2>2. ASSUME NEW s \in Sale, PaySale(s) \/ EraseSale(s) \/ DeleteBegins(s)
        PROVE  SupplierOpAlone
    BY <2>2 DEF PaySale, EraseSale, DeleteBegins, SupplierOpAlone
  <2>3. ASSUME NEW s \in Sale, CancelSale(s)
        PROVE  SupplierOpAlone
    BY <2>3, AloneIsQuiet DEF CancelSale, SupplierOpAlone
  <2>4. ASSUME NEW s \in Sale, DeleteSale(s)
        PROVE  SupplierOpAlone
    BY <2>4, AloneIsQuiet DEF DeleteSale, SupplierOpAlone
  <2>5. ASSUME NEW s \in Sale, NEW price \in Prices, ManagementEdits(s, price) \/ EmployeeEdits(s, price)
        PROVE  SupplierOpAlone
    BY <2>5 DEF ManagementEdits, EmployeeEdits, SupplierOpAlone
  <2>6. CASE DeleteEnds
    <3>1. request.op # "none" /\ request.sale \in Sale
      BY <2>6 DEF TypeOK, DeleteEnds
    <3>2. companyForm = <<>> /\ sweep.step = "none"
      BY <3>1, AloneIsQuiet
    <3>3. UndoPostings(request.sale)
      BY <2>6 DEF DeleteEnds
    <3> QED BY <3>1, <3>2, <3>3 DEF SupplierOpAlone
  <2>7. CASE EditReads \/ EditPosts \/ EditDies
    BY <2>7 DEF EditReads, EditPosts, EditDies, SupplierOpAlone
  <2> QED
    BY <1>1, <2>1, <2>2, <2>3, <2>4, <2>5, <2>6, <2>7 DEF SaleStep
<1>2. CASE SupplierStep
  <2>1. ASSUME MayRun
        PROVE  companyForm = <<>> /\ sweep.step = "none"
    BY <2>1, AloneIsQuiet
  <2>2. sweep.step # "none" => companyForm = <<>>
    <3>1. sweep.step # "none" => "sweep" \in Running
      BY DEF Running
    <3>2. companyForm # <<>> => "company form" \in Running
      BY DEF Running
    <3> QED BY <3>1, <3>2, RunsAlone
  <2>3. SweepReadsRows \/ SweepApplies => sweep.step # "none"
    BY DEF SweepReadsRows, SweepApplies
  <2>4. \A amount : CompanyFormSaves(amount) => sweep.step = "none"
    BY <2>2 DEF CompanyFormSaves
  <2>5. \A kind : MayBegin(kind) => MayRun
    BY DEF MayBegin
  <2> QED BY <1>2, <2>1, <2>2, <2>3, <2>4, <2>5 DEF SupplierStep, SupplierOpAlone
<1>3. CASE EmployeeStep
  BY <1>3 DEF EmployeeStep, employeeAlone, SupplierOpAlone
<1> QED BY <1>1, <1>2, <1>3 DEF Next

\* What the rows of each sale have moved the balance by.
Net == [s \in Sale |-> restoration[s] - deduction[s]]

\* The rows of the sales, netted, are a ledger of their own.
LEMMA NetType ==
    ASSUME NEW r \in [Sale -> Nat], NEW d \in [Sale -> Nat]
    PROVE  [s \in Sale |-> r[s] - d[s]] \in [1..NumSales -> Int]
<1>1. \A s \in Sale : r[s] - d[s] \in Int
  OBVIOUS
<1> QED BY <1>1 DEF Sale

\* The rows of one sale move the sum by what they change.
LEMMA NetChange ==
    ASSUME SupplierTypeOK, SupplierTypeOK', NEW s \in Sale,
           \A u \in Sale : u # s => deduction'[u] = deduction[u] /\ restoration'[u] = restoration[u]
    PROVE  Total(Net', NumSales) = Total(Net, NumSales)
             + ((restoration'[s] - deduction'[s]) - (restoration[s] - deduction[s]))
<1>1. Net \in [1..NumSales -> Int] /\ Net' \in [1..NumSales -> Int]
  <2>1. /\ deduction \in [Sale -> Nat] /\ restoration \in [Sale -> Nat]
        /\ deduction' \in [Sale -> Nat] /\ restoration' \in [Sale -> Nat]
    BY DEF SupplierTypeOK
  <2> QED BY <2>1, NetType DEF Net
<1>2. \A j \in 1..NumSales : j # s => Net'[j] = Net[j]
  BY DEF Net, Sale
<1>3. Total(Net', NumSales) = Total(Net, NumSales) + (Net'[s] - Net[s])
  <2>1. s \in 1..NumSales
    BY DEF Sale
  <2> QED BY <1>1, <1>2, <2>1, TotalChange, SalesAssumption
<1> QED BY <1>3 DEF Net

\* A manual row moves the sum of the manual rows by its amount.
LEMMA ManualChange ==
    ASSUME SupplierTypeOK, NEW k \in FreeRow(manual, MaxManual), NEW amount \in Int,
           manual' = [manual EXCEPT ![k] = amount]
    PROVE  Total(manual', MaxManual) = Total(manual, MaxManual) + amount
<1>1. k \in 1..MaxManual /\ manual[k] = 0
  BY DEF FreeRow
<1>2. manual \in [1..MaxManual -> Int] /\ manual' \in [1..MaxManual -> Int]
  BY <1>1 DEF SupplierTypeOK
<1>3. \A j \in 1..MaxManual : j # k => manual'[j] = manual[j]
  BY <1>1, <1>2
<1>4. Total(manual', MaxManual) = Total(manual, MaxManual) + (manual'[k] - manual[k])
  <2> DEFINE f == manual   g == manual'
  <2>1. /\ MaxManual \in Nat /\ k \in 1..MaxManual
        /\ f \in [1..MaxManual -> Int] /\ g \in [1..MaxManual -> Int]
        /\ \A j \in 1..MaxManual : j # k => g[j] = f[j]
    BY <1>1, <1>2, <1>3, CorrectionsAssumption
  <2> HIDE DEF f, g
  <2>2. Total(g, MaxManual) = Total(f, MaxManual) + (g[k] - f[k])
    BY <2>1, TotalChange
  <2> QED BY <2>2 DEF f, g
<1>5. manual'[k] = amount
  BY <1>1 DEF SupplierTypeOK
<1> QED BY <1>1, <1>2, <1>4, <1>5, TotalType, CorrectionsAssumption

\* The sweep refunds what the rows it deletes amount to.
LEMMA SweepChange ==
    ASSUME SupplierTypeOK, SupplierTypeOK', SupplierReadsHold, SweepApplies
    PROVE  Total(Net', NumSales) = Total(Net, NumSales)
             + Total([s \in Sale |-> sweep.debit[s] - sweep.credit[s]], NumSales)
<1> DEFINE R == [s \in Sale |-> sweep.debit[s] - sweep.credit[s]]
<1>1. \A s \in Sale : /\ deduction[s] \in Nat /\ restoration[s] \in Nat
                      /\ sweep.debit[s] \in {0, deduction[s]}
                      /\ sweep.credit[s] \in {0, restoration[s]}
  BY DEF SupplierTypeOK, SupplierReadsHold, SweepApplies
<1>2. \A s \in Sale : /\ deduction'[s] = IF sweep.debit[s] > 0 THEN 0 ELSE deduction[s]
                      /\ restoration'[s] = IF sweep.credit[s] > 0 THEN 0 ELSE restoration[s]
  BY DEF SweepApplies, DeleteListed
<1>3. \A s \in Sale : deduction'[s] = deduction[s] - sweep.debit[s]
  BY <1>1, <1>2
<1>4. \A s \in Sale : restoration'[s] = restoration[s] - sweep.credit[s]
  BY <1>1, <1>2
<1>5. \A j \in 1..NumSales : Net'[j] = Net[j] + R[j]
  <2> SUFFICES ASSUME NEW j \in Sale
               PROVE  restoration'[j] - deduction'[j]
                        = (restoration[j] - deduction[j]) + (sweep.debit[j] - sweep.credit[j])
    BY DEF Net, Sale
  <2>1. \A a, b, c, d \in Int : (a - d) - (b - c) = (a - b) + (c - d)
    OBVIOUS
  <2>2. sweep.debit[j] \in Int /\ sweep.credit[j] \in Int /\ deduction[j] \in Int /\ restoration[j] \in Int
    BY <1>1
  <2>3. (restoration[j] - sweep.credit[j]) - (deduction[j] - sweep.debit[j])
          = (restoration[j] - deduction[j]) + (sweep.debit[j] - sweep.credit[j])
    BY <2>1, <2>2
  <2>4. deduction'[j] = deduction[j] - sweep.debit[j] /\ restoration'[j] = restoration[j] - sweep.credit[j]
    BY <1>3, <1>4
  <2> QED BY <2>3, <2>4, Zenon
<1>6. R \in [1..NumSales -> Int]
  <2>1. \A s \in Sale : sweep.debit[s] \in Int /\ sweep.credit[s] \in Int
    BY <1>1
  <2>2. \A s \in Sale : sweep.debit[s] - sweep.credit[s] \in Int
    BY <2>1
  <2> QED BY <2>2 DEF Sale
<1>7. Net \in [1..NumSales -> Int] /\ Net' \in [1..NumSales -> Int]
  <2>1. /\ deduction \in [Sale -> Nat] /\ restoration \in [Sale -> Nat]
        /\ deduction' \in [Sale -> Nat] /\ restoration' \in [Sale -> Nat]
    BY DEF SupplierTypeOK
  <2> QED BY <2>1, NetType DEF Net
<1> HIDE DEF R
<1>8. Total(Net', NumSales) = Total(Net, NumSales) + Total(R, NumSales)
  BY <1>5, <1>6, <1>7, TotalOfSums, SalesAssumption
<1> QED BY <1>8 DEF R

\* Every operation moves the supplier's balance by what it posts.
LEMMA BalanceStep ==
    ASSUME SupplierInv, SupplierTypeOK', SupplierOpAlone
    PROVE  CompanyBalanceExplained'
<1> DEFINE net == Total(Net, NumSales)   net1 == Total(Net', NumSales)
           man == Total(manual, MaxManual)   man1 == Total(manual', MaxManual)
<1> USE DEF rowVars, halfVars, costVars
<1>0. SupplierTypeOK /\ SupplierReadsHold
  BY DEF SupplierInv, TypeOK
<1>1. company = openingRow + net + man
  BY DEF SupplierInv, CompanyBalanceExplained, Postings, Net
<1>2. SUFFICES company' = openingRow' + net1 + man1
  BY DEF CompanyBalanceExplained, Postings, Net
<1>3. net \in Int /\ man \in Int /\ company \in Int /\ openingRow \in Int
  <2>1. Net \in [1..NumSales -> Int]
    <3>1. deduction \in [Sale -> Nat] /\ restoration \in [Sale -> Nat]
      BY <1>0 DEF SupplierTypeOK
    <3> QED BY <3>1, NetType DEF Net
  <2>2. manual \in [1..MaxManual -> Int]
    BY <1>0 DEF SupplierTypeOK
  <2> QED BY <1>0, <2>1, <2>2, TotalType, SalesAssumption, CorrectionsAssumption DEF SupplierTypeOK
<1>4. deduction' = deduction /\ restoration' = restoration => net1 = net
  BY DEF Net
<1>5. manual' = manual => man1 = man
  OBVIOUS
<1>6. \A s \in Sale : deduction[s] \in Nat /\ restoration[s] \in Nat
  BY <1>0 DEF SupplierTypeOK
<1> HIDE DEF net, net1, man, man1
<1>7. CASE UNCHANGED <<company, rowVars>>
  BY <1>1, <1>4, <1>5, <1>7
<1>8. ASSUME NEW s \in Sale, NEW newSim \in BOOLEAN, sale[s].status = "none", PostDeduction(s, newSim)
      PROVE  company' = openingRow' + net1 + man1
  <2> DEFINE cost == ProviderCost(newSim, EffectiveCost(newSim))
  <2>0. cost \in Nat
    BY CostsArePositive DEF SupplierInv
  <2> HIDE DEF cost
  <2>1. /\ company' = company - cost /\ openingRow' = openingRow /\ restoration' = restoration
        /\ deduction' = [deduction EXCEPT ![s] = cost] /\ manual' = manual
    BY <1>8 DEF PostDeduction, cost
  <2>2. net1 = net + ((restoration'[s] - deduction'[s]) - (restoration[s] - deduction[s]))
    BY <1>0, <2>1, NetChange DEF net, net1
  <2>3. deduction'[s] = cost /\ restoration'[s] = 0 /\ deduction[s] = 0 /\ restoration[s] = 0
    BY <1>0, <1>8, <2>1 DEF SupplierTypeOK, SupplierInv, Fresh
  <2>4. net1 = net - cost
    BY <1>3, <2>0, <2>2, <2>3
  <2> QED BY <1>1, <1>3, <1>5, <2>0, <2>1, <2>4
<1>9. ASSUME NEW s \in Sale, PostRestoration(s)
      PROVE  company' = openingRow' + net1 + man1
  <2> DEFINE cost == ProviderCost(sale[s].newSim, sale[s].snapshot)
  <2>0. cost \in Nat
    BY ShareIsNatural DEF SupplierInv, TypeOK, SaleRow
  <2> HIDE DEF cost
  <2>1. /\ company' = company + cost /\ openingRow' = openingRow /\ deduction' = deduction
        /\ restoration[s] = 0 /\ restoration' = [restoration EXCEPT ![s] = cost] /\ manual' = manual
    BY <1>9 DEF PostRestoration, cost
  <2>2. net1 = net + ((restoration'[s] - deduction'[s]) - (restoration[s] - deduction[s]))
    BY <1>0, <2>1, NetChange DEF net, net1
  <2>3. restoration'[s] = cost /\ deduction'[s] = deduction[s]
    BY <1>0, <2>1 DEF SupplierTypeOK
  <2>4. net1 = net + cost
    BY <1>3, <1>6, <2>0, <2>1, <2>2, <2>3
  <2> QED BY <1>1, <1>3, <1>5, <2>0, <2>1, <2>4
<1>10. ASSUME NEW s \in Sale, UndoPostings(s)
       PROVE  company' = openingRow' + net1 + man1
  <2>1. /\ company' = company + deduction[s] - restoration[s] /\ openingRow' = openingRow
        /\ deduction' = [deduction EXCEPT ![s] = 0] /\ restoration' = [restoration EXCEPT ![s] = 0]
        /\ manual' = manual
    BY <1>10 DEF UndoPostings
  <2>2. net1 = net + ((restoration'[s] - deduction'[s]) - (restoration[s] - deduction[s]))
    BY <1>0, <2>1, NetChange DEF net, net1
  <2>3. restoration'[s] = 0 /\ deduction'[s] = 0
    BY <1>0, <2>1 DEF SupplierTypeOK
  <2>4. net1 = net + (deduction[s] - restoration[s])
    BY <1>3, <1>6, <2>2, <2>3
  <2> QED BY <1>1, <1>3, <1>5, <1>6, <2>1, <2>4
<1>11. ASSUME NEW k \in FreeRow(manual, MaxManual), NEW amount \in Corrections, Correct(k, amount)
       PROVE  company' = openingRow' + net1 + man1
  <2>1. /\ company' = company + amount /\ openingRow' = openingRow
        /\ UNCHANGED <<deduction, restoration>> /\ manual' = [manual EXCEPT ![k] = amount]
    BY <1>11 DEF Correct
  <2>2. amount \in Int
    BY CorrectionsAssumption
  <2>3. man1 = man + amount
    BY <1>0, <2>1, <2>2, ManualChange DEF man, man1
  <2> QED BY <1>1, <1>3, <1>4, <2>1, <2>2, <2>3
<1>12. CASE SweepApplies
  <2> DEFINE refund == Total([s \in Sale |-> sweep.debit[s] - sweep.credit[s]], NumSales)
  <2>1. company' = company + refund /\ openingRow' = openingRow /\ manual' = manual
    BY <1>12 DEF SweepApplies
  <2>2. net1 = net + refund
    BY <1>0, <1>12, SweepChange DEF net, net1
  <2>3. refund \in Int
    <3>1. sweep.debit \in [Sale -> Nat] /\ sweep.credit \in [Sale -> Nat]
      BY <1>0 DEF SupplierTypeOK
    <3>2. [s \in Sale |-> sweep.debit[s] - sweep.credit[s]] \in [1..NumSales -> Int]
      BY <3>1, NetType
    <3> QED BY <3>2, TotalType, SalesAssumption
  <2> HIDE DEF refund
  <2> QED BY <1>1, <1>3, <1>5, <2>1, <2>2, <2>3
<1>13. ASSUME NEW amount \in Openings, OpenCompany(amount)
       PROVE  company' = openingRow' + net1 + man1
  <2>1. /\ company' = company + amount /\ openingRow' = openingRow + amount
        /\ UNCHANGED <<deduction, restoration, manual>>
    BY <1>13 DEF OpenCompany
  <2>2. amount \in Int
    BY CorrectionsAssumption
  <2> QED BY <1>1, <1>3, <1>4, <1>5, <2>1, <2>2
<1>14. ASSUME NEW amount \in Openings, CompanyFormSaves(amount)
       PROVE  company' = openingRow' + net1 + man1
  <2>1. company' = company
    BY <1>0, <1>14 DEF CompanyFormSaves, SupplierReadsHold
  <2> QED BY <1>7, <1>14, <2>1 DEF CompanyFormSaves
<1>15. ASSUME UNCHANGED supplierVars \/ SweepReadsSales \/ SweepReadsRows \/ CompanyFormOpens
                \/ \E p \in Packages, c \in Chips : Reprice(p, c)
       PROVE  company' = openingRow' + net1 + man1
  <2>1. UNCHANGED <<company, rowVars>>
    BY <1>15 DEF supplierVars, SweepReadsSales, SweepReadsRows, CompanyFormOpens, Reprice
  <2> QED BY <1>7, <2>1
<1> QED
  BY <1>8, <1>9, <1>10, <1>11, <1>12, <1>13, <1>14, <1>15 DEF SupplierOpAlone

\* What the form and the sweep have read stays true while they run alone.
LEMMA ReadsHoldStep ==
    ASSUME SupplierInv, SupplierTypeOK', SupplierOpAlone
    PROVE  SupplierReadsHold'
<1> USE DEF rowVars, halfVars, costVars
<1>0. SupplierTypeOK /\ SupplierReadsHold
  BY DEF SupplierInv, TypeOK
<1>1. CASE UNCHANGED supplierVars
  BY <1>0, <1>1 DEF supplierVars, SupplierReadsHold
<1>2. CASE SweepReadsRows /\ companyForm = <<>>
  BY <1>0, <1>2 DEF SweepReadsRows, SupplierReadsHold
<1>3. CASE CompanyFormOpens /\ sweep.step = "none"
  BY <1>0, <1>3 DEF CompanyFormOpens, SupplierReadsHold
<1>4. CASE companyForm' = <<>> /\ sweep'.step # "rows"
  BY <1>4 DEF SupplierReadsHold
<1>5. ASSUME NEW amount \in Openings, OpenCompany(amount)
      PROVE  SupplierReadsHold'
  BY <1>0, <1>5 DEF OpenCompany, SupplierReadsHold
<1>6. ASSUME NEW amount \in Openings, CompanyFormSaves(amount), sweep.step = "none"
      PROVE  SupplierReadsHold'
  BY <1>4, <1>6 DEF CompanyFormSaves
<1>7. ASSUME companyForm = <<>> /\ SweepApplies
      PROVE  SupplierReadsHold'
  BY <1>4, <1>7 DEF SweepApplies, NoSweep
<1>8. ASSUME companyForm = <<>> /\ sweep.step = "none",
             \/ \E s \in Sale, newSim \in BOOLEAN : PostDeduction(s, newSim)
             \/ \E s \in Sale : PostRestoration(s)
             \/ \E s \in Sale : UndoPostings(s)
             \/ \E k \in FreeRow(manual, MaxManual), amount \in Corrections : Correct(k, amount)
             \/ \E p \in Packages, c \in Chips : Reprice(p, c)
             \/ SweepReadsSales
      PROVE  SupplierReadsHold'
  <2>1. companyForm' = <<>> /\ sweep'.step # "rows"
    BY <1>0, <1>8 DEF PostDeduction, PostRestoration, UndoPostings, Correct, Reprice, SweepReadsSales,
                      SupplierTypeOK
  <2> QED BY <1>4, <2>1
<1> QED
  BY <1>1, <1>2, <1>3, <1>5, <1>6, <1>7, <1>8 DEF SupplierOpAlone

\* The initial state: no rows, nothing running.
LEMMA InitAlone == Init => Exclusive /\ Fresh
<1> SUFFICES ASSUME Init PROVE Exclusive /\ Fresh
  OBVIOUS
<1>1. Running = {}
  BY DEF Init, SupplierInit, EmployeeInit, NoRequest, NoSweep, Running
<1>2. Exclusive
  BY <1>1 DEF Exclusive
<1>3. Fresh
  BY DEF Init, SupplierInit, NoRows, Fresh
<1> QED BY <1>2, <1>3

\* The ledger of a new company is empty and explains its balance.
LEMMA InitSupplier == Init => SupplierInv
<1> SUFFICES ASSUME Init, TypeOK PROVE SupplierInv
  BY InitTyped
<1>1. Total(Net, NumSales) = 0
  <2>0. deduction = NoRows /\ restoration = NoRows
    BY DEF Init, SupplierInit
  <2>3. \A s \in Sale : NoRows[s] = 0
    BY DEF NoRows
  <2>1. \A s \in Sale : Net[s] = 0
    BY <2>0, <2>3 DEF Net
  <2>2. Net \in [1..NumSales -> Int]
    <3>1. NoRows \in [Sale -> Nat]
      BY DEF NoRows
    <3> QED BY <2>0, <3>1, NetType DEF Net
  <2> QED BY <2>1, <2>2, TotalOfZeros, SalesAssumption DEF Sale
<1>2. Total(manual, MaxManual) = 0
  <2>0. manual = [k \in 1..MaxManual |-> 0]
    BY DEF Init, SupplierInit
  <2>1. manual \in [1..MaxManual -> Int] /\ \A k \in 1..MaxManual : manual[k] = 0
    BY <2>0
  <2> QED BY <2>1, TotalOfZeros, CorrectionsAssumption
<1>3. company = 0 /\ openingRow = 0
  BY DEF Init, SupplierInit
<1>4. CompanyBalanceExplained
  <2>1. Postings = openingRow + Total(Net, NumSales) + Total(manual, MaxManual)
    BY DEF Postings, Net
  <2> QED BY <1>1, <1>2, <1>3, <2>1 DEF CompanyBalanceExplained
<1>5. SupplierReadsHold
  BY DEF Init, SupplierInit, NoSweep, SupplierReadsHold
<1> QED BY <1>4, <1>5, InitAlone DEF SupplierInv

\* The supplier's balance is what its rows add up to, whatever the sales, the
\* corrections, the prices and the requests on sales that overlap, as long as
\* the sweep of orphan rows and the company form run alone.
THEOREM SupplierBalance ==
    ASSUME {"sweep", "company form"} \cap Overlaps = {}
    PROVE  Spec => []CompanyBalanceExplained
<1>1. Init => SupplierInv
  BY InitSupplier
<1>2. SupplierInv /\ [Next]_vars => SupplierInv'
  <2> SUFFICES ASSUME SupplierInv, [Next]_vars PROVE SupplierInv'
    OBVIOUS
  <2>1. TypeOK' /\ Exclusive' /\ Fresh'
    BY TypeStep, ExclusiveStep, FreshStep DEF SupplierInv
  <2>2. SupplierOpAlone
    <3>1. CASE UNCHANGED vars
      BY <3>1 DEF vars, SupplierOpAlone
    <3>2. CASE Next
      BY <3>2, SupplierStepsAlone DEF SupplierInv
    <3> QED BY <3>1, <3>2
  <2>3. SupplierTypeOK'
    BY <2>1 DEF TypeOK
  <2>4. CompanyBalanceExplained'
    BY <2>2, <2>3, BalanceStep
  <2>5. SupplierReadsHold'
    BY <2>2, <2>3, ReadsHoldStep
  <2> QED BY <2>1, <2>4, <2>5 DEF SupplierInv
<1>3. SupplierInv => CompanyBalanceExplained
  BY DEF SupplierInv
<1> QED BY <1>1, <1>2, <1>3, PTL DEF Spec

-----------------------------------------------------------------------------
\* The rows of a sale.

\* The rows of a sale that exists say what it cost and whether it stands.
RowsFit(s) ==
    /\ deduction[s] > 0
    /\ sale[s].status \in {"pending", "paid"} => restoration[s] = 0
    /\ ~sale[s].newSim =>
          /\ deduction[s] = sale[s].snapshot
          /\ sale[s].status = "cancelled" => restoration[s] = sale[s].snapshot

\* A sweep that runs alone knows every sale there is and lists none of its rows.
SweepKnows ==
    /\ sweep.step # "none" => \A s \in Sale : Exists(s) => s \in sweep.known
    /\ sweep.step = "rows" => \A s \in sweep.known : sweep.debit[s] = 0 /\ sweep.credit[s] = 0

RowsInv ==
    /\ TypeOK /\ Exclusive /\ Fresh /\ SweepKnows
    /\ \A s \in Sale : Exists(s) => RowsFit(s)

\* No sweep is half done when a new operation may run, nor in the middle of
\* another request.
LEMMA NoSweepBeside ==
    ASSUME MayRun \/ (request.op # "none" /\ Exclusive), "sweep" \notin Overlaps
    PROVE  sweep.step = "none"
<1>1. sweep.step # "none" => "sweep" \in Running
  BY DEF Running
<1>2. request.op # "none" => "reversal" \in Running
  BY DEF Running
<1>3. CASE MayRun
  BY <1>1, <1>3 DEF MayRun
<1>4. CASE request.op # "none" /\ Exclusive
  BY <1>1, <1>2, <1>4, RunsAlone
<1> QED BY <1>3, <1>4

\* Where neither the sale nor its rows change, they still fit.
LEMMA UntouchedFits ==
    ASSUME NEW u, sale'[u] = sale[u], deduction'[u] = deduction[u], restoration'[u] = restoration[u],
           Exists(u) => RowsFit(u)
    PROVE  Exists(u)' => RowsFit(u)'
BY DEF Exists, RowsFit

\* Every operation leaves the rows of each sale fitting it.
LEMMA RowsFitStep ==
    ASSUME RowsInv, Next, "sweep" \notin Overlaps, NEW u \in Sale
    PROVE  Exists(u)' => RowsFit(u)'
<1> USE DEF supplierVars, rowVars, halfVars, costVars
<1>0. /\ sale \in [Sale -> SaleRow]
      /\ Exists(u) => RowsFit(u)
      /\ deduction \in [Sale -> Nat] /\ restoration \in [Sale -> Nat]
  BY DEF RowsInv, TypeOK, SupplierTypeOK
<1>1. CASE SaleStep
  <2>1. ASSUME NEW s \in Sale, NEW newSim \in BOOLEAN, NEW via \in BOOLEAN, NEW price \in Prices,
               EnterSale(s, newSim, via, price)
        PROVE  Exists(u)' => RowsFit(u)'
    <3>1. CASE u # s
      BY <1>0, <2>1, <3>1, UntouchedFits DEF EnterSale, PostDeduction
    <3>2. CASE u = s
      <4> DEFINE whole == EffectiveCost(newSim)   cost == ProviderCost(newSim, whole)
      <4>1. cost \in Nat \ {0}
        BY CostsArePositive DEF RowsInv
      <4>2. ~newSim => cost = whole
        BY DEF ProviderCost
      <4> HIDE DEF whole, cost
      <4>3. restoration[s] = 0
        BY <2>1 DEF RowsInv, Fresh, EnterSale, NextSale
      <4>4. deduction'[s] = cost /\ restoration'[s] = 0
        BY <1>0, <2>1, <4>3 DEF EnterSale, PostDeduction, cost, whole
      <4>5. sale'[s] = [status |-> "pending", newSim |-> newSim, viaEmployee |-> via,
                        snapshot |-> whole, price |-> price]
        BY <1>0, <2>1 DEF EnterSale, whole
      <4> QED BY <3>2, <4>1, <4>2, <4>4, <4>5 DEF RowsFit
    <3> QED BY <3>1, <3>2
  <2>2. ASSUME NEW s \in Sale, PaySale(s)
        PROVE  Exists(u)' => RowsFit(u)'
    BY <1>0, <2>2 DEF PaySale, MovesTo, Exists, RowsFit, SaleRow
  <2>3. ASSUME NEW s \in Sale, CancelSale(s)
        PROVE  Exists(u)' => RowsFit(u)'
    <3>1. CASE u # s
      BY <1>0, <2>3, <3>1, UntouchedFits DEF CancelSale, MovesTo, PostRestoration
    <3>2. CASE u = s
      <4>1. Exists(s) /\ sale'[s] = [sale[s] EXCEPT !.status = "cancelled"] /\ deduction' = deduction
        BY <1>0, <2>3 DEF CancelSale, MovesTo, PostRestoration, Exists, SaleRow
      <4>2. restoration'[s] = ProviderCost(sale[s].newSim, sale[s].snapshot)
        BY <1>0, <2>3 DEF CancelSale, PostRestoration
      <4>3. ~sale[s].newSim => restoration'[s] = sale[s].snapshot
        BY <4>2 DEF ProviderCost
      <4>4. RowsFit(s)
        BY <1>0, <3>2, <4>1
      <4>5. sale[s] \in SaleRow
        BY <1>0
      <4>6. /\ sale'[s].status = "cancelled" /\ sale'[s].newSim = sale[s].newSim
            /\ sale'[s].snapshot = sale[s].snapshot
        BY <4>1, <4>5 DEF SaleRow
      <4> QED BY <3>2, <4>1, <4>3, <4>4, <4>6 DEF RowsFit
    <3> QED BY <3>1, <3>2
  <2>4. ASSUME NEW s \in Sale, DeleteSale(s) \/ EraseSale(s) \/ (DeleteEnds /\ s = request.sale)
        PROVE  Exists(u)' => RowsFit(u)'
    <3>1. CASE u # s
      BY <1>0, <2>4, <3>1, UntouchedFits DEF DeleteSale, EraseSale, DeleteEnds, Vanishes, UndoPostings
    <3>2. CASE u = s
      BY <1>0, <2>4, <3>2 DEF DeleteSale, EraseSale, DeleteEnds, Vanishes, NoSale, Exists
    <3> QED BY <3>1, <3>2
  <2>5. ASSUME NEW s \in Sale, NEW price \in Prices, ManagementEdits(s, price) \/ EmployeeEdits(s, price)
        PROVE  Exists(u)' => RowsFit(u)'
    <3>1. sale' = [sale EXCEPT ![s].price = price] /\ UNCHANGED <<deduction, restoration>>
      BY <2>5 DEF ManagementEdits, EmployeeEdits
    <3>2. /\ sale'[u].status = sale[u].status /\ sale'[u].newSim = sale[u].newSim
          /\ sale'[u].snapshot = sale[u].snapshot
      BY <1>0, <3>1 DEF SaleRow
    <3> QED BY <1>0, <3>1, <3>2 DEF Exists, RowsFit
  <2>6. ASSUME NEW s \in Sale, DeleteBegins(s)
        PROVE  Exists(u)' => RowsFit(u)'
    BY <1>0, <2>6, UntouchedFits DEF DeleteBegins
  <2>7. CASE EditReads \/ EditPosts \/ EditDies
    BY <1>0, <2>7, UntouchedFits DEF EditReads, EditPosts, EditDies
  <2>8. DeleteEnds => request.sale \in Sale
    BY DEF DeleteEnds, RowsInv, TypeOK
  <2> QED BY <1>1, <2>1, <2>2, <2>3, <2>4, <2>5, <2>6, <2>7, <2>8 DEF SaleStep
<1>2. CASE SupplierStep
  <2>1. sale' = sale
    BY <1>2 DEF SupplierStep, supplierAlone
  <2>2. CASE UNCHANGED <<deduction, restoration>>
    BY <1>0, <2>1, <2>2, UntouchedFits
  <2>3. CASE SweepApplies
    <3>1. Exists(u) => sweep.debit[u] = 0 /\ sweep.credit[u] = 0
      BY <2>3 DEF SweepApplies, RowsInv, SweepKnows
    <3>2. Exists(u) => deduction'[u] = deduction[u] /\ restoration'[u] = restoration[u]
      BY <2>3, <3>1 DEF SweepApplies, DeleteListed
    <3> QED BY <1>0, <2>1, <3>2 DEF Exists, RowsFit
  <2>4. UNCHANGED <<deduction, restoration>> \/ SweepApplies
    BY <1>2 DEF SupplierStep, OpenCompany, Correct, Reprice, SweepReadsSales, SweepReadsRows,
                CompanyFormOpens, CompanyFormSaves
  <2> QED BY <2>2, <2>3, <2>4
<1>3. CASE EmployeeStep
  <2>1. UNCHANGED <<sale, deduction, restoration>>
    BY <1>3 DEF EmployeeStep, employeeAlone
  <2> QED BY <1>0, <2>1, UntouchedFits
<1> QED BY <1>1, <1>2, <1>3 DEF Next

\* A sweep that runs alone finds every sale, and no row of one it has found.
LEMMA SweepKnowsStep ==
    ASSUME RowsInv, TypeOK', Next, "sweep" \notin Overlaps
    PROVE  SweepKnows'
<1> USE DEF supplierVars, halfVars
<1>1. CASE sweep.step = "none" /\ sweep' = sweep
  BY <1>1 DEF SweepKnows
<1>2. CASE UNCHANGED <<sale, sweep>>
  BY <1>2 DEF SweepKnows, RowsInv, Exists
<1>3. CASE SaleStep
  <2>1. sweep.step = "none"
    <3>1. MayRun \/ request.op # "none"
      BY <1>3 DEF SaleStep, EnterSale, PaySale, CancelSale, DeleteSale, DeleteBegins, EraseSale,
                  ManagementEdits, EmployeeEdits, MayBegin, DeleteEnds, EditReads, EditPosts, EditDies
    <3> QED BY <3>1, NoSweepBeside DEF RowsInv
  <2>2. sweep' = sweep
    BY <1>3 DEF SaleStep, EnterSale, PaySale, CancelSale, DeleteSale, DeleteBegins, EraseSale,
                ManagementEdits, EmployeeEdits, DeleteEnds, EditReads, EditPosts, EditDies,
                PostDeduction, PostRestoration, UndoPostings
  <2> QED BY <1>1, <2>1, <2>2
<1>4. CASE SupplierStep
  <2>1. sale' = sale
    BY <1>4 DEF SupplierStep, supplierAlone
  <2>2. CASE SweepReadsSales
    BY <2>1, <2>2 DEF SweepReadsSales, SweepKnows, Exists, RowsInv, TypeOK, SupplierTypeOK
  <2>3. CASE SweepReadsRows
    <3>1. sweep.known \subseteq Sale /\ sweep \in [step: {"none", "sales", "rows"}, known: SUBSET Sale,
                                                   debit: [Sale -> Nat], credit: [Sale -> Nat]]
      BY DEF RowsInv, TypeOK, SupplierTypeOK
    <3>2. /\ sweep'.known = sweep.known
          /\ sweep'.debit = [s \in Sale |-> IF s \in sweep.known THEN 0 ELSE deduction[s]]
          /\ sweep'.credit = [s \in Sale |-> IF s \in sweep.known THEN 0 ELSE restoration[s]]
      BY <2>3, <3>1 DEF SweepReadsRows
    <3>3. \A s \in sweep'.known : sweep'.debit[s] = 0 /\ sweep'.credit[s] = 0
      BY <3>1, <3>2
    <3>4. \A s \in Sale : Exists(s)' => s \in sweep'.known
      BY <2>1, <2>3, <3>2 DEF SweepReadsRows, RowsInv, SweepKnows, Exists
    <3> QED BY <3>3, <3>4 DEF SweepKnows
  <2>4. CASE SweepApplies
    BY <2>4 DEF SweepApplies, NoSweep, SweepKnows
  <2>5. sweep' = sweep \/ SweepReadsSales \/ SweepReadsRows \/ SweepApplies
    BY <1>4 DEF SupplierStep, OpenCompany, Correct, Reprice, CompanyFormOpens, CompanyFormSaves
  <2> QED BY <1>2, <2>1, <2>2, <2>3, <2>4, <2>5
<1>5. CASE EmployeeStep
  BY <1>2, <1>5 DEF EmployeeStep, employeeAlone
<1> QED BY <1>3, <1>4, <1>5 DEF Next

\* The invariant of the rows is inductive.
LEMMA RowsInductive ==
    ASSUME "sweep" \notin Overlaps
    PROVE  (Init => RowsInv) /\ (RowsInv /\ [Next]_vars => RowsInv')
<1>1. Init => RowsInv
  <2> SUFFICES ASSUME Init PROVE RowsInv
    OBVIOUS
  <2>1. SweepKnows
    BY DEF Init, SupplierInit, NoSweep, SweepKnows
  <2>2. \A s \in Sale : ~Exists(s)
    BY DEF Init, NoSale, Exists
  <2> QED BY <2>1, <2>2, InitTyped, InitAlone DEF RowsInv
<1>2. RowsInv /\ [Next]_vars => RowsInv'
  <2> SUFFICES ASSUME RowsInv, [Next]_vars PROVE RowsInv'
    OBVIOUS
  <2>1. TypeOK' /\ Exclusive' /\ Fresh'
    BY TypeStep, ExclusiveStep, FreshStep DEF RowsInv
  <2>2. CASE Next
    <3>1. \A s \in Sale : Exists(s)' => RowsFit(s)'
      BY <2>2, RowsFitStep
    <3> QED BY <2>1, <2>2, <3>1, SweepKnowsStep DEF RowsInv
  <2>3. CASE UNCHANGED vars
    BY <2>1, <2>3 DEF vars, supplierVars, rowVars, halfVars, RowsInv, SweepKnows, Exists, RowsFit
  <2> QED BY <2>2, <2>3
<1> QED BY <1>1, <1>2

\* A sale that stands has its cost deducted and nothing put back, as long as a
\* sweep runs alone.
THEOREM StandingSale ==
    ASSUME "sweep" \notin Overlaps
    PROVE  Spec => []StandingSaleIsDeducted
<1>1. RowsInv => StandingSaleIsDeducted
  BY DEF RowsInv, RowsFit, Exists, StandingSaleIsDeducted
<1> QED BY <1>1, RowsInductive, PTL DEF Spec

\* Cancelling a sale without a new SIM restores what was deducted, whatever the
\* prices have become, as long as a sweep runs alone.
THEOREM OrdinaryCancel ==
    ASSUME "sweep" \notin Overlaps
    PROVE  Spec => []OrdinaryCancelRestoresDeduction
<1>1. RowsInv => OrdinaryCancelRestoresDeduction
  BY DEF RowsInv, RowsFit, Exists, OrdinaryCancelRestoresDeduction
<1> QED BY <1>1, RowsInductive, PTL DEF Spec

-----------------------------------------------------------------------------
\* Salaries and their expenses.

\* The expense of an accrued salary never outlives the accrual, whatever
\* requests overlap.
THEOREM SalaryExpense == Spec => []ExpenseHasItsSalary
<1> DEFINE Inv == TypeOK /\ ExpenseHasItsSalary
<1>1. Init => Inv
  <2> SUFFICES ASSUME Init PROVE ExpenseHasItsSalary
    BY InitTyped
  <2> QED BY DEF Init, EmployeeInit, ExpenseHasItsSalary
<1>2. Inv /\ [Next]_vars => Inv'
  <2> SUFFICES ASSUME Inv, [Next]_vars PROVE ExpenseHasItsSalary'
    BY TypeStep
  <2>0. salaryRow \in [Month -> Nat] /\ expensed \in [Month -> BOOLEAN] /\ salary \in Nat
    BY EmployeeAmountsAssumption DEF TypeOK, EmployeeTypeOK
  <2>1. CASE UNCHANGED <<salaryRow, expensed>>
    BY <2>1 DEF ExpenseHasItsSalary
  <2>2. ASSUME NEW m \in Month, AccrueSalary(m)
        PROVE  ExpenseHasItsSalary'
    BY <2>0, <2>2 DEF AccrueSalary, ExpenseHasItsSalary
  <2>3. ASSUME NEW m \in Month, DeleteExpense(m) \/ DeleteSalaryRow(m)
        PROVE  ExpenseHasItsSalary'
    BY <2>0, <2>3 DEF DeleteExpense, DeleteSalaryRow, ExpenseHasItsSalary
  <2>4. ASSUME EmployeeOp
        PROVE  \/ UNCHANGED <<salaryRow, expensed>>
               \/ \E m \in Month : AccrueSalary(m) \/ DeleteExpense(m) \/ DeleteSalaryRow(m)
    BY <2>4 DEF EmployeeOp, employeeVars, employeeRows, PostSalesPayment, UndoReads, UndoWrites,
                RepostWrites, HandPayment, Adjust, DeleteSaleRow, DeletePayment, DeleteAdjustment,
                EmployeeFormOpens, EmployeeFormSaves
  <2>5. CASE Next
    BY <2>1, <2>2, <2>3, <2>4, <2>5, StepTouchesEachLedgerOnce
  <2>6. CASE UNCHANGED vars
    BY <2>1, <2>6 DEF vars, employeeVars, employeeRows
  <2> QED BY <2>5, <2>6
<1>3. Inv => ExpenseHasItsSalary
  OBVIOUS
<1> QED BY <1>1, <1>2, <1>3, PTL DEF Spec

-----------------------------------------------------------------------------
\* The employee's balance.

\* One row of one kind changes, and the balance with it.
EmployeeMoves ==
    \/ UNCHANGED <<employee, saleRow, salaryRow, paymentRow, adjustRow>>
    \/ \E s \in Sale, v \in Int :
          /\ saleRow' = [saleRow EXCEPT ![s] = v] /\ employee' = employee + (v - saleRow[s])
          /\ UNCHANGED <<salaryRow, paymentRow, adjustRow>>
    \/ \E m \in Month, v \in Int :
          /\ salaryRow' = [salaryRow EXCEPT ![m] = v] /\ employee' = employee + (v - salaryRow[m])
          /\ UNCHANGED <<saleRow, paymentRow, adjustRow>>
    \/ \E p \in 1..NumPayments, v \in Int :
          /\ paymentRow' = [paymentRow EXCEPT ![p] = v] /\ employee' = employee + (v - paymentRow[p])
          /\ UNCHANGED <<saleRow, salaryRow, adjustRow>>
    \/ \E k \in 1..MaxAdjustments, v \in Int :
          /\ adjustRow' = [adjustRow EXCEPT ![k] = v] /\ employee' = employee + (v - adjustRow[k])
          /\ UNCHANGED <<saleRow, salaryRow, paymentRow>>

\* What has been read for the employee's ledger and not written yet is still so.
EmployeeReadsHold ==
    /\ employeeForm # <<>> => employeeForm[1] = employee
    /\ undoing # <<>> => undoing[1] = saleRow[request.sale]

EmployeeInv == TypeOK /\ Exclusive /\ EmployeeBalanceExplained /\ EmployeeReadsHold

\* One changed row moves its total by the change.
LEMMA OneRow ==
    ASSUME NEW n \in Nat, NEW f \in [1..n -> Int], NEW i \in 1..n, NEW v \in Int
    PROVE  /\ Total(f, n) \in Int
           /\ Total([f EXCEPT ![i] = v], n) = Total(f, n) + (v - f[i])
<1> DEFINE g == [f EXCEPT ![i] = v]
<1>1. g \in [1..n -> Int] /\ g[i] = v /\ \A j \in 1..n : j # i => g[j] = f[j]
  OBVIOUS
<1> HIDE DEF g
<1>2. Total(g, n) = Total(f, n) + (g[i] - f[i])
  BY <1>1, TotalChange
<1> QED BY <1>1, <1>2, TotalType DEF g

\* So the balance goes on being what the rows add up to.
LEMMA MovesKeepBalance ==
    ASSUME EmployeeTypeOK, EmployeeMoves, EmployeeBalanceExplained
    PROVE  EmployeeBalanceExplained'
<1> DEFINE a == Total(saleRow, NumSales)   b == Total(salaryRow, NumMonths)
           c == Total(paymentRow, NumPayments)   d == Total(adjustRow, MaxAdjustments)
           a1 == Total(saleRow', NumSales)   b1 == Total(salaryRow', NumMonths)
           c1 == Total(paymentRow', NumPayments)   d1 == Total(adjustRow', MaxAdjustments)
<1>0. /\ NumSales \in Nat /\ NumMonths \in Nat /\ NumPayments \in Nat /\ MaxAdjustments \in Nat
      /\ saleRow \in [1..NumSales -> Int] /\ salaryRow \in [1..NumMonths -> Int]
      /\ paymentRow \in [1..NumPayments -> Int] /\ adjustRow \in [1..MaxAdjustments -> Int]
      /\ employee \in Int
  BY SalesAssumption, EmployeeBoundsAssumption DEF EmployeeTypeOK, Sale, Month
<1>1. a \in Int /\ b \in Int /\ c \in Int /\ d \in Int
  BY <1>0, TotalType
<1>2. employee = a + b + c + d
  BY DEF EmployeeBalanceExplained, EmployeePostings
<1>3. SUFFICES employee' = a1 + b1 + c1 + d1
  BY DEF EmployeeBalanceExplained, EmployeePostings
<1>4. CASE UNCHANGED <<employee, saleRow, salaryRow, paymentRow, adjustRow>>
  BY <1>2, <1>4
<1>5. ASSUME NEW s \in Sale, NEW v \in Int, saleRow' = [saleRow EXCEPT ![s] = v],
             employee' = employee + (v - saleRow[s]), UNCHANGED <<salaryRow, paymentRow, adjustRow>>
      PROVE  employee' = a1 + b1 + c1 + d1
  <2>0. s \in 1..NumSales /\ saleRow[s] \in Int
    BY <1>0, <1>5 DEF Sale
  <2>1. a1 = a + (v - saleRow[s]) /\ saleRow[s] \in Int
    <3>1. Total([saleRow EXCEPT ![s] = v], NumSales) = Total(saleRow, NumSales) + (v - saleRow[s])
      BY <1>0, <2>0, OneRow
    <3> QED
      BY <1>5, <2>0, <3>1
  <2>2. b1 = b /\ c1 = c /\ d1 = d
    BY <1>5
  <2>3. employee \in Int /\ v - saleRow[s] \in Int
    BY <1>0, <2>1
  <2> HIDE DEF a, b, c, d, a1, b1, c1, d1
  <2>4. employee' = (a + b + c + d) + (v - saleRow[s])
    BY <1>2, <1>5
  <2> QED BY <1>1, <2>1, <2>2, <2>3, <2>4
<1>6. ASSUME NEW m \in Month, NEW v \in Int, salaryRow' = [salaryRow EXCEPT ![m] = v],
             employee' = employee + (v - salaryRow[m]), UNCHANGED <<saleRow, paymentRow, adjustRow>>
      PROVE  employee' = a1 + b1 + c1 + d1
  <2>0. m \in 1..NumMonths /\ salaryRow[m] \in Int
    BY <1>0, <1>6 DEF Month
  <2>1. b1 = b + (v - salaryRow[m]) /\ salaryRow[m] \in Int
    <3>1. Total([salaryRow EXCEPT ![m] = v], NumMonths) = Total(salaryRow, NumMonths) + (v - salaryRow[m])
      BY <1>0, <2>0, OneRow
    <3> QED
      BY <1>6, <2>0, <3>1
  <2>2. a1 = a /\ c1 = c /\ d1 = d
    BY <1>6
  <2>3. employee \in Int /\ v - salaryRow[m] \in Int
    BY <1>0, <2>1
  <2> HIDE DEF a, b, c, d, a1, b1, c1, d1
  <2>4. employee' = (a + b + c + d) + (v - salaryRow[m])
    BY <1>2, <1>6
  <2> QED BY <1>1, <2>1, <2>2, <2>3, <2>4
<1>7. ASSUME NEW p \in 1..NumPayments, NEW v \in Int, paymentRow' = [paymentRow EXCEPT ![p] = v],
             employee' = employee + (v - paymentRow[p]), UNCHANGED <<saleRow, salaryRow, adjustRow>>
      PROVE  employee' = a1 + b1 + c1 + d1
  <2>0. p \in 1..NumPayments /\ paymentRow[p] \in Int
    BY <1>0, <1>7
  <2>1. c1 = c + (v - paymentRow[p]) /\ paymentRow[p] \in Int
    <3>1. Total([paymentRow EXCEPT ![p] = v], NumPayments) = Total(paymentRow, NumPayments) + (v - paymentRow[p])
      BY <1>0, <2>0, OneRow
    <3> QED
      BY <1>7, <2>0, <3>1
  <2>2. a1 = a /\ b1 = b /\ d1 = d
    BY <1>7
  <2>3. employee \in Int /\ v - paymentRow[p] \in Int
    BY <1>0, <2>1
  <2> HIDE DEF a, b, c, d, a1, b1, c1, d1
  <2>4. employee' = (a + b + c + d) + (v - paymentRow[p])
    BY <1>2, <1>7
  <2> QED BY <1>1, <2>1, <2>2, <2>3, <2>4
<1>8. ASSUME NEW k \in 1..MaxAdjustments, NEW v \in Int, adjustRow' = [adjustRow EXCEPT ![k] = v],
             employee' = employee + (v - adjustRow[k]), UNCHANGED <<saleRow, salaryRow, paymentRow>>
      PROVE  employee' = a1 + b1 + c1 + d1
  <2>0. k \in 1..MaxAdjustments /\ adjustRow[k] \in Int
    BY <1>0, <1>8
  <2>1. d1 = d + (v - adjustRow[k]) /\ adjustRow[k] \in Int
    <3>1. Total([adjustRow EXCEPT ![k] = v], MaxAdjustments) = Total(adjustRow, MaxAdjustments) + (v - adjustRow[k])
      BY <1>0, <2>0, OneRow
    <3> QED
      BY <1>8, <2>0, <3>1
  <2>2. a1 = a /\ b1 = b /\ c1 = c
    BY <1>8
  <2>3. employee \in Int /\ v - adjustRow[k] \in Int
    BY <1>0, <2>1
  <2> HIDE DEF a, b, c, d, a1, b1, c1, d1
  <2>4. employee' = (a + b + c + d) + (v - adjustRow[k])
    BY <1>2, <1>8
  <2> QED BY <1>1, <2>1, <2>2, <2>3, <2>4
<1> QED BY <1>4, <1>5, <1>6, <1>7, <1>8 DEF EmployeeMoves

\* No operation runs beside a reversal or the form, nor one of them beside the other.
AloneOK ==
    /\ MayRun => request.op = "none" /\ employeeForm = <<>>
    /\ request.op # "none" => employeeForm = <<>>

\* It is so where neither may overlap.
LEMMA EmployeeRunsAlone ==
    ASSUME Exclusive, "reversal" \notin Overlaps, "employee form" \notin Overlaps
    PROVE  AloneOK
<1>1. MayRun => request.op = "none"
  BY DEF MayRun, Running
<1>2. MayRun => employeeForm = <<>>
  BY DEF MayRun, Running
<1>3. request.op # "none" => employeeForm = <<>>
  <2>1. request.op # "none" => "reversal" \in Running
    BY DEF Running
  <2>2. employeeForm # <<>> => "employee form" \in Running
    BY DEF Running
  <2> QED BY <2>1, <2>2, RunsAlone
<1> QED BY <1>1, <1>2, <1>3 DEF AloneOK

\* Where the form and a reversal run alone, every step moves one row, and what
\* has been read stays true.
LEMMA EmployeeStepsAlone ==
    ASSUME TypeOK, EmployeeReadsHold, Next, AloneOK
    PROVE  EmployeeMoves /\ EmployeeReadsHold'
<1> USE DEF employeeVars, profileVars, employeeRows
<1>0. /\ sale \in [Sale -> SaleRow]
      /\ saleRow \in [Sale -> Int] /\ salaryRow \in [Month -> Nat] /\ salary \in Nat
      /\ paymentRow \in [1..NumPayments -> Int] /\ adjustRow \in [1..MaxAdjustments -> Int]
      /\ employee \in Int
      /\ \A s \in Sale : sale[s].price \in Int
  <2>1. \A s \in Sale : sale[s].price \in Prices \cup {0}
    BY DEF TypeOK, SaleRow
  <2>0. \A price \in Prices \cup {0} : price \in Int
    BY PricesAssumption
  <2>2. \A s \in Sale : sale[s].price \in Int
    BY <2>0, <2>1
  <2>3. EmployeeTypeOK /\ sale \in [Sale -> SaleRow]
    BY DEF TypeOK
  <2> QED BY <2>2, <2>3, EmployeeAmountsAssumption DEF EmployeeTypeOK
<1>1. undoing # <<>> => request.op \in {"delete", "sync"} /\ request.sale \in Sale
  BY DEF TypeOK
<1>2. MayRun => request.op = "none" /\ undoing = <<>> /\ employeeForm = <<>>
  BY <1>1 DEF AloneOK
<1>3. request.op # "none" => employeeForm = <<>>
  BY DEF AloneOK
<1>4. \A kind : MayBegin(kind) => MayRun
  BY DEF MayBegin
<1>5. CASE SaleStep
  <2>1. ASSUME NEW s \in Sale, NEW newSim \in BOOLEAN, NEW via \in BOOLEAN, NEW price \in Prices,
               EnterSale(s, newSim, via, price)
        PROVE  EmployeeMoves /\ EmployeeReadsHold'
    BY <2>1 DEF EnterSale, EmployeeMoves, EmployeeReadsHold
  <2>2. ASSUME NEW s \in Sale, PaySale(s)
        PROVE  EmployeeMoves /\ EmployeeReadsHold'
    <3>1. CASE sale[s].viaEmployee
      <4> DEFINE v == IF saleRow[s] = 0 THEN -sale[s].price ELSE saleRow[s]
      <4>1. PostSalesPayment(s) /\ undoing = <<>> /\ employeeForm = <<>>
        BY <1>2, <2>2, <3>1 DEF PaySale
      <4>2. v \in Int /\ employee' = employee + (v - saleRow[s])
        BY <1>0, <4>1 DEF PostSalesPayment
      <4>3. saleRow' = [saleRow EXCEPT ![s] = v] /\ UNCHANGED <<salaryRow, paymentRow, adjustRow>>
        BY <4>1 DEF PostSalesPayment
      <4>4. undoing' = <<>> /\ employeeForm' = <<>>
        BY <4>1 DEF PostSalesPayment
      <4> HIDE DEF v
      <4> QED BY <4>2, <4>3, <4>4 DEF EmployeeMoves, EmployeeReadsHold
    <3>2. CASE ~sale[s].viaEmployee
      BY <2>2, <3>2 DEF PaySale, EmployeeMoves, EmployeeReadsHold
    <3> QED BY <3>1, <3>2
  <2>3. ASSUME NEW s \in Sale, CancelSale(s) \/ DeleteSale(s) \/ EraseSale(s)
        PROVE  EmployeeMoves /\ EmployeeReadsHold'
    BY <2>3 DEF CancelSale, DeleteSale, EraseSale, EmployeeMoves, EmployeeReadsHold
  <2>4. ASSUME NEW s \in Sale, DeleteBegins(s)
        PROVE  EmployeeMoves /\ EmployeeReadsHold'
    BY <2>4 DEF DeleteBegins, UndoReads, EmployeeMoves, EmployeeReadsHold
  <2>5. ASSUME NEW s \in Sale, NEW price \in Prices, ManagementEdits(s, price)
        PROVE  EmployeeMoves /\ EmployeeReadsHold'
    BY <2>5 DEF ManagementEdits, EmployeeMoves, EmployeeReadsHold
  <2>6. ASSUME NEW s \in Sale, NEW price \in Prices, EmployeeEdits(s, price)
        PROVE  EmployeeMoves /\ EmployeeReadsHold'
    <3>1. undoing = <<>> /\ UNCHANGED employeeVars
      BY <1>2, <1>4, <2>6 DEF EmployeeEdits
    <3> QED BY <3>1 DEF EmployeeMoves, EmployeeReadsHold
  <2>7. CASE DeleteEnds
    <3> DEFINE s == request.sale   v == 0
    <3>1. UndoWrites(s) /\ undoing # <<>> /\ employeeForm = <<>>
      BY <1>3, <2>7 DEF DeleteEnds, UndoWrites
    <3>2. s \in Sale /\ undoing[1] = saleRow[s]
      BY <1>1, <3>1 DEF EmployeeReadsHold
    <3>3. v \in Int /\ employee' = employee + (v - saleRow[s])
      BY <1>0, <3>1, <3>2 DEF UndoWrites
    <3>4. saleRow' = [saleRow EXCEPT ![s] = v]
      BY <1>0, <3>1, <3>2 DEF UndoWrites
    <3>5. UNCHANGED <<salaryRow, paymentRow, adjustRow, employeeForm>> /\ undoing' = <<>>
      BY <3>1 DEF UndoWrites
    <3> HIDE DEF v
    <3> QED BY <3>1, <3>2, <3>3, <3>4, <3>5 DEF EmployeeMoves, EmployeeReadsHold
  <2>8. CASE EditReads
    BY <1>1, <2>8 DEF EditReads, UndoReads, EmployeeMoves, EmployeeReadsHold
  <2>9. CASE EditPosts
    <3> DEFINE s == request.sale   v == -request.price
    <3>1. RepostWrites(s, request.price) /\ undoing # <<>> /\ employeeForm = <<>>
      BY <1>3, <2>9 DEF EditPosts, RepostWrites
    <3>2. s \in Sale /\ undoing[1] = saleRow[s]
      BY <1>1, <3>1 DEF EmployeeReadsHold
    <3>3. request.price \in Int
      <4>1. \A price \in Prices \cup {0} : price \in Int
        BY PricesAssumption
      <4>2. request.price \in Prices \cup {0}
        BY DEF TypeOK
      <4> QED BY <4>1, <4>2
    <3>4. employee' = employee + (v - saleRow[s])
      <4>1. employee' = employee - saleRow[s] - request.price
        BY <3>1, <3>2 DEF RepostWrites
      <4>2. saleRow[s] \in Int /\ employee \in Int
        BY <1>0, <3>2
      <4> QED BY <3>3, <4>1, <4>2
    <3>5. saleRow' = [saleRow EXCEPT ![s] = v]
      BY <1>0, <3>1, <3>2 DEF RepostWrites
    <3>6. UNCHANGED <<salaryRow, paymentRow, adjustRow, employeeForm>> /\ undoing' = <<>>
      BY <3>1 DEF RepostWrites
    <3>7. v \in Int
      BY <3>3
    <3> HIDE DEF v
    <3> QED BY <3>1, <3>2, <3>4, <3>5, <3>6, <3>7 DEF EmployeeMoves, EmployeeReadsHold
  <2>10. CASE EditDies
    BY <2>10 DEF EditDies, EmployeeMoves, EmployeeReadsHold
  <2> QED BY <1>5, <2>1, <2>2, <2>3, <2>4, <2>5, <2>6, <2>7, <2>8, <2>9, <2>10 DEF SaleStep
<1>6. CASE SupplierStep
  <2>1. UNCHANGED <<employeeVars, request>>
    BY <1>6 DEF SupplierStep, supplierAlone
  <2> QED BY <2>1 DEF EmployeeMoves, EmployeeReadsHold
<1>7. CASE EmployeeStep
  <2>0. request' = request
    BY <1>7 DEF EmployeeStep, employeeAlone
  <2>1. ASSUME NEW m \in Month, MayRun, AccrueSalary(m)
        PROVE  EmployeeMoves /\ EmployeeReadsHold'
    <3> DEFINE v == IF salaryRow[m] = 0 THEN salary ELSE salaryRow[m]
    <3>1. v \in Int /\ employee' = employee + (v - salaryRow[m])
      BY <1>0, <2>1 DEF AccrueSalary
    <3>2. /\ salaryRow' = [salaryRow EXCEPT ![m] = v]
          /\ UNCHANGED <<saleRow, paymentRow, adjustRow, undoing, employeeForm>>
      BY <2>1 DEF AccrueSalary
    <3> HIDE DEF v
    <3> QED BY <1>2, <2>1, <3>1, <3>2 DEF EmployeeMoves, EmployeeReadsHold
  <2>2. ASSUME NEW m \in Month, DeleteExpense(m)
        PROVE  EmployeeMoves /\ EmployeeReadsHold'
    BY <2>0, <2>2 DEF DeleteExpense, EmployeeMoves, EmployeeReadsHold
  <2>3. ASSUME NEW p \in 1..NumPayments, NEW amount \in Handed, MayRun, HandPayment(p, amount)
        PROVE  EmployeeMoves /\ EmployeeReadsHold'
    <3>1. -amount \in Int /\ employee' = employee + (-amount - paymentRow[p])
      BY <1>0, <2>3, EmployeeAmountsAssumption DEF HandPayment
    <3>2. /\ paymentRow' = [paymentRow EXCEPT ![p] = -amount]
          /\ UNCHANGED <<saleRow, salaryRow, adjustRow, undoing, employeeForm>>
      BY <2>3 DEF HandPayment
    <3> QED BY <1>2, <2>3, <3>1, <3>2 DEF EmployeeMoves, EmployeeReadsHold
  <2>4. ASSUME NEW k \in FreeRow(adjustRow, MaxAdjustments), NEW amount \in Adjustments, MayRun, Adjust(k, amount)
        PROVE  EmployeeMoves /\ EmployeeReadsHold'
    <3>0. k \in 1..MaxAdjustments /\ adjustRow[k] = 0
      BY DEF FreeRow
    <3>1. amount \in Int /\ employee' = employee + (amount - adjustRow[k])
      BY <1>0, <2>4, <3>0, EmployeeAmountsAssumption DEF Adjust
    <3>2. /\ adjustRow' = [adjustRow EXCEPT ![k] = amount]
          /\ UNCHANGED <<saleRow, salaryRow, paymentRow, undoing, employeeForm>>
      BY <2>4 DEF Adjust
    <3> QED BY <1>2, <2>4, <3>0, <3>1, <3>2 DEF EmployeeMoves, EmployeeReadsHold
  <2>5. ASSUME NEW s \in Sale, MayRun, DeleteSaleRow(s)
        PROVE  EmployeeMoves /\ EmployeeReadsHold'
    <3>1. saleRow' = [saleRow EXCEPT ![s] = 0] /\ employee' = employee - saleRow[s]
      BY <2>5 DEF DeleteSaleRow
    <3>2. UNCHANGED <<salaryRow, paymentRow, adjustRow, undoing, employeeForm>>
      BY <2>5 DEF DeleteSaleRow
    <3>3. saleRow[s] \in Int /\ employee \in Int
      BY <1>0, <2>5
    <3> DEFINE v == 0
    <3>4. v \in Int /\ employee' = employee + (v - saleRow[s])
      BY <3>1, <3>3
    <3>5. saleRow' = [saleRow EXCEPT ![s] = v]
      BY <3>1
    <3> HIDE DEF v
    <3> QED BY <1>2, <2>5, <3>2, <3>4, <3>5 DEF EmployeeMoves, EmployeeReadsHold
  <2>6. ASSUME NEW m \in Month, MayRun, DeleteSalaryRow(m)
        PROVE  EmployeeMoves /\ EmployeeReadsHold'
    <3>1. salaryRow' = [salaryRow EXCEPT ![m] = 0] /\ employee' = employee - salaryRow[m]
      BY <2>6 DEF DeleteSalaryRow
    <3>2. UNCHANGED <<saleRow, paymentRow, adjustRow, undoing, employeeForm>>
      BY <2>6 DEF DeleteSalaryRow
    <3>3. salaryRow[m] \in Int /\ employee \in Int
      BY <1>0, <2>6
    <3> DEFINE v == 0
    <3>4. v \in Int /\ employee' = employee + (v - salaryRow[m])
      BY <3>1, <3>3
    <3>5. salaryRow' = [salaryRow EXCEPT ![m] = v]
      BY <3>1
    <3> HIDE DEF v
    <3> QED BY <1>2, <2>6, <3>2, <3>4, <3>5 DEF EmployeeMoves, EmployeeReadsHold
  <2>7. ASSUME NEW p \in 1..NumPayments, MayRun, DeletePayment(p)
        PROVE  EmployeeMoves /\ EmployeeReadsHold'
    <3>1. paymentRow' = [paymentRow EXCEPT ![p] = 0] /\ employee' = employee - paymentRow[p]
      BY <2>7 DEF DeletePayment
    <3>2. UNCHANGED <<saleRow, salaryRow, adjustRow, undoing, employeeForm>>
      BY <2>7 DEF DeletePayment
    <3>3. paymentRow[p] \in Int /\ employee \in Int
      BY <1>0, <2>7
    <3> DEFINE v == 0
    <3>4. v \in Int /\ employee' = employee + (v - paymentRow[p])
      BY <3>1, <3>3
    <3>5. paymentRow' = [paymentRow EXCEPT ![p] = v]
      BY <3>1
    <3> HIDE DEF v
    <3> QED BY <1>2, <2>7, <3>2, <3>4, <3>5 DEF EmployeeMoves, EmployeeReadsHold
  <2>8. ASSUME NEW k \in 1..MaxAdjustments, MayRun, DeleteAdjustment(k)
        PROVE  EmployeeMoves /\ EmployeeReadsHold'
    <3>1. adjustRow' = [adjustRow EXCEPT ![k] = 0] /\ employee' = employee - adjustRow[k]
      BY <2>8 DEF DeleteAdjustment
    <3>2. UNCHANGED <<saleRow, salaryRow, paymentRow, undoing, employeeForm>>
      BY <2>8 DEF DeleteAdjustment
    <3>3. adjustRow[k] \in Int /\ employee \in Int
      BY <1>0, <2>8
    <3> DEFINE v == 0
    <3>4. v \in Int /\ employee' = employee + (v - adjustRow[k])
      BY <3>1, <3>3
    <3>5. adjustRow' = [adjustRow EXCEPT ![k] = v]
      BY <3>1
    <3> HIDE DEF v
    <3> QED BY <1>2, <2>8, <3>2, <3>4, <3>5 DEF EmployeeMoves, EmployeeReadsHold
  <2>9. CASE EmployeeFormOpens
    BY <2>0, <2>9 DEF EmployeeFormOpens, EmployeeMoves, EmployeeReadsHold
  <2>10. ASSUME NEW amount \in Salaries, NEW isActive \in BOOLEAN, EmployeeFormSaves(amount, isActive)
         PROVE  EmployeeMoves /\ EmployeeReadsHold'
    BY <2>0, <2>10 DEF EmployeeFormSaves, EmployeeMoves, EmployeeReadsHold
  <2> QED BY <1>7, <2>1, <2>2, <2>3, <2>4, <2>5, <2>6, <2>7, <2>8, <2>9, <2>10 DEF EmployeeStep
<1> QED BY <1>5, <1>6, <1>7 DEF Next

\* The ledger of a new employee is empty and explains the balance.
LEMMA InitEmployee == Init => EmployeeInv
<1> SUFFICES ASSUME Init PROVE EmployeeInv
  OBVIOUS
<1>0. /\ saleRow = [s \in 1..NumSales |-> 0] /\ salaryRow = [m \in 1..NumMonths |-> 0]
      /\ paymentRow = [p \in 1..NumPayments |-> 0] /\ adjustRow = [k \in 1..MaxAdjustments |-> 0]
      /\ employee = 0 /\ undoing = <<>> /\ employeeForm = <<>>
  BY DEF Init, EmployeeInit, Sale, Month
<1>1. \A n \in Nat : Total([i \in 1..n |-> 0], n) = 0
  <2> TAKE n \in Nat
  <2> DEFINE f == [i \in 1..n |-> 0]
  <2>1. f \in [1..n -> Int] /\ \A j \in 1..n : f[j] = 0
    OBVIOUS
  <2> HIDE DEF f
  <2>2. Total(f, n) = 0
    BY <2>1, TotalOfZeros
  <2> QED BY <2>2 DEF f
<1>2. /\ Total(saleRow, NumSales) = 0 /\ Total(salaryRow, NumMonths) = 0
      /\ Total(paymentRow, NumPayments) = 0 /\ Total(adjustRow, MaxAdjustments) = 0
  BY <1>0, <1>1, SalesAssumption, EmployeeBoundsAssumption, Zenon
<1>3. EmployeePostings = 0
  BY <1>2 DEF EmployeePostings
<1> QED
  BY <1>0, <1>3, InitTyped, InitAlone DEF EmployeeInv, EmployeeBalanceExplained, EmployeeReadsHold

\* The employee's balance is what the rows add up to, whatever the sales,
\* salaries and payments and whatever else overlaps, as long as the employee
\* form and the reversal of a sale's row run alone.
THEOREM EmployeeBalance ==
    ASSUME "reversal" \notin Overlaps, "employee form" \notin Overlaps
    PROVE  Spec => []EmployeeBalanceExplained
<1>1. Init => EmployeeInv
  BY InitEmployee
<1>2. EmployeeInv /\ [Next]_vars => EmployeeInv'
  <2> SUFFICES ASSUME EmployeeInv, [Next]_vars PROVE EmployeeInv'
    OBVIOUS
  <2>1. TypeOK' /\ Exclusive'
    BY TypeStep, ExclusiveStep DEF EmployeeInv
  <2>2. EmployeeMoves /\ EmployeeReadsHold'
    <3>1. CASE Next
      BY <3>1, EmployeeRunsAlone, EmployeeStepsAlone DEF EmployeeInv
    <3>2. CASE UNCHANGED vars
      BY <3>2 DEF vars, employeeVars, employeeRows, EmployeeMoves, EmployeeReadsHold, EmployeeInv
    <3> QED BY <3>1, <3>2
  <2>3. EmployeeBalanceExplained'
    BY <2>2, MovesKeepBalance DEF EmployeeInv, TypeOK
  <2> QED BY <2>1, <2>2, <2>3 DEF EmployeeInv
<1>3. EmployeeInv => EmployeeBalanceExplained
  BY DEF EmployeeInv
<1> QED BY <1>1, <1>2, <1>3, PTL DEF Spec

-----------------------------------------------------------------------------
\* What the employee owes for a sale.

\* A sale has no employee row before it is paid, and a request that is about to
\* post a row again has read the sale and the row as they still are.
PriceInv ==
    /\ TypeOK /\ Exclusive /\ EmployeeHoldsThePrice
    /\ \A s \in Sale : sale[s].status \in {"none", "pending"} => saleRow[s] = 0
    /\ request.op = "sync" => /\ sale[request.sale].status = "paid"
                              /\ request.price = sale[request.sale].price
                              /\ undoing[1] = saleRow[request.sale]

\* The part of it that speaks of one sale.
PriceFits(s) ==
    /\ s \notin unposted /\ sale[s].status = "paid" /\ saleRow[s] # 0 => saleRow[s] = -sale[s].price
    /\ sale[s].status \in {"none", "pending"} => saleRow[s] = 0

\* The part of it that speaks of the request.
SyncFits ==
    request.op = "sync" => /\ sale[request.sale].status = "paid"
                           /\ request.price = sale[request.sale].price
                           /\ undoing[1] = saleRow[request.sale]

\* A reversal that runs alone finds no operation beside it.
ReversalAlone == MayRun => request.op = "none"

\* It is so where reversals may not overlap.
LEMMA ReversalRunsAlone ==
    ASSUME "reversal" \notin Overlaps
    PROVE  ReversalAlone
BY DEF ReversalAlone, MayRun, Running

\* Every operation leaves the row of each sale fitting it, and the request.
LEMMA PriceStep ==
    ASSUME PriceInv, Next, ReversalAlone
    PROVE  (\A u \in Sale : PriceFits(u)') /\ SyncFits'
<1> USE DEF employeeVars, profileVars, employeeRows
<1>0. /\ sale \in [Sale -> SaleRow] /\ saleRow \in [Sale -> Int] /\ unposted \subseteq Sale
      /\ request.op # "none" => request.sale \in Sale
      /\ \A u \in Sale : PriceFits(u)
      /\ SyncFits
  BY DEF PriceInv, TypeOK, EmployeeTypeOK, EmployeeHoldsThePrice, PriceFits, SyncFits
<1>1. MayRun => request.op = "none"
  BY DEF ReversalAlone
<1>2. \A kind : MayBegin(kind) => MayRun
  BY DEF MayBegin
<1>3. CASE SaleStep
  <2>1. ASSUME NEW s \in Sale, NEW newSim \in BOOLEAN, NEW via \in BOOLEAN, NEW price \in Prices,
               EnterSale(s, newSim, via, price)
        PROVE  (\A u \in Sale : PriceFits(u)') /\ SyncFits'
    <3>1. /\ sale[s].status = "none" /\ sale'[s].status = "pending" /\ saleRow' = saleRow
          /\ \A u \in Sale : u # s => sale'[u] = sale[u]
      BY <1>0, <2>1 DEF EnterSale, NextSale
    <3>2. request' = request /\ unposted' = unposted /\ request.op = "none"
      BY <1>1, <2>1 DEF EnterSale
    <3>3. \A u \in Sale : PriceFits(u)'
      BY <1>0, <3>1, <3>2 DEF PriceFits
    <3> QED BY <3>2, <3>3 DEF SyncFits
  <2>2. ASSUME NEW s \in Sale, PaySale(s)
        PROVE  (\A u \in Sale : PriceFits(u)') /\ SyncFits'
    <3>1. /\ sale[s].status = "pending" /\ sale' = [sale EXCEPT ![s].status = "paid"]
          /\ request' = request /\ request.op = "none"
      BY <1>1, <2>2 DEF PaySale, MovesTo
    <3>2. /\ sale'[s].status = "paid" /\ sale'[s].price = sale[s].price
          /\ \A u \in Sale : u # s => sale'[u] = sale[u]
      BY <1>0, <3>1 DEF SaleRow
    <3>3. saleRow[s] = 0
      BY <1>0, <3>1 DEF PriceFits
    <3>4. CASE sale[s].viaEmployee
      <4>1. /\ saleRow'[s] = -sale[s].price /\ \A u \in Sale : u # s => saleRow'[u] = saleRow[u]
            /\ unposted' = unposted \ {s}
        BY <1>0, <2>2, <3>3, <3>4 DEF PaySale, PostSalesPayment
      <4>2. \A u \in Sale : PriceFits(u)'
        BY <1>0, <3>1, <3>2, <4>1 DEF PriceFits
      <4> QED BY <3>1, <4>2 DEF SyncFits
    <3>5. CASE ~sale[s].viaEmployee
      <4>1. saleRow' = saleRow /\ unposted' = unposted
        BY <2>2, <3>5 DEF PaySale
      <4>2. \A u \in Sale : PriceFits(u)'
        BY <1>0, <3>1, <3>2, <3>3, <4>1 DEF PriceFits
      <4> QED BY <3>1, <4>2 DEF SyncFits
    <3> QED BY <3>4, <3>5
  <2>3. ASSUME NEW s \in Sale, CancelSale(s)
        PROVE  (\A u \in Sale : PriceFits(u)') /\ SyncFits'
    <3>1. /\ sale' = [sale EXCEPT ![s].status = "cancelled"] /\ saleRow' = saleRow
          /\ request' = request /\ unposted' = unposted /\ request.op = "none"
      BY <1>1, <2>3 DEF CancelSale, MovesTo
    <3>2. /\ sale'[s].status = "cancelled" /\ \A u \in Sale : u # s => sale'[u] = sale[u]
      BY <1>0, <3>1 DEF SaleRow
    <3> QED BY <1>0, <3>1, <3>2 DEF PriceFits, SyncFits
  <2>4. ASSUME NEW s \in Sale, DeleteSale(s) \/ EraseSale(s)
        PROVE  (\A u \in Sale : PriceFits(u)') /\ SyncFits'
    <3>1. /\ Vanishes(s) /\ saleRow' = saleRow
          /\ request' = request /\ unposted' = unposted /\ request.op = "none"
      BY <1>1, <2>4 DEF DeleteSale, EraseSale
    <3>2. /\ sale'[s].status = "deleted" /\ \A u \in Sale : u # s => sale'[u] = sale[u]
      BY <1>0, <3>1 DEF Vanishes, NoSale
    <3> QED BY <1>0, <3>1, <3>2 DEF PriceFits, SyncFits
  <2>5. ASSUME NEW s \in Sale, DeleteBegins(s)
        PROVE  (\A u \in Sale : PriceFits(u)') /\ SyncFits'
    <3>1. UNCHANGED <<sale, saleRow, unposted>> /\ request'.op = "delete"
      BY <2>5 DEF DeleteBegins, UndoReads
    <3> QED BY <1>0, <3>1 DEF PriceFits, SyncFits
  <2>6. ASSUME NEW s \in Sale, NEW price \in Prices, ManagementEdits(s, price) \/ EmployeeEdits(s, price)
        PROVE  (\A u \in Sale : PriceFits(u)') /\ SyncFits'
    <3>1. /\ sale' = [sale EXCEPT ![s].price = price] /\ saleRow' = saleRow
          /\ unposted \subseteq unposted' /\ (price # sale[s].price => s \in unposted')
      BY <2>6 DEF ManagementEdits, EmployeeEdits
    <3>2. request'.op # "sync"
      <4>1. request.op = "none"
        BY <1>1, <1>2, <2>6 DEF ManagementEdits, EmployeeEdits
      <4> QED BY <2>6, <4>1 DEF ManagementEdits, EmployeeEdits
    <3>3. /\ sale'[s].status = sale[s].status /\ sale'[s].price = price
          /\ \A u \in Sale : u # s => sale'[u] = sale[u]
      BY <1>0, <3>1 DEF SaleRow
    <3>4. \A u \in Sale : PriceFits(u)'
      BY <1>0, <3>1, <3>3 DEF PriceFits
    <3> QED BY <3>2, <3>4 DEF SyncFits
  <2>7. CASE DeleteEnds
    <3> DEFINE s == request.sale
    <3>1. /\ s \in Sale /\ Vanishes(s) /\ UndoWrites(s) /\ request'.op = "none" /\ unposted' = unposted
      BY <1>0, <2>7 DEF DeleteEnds, NoRequest
    <3>2. /\ sale'[s].status = "deleted"
          /\ \A u \in Sale : u # s => sale'[u] = sale[u] /\ saleRow'[u] = saleRow[u]
      BY <1>0, <3>1 DEF Vanishes, NoSale, UndoWrites
    <3> HIDE DEF s
    <3> QED BY <1>0, <3>1, <3>2 DEF PriceFits, SyncFits
  <2>8. CASE EditReads
    <3>1. UNCHANGED <<sale, saleRow, unposted>>
      BY <2>8 DEF EditReads, UndoReads
    <3>2. SyncFits'
      BY <2>8 DEF EditReads, UndoReads, NoRequest, SyncFits
    <3> QED BY <1>0, <3>1, <3>2 DEF PriceFits
  <2>9. CASE EditPosts
    <3> DEFINE s == request.sale
    <3>1. /\ s \in Sale /\ RepostWrites(s, request.price) /\ request'.op = "none" /\ sale' = sale
          /\ unposted' = unposted \ {s}
      BY <1>0, <2>9 DEF EditPosts, NoRequest
    <3>2. sale[s].status = "paid" /\ request.price = sale[s].price /\ undoing[1] = saleRow[s]
      BY <1>0, <2>9 DEF EditPosts, SyncFits
    <3>3. saleRow'[s] = -sale[s].price /\ \A u \in Sale : u # s => saleRow'[u] = saleRow[u]
      BY <1>0, <3>1, <3>2 DEF RepostWrites
    <3> HIDE DEF s
    <3> QED BY <1>0, <3>1, <3>2, <3>3 DEF PriceFits, SyncFits
  <2>10. CASE EditDies
    <3>1. UNCHANGED <<sale, saleRow, unposted>> /\ request'.op = "none"
      BY <2>10 DEF EditDies, NoRequest
    <3> QED BY <1>0, <3>1 DEF PriceFits, SyncFits
  <2> QED BY <1>3, <2>1, <2>2, <2>3, <2>4, <2>5, <2>6, <2>7, <2>8, <2>9, <2>10 DEF SaleStep
<1>4. CASE SupplierStep
  <2>1. UNCHANGED <<sale, saleRow, undoing, request, unposted>>
    BY <1>4 DEF SupplierStep, supplierAlone
  <2> QED BY <1>0, <2>1 DEF PriceFits, SyncFits
<1>5. CASE EmployeeStep
  <2>0. UNCHANGED <<sale, request, unposted>>
    BY <1>5 DEF EmployeeStep, employeeAlone
  <2>1. CASE UNCHANGED <<saleRow, undoing>>
    BY <1>0, <2>0, <2>1 DEF PriceFits, SyncFits
  <2>2. ASSUME NEW s \in Sale, MayRun, DeleteSaleRow(s)
        PROVE  (\A u \in Sale : PriceFits(u)') /\ SyncFits'
    <3>1. /\ request.op = "none" /\ saleRow'[s] = 0
          /\ \A u \in Sale : u # s => saleRow'[u] = saleRow[u]
      BY <1>0, <1>1, <2>2 DEF DeleteSaleRow
    <3> QED BY <1>0, <2>0, <3>1 DEF PriceFits, SyncFits
  <2>3. UNCHANGED <<saleRow, undoing>> \/ \E s \in Sale : MayRun /\ DeleteSaleRow(s)
    BY <1>5 DEF EmployeeStep, AccrueSalary, DeleteExpense, HandPayment, Adjust, DeleteSalaryRow,
                DeletePayment, DeleteAdjustment, EmployeeFormOpens, EmployeeFormSaves
  <2> QED BY <2>1, <2>2, <2>3
<1> QED BY <1>3, <1>4, <1>5 DEF Next

\* What the employee owes for a paid sale is its price, but for the edits that
\* have not been posted, as long as the reversal of a sale's row runs alone.
THEOREM EmployeePrice ==
    ASSUME "reversal" \notin Overlaps
    PROVE  Spec => []EmployeeHoldsThePrice
<1>1. Init => PriceInv
  <2> SUFFICES ASSUME Init PROVE PriceInv
    OBVIOUS
  <2>1. \A s \in Sale : saleRow[s] = 0 /\ sale[s].status = "none"
    BY DEF Init, EmployeeInit, NoSale
  <2>2. request.op = "none"
    BY DEF Init, NoRequest
  <2> QED BY <2>1, <2>2, InitTyped, InitAlone DEF PriceInv, EmployeeHoldsThePrice
<1>2. PriceInv /\ [Next]_vars => PriceInv'
  <2> SUFFICES ASSUME PriceInv, [Next]_vars PROVE PriceInv'
    OBVIOUS
  <2>1. TypeOK' /\ Exclusive'
    BY TypeStep, ExclusiveStep DEF PriceInv
  <2>2. CASE Next
    <3>1. (\A u \in Sale : PriceFits(u)') /\ SyncFits'
      BY <2>2, ReversalRunsAlone, PriceStep
    <3> QED BY <2>1, <3>1 DEF PriceInv, EmployeeHoldsThePrice, PriceFits, SyncFits
  <2>3. CASE UNCHANGED vars
    BY <2>1, <2>3 DEF vars, employeeVars, employeeRows, PriceInv, EmployeeHoldsThePrice
  <2> QED BY <2>2, <2>3
<1>3. PriceInv => EmployeeHoldsThePrice
  BY DEF PriceInv
<1> QED BY <1>1, <1>2, <1>3, PTL DEF Spec
=============================================================================
