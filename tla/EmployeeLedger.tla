---------------------------- MODULE EmployeeLedger ----------------------------
(***************************************************************************)
(* The balance of one employee and the signed ledger that explains it:     *)
(* salaries (each with its expense), the price of every sale whose cash    *)
(* the employee took, customer payments handed to the employee, and        *)
(* adjustments.                                                            *)
(*                                                                         *)
(* Sources: employees/services.py, employees/models.py, the views of       *)
(* employees/views.py and the deletion of an expense.                      *)
(*                                                                         *)
(* A service is one transaction that locks the employee's row before it    *)
(* posts: one action.  Undoing a sale's row is two: it reads the row it    *)
(* will undo before it takes that lock.  So is the employee form, which    *)
(* saves every column of the row it read.                                  *)
(* A debit is negative; an amount of 0 stands for "no row".                *)
(***************************************************************************)
EXTENDS SaleRecord, LedgerSum, Sequences

CONSTANTS
    NumMonths,      \* bound: months a salary may be accrued for
    Salaries,       \* monthly salaries that may be entered, 0 for none
    NumPayments,    \* bound: customer payments handed to the employee
    Handed,         \* amounts of such payments
    Adjustments,    \* signed amounts of adjustments
    MaxAdjustments  \* bound: ADJUSTMENT rows

ASSUME EmployeeBoundsAssumption ==
    NumMonths \in Nat /\ NumPayments \in Nat /\ MaxAdjustments \in Nat
ASSUME EmployeeAmountsAssumption ==
    Salaries \subseteq Nat /\ Handed \subseteq Nat \ {0} /\ Adjustments \subseteq Int \ {0}

Month == 1..NumMonths

VARIABLES
    employee,    \* EmployeeProfile.current_balance
    salary,      \* EmployeeProfile.monthly_salary
    active,      \* EmployeeProfile.is_active
    saleRow,     \* SALES_PAYMENT_RECEIVED row of each sale
    salaryRow,   \* SALARY_ACCRUAL row of each month
    expensed,    \* does the month's row have its expense?
    paymentRow,  \* CUSTOMER_PAYMENT_RECEIVED row of each payment
    adjustRow,   \* ADJUSTMENT rows
    undoing,     \* <<the row a reversal has read>>, <<>> when none runs
    employeeForm \* <<the balance the employee form has read>>, <<>> when closed

employeeRows == <<saleRow, salaryRow, expensed, paymentRow, adjustRow>>
profileVars == <<salary, active>>
employeeVars == <<employee, profileVars, employeeRows, undoing, employeeForm>>

EmployeeTypeOK ==
    /\ employee \in Int /\ salary \in Salaries /\ active \in BOOLEAN
    /\ saleRow \in [Sale -> Int]
    /\ salaryRow \in [Month -> Nat] /\ expensed \in [Month -> BOOLEAN]
    /\ paymentRow \in [1..NumPayments -> Int]
    /\ adjustRow \in [1..MaxAdjustments -> Int]
    /\ undoing \in Seq(Int) /\ Len(undoing) <= 1
    /\ employeeForm \in Seq(Int) /\ Len(employeeForm) <= 1

EmployeeInit ==
    /\ employee = 0 /\ salary \in Salaries /\ active = TRUE
    /\ saleRow = [s \in Sale |-> 0]
    /\ salaryRow = [m \in Month |-> 0] /\ expensed = [m \in Month |-> FALSE]
    /\ paymentRow = [p \in 1..NumPayments |-> 0]
    /\ adjustRow = [k \in 1..MaxAdjustments |-> 0]
    /\ undoing = <<>> /\ employeeForm = <<>>

-----------------------------------------------------------------------------
\* Sales.

\* record_sales_payment_received: once per sale.
PostSalesPayment(s) ==
    /\ saleRow' = [saleRow EXCEPT ![s] = IF @ = 0 THEN -sale[s].price ELSE @]
    /\ employee' = employee - (IF saleRow[s] = 0 THEN sale[s].price ELSE 0)
    /\ UNCHANGED <<profileVars, salaryRow, expensed, paymentRow, adjustRow, undoing, employeeForm>>

\* reverse_sales_payment_for_sale lists the sale's row, then waits for the
\* employee's lock...
UndoReads(s) ==
    /\ undoing = <<>> /\ undoing' = <<saleRow[s]>>
    /\ UNCHANGED <<employee, profileVars, employeeRows, employeeForm>>

\* ... and deletes it and puts back the amount it had read.
UndoWrites(s) ==
    /\ undoing # <<>> /\ undoing' = <<>>
    /\ saleRow' = [saleRow EXCEPT ![s] = IF undoing[1] = 0 THEN @ ELSE 0]
    /\ employee' = employee - undoing[1]
    /\ UNCHANGED <<profileVars, salaryRow, expensed, paymentRow, adjustRow, employeeForm>>

\* sync_sales_payment_ledger_for_sale: the row is undone and posted again, at
\* the price the request has read.
RepostWrites(s, price) ==
    LET kept == IF undoing[1] = 0 THEN saleRow[s] ELSE 0 IN
    /\ undoing # <<>> /\ undoing' = <<>>
    /\ saleRow' = [saleRow EXCEPT ![s] = IF kept = 0 THEN -price ELSE kept]
    /\ employee' = employee - undoing[1] - (IF kept = 0 THEN price ELSE 0)
    /\ UNCHANGED <<profileVars, salaryRow, expensed, paymentRow, adjustRow, employeeForm>>

-----------------------------------------------------------------------------
\* Salaries.

\* Mutant of AccrueSalary: a salary already accrued is credited again.
AccrueAgain(m) ==
    /\ active /\ salary > 0
    /\ salaryRow' = [salaryRow EXCEPT ![m] = salary]
    /\ employee' = employee + salary
    /\ expensed' = [expensed EXCEPT ![m] = TRUE]
    /\ UNCHANGED <<profileVars, saleRow, paymentRow, adjustRow, undoing, employeeForm>>

\* accrue_salary_for_month: once per month; a second call only sees to it that
\* the row has its expense.  (No caller passes force.)
AccrueSalary(m) ==
    /\ active /\ salary > 0
    /\ salaryRow' = [salaryRow EXCEPT ![m] = IF @ = 0 THEN salary ELSE @]
    /\ employee' = employee + (IF salaryRow[m] = 0 THEN salary ELSE 0)
    /\ expensed' = [expensed EXCEPT ![m] = TRUE]
    /\ UNCHANGED <<profileVars, saleRow, paymentRow, adjustRow, undoing, employeeForm>>

\* expense_delete: the row stays, its link is cleared.
DeleteExpense(m) ==
    /\ expensed[m] /\ expensed' = [expensed EXCEPT ![m] = FALSE]
    /\ UNCHANGED <<employee, profileVars, saleRow, salaryRow, paymentRow, adjustRow, undoing, employeeForm>>

-----------------------------------------------------------------------------
\* Customer payments and adjustments.

\* record_customer_payment_received; a payment is numbered when it is recorded,
\* and its number is used again after it is deleted.
HandPayment(p, amount) ==
    /\ paymentRow[p] = 0
    /\ paymentRow' = [paymentRow EXCEPT ![p] = -amount]
    /\ employee' = employee - amount
    /\ UNCHANGED <<profileVars, saleRow, salaryRow, expensed, adjustRow, undoing, employeeForm>>

\* create_adjustment
Adjust(k, amount) ==
    /\ adjustRow' = [adjustRow EXCEPT ![k] = amount]
    /\ employee' = employee + amount
    /\ UNCHANGED <<profileVars, saleRow, salaryRow, expensed, paymentRow, undoing, employeeForm>>

-----------------------------------------------------------------------------
\* delete_ledger_entry, for each type of row.  Neither the sale nor a reversal
\* that has read the row is looked at.

DeleteSaleRow(s) ==
    /\ saleRow[s] # 0
    /\ saleRow' = [saleRow EXCEPT ![s] = 0] /\ employee' = employee - saleRow[s]
    /\ UNCHANGED <<profileVars, salaryRow, expensed, paymentRow, adjustRow, undoing, employeeForm>>

DeleteSalaryRow(m) ==
    /\ salaryRow[m] # 0
    /\ salaryRow' = [salaryRow EXCEPT ![m] = 0] /\ employee' = employee - salaryRow[m]
    /\ expensed' = [expensed EXCEPT ![m] = FALSE]
    /\ UNCHANGED <<profileVars, saleRow, paymentRow, adjustRow, undoing, employeeForm>>

\* The customer's payment is deleted too, and undoes the row
\* (delete_customer_payment, reverse_customer_payment_received).
DeletePayment(p) ==
    /\ paymentRow[p] # 0
    /\ paymentRow' = [paymentRow EXCEPT ![p] = 0] /\ employee' = employee - paymentRow[p]
    /\ UNCHANGED <<profileVars, saleRow, salaryRow, expensed, adjustRow, undoing, employeeForm>>

DeleteAdjustment(k) ==
    /\ adjustRow[k] # 0
    /\ adjustRow' = [adjustRow EXCEPT ![k] = 0] /\ employee' = employee - adjustRow[k]
    /\ UNCHANGED <<profileVars, saleRow, salaryRow, expensed, paymentRow, undoing, employeeForm>>

-----------------------------------------------------------------------------
\* employee_edit: salary and activity are typed, the balance is saved as read.

EmployeeFormOpens ==
    /\ employeeForm = <<>> /\ employeeForm' = <<employee>>
    /\ UNCHANGED <<employee, profileVars, employeeRows, undoing>>

EmployeeFormSaves(amount, isActive) ==
    /\ employeeForm # <<>> /\ employeeForm' = <<>>
    /\ employee' = employeeForm[1] /\ salary' = amount /\ active' = isActive
    /\ UNCHANGED <<employeeRows, undoing>>

-----------------------------------------------------------------------------
\* compute_balance_from_ledger
EmployeePostings ==
    Total(saleRow, NumSales) + Total(salaryRow, NumMonths)
        + Total(paymentRow, NumPayments) + Total(adjustRow, MaxAdjustments)
=============================================================================
