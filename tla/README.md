# Recharge Desk: formal models

TLA+ models of *Recharge Desk*, a Django and Celery application with which the
employees of a shop sell mobile top-ups and SIM activations: every sale is paid
for from a balance the shop keeps with a supplier, may be charged automatically
at the supplier's portal, and is owed or paid by a customer or an employee.
The models cover what the unit tests under `*/tests/` cannot order by hand:
workers, beats, people and providers that act on one row in any order, and long
legal sequences of bookkeeping operations.

Files: `X.tla` models a component, `MCX.tla` instantiates it for TLC, `MC*.cfg`
are the runs, `XProofs.tla` holds theorems checked by TLAPS, `PROJECT.json` maps
every definition to the lines it models and lists hazards, runs, mutants,
findings and theorems.

## 1. Inventory

Paths are relative to `src/`. "Hard" names what is difficult to get right and to
test; the full list, at its lines, is under `hazards` in `PROJECT.json`.

| Component | State | Operations | Correct when |
|---|---|---|---|
| **Charge-and-record** `sales/charging.py`, `sales/tasks.py` | `Sale.charge_status`, `charge_conflict`, provider reference, the sale's `ProviderJob`, `run_charge_job` messages | create and queue, claim, charge, `apply_outcome`, verify beat, recheck, manual resolution | the provider is charged at most once; an outcome never returns money that may have been charged; nothing stays open for ever |
| **Provider gateway** `providers/service.py`, `contracts.py`, adapters | `may_have_sent` of one call, `ProviderOperation` rows | `charge`, `check_charge`, `refresh`, `reconcile`, `number_info` | every exception is classified by whether a request may have left |
| **Provider jobs** `providers/jobs.py` | status and start time of a job | `mark_running`, `mark_done`, `mark_failed`, `fail_if_queued`, `fail_stuck`, `find_inflight` | one worker takes a job, a finished job is final |
| **Provider sessions** `providers/sessions.py` | session and generation, login lock and cool-down in Redis | `run_authenticated`, login, invalidate | one login at a time, one retry per call, no charge repeated |
| **Sales services** `sales/services.py`, `core/sale_workflow.py` | `Sale` rows, status, prices | create, edit, cancel, delete, mark paid, deposits | supplier, customer and employee side effects are undone exactly once |
| **Supplier ledger and pricing** `companies/models.py`, `sales/pricing.py` | company balance, `CompanyLedger` | deduction, reversal, deposit, adjustment | balance equals its rows; what is returned is what was deducted |
| **Customer accounts** `customers/services.py` | balance, ledger, payments, submissions, `Sale.payment_status` | post, approve, reject, pay, adjust, write off, delete a payment, re-apply | balance equals the ledger; a settlement is covered by money no other sale needs |
| **Employee ledger** `employees/services.py` | ledger, payroll, money held, mirrored customer payments | accrue, record payment received, adjust, delete rows | balance equals its rows; the employee owes the price of what was paid to them |
| **SIM inventory** `inventory/services.py` | balances per holder, cards, movements | receive, move, consume by a sale, put back, delete a movement | quantity, cards and movements agree |
| **Number refresh** `phone_refresh/` | shared refresh job, submit lock | submit or join, run, poll, reap | one job in flight per number, every caller is answered and sees its job |
| **SMS gateway** `sms_gateway/` | `InboundSms`, `OutboundSms` | receive, process, claim, report, requeue, expire | every accepted SMS is answered, a reply is sent once |
| **Android gateway app** `android_gateway/` | messages on the phone | poll, send, report | the environment of the SMS gateway |
| **Sale entry** `sales/views/employee.py`, `sales/forms.py` | the token of a form (key of its job), the row of each number | submit, confirm a repeat, edit | one form is one charge; a number is sold twice in a day only if somebody confirmed it |
| Adapters' clients and parsers, reconciliation, monitoring, reports, exports, audit, accounts, caches, middleware, installation | mostly none of their own | HTTP dialogues, queries, rendering | out of scope, section 7 |

How they interact. *Sale entry* calls *charge-and-record*, which creates the sale
through *sales services* (supplier deduction, SIM consumption, customer or employee
rows, in one transaction) together with a `ProviderJob`, and sends a Celery message
once the transaction has committed. A worker calls the *gateway*, which runs the
adapter inside a *provider session*. The outcome comes back through
`apply_outcome`, under the sale's row lock, and may call `cancel_sale` or
`delete_sale_permanently` of *sales services*. Management pages call the same
services. A Celery beat calls `verify_charges` every 120 s. *SMS gateway* and *number
refresh* share the job table and the sessions. Customer payments are mirrored into
the *employee ledger* when an employee holds the cash.

Hard behaviours: a worker holds no lock while it talks to the provider for minutes;
messages are lost, repeated, or never sent; workers die between the provider's
answer and the database; checks act on a status read long ago; four paths can undo
one sale; settlement is recomputed over a history rows of which were deleted.

## 2. Plan

In this order, the most important behaviour first.

| # | Module | Abstract specification / composition | Proofs |
|---|---|---|---|
| 1 | `ChargeSale` | implements `ChargeMoney` | `ProviderProofs` |
| 2 | `CustomerAccount` | | `CustomerAccountProofs` |
| 3 | `SmsGateway`: SMS, refresh job, outbox, phones in one module, since one reply passes through all of them | | `SmsGatewayProofs` |
| 4 | `SaleLedgers` composes `SupplierLedger` and `EmployeeLedger`, which share `SaleRecord` and `LedgerSum` | a balance is the sum of its rows | `LedgerSumProofs`, `SaleLedgersProofs` |
| 5 | `SimStock`: balances, log, cards, the SIM of a sale | a balance is the sum of its rows | `SimStockProofs` |
| 6 | `RefreshJobs`: jobs shared by several callers, submit lock, pollers | | `RefreshJobsProofs` |
| 7 | `ProviderSession`: generations, login lock, cool-down, durable copy | | `ProviderProofs`, beside those of module 1 |
| 8 | `SaleEntry`: the submit of the sale form, before the sale of module 1 or 4 exists | | `SaleEntryProofs` |

Every safety property of a run and every property of what a step may do is proved (section 6);
liveness is left to TLC. Left: the clock of a verify pass; the matching of reconciliation as a
pure algorithm; the composition of what one sale posts to all four ledgers.

Each module is parameterised by CONSTANTS with named assumptions, has one action per
operation, and keeps RECURSIVE operators out of what is proved.

## 3. ChargeSale: the model and the code

A sale and its `ProviderJob` are created in one transaction and belong to each other,
so both are indexed by the sale. A step of the model is one database transaction,
one broker call or one HTTP exchange: the points at which the code can be
interrupted or overtaken.

| Variables | Code |
|---|---|
| `sale`, `status`, `conflict`, `hasRef` | the `Sale` row: existence and cancellation, `charge_status`, `charge_conflict`, `charge_provider_ref` |
| `deducted`, `reversals` | the sale's rows in the supplier ledger |
| `job`, `stale`, `notSent` | `ProviderJob.status`, age of `started_at` against `RUNNING_STALE_AFTER`, the "not_sent:" row of the operation log |
| `messages` | `run_charge_job` messages in the broker |
| `wpc`, `wsale`, `wtry`, `maySent`, `wout` | a worker inside `run_charge_job`: next step and local variables |
| `cpc`, `csale`, `cread`, `cout` | a process inside `_settle`: next step and what it read before it asked |
| `provider`, `sent` | the provider's side: request in flight, accepted, executed, rejected; requests that left |
| `undoneBy`, `told` | history: who undid the sale; whether a success was ever reported |
| `faults` | bound on crashes, lost messages and failed writes |

| Actions | Code |
|---|---|
| `CreateChargedSale`, `Enqueue` | `create_charged_sale`, `_enqueue_charge` (may fail, only logged) |
| `StartTask`, `Claim`, `ClaimRefused` | `run_charge_job` up to `_claim`, with `mark_running`/`fail_if_queued` |
| `LoginAndRetry` | `run_authenticated`: one login, one second call, only when nothing was sent |
| `RefuseBeforeSend`, `TransientBeforeSend`, `SendCharge`, `ChargeAccepted`, `ChargeUnclear`, `ChargeRejected`, `ChargeEscapes` | the branches of `_charge_once`, split where the request leaves |
| `RecordCharge`, `RecordChargeFails`, `MarkDone` | the end of `run_charge_job` |
| `ApplyOutcome` and its five cases | `apply_outcome` in the order of its tests: success after failure, not open any more, recorded, discarded, reversed |
| `CancelSale`, `DeleteSalePermanently` | `cancel_sale`, `delete_sale_permanently`: their supplier rows and guards |
| `LoadSale`, `Requeue`, `LeaveAlone`, `GoCheck`, `CheckCharge`, `RecordCheck` | `_settle`, split at the read, the provider's answer and the write |
| `ManualSuccess`, `ManualFailure` | `manual_resolve` |
| `ManagementCancels`, `ManagementDeletes` | the guards of `sale_cancel`, `sale_delete_permanent` |
| `RunningGoesStale`, `WorkerCrashes`, `CheckerCrashes`, `MessageLost` | time and faults |
| `ProviderAccepts`, `ProviderExecutes`, `ProviderRejects` | the portal (external) |

What an adapter may do is a record, the constant `Adapter`: can it check a charge,
does the check need the reference, does it turn every exception after the send into a
`TransientError`, may an unclear outcome carry a reference, are its failures true.
`MCChargeSale` gives the profiles of Sky and Layan, of the most an adapter may do within
the contract of `providers/contracts.py`, and of one that breaks it in every way.
The contract profile is more permissive than Sky (which can check only with a reference, and
an unclear charge of it never has one), so its safety results cover Sky. They do not cover
Layan, which does not guard its send and so does not keep the contract (finding 1): of it only
the results hold that assume nothing of the adapter (section 6). The progress result is about
adapters that can be asked; it says nothing of a provider without `check_charge`, whose unclear
charge stays open until somebody resolves it.

Abstractions: the states of a sale on its way to "paid" are one value, since the charge
flow never reads them; amounts are rows (the amounts are in `SupplierLedger`);
the customer, employee and SIM side effects of undoing a sale are left to their own
modules; how a submit comes to create the sale, and what a second submit of its form does,
is `SaleEntry`.

`ChargeMoney` is the abstract promise: per sale, money is unused, held, returned (by an
outcome) or refunded (by management), and a request is none, out or void. Money is
returned only if no request is out, and a request leaves only while money is held.
`KeepsPromise` is `ChargeMoney`'s specification under the mapping at the end of
`ChargeSale`.

### CustomerAccount

One customer. The model needs no second one: no operation of the services reads
another customer's sales, rows or payments.

| Variables | Code |
|---|---|
| `status`, `price`, `stamp` | `Sale.status`, `sell_price_actual`, `customer_payment` of the customer's on-account sales, numbered in the order of `created_at` |
| `byHand` | history: the paid sales that `mark_sale_paid` has paid, not a settlement |
| `charge`, `reversals`, `adjustments` | the amounts of the CHARGE, REVERSAL and ADJUSTMENT rows of `CustomerLedger` |
| `payments` | `CustomerPayment` rows with their PAYMENT rows, which are created and deleted together; 0 once deleted |
| `balance`, `active` | `Customer.current_balance`, `is_active` |
| `submission` | an employee's `CustomerPaymentSubmission` |
| `form` | the local `customer` of a request inside `customer_edit` |

| Actions | Code |
|---|---|
| `CreateSale`, `ApproveSale`, `EditPrice` | `create_sale`, `approve_sale` with `post_on_account_sale`, `update_sale_fields` with `sync_on_account_charge_for_sale` |
| `MarkPaid` | `mark_sale_paid`, from the sale's page or in bulk: any pending sale, without a payment |
| `CancelSale`, `DeleteSale` | the customer part of `cancel_sale` (also the end of `reject_sale`) and of `delete_sale_permanently` |
| `RecordPayment`, `DeletePayment` | `record_customer_payment`, `delete_customer_payment` |
| `SubmitPayment`, `EditSubmission`, `ApproveSubmission`, `RejectSubmission`, `UndoSubmission` | the life of a submission |
| `Adjust`, `WriteOff` | `record_customer_adjustment`, `write_off_customer_balance` |
| `DeleteChargeRow`, `DeleteReversalRow`, `DeleteAdjustmentRow` | `delete_ledger_entry` by type of row; a PAYMENT row is refused |
| `OpenForm`, `SaveForm` | `customer_edit`: the read and the save |
| `Reapply` with `Pass`, `Settled`, `Headroom`, `Oldest`, `LatestPayment` | `reapply_settlements_for_customer`, the end of every transaction that calls it, as part of that action |

Atomicity. A service locks the customer with `select_for_update` before it reads or
writes a posted sale, the ledger or the balance, so each is one action; two of them
that lock sale and customer in opposite order deadlock, and the database aborts one,
which changes nothing. `mark_sale_paid` locks the sale and not the customer. It is one action,
and it may also fall into a settlement: `Reapply` lets any pending sale whose lock the
transaction does not hold be marked after the settlement has summed the paid sales, or after it
has summed the pending ones and before it locks them. The customer form takes no lock and is
two actions. The
constant `Overtaken` says whether services may run between them: FALSE is what the
other results assume, TRUE is what the code allows (section 5, "stale forms").

Abstractions: free sales (price 0) are left out, 0 standing for "no row"; the employee
rows that mirror a payment and the SIM a posting consumes belong to other modules; that
a sale with an open charge is neither edited nor cancelled is `ChargeSale`'s subject
(an on-account sale here has none); the tests of `is_active` are made without a lock,
but no property depends on them.

### SmsGateway

An SMS, its refresh job and its one reply belong to each other (`related_inbound`, the
`notify` entry of the job's payload) and are all indexed by the SMS. A step is one
database statement or transaction, one broker call or one event on a phone.

| Variables | Code |
|---|---|
| `inbound`, `rows`, `answer` | `InboundSms.state`, the `OutboundSms` rows that name it, and what kind of text they carry |
| `out`, `attempts`, `late` | the reply: state, attempts, `claimed_at` against the timeout |
| `claims`, `overtaken` | history: its claims since it was last resent, and whether a report of it was half applied at that moment |
| `request` | a request of `sms_inbound`, one per delivery of the SMS: its next step |
| `job`, `queued`, `worker`, `reaper` | `ProviderJob.status`, its message, `run_refresh_job` and the result it has to tell, `reap_stuck_jobs` between failing the job and telling |
| `phone`, `reports` | sends in progress on a phone, reports on their way or half applied |
| `sentToday`, `failures`, `paused` | the counters and `auto_paused_at` of a device |
| `faults`, `resends` | bounds: crashes, losses and slow phones; resends |

| Actions | Code |
|---|---|
| `Arrive`, `Store` | `process_inbound`: the duplicate guard, then the insert under the unique constraint |
| `FinishAtOnce`, `FixedReply` | its inner `finish`: save of the row, then the reply |
| `MarkRefreshing`, `AnswerAtOnce`, `CreateJob` | `_refresh_async` and `submit_refresh` |
| `Enqueue`, `EnqueueFails`, `FailUnsent`, `TellBusy` | `_enqueue`; a broker call that raises may have delivered |
| `TakeJob`, `RunEnds`, `WorkerNotifies` | `run_refresh_job`: `mark_running`, `mark_done`/`mark_failed`, the completion hook |
| `Reap`, `ReaperNotifies`, `Sweep` | `fail_stuck` with its hook; `sweep_stuck_inbound` |
| `CompleteInbound` with `QueueReply` | `complete_inbound`, the one transaction all of them end in |
| `Claim` | `claim_for_device` with `_reclaim_expired` |
| `PhoneReports`, `ReportLost`, `PhoneDies` | `pollOnce`, `sendSms` and `sentReceiver` of the app |
| `ApplySent`, `ReadFailed`, `ApplyFailed` | `mark_delivery`; a failed report is split between its read and its write |
| `NewDay`, `Reactivate`, `Resend` | `roll_daily_counter`, `device_reactivate`, `outbound_resend`, which tests no state: also a reply that is queued, claimed, sent or being reported |

The protocol is open to any gateway app; the apps its README names repeat a delivery
they got no answer to, which is what `Copies` stands for. The shipped app forwards an
SMS once.

Abstractions: the states of an SMS that is answered without a refresh are one,
"ignored"; which reply a policy, a cap or a rule chooses is any of those possible at
that point, none included; the counters of a device are updated with the report, so
that two requests of one phone that overwrite each other's counter are not modelled; a
poll claims any of the waiting replies, where the code takes the oldest. The code has
no preference between phones, although `sms_gateway/README.md:64` speaks of the
highest-priority device. An SMS whose request dies between the insert and the mark is
in the model and is never answered (a hazard): the properties speak of the SMS that
are refreshing.

### SaleLedgers: SupplierLedger and EmployeeLedger

One supplier, one employee, and the sales that are entered by hand and paid in cash or to
the employee. `SaleRecord` has the columns of a sale both ledgers read, `LedgerSum` the sum
of a ledger's rows; `SupplierLedger` and `EmployeeLedger` have what each service posts, and
`SaleLedgers` the services, which move the sale and post to both in one transaction.

| Variables | Code |
|---|---|
| `sale` | `Sale.status`, `is_new_sim`, `paid_via_employee`, `cost_price_snapshot`, `sell_price_actual` |
| `company`, `opening`, `opened` | `Company.current_balance`, `opening_balance`, does the company exist |
| `openingRow`, `deduction`, `restoration`, `manual`, `audits` | the rows of `CompanyBalanceTransaction` by type; `audits` is the total of the rows a sweep leaves |
| `package`, `chip` | today's `Product.cost_price` and `ProductLine.estimated_unit_cost` |
| `companyForm`, `employeeForm` | the balance a request inside `company_edit` or `employee_edit` has read |
| `sweep` | what `cleanup_orphan_sale_balance_transactions` has read: the sales, then the rows |
| `employee`, `salary`, `active` | `EmployeeProfile` |
| `saleRow`, `salaryRow`, `expensed`, `paymentRow`, `adjustRow` | `EmployeeLedgerEntry` by type, and whether a salary row has its expense |
| `undoing`, `request` | the row a reversal has read before it waits for the employee, and the request on a sale it belongs to |
| `unposted` | auxiliary: sales whose price an edit has changed without posting it |

| Actions | Code |
|---|---|
| `EnterSale`, `PaySale`, `CancelSale` | `create_sale`, `mark_sale_paid`, `cancel_sale` |
| `DeleteSale`, `DeleteBegins`, `DeleteEnds` | `delete_sale_permanently`; with an employee it reads the row it will undo before it has the employee's lock |
| `EraseSale` | a sale deleted in the admin, which orphans its rows |
| `ManagementEdits` | `sale_edit` |
| `EmployeeEdits`, `EditReads`, `EditPosts`, `EditDies` | `employee_sale_edit`: the price in one transaction, the ledger in a second one |
| `OpenCompany`, `Correct`, `Reprice` | `company_create` with its opening row, manual deposits and adjustments, the product and line forms |
| `SweepReadsSales`, `SweepReadsRows`, `SweepApplies` | the orphan sweep |
| `CompanyFormOpens`, `CompanyFormSaves`, `EmployeeFormOpens`, `EmployeeFormSaves` | the two forms: the read and the save of every column |
| `AccrueSalary`, `DeleteExpense`, `HandPayment`, `Adjust`, `DeleteSaleRow`, `DeleteSalaryRow`, `DeletePayment`, `DeleteAdjustment` | `employees/services.py`, with `delete_ledger_entry` by type of row |
| `ProviderCost`, `EffectiveCost` | `provider_comparable_cost`, `effective_cost_for_product` |

Atomicity. A service that locks the row of the company or the employee before it reads the
balance is one action. Four requests are not: the two forms, the sweep, and a reversal of
the employee's row. The constant `Overlaps` names those of the four other requests may run
beside. `{}` is the sequential system; every kind that is named lets TLC interrupt a request
of that kind. The theorems say for each property which kinds it bears.

Abstractions: amounts are whole packages (no eSIM extra, no partial days: a cost is one of
`Packages`, a chip one of `Chips`); free products are left out, 0 standing for "no row"; rows
that may be deleted use their number again; deleting a company, an employee or a manual
row by hand is not modelled.

### SimStock

One product line. Place 0 is the main stock, place `c` the stock of customer `c`.

| Variables | Code |
|---|---|
| `quantity`, `rows` | `SimStockBalance.quantity`, and which rows exist |
| `log` | `SimStockMovement`, numbered in the order of creation |
| `card` | `SimCard`: status, customer, the sale that took it, the last movement |
| `sale` | `Sale.status`, `customer`, the serial typed, `sim_source`, the consuming movement |
| `picked` | the sale a payment approval has chosen and not locked yet |

| Actions | Code |
|---|---|
| `Receive`, `Allocate`, `Return` | `receive_main_stock`, `allocate_to_customer`, `return_from_customer`, with or without serials |
| `Adjust`, `SetQuantity`, `TakeOut` | `adjust_balance`; `set_balance_quantity`, `clear_balance`; `mark_damaged`, `record_manual_sale` |
| `DeleteRow`, `DeleteMovement` | `delete_balance_row`, `delete_movement` |
| `EnterSale`, `PaySale`, `ApproveSale`, `CancelSale`, `DeleteSale` | the SIM side of the sales services, with `ConsumeOnce` (`consume_sim_for_sale`) and `GiveBack` (`reverse_sim_for_cancelled_sale`) |
| `PickSale`, `PickedConsumes`, `PickedFails` | `consume_pending_new_sim_for_customer` inside `approve_customer_payment_submission`: the unlocked choice, the locked consumption, the rollback |

Atomicity. Balances are locked before they are read, so a service is one action, but for
the choice of the waiting sale. `inventory_overview_init_main` locks a row outside a
transaction, which has no effect on what is modelled. `Overlap` says whether other requests
run between choice and consumption, `RowsDeleted` whether a balance row named by the log
may be deleted.

Abstractions: who the payer's name resolves to is any customer or none at the moment the SIM
is taken (names are edited at any time); adjustments, damage and manual sales are one type
of row, since they name one balance; the line of a product is looked up again when a SIM is
given back (`canonical_product_line`), and a product moved to another line in between is not
modelled; neither are edits in the admin.

### RefreshJobs

One phone number, and callers of five kinds: the public page, employees, API tokens, inbound
SMS, internal tests. Each submits once.

| Variables | Code |
|---|---|
| `at`, `ticket`, `answer`, `seen` | a caller inside `submit_refresh` and its polling; the job id it was given; what it was told; the viewers it has read in `_grant_refresh_viewer` |
| `lock`, `unlocked` | the Redis lock of `_submit_lock`; history: has a submit gone on without it, or lost it to its expiry |
| `job` | `ProviderJob` (status, owner and viewers in the payload, age, result), its message, its worker, and whether its inbound message has still to be told |
| `cooling` | is the last successful refresh within the cooldown |
| `faults` | bound on dead requests and workers, lost messages, locks that are not had or expire |

| Actions | Code |
|---|---|
| `Precheck`, `TakeLock`, `GoOnWithoutLock`, `LockExpires`, `Join`, `Grant`, `FindNone`, `Create`, `Enqueue`, `EnqueueRaises`, `EnqueueFailed`, `RequestDies` | `submit_refresh`, one action per access to the database, to Redis or to the broker |
| `Take`, `TakeNothing`, `ProviderAnswers`, `WorkerFinishes`, `Reap`, `Notify` | `run_refresh_job` with `mark_running`, `mark_done`, `mark_failed`; `reap_stuck_jobs`; the completion hook |
| `Poll` with `Sees`, `Polled` | `job_payload`, `token_job_payload`, `refresh_visible_to`, `_payload_for`, `wait_for_job` |
| `GrowsOld`, `GetsStuck`, `CooldownEnds` | time against `refresh_wait_seconds`, `STUCK_JOB_SECONDS`, the cooldown |

The lock has a lifetime of ten seconds. `LockExpires` frees it under a holder that is between
its search and its last write, who does not notice and goes on; a release gives back only the
lock one still has.

A running job gets stuck only when its worker is gone: Celery ends a task after 300 s, the
reaper waits for 600 s. A queued one gets stuck only when its request no longer is at the
broker. The synchronous refresh of an API caller and the wording of an answer are left out.

### ProviderSession

One provider. Sessions are numbered by the login that made them. A worker is a `Caller` here,
and `SessionInit`, `SessionNext`, `sessionVars` and the like are named for the session, so that
one proof module can read this module beside `ChargeSale`.

| Variables | Code |
|---|---|
| `stored`, `generation`, `cooldown`, `lock` | the keys of `SessionStore` and of `_login_once` in Redis |
| `copy` | the durable copy Layan keeps in the database |
| `at`, `seen`, `used`, `retried` | a worker inside `run_authenticated`, the generation and the session it has read, and whether its call was refused once |
| `made`, `valid` | the provider's side: sessions made, sessions accepted |
| `reset`, `calm`, `mishaps` | the administrator's reset; history: no reset, restart of Redis, login cut short or older session written over a newer one yet; bound on faults |

| Actions | Code |
|---|---|
| `Start`, `Load`, `LoadCopy`, `Restore`, `Answered`, `Refused` | `run_authenticated` with the client's `from_store`; the second refusal ends the call |
| `Renewed`, `CompareStored`, `Overwrite` | Sky's `_refresh_jwt` and `save_session`, which compares and then writes |
| `CheckCooldown`, `TakeLock`, `LoginBusy`, `AnotherLoggedIn`, `AnotherFailed`, `BeginLogin`, `LoginFails`, `LoginSaves`, `SaveCopy`, `SaveCopyFails`, `Count` | `_login_once` and the adapter's `login` |
| `ResetRedis`, `ResetCopy` | `reset_session` |
| `Expires`, `CooldownEnds`, `Dies`, `RedisRestarts` | the provider, time and faults (external) |

A call may be refused whatever the provider thinks of its session: the clients raise
`AuthRequired` for any HTTP error and after a change of the proxy's address, so a login may
replace a session that still works.

The run lets an adapter do both, keep a copy as Layan and renew its session as Sky, which is
more than either does. The cool-down is on or off; that it grows with each failure is left
out, and so is the time after which Redis forgets a session by itself. The login lock expires
only with its holder: `providers/sessions.py` states that no login takes the 180 s of the lock.

### SaleEntry

The submits of the sale form, each by a user, from a form (its token), for a number, with a
charge or without, and confirmed as a repeat or not. A step is one database statement.

| Variables | Code |
|---|---|
| `at`, `asks`, `answer` | a request inside `employee_entry`: its next step, what was posted, what its user is told |
| `sale` | `Sale` by the request that records it: "draft" until its transaction commits, its number, its day, and whether `update_sale_fields` has touched the number |
| `job` | the `ProviderJob` of each token, committed or not (`idempotency_key` is unique) |
| `known`, `holder` | `SaleReferenceLock`: the numbers with a committed row, and who has inserted or locked the row of each |
| `company` | who holds the row of the supplier, which `create_sale` locks and keeps to the end |
| `today`, `faults` | the local day, and a bound on lost processes and connections |

| Actions | Code |
|---|---|
| `Submit`, `Unused`, `Duplicate`, `Used` | `find_duplicate_submit`, three times: before the transaction, inside it, and after the key of the job was refused |
| `SoldAlready`, `NotSoldYet` | `sale_recorded_today`, before the transaction and again in `reject_same_day_duplicate` under the lock of the number |
| `InsertNumber`, `NumberIsKnown`, `LockNumber` | `lock_sale_reference`: the insert in a savepoint, its refusal, `select_for_update` |
| `InsertJob`, `RecordSale`, `Recorded`, `Refused` | `_record_and_queue`, the job first; `create_sale` with `finalize_sale_after_entry`; the commit; whatever raises `ValueError` |
| `Commits`, `RollBack` | the two ends of the transaction of `employee_entry` |
| `Cancel`, `Delete`, `Edit` | `cancel_sale`, `delete_sale_permanently` (also of a refused charge), `update_sale_fields`, from the side of the guard |
| `Dies`, `DiesRecorded`, `Midnight` | a process or connection lost before or after the commit; the clock (external) |

A row that a transaction has inserted or locked is its own until it ends. An insert that meets
the uncommitted key of another waits for it (`InsertNumber` and `InsertJob` are not enabled),
and goes on with the row when the other rolls back, without it when the other commits. A job
is seen by others once its request has committed it (`Taken`).

Abstractions: the number, the company and the product are valid (the form checked them); one
company, which makes every two requests contend for its lock; a sale with an open charge may be
cancelled here, where `ChargeSale` has the guard; the customer that the form may create, and
what the sale posts, belong to the other modules; an edit is one step, because it takes no
lock of a number.

## 4. Runs and what they show

| Run | Instance | Shows |
|---|---|---|
| `contract` | contract adapter, 1 sale, 2 workers, 2 checkers, 2 messages, 2 faults, fair | `AtMostOneCharge`, `NoReversalOfPossibleCharge`, `LedgerMatchesSale`, `ChargingSaleIsProtected`, `SettledIsFinal`, `ChargeIsSettled`, refinement `KeepsPromise` |
| `any_adapter` | adapter that breaks the contract, 1 fault | `SuccessAfterReversalIsFlagged`: a success that arrives after a reversal, which only a wrong failure can cause, is flagged |
| `layan_reversal` | Layan, no faults | finding 1: `NoReversalOfPossibleCharge` is violated |
| `account` | 2 sales, prices 1..2, 2 payments of 1, a manual adjustment of 1 or -1, no form overtaken | `BalanceMatchesLedger`, `ChargeFollowsPrice`, `PaidSaleNamesAPayment`, `SettlesOnlyWithMoney`, `SettlesOldestFirst` |
| `sale_ledgers` | 1 sale, 2 prices, 2 package costs, chip or none, 1 row of every other type, `Overlaps = {}` | `CompanyBalanceExplained`, `StandingSaleIsDeducted`, `OrdinaryCancelRestoresDeduction`, `EmployeeBalanceExplained`, `EmployeeHoldsThePrice` |
| `cancel_reprice` | the same | finding 2: `CancelRestoresDeduction` is violated |
| `sim_stock` | 1 customer, 1 sale on account and 1 in cash, 1 known serial, 4 rows of the log, requests overlap | `NeverOverdrawn`, `StockMatchesLog`, `SimTakenOnce`, `SourceIsKnown`, `SoldCardHasItsSale` |
| `refresh_jobs` | fair, a page, two employees and an SMS in threes and twos, 2 jobs, 1 fault | `OneJobPerNumber`, `AnswerIsTheJobs`, `StaffSeesItsJob`, `JobIsFinished`, `CallerIsAnswered` |
| `shared_refresh` | a page and an employee, no faults | finding 3: `WebSeesItsJob` is violated |
| `provider_session` | fair, 2 workers, 2 logins, durable copy and renewal, 1 fault | `OneLoginAtATime`, `NoUntriedSessionReplaced`, `CallEnds` |
| `sale_entry` | fair, 2 submits from any of 2 forms, 2 users and 2 numbers, charged and confirmed or not, any numbers known, 2 days, 1 fault | `OneChargePerForm`, `RepeatWasConfirmed`, `AnswerIsTrue`, `RequestIsAnswered` |
| `sms` | fair, 1 SMS delivered twice, 2 phones, 2 attempts, 1 send a day, pause after 2 failures, 1 fault or 2 resends | `AtMostOneReply`, `ResultIsTheJobs`, `DeadLetterWasTried`, `RefreshingIsFinished`, `ReplyGoesOut` |

Each property of a passing run has a mutant of a modelled definition (a dropped guard,
a lost requeue, a missing row) that TLC finds violating it. The type invariants are not
among the runs' properties, since every module's is proved (section 6), and TLC evaluated all
of them while the models were written.

Bounds. *One sale*: no operation of the flow reads a second sale, and actors are taken
by one sale at a time, so what two sales add is only the sharing of workers; the proofs
are for any set of sales. *Two workers*: enough for a message delivered twice, or again
after a crash. *Two checkers*: the beat and a recheck at the same time. `MaxMessages = 2`:
the beat's second message while the first is waiting (`Enqueue` beyond the bound is
absorbed: more messages only meet a job that is already taken). `MaxFaults = 2`: two
faults in one history, for instance a lost message and a dead worker.
`CHECK_DEADLOCK FALSE`, because a history in which everything is settled, cancelled or
deleted stops.

Bounds of `account`. *Two sales*: "oldest first" and "money no other sale needs" are
about two. *Two payments of 1 against prices 1 and 2*: a payment covers a sale, part of
one, and two payments cover one together; a deleted payment keeps its place, so its
number is never used again. *One adjustment*: a manual debt or credit; a write-off that
has a rest to clear needs the place as well, so a manual debt and such a write-off do
not meet in one history unless the row of the first is deleted in between. A sale may
be edited, reopened, marked paid, written off, cancelled and have rows deleted without a bound.
There the balance can move far from the prices, and it has to equal the rows in every
one of those states. No deadlock: the form can always be opened or saved.

Bounds of `sale_ledgers`. *One sale*: no service reads a second one, and the sums are over
all rows of the supplier and the employee, with an opening, a manual and a sweep's row beside
those of the sale; the theorems are for any number. *Two prices of everything that is
priced*: a cost can have changed between entry and cancellation, with the chip added, taken
away or hidden by the change. `Overlaps = {}`: one request at a time, so what is shown is the
bookkeeping; which interleavings break which property is in section 5, and the theorems give
the kinds each property bears.

Bounds of `sim_stock`. *One customer, two sales, one known serial*: main stock and customer
stock, SIMs with and without a card, a waiting sale beside a cash sale that may take the same
card. *Four rows of the log*: receive, allocate, consume and give back; a deleted row makes
room for another. `RowsDeleted = FALSE`: the run with TRUE is the same question and takes too
long; the theorems cover both.

Bounds of `refresh_jobs`. All four callers at once are too many, so `MCInit` begins in one of
three ways. A page and an employee come, who share a job; or a page and an SMS, which do not,
with the two ways of being told; or a page waits for its queued job and two employees come and
meet at it, which is the race on the list of viewers. *Two jobs*: the second caller's own job,
or the SMS's. *One fault* of any kind; one is enough for a submit without the lock, or for one
that loses it. Tokens and tests are in the theorems.

Bounds of `provider_session`. *Two workers* contend for the lock; *two logins*: the first
session and its successor, and a login beyond the bound fails. *One fault* of any kind; an
expiry, a refusal, a reset and a renewal are no faults and come at any time.

Bounds of `sale_entry`. *Two submits*: every property speaks of two, and they may have form,
user and number in common or not; the first has form `f1`, user `u1` and number `p1`, without
loss of generality (`FirstIsFirst`). Which numbers have a row already is open at the start,
so the race on the insert and the race on the lock are both reached. *One midnight* between
any two steps. *One fault*. Three submits by one user on one day without a fault were checked
once as well, for safety (7.9 million states); the theorems are for any number of everything.

`CHECK_DEADLOCK FALSE` in these five: a history may use up its rows, jobs or logins, and
everybody is answered in the end.

Fairness (`refresh_jobs`, `provider_session`, `sale_entry`). A request or a task that has begun goes on, a
page that waits polls, the reaper comes round every 300 s, and a provider call ends because
it has a timeout. Nothing is assumed of messages arriving, of workers staying alive, or of the
lock being had. In `sale_entry` a request waits for nothing but the rows that others hold,
and the property is that no two ever wait for each other.

Bounds of `sms`. *One SMS*: no step reads a second one, except that replies share the
limits of a phone. *Two deliveries* for the
race on the insert. *Two phones*: a reply that is late on one is claimed by the other,
and both report. *Two attempts, two failures*: a reply may be retried and given up, and
one phone may fail twice and be paused. *One fault* of any kind: a lost response, a
dead phone, a lost report, a slow phone, a crash, a lost message, a failed
enqueue with the message delivered. *Two resends*, counted apart: the first may meet a report
of an earlier claim, the second a report of the first one's. To keep the run small `MCInit`
begins in one of two ways: nothing has come and nothing will be resent, or the SMS was answered
at once, its reply is queued, and up to two resends come; both with the fault. The worker, the
reaper, the sweep and a failed enqueue meet in every order without further faults. Faults are
few because they only bound how often time is lost; the safety theorems hold for any number of
SMS, phones, faults and resends, from `Init`.
`CHECK_DEADLOCK FALSE`: when the reply is sent or given up, nothing is left to do.

Fairness (`sms`). Requests and tasks that have begun go on. The two beats come round
every 300 s. A phone that may send polls every few seconds (it is enough that *some*
phone does). What a phone sends comes to an end, a report that arrives is applied, and
claim timeouts and days pass. Nothing is assumed of reports being delivered, of phones
staying alive or of a paused phone being reactivated: `ReplyGoesOut` allows that every
phone is paused.

Fairness (`contract`). Workers and started checks go on (Celery processes). The
verify beat runs every 120 s and `LoadSale` and `StartTask` are strongly fair: a sale
that stays open is visited again and again, since few enough sales are open, or their
checks are quick enough, for the 240 s of a pass. That assumption is not guaranteed by
the code (a hazard). A running job either ends
or is stale after ten minutes: Celery's hard limit of 300 s ends its worker before.
The provider decides what it accepted, and a check that is repeated for ever gets a
definite answer in the end: this is the assumption about the outside that
`ChargeIsSettled` needs, and the capability `CHECK_CHARGE`, which Layan lacks.

## 5. Findings

Three disagreements between the code and what the repository says of it have a run:

1. `layan_reversal` (code). Layan's `charge` turns a fixed list of exceptions of the
   send into a `TransientError`. Any other exception, Celery's soft time limit for
   one, leaves `may_have_sent` false, is reported as "not sent", and the sale is
   deleted with its money returned while the request may be carried out.
   `providers/contracts.py:218` asks for a `TransientError` for any failure once a request
   may have been sent.
2. `cancel_reprice` (comment). `cancel_sale` computes the supplier cost again from today's
   prices. When product or line was repriced since a new-SIM sale was entered, the chip is not
   recognised in the snapshot and is credited to the supplier: not "exactly what was deducted
   at creation". `OrdinaryCancelRestoresDeduction` is what does hold.
3. `shared_refresh` (docstring). `_is_plain_job` lets a customer on the public page join the
   job of an employee; `job_payload` then tells the customer that it has expired.

Others were met while modelling. Each is a definition of the module named, violated with the
constants given (`MC` modules and configurations as in section 4, but for these):

* `TransientMeansSent` (`ChargeSale`, `SkyAdapter`). `providers/service.py:311` says adapters
  raise a transient error "only once the charge request may have left". They raise it in
  preparatory calls too; the money is safe, the sale stays open until management settles it.
* Stale forms. `BalanceMatchesLedger` (`CustomerAccount`, `Overtaken = TRUE`),
  `CompanyBalanceExplained` (`Overlaps = {"company form"}`) and `EmployeeBalanceExplained`
  (`Overlaps = {"employee form"}`): each of the three forms saves every column of a row it
  read without a lock, and a posting that commits in between loses its effect on the balance.
* `DeletionUndoesSettlement` (`CustomerAccount`, 1 sale of 2, 2 payments of 1). A sale settled
  by several payments is stamped with the last one. Deleting an earlier one reopens nothing:
  "undo its effects" is not kept. `PaidSaleNamesAPayment` is what does hold.
* Marks by hand. `sales/views/bulk.py:51` tells the user of a bulk mark that a sale "could not be
  updated (already settled or on-account)"; `mark_sale_paid` tests the status only, and pays an
  on-account sale that is posted, without a payment and whatever is older (`MarkPaid`). Its
  CHARGE row and the balance stay. That is why `PaidSaleNamesAPayment`, `SettlesOnlyWithMoney`
  and `SettlesOldestFirst` speak of what settlements do, and leave `byHand` out.
* `WriteOffZeroesBalance` (`CustomerAccount`, the same constants). The full price of a partly
  paid sale is credited, and only a positive rest is cleared: "zero out their balance" leaves
  a credit.
* `StandingSaleIsDeducted` and `CompanyBalanceExplained` (`Overlaps = {"sweep"}`). The orphan
  sweep lists sales, then rows, then locks: a sale entered between the two reads loses its
  deduction, rows undone after the second are refunded again.
* `EmployeeBalanceExplained` and `EmployeeHoldsThePrice` (`Overlaps = {"reversal"}`). A
  reversal that waits for the employee's lock undoes a row that is not there any more, or
  the price it posts is not the sale's any more.
* `StatementEndsAtBalance` (`SaleLedgers`, as in `cancel_reprice`). The statement starts from
  the opening balance and then counts the OPENING_BALANCE row as well.
* `CancelledSaleHasNoSim` (`SimStock`, 1 sale on account, `Overlap = TRUE`). A sale that is
  cancelled between being chosen and being locked takes its SIM all the same, and no cancel
  gives it back.
* `CooldownIsKept` (`RefreshJobs`, a page and an employee, no faults). The cooldown is looked
  at before the job is found or created, so that a second job may follow a success at once.
* `DailyCapHolds` (`SmsGateway`, 2 SMS, 1 phone, a cap of 1, no faults). A phone's remaining
  sends are computed from those it has reported, not from those it has claimed.
* `DeadLetterWasTried` without `~overtaken` (`SmsGateway`, as in `sms`). A failed report that has
  read the reply before it is resent and writes it after gives it up at once: the resend is undone,
  and the reply is a dead letter again that no phone has tried since.
* A racing double click (`SaleEntry`, as in `sale_entry`). The design of the charge flow
  (`docs/superpowers/specs/2026-10-14-provider-gateway-design.md:239`) says that a double click
  "hits the unique key and returns the existing sale". In `employee_entry` the same-day guard
  comes before the key: the second click, waiting for the number, then finds the first one's sale
  and is answered with the question whether to repeat the charge, on a page with a fresh token.
  Nothing is charged twice unless that question is confirmed.

Also in the models, without a document that says otherwise: cancelling a sale leaves the
employee's debit; the management page edits a price without posting it; a returned SIM's
serial may be another customer's; Sky's `save_session` may write an older session over a newer
one; a durable copy that was read before a reset is put back after it; a refused call logs in although
the provider still accepts its session; a caller that begins
after a login failed to be counted logs in again; a plain sale has no token, so a confirmed
repeat that is sent twice is recorded twice; `update_sale_fields` types another number without
the lock or the guard of that number (`RepeatWasConfirmed` speaks of numbers as entered).

## 6. Proofs

`ProviderProofs` proves of `ChargeSale`, for every set of sales, workers and
checkers and every bound:

| Theorem | Property | Assumes of the adapter |
|---|---|---|
| `Typing` | `TypeOK` | nothing |
| `Controlled` | `Control`, the inductive invariant | nothing |
| `SentOnce` | `AtMostOneCharge` | nothing |
| `LedgerAgrees` | `LedgerMatchesSale` | nothing |
| `ChargingProtected` | `ChargingSaleIsProtected` | nothing |
| `CancelledSettled` | `CancelledIsSettled` | nothing |
| `SettledForGood` | `SettledIsFinal` | nothing |
| `ConflictIsFlagged` | `SuccessAfterReversalIsFlagged` | nothing |
| `FailuresAreTrue` | `MoneyInv` | it keeps its contract (`KeepsContract`) |
| `ReturnedOnlyIfUncharged` | `NoReversalOfPossibleCharge` | it keeps its contract |
| `PromiseIsKept` | `KeepsPromise` | it keeps its contract |

The argument. None of the safety properties is inductive: that a charge is sent once
depends on who can still be at the send. `Control` says it. For a sale: a job is queued
only while the sale is live and processing, nothing was sent before the job left the
queue, a cancelled or deleted sale is not open. For a worker between claim and recorded
outcome: its sale is live and processing, its job is running and *not stale*, no other
worker charges that sale, and before the send nothing was sent. For a checker that
has passed the ten-minute rule, or that read "unverified": nobody is charging its sale
and nobody can start to. The last conjunct is what keeps a check's stale answer and a
charging worker apart, and it needs the ten-minute rule and the finality of jobs.

`ConflictIsFlagged` needs one more fact of each sale, `ToldInv`: once a success was told, the
sale is settled, and if it is settled as failed it carries the conflict. So no failure recorded
later can find it open, and a success that finds it failed sets the flag; the manual resolution
and the checks of a stale answer go through the same two cases. It holds whatever the adapter
does, a false "failed" of a check included.

`MoneyInv` adds the provider: with an adapter that keeps its contract, a failure that
is about to be recorded, and a "not_sent:" row without a reference, tell the truth about the
provider. From it follow the reversal rule and the refinement: the initial state maps to
`ChargeMoney`'s, and each step to `Hold`, `Send`, `BecomesVoid`, `Return`, `Refund` or a
stutter. `KeepsContract` says that every exception after the send is guarded and
that a failed check is true; finding 1 shows that it cannot be dropped.

`ProviderProofs` proves of `ProviderSession`, for any workers, any number of sessions and of
mishaps, and an adapter that keeps a copy or not and renews its session or not:

| Theorem | Property |
|---|---|
| `SessionTyping` | `SessionTypeOK`, and `generation` never passes `made` |
| `LoginsExcludeOneAnother` | `OneLoginAtATime` |
| `LoginsAreNeeded` | `NoUntriedSessionReplaced` |

The types are not obvious: that the counter of logins stays within the sessions made holds
because each login is counted once at most. `CountedOnce` says so by a cardinality: the counter
and the logins that are stored and not yet counted together do not exceed the sessions, and two
workers never wait to count the same one. It holds in every history.

The two safety properties speak of calm histories, those before the first reset, restart of
Redis, login cut short or overwritten newer session, and so does their invariant.
`LoginHeld`: who logs in, or has the lock and has not decided yet, is who `lock` names. From it
the first property follows. `LoginsKnown`: Redis has the newest session, and the counter is the
number of sessions made, or one less while its holder has stored one and not counted it.
`SeenIsOld`: the generation a worker began with is not newer than the session it has loaded
(the code reads the counter before the session: read the other way round, this fails).
Under the lock an unchanged counter then means that the stored session is the one this worker was
refused with, which is the second property: of the workers that were refused together one
replaces the session, and nobody replaces one that was not tried. Whether the provider would
still have accepted it is open, as it is in the code. That the histories are calm is an
assumption about the world and not about the adapter; after a mishap an untried session may be
replaced, and the properties do not speak of it.

`CustomerAccountProofs` proves, for every number of sales, payments and adjustments, and
every set of prices and amounts (prices and payments positive, as the forms demand):

| Theorem | Property | Assumes |
|---|---|---|
| `Typing` | `TypeOK` | nothing |
| `PaidNamed` | `PaidSaleNamesAPayment` | nothing |
| `RowsFollowPrices` | `ChargeFollowsPrice` | nothing |
| `SettlementIsFunded` | `SettlesOnlyWithMoney` | nothing |
| `SettlementInTurn` | `SettlesOldestFirst` | nothing |
| `OnlyStaleFormsDrift` | a step parts balance and rows only if it saves a stale customer form | nothing |
| `BalanceIsExplained` | `BalanceMatchesLedger` | no request overtakes the customer form (`Overtaken = FALSE`) |

`PaidNamed` rests on `SettlementInv` and the shape of a submission. Its heart is
`ReapplyNames`: a settlement starts from sales that are stamped by existing payments,
and what it settles it stamps with the latest payment, which exists because nothing is
settled when no payment row is left (`LatestExists`, by well-foundedness). Each action
then only has to show that it hands the settlement such a start: deleting a payment
reopens exactly the sales that name it. Sales marked by hand name no payment, and the property
leaves them out until they are reopened. `RowsFollowPrices` rests on `RowInv`: a sale
that was not approved has no CHARGE row (so the approval posts one, at the price of
that moment) and a settlement moves sales between "pending" and "paid" only. Both
proofs leave `Headroom` and `Oldest` uninterpreted, so they hold whatever the
settlement decides to settle.

The balance is the opposite: the rows are sums, and the code moves the balance by
differences. `Drift` is the balance less what the rows add up to, `Charged + Adjusted - Received -
Returned`. For each operation one lemma says by how much each of the four moves (`TotalChange`,
for the one row it touches), and `BalanceMoves` that the balance moves by the same, wherever it
was before. So `OnlyStaleFormsDrift` assumes nothing: only a customer form that saves another
balance than the account has at that moment changes the drift. `BalanceIsExplained` follows where
no form is overtaken, with `FormIsFresh` in the invariant: a form that has read the balance still
has it right when it saves. Without that assumption the property fails (section 5).

The settlement is about order and money. `StepSettles`: a step that settles anything ends in
`Reapply`, and before that pass it settles nothing. What the pass settles is the front of the
queue: the pending sales up to the greatest settled one (`GreatestElement`) fit the headroom
together, so what is settled is worth no more (`WorthMonotone`), and added to the sales settled
before (`WorthUnion`) and the manual debt it is covered by the payments. A sale that is marked by
hand while the pass runs may be missing from the sum of the pending ones or from the list of
them, and from neither does anything more get settled: both proofs are for any two sets
`left \subseteq counted`. The same lemma read for two sales gives the order: what fits up to the
younger fits up to the older. Marks themselves need neither money nor order. Neither assumes
that the balance is right: `Headroom` never passes what the payments leave after the settled
sales and the manual debt (`HeadroomLeavesOut`), so a wrong balance can hold back a settlement
but not settle too much.

`SmsGatewayProofs` proves, for every set of SMS, deliveries and phones, every limit and
any number of faults:

| Theorem | Property | Assumes |
|---|---|---|
| `TypeCorrect` | `TypeOK` | nothing |
| `OneReply` | `AtMostOneReply` | nothing |
| `ToldResult` | `ResultIsTheJobs` | nothing |
| `JobsStayFinished` | `FinishedForGood` | nothing |
| `DeadLettersWereTried` | `DeadLetterWasTried` | at least one attempt (`AttemptsAssumption`) |

The first four rest on one inductive invariant, `SafetyInv`. `OneOwner`: of all
deliveries of an SMS one at most has stored the row and is still at work, and then the
row exists (the unique constraint). `ReplyAtTheEnd`: an SMS that is not at an end has no
reply, so whoever ends it, by `finish` or by the guarded update of `complete_inbound`,
queues the first. `OneJob`: the owner creates the job when there is none, a job that
does not exist has no worker, and a worker that has something to tell tells what is
stored. That last conjunct is why a result dropped by `mark_done` must not be told.
`DeadLettersWereTried` counts the claims since the last resend. It needs that attempts, in the row
or read by a report, never exceed them (`TriedInv`): a resend sets both to nothing, and a report
that is on its way reads the row only when it is applied. The one exception is a report that had
read the row when it was resent, which `overtaken` records. `RefreshingIsFinished` and `ReplyGoesOut` are
liveness and only model-checked.

`LedgerSumProofs` says what a change of one row does to the total of a ledger of any length
(`TotalChange`, `TotalNext`, `TotalWithout`, `TotalOfSums`), that smaller rows have no greater
total (`TotalMonotone`), and that a set of numbers below a bound has a greatest
(`GreatestElement`). `Total` is a recursive function, and the provers
cannot use an induction principle that takes a predicate. The proofs go by a least
counterexample instead: the lengths at which the claim fails form a set, `LeastElement` (from
the well-foundedness of < on the naturals) gives its least member, and the member before
it refutes that one.

`SaleLedgersProofs` proves, for any number of sales, months, payments and rows and any amounts:

| Theorem | Property | Assumes of `Overlaps` |
|---|---|---|
| `TypeCorrect` | `TypeOK` | nothing |
| `SupplierBalance` | `CompanyBalanceExplained` | the sweep and the company form run alone |
| `StandingSale` | `StandingSaleIsDeducted` | the sweep runs alone |
| `OrdinaryCancel` | `OrdinaryCancelRestoresDeduction` | the sweep runs alone |
| `SalaryExpense` | `ExpenseHasItsSalary` | nothing |
| `EmployeeBalance` | `EmployeeBalanceExplained` | the reversal and the employee form run alone |
| `EmployeePrice` | `EmployeeHoldsThePrice` | the reversal runs alone |

`StepTouchesEachLedgerOnce` reduces a step of the composition to at most one operation of
each ledger, and each property is proved operation by operation. The invariants add what a
half-done request has read: as long as a kind runs alone, what it read is still so when it
writes (`SupplierReadsHold`, `EmployeeReadsHold`). Section 5 has for each assumption the run
that fails without it.

`SimStockProofs` proves, for any number of customers, sales, cards and rows, whether rows may
be deleted or not and requests overlap or not:

| Theorem | Property |
|---|---|
| `TypeCorrect` | `TypeOK` |
| `StockIsNeverNegative` | `NeverOverdrawn` |
| `StockIsLogged` | `StockMatchesLog` |
| `SourceStaysKnown` | `SourceIsKnown` |
| `SoldCards` | `SoldCardHasItsSale` |
| `TakenOnce` | `SimTakenOnce` |

Three invariants carry them. `StockInv`: an unused row moves nothing, so adding, deleting or
detaching a row changes each total by its `Effect`. `SaleInv`: the source and the card of
a sale that has its SIM, and nothing of one that has none; it holds because `delete_movement` refuses the movements of sales,
and because a SIM is only taken with a card that is where it is taken from. `TakenOnce`
counts the rows of a sale, and needs both.

`RefreshJobsProofs` proves, for any callers, any number of jobs and of faults:

| Theorem | Property |
|---|---|
| `TypeCorrect` | `TypeOK` (no job is run twice: `calls` is at most 1) |
| `OneJob` | `OneJobPerNumber` |
| `AnswersAreTheJobs` | `AnswerIsTheJobs` |
| `StaffSees` | `StaffSeesItsJob` |
| `PrivateJobs` | `PrivateJobIsNotShared` |
| `FirstResult` | `FirstResultStands` |

`OneJobPerNumber` rests on `LockInv`: whoever is between the search and the creation has
the lock, and since then no job it could share has appeared, because only a holder creates one
and no job becomes young again. The same holder is the only one who writes viewers, which is
why `StaffSeesItsJob` survives a read and a write in two steps. Both are conditional on every
submit having had the lock and kept it until it had written (`unlocked` is set by an expiry under
a holder that is still at work, as by going on without it); the others are not.
`JobIsFinished` and `CallerIsAnswered` are liveness and only model-checked.

`SaleEntryProofs` proves, for any set of submits, forms, users, numbers and days, and any
number of faults:

| Theorem | Property |
|---|---|
| `TypeCorrect` | `TypeOK` |
| `OneCharge` | `OneChargePerForm` |
| `AnswersAreTrue` | `AnswerIsTrue` |
| `RepeatsAreConfirmed` | `RepeatWasConfirmed` |

The invariant says who has what at each step of a request: from the guard to the end it holds
the row of its number; a job belongs to a request that has inserted it and not ended without a
sale, and no two requests with a draft have one number. `RepeatWasConfirmed` follows because
the answer of the guard stays true while the row is held: nobody else can commit a sale of
that number, and the days only grow. `RequestIsAnswered` is liveness and only model-checked.

Only model-checked, in every module: the liveness properties (`ChargeIsSettled`, `CallEnds`,
`JobIsFinished`, `CallerIsAnswered`, `RequestIsAnswered`, `RefreshingIsFinished`,
`ReplyGoesOut`), since fairness and ENABLED are out of the prover's reach.

## 7. What is not modelled, and why

* Clients and parsers of the portals: HTML and HTTP. Their outcome classes are the
  adapter profiles.
* Reconciliation, reports, exports, statements (but for the balance a statement ends with):
  queries without state of their own; the matching of reconciliation is a candidate for a
  pure-algorithm module.
* Monitoring, audit, expenses, accounts, caches, rate limits, middleware, backup,
  installation: record keeping and infrastructure; no property of the money, of the stock or
  of the messages depends on more of them than the models carry.
* Of the repository's lines, most are of that kind, or are tests, forms, pages and
  translations. The models cover the services, the tasks and the protocols between
  processes.
* Row locks as state. Every service locks what it reads before it reads it, unless the models
  say otherwise; two services that lock in opposite orders (settlement and sale edit;
  allocation and return of SIMs; deletion of an employee's row and of its payment) may
  deadlock, and PostgreSQL then aborts one of them, which changes nothing.
* The sale as a whole. A sale posts to the supplier, the customer or the employee, the stock
  and the provider in one transaction; the modules follow one posting each and share no
  state, since each balance is explained by its own rows.
* Of the customer accounts: creating customers and phones, deleting a whole customer.
* Of the SMS gateway: the text of replies, access rules and caps as such, the refresh
  over HTTP of another service, deletion of SMS on the phone, purging, switching a
  phone off, and the order of the outbox.
* Of the charge flow: the notices shown to the employee and the time budget of a verify
  pass. Of the sale entry: the validation of the form and the resolution of payer names.
