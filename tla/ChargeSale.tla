----------------------------- MODULE ChargeSale -----------------------------
(***************************************************************************)
(* The charge-and-record sale: a sale is recorded and paid for from the    *)
(* supplier balance, one provider charge is queued for it, a Celery worker *)
(* claims the job and sends the charge, and the outcome settles the sale.  *)
(* The verify beat, a management recheck and a manual resolution settle    *)
(* charges whose worker died or whose answer was unclear.                  *)
(*                                                                         *)
(* Sources: sales/charging.py, sales/tasks.py, sales/services.py,          *)
(* providers/service.py (charge, check_charge), providers/jobs.py,         *)
(* providers/sessions.py (the one retry after a login).                    *)
(*                                                                         *)
(* Every action below is one database transaction, one broker call or one  *)
(* HTTP exchange of the code.  A sale and its ProviderJob are created in   *)
(* one transaction and correspond one to one, so both are indexed by the   *)
(* sale.  The statuses a sale goes through on its way to being paid are    *)
(* one value here, "live": nothing in the charge flow depends on them.     *)
(***************************************************************************)
EXTENDS Naturals, FiniteSets

CONSTANTS
    Sale,         \* sales that can be recorded; each stands for one form token
    Worker,       \* Celery worker slots that run run_charge_job
    Checker,      \* processes that run _settle: the verify beat, rechecks
    NoSale,       \* a worker or checker that holds no sale
    MaxMessages,  \* bound: run_charge_job messages of one job in the broker
    MaxFaults,    \* bound: crashes, lost messages and failed writes together
    Adapter       \* what the provider's adapter does, see AdapterProfiles

(***************************************************************************)
(* canCheck      the adapter has the CHECK_CHARGE capability               *)
(* needsRef      check_charge needs the provider's reference               *)
(* guardsSend    every exception raised once the charge request may have   *)
(*               left is turned into a TransientError                      *)
(* refEarly      an unverified outcome may already carry the reference     *)
(* truthful      check_charge reports FAILED only for a charge the         *)
(*               provider will never carry out                             *)
(***************************************************************************)
AdapterProfiles ==
    [canCheck: BOOLEAN, needsRef: BOOLEAN, guardsSend: BOOLEAN,
     refEarly: BOOLEAN, truthful: BOOLEAN]

ASSUME AdapterAssumption == Adapter \in AdapterProfiles
ASSUME BoundAssumption == MaxMessages \in Nat \ {0} /\ MaxFaults \in Nat
ASSUME NoSaleAssumption == NoSale \notin Sale

VARIABLES
    sale,      \* the Sale row: "none" before it exists, "deleted" after
    status,    \* Sale.charge_status, "blank" when empty
    conflict,  \* Sale.charge_conflict
    hasRef,    \* Sale.charge_provider_ref is not empty
    deducted,  \* the supplier ledger holds the sale's DEDUCTION row
    reversals, \* number of its REVERSAL rows (reference CANCELLATION)
    job,       \* ProviderJob.status
    stale,     \* started_at is older than RUNNING_STALE_AFTER
    notSent,   \* the charge's ProviderOperation row says "not_sent:"
    messages,  \* run_charge_job messages waiting in the broker
    wpc,       \* what each worker does next
    wsale,     \* the sale a worker works on
    wtry,      \* its call of adapter.charge: the first, or the one after a login
    maySent,   \* _charge_once's may_have_sent
    wout,      \* the outcome it is about to record
    cpc,       \* what each checker does next
    csale,     \* the sale it settles
    cread,     \* charge_status and charge_provider_ref as it read them
    cout,      \* the outcome check_charge gave it
    provider,  \* the provider's side of the charge
    sent,      \* charge requests that left for the provider
    undoneBy,  \* history: which path undid the sale (the audit log's actor)
    told,      \* history: a success outcome has reached apply_outcome
    faults     \* crashes, losses and failed writes so far

saleVars ==
    <<sale, status, conflict, hasRef, deducted, reversals, undoneBy, told>>
jobVars == <<job, stale, notSent, messages>>
workerVars == <<wpc, wsale, wtry, maySent, wout>>
checkerVars == <<cpc, csale, cread, cout>>
providerVars == <<provider, sent>>
vars == <<saleVars, jobVars, workerVars, checkerVars, providerVars, faults>>

ChargeResult == {"success", "failed", "unverified"}
ChargeOutcome == [result: ChargeResult, reached: BOOLEAN, ref: BOOLEAN]
Outcome(result, reached, ref) ==
    [result |-> result, reached |-> reached, ref |-> ref]
NoOutcome == Outcome("unverified", TRUE, FALSE)

OpenStatuses == {"processing", "unverified"}
ChargeIsOpen(s) == sale[s] # "deleted" /\ status[s] \in OpenStatuses

\* The provider has carried the charge out, or still might.
MayBeCharged(s) == provider[s] \in {"inflight", "accepted", "executed"}

SaleTypeOK ==
    /\ sale \in [Sale -> {"none", "live", "cancelled", "deleted"}]
    /\ status \in [Sale -> {"blank"} \cup ChargeResult \cup {"processing"}]
    /\ conflict \in [Sale -> BOOLEAN]
    /\ hasRef \in [Sale -> BOOLEAN]
    /\ deducted \in [Sale -> BOOLEAN]
    /\ reversals \in [Sale -> Nat]
    /\ undoneBy \in [Sale -> {"nobody", "outcome", "management"}]
    /\ told \in [Sale -> BOOLEAN]

JobTypeOK ==
    /\ job \in [Sale -> {"none", "queued", "running", "done", "failed"}]
    /\ stale \in [Sale -> BOOLEAN]
    /\ notSent \in [Sale -> BOOLEAN]
    /\ messages \in [Sale -> 0..MaxMessages]

WorkerTypeOK ==
    /\ wpc \in [Worker -> {"idle", "claim", "attempt", "sent", "apply", "finish"}]
    /\ wsale \in [Worker -> Sale \cup {NoSale}]
    /\ wtry \in [Worker -> 1..2]
    /\ maySent \in [Worker -> BOOLEAN]
    /\ wout \in [Worker -> ChargeOutcome]

CheckerTypeOK ==
    /\ cpc \in [Checker -> {"idle", "loaded", "check", "apply"}]
    /\ csale \in [Checker -> Sale \cup {NoSale}]
    /\ cread \in [Checker -> [status: OpenStatuses, ref: BOOLEAN]]
    /\ cout \in [Checker -> ChargeOutcome]

ProviderTypeOK ==
    /\ provider \in [Sale -> {"none", "inflight", "accepted", "executed", "rejected"}]
    /\ sent \in [Sale -> Nat]

TypeOK ==
    /\ SaleTypeOK
    /\ JobTypeOK
    /\ WorkerTypeOK
    /\ CheckerTypeOK
    /\ ProviderTypeOK
    /\ faults \in 0..MaxFaults

NothingRead == [status |-> "unverified", ref |-> FALSE]

Init ==
    /\ sale = [s \in Sale |-> "none"]
    /\ status = [s \in Sale |-> "blank"]
    /\ conflict = [s \in Sale |-> FALSE]
    /\ hasRef = [s \in Sale |-> FALSE]
    /\ deducted = [s \in Sale |-> FALSE]
    /\ reversals = [s \in Sale |-> 0]
    /\ job = [s \in Sale |-> "none"]
    /\ stale = [s \in Sale |-> FALSE]
    /\ notSent = [s \in Sale |-> FALSE]
    /\ messages = [s \in Sale |-> 0]
    /\ wpc = [w \in Worker |-> "idle"]
    /\ wsale = [w \in Worker |-> NoSale]
    /\ wtry = [w \in Worker |-> 1]
    /\ maySent = [w \in Worker |-> FALSE]
    /\ wout = [w \in Worker |-> NoOutcome]
    /\ cpc = [c \in Checker |-> "idle"]
    /\ csale = [c \in Checker |-> NoSale]
    /\ cread = [c \in Checker |-> NothingRead]
    /\ cout = [c \in Checker |-> NoOutcome]
    /\ provider = [s \in Sale |-> "none"]
    /\ sent = [s \in Sale |-> 0]
    /\ undoneBy = [s \in Sale |-> "nobody"]
    /\ told = [s \in Sale |-> FALSE]
    /\ faults = 0

-----------------------------------------------------------------------------
\* Undoing a sale: cancel_sale and delete_sale_permanently.

\* Mutant of CancelSale: the guards are gone.
CancelSaleAgain(s, who) ==
    /\ sale[s] \in {"live", "cancelled"}
    /\ sale' = [sale EXCEPT ![s] = "cancelled"]
    /\ reversals' = [reversals EXCEPT ![s] = @ + 1]
    /\ undoneBy' = [undoneBy EXCEPT ![s] = who]
    /\ UNCHANGED deducted

\* cancel_sale's guards, its REVERSAL row and the new status.
CancelSale(s, who) ==
    /\ sale[s] = "live"
    /\ reversals[s] = 0
    /\ sale' = [sale EXCEPT ![s] = "cancelled"]
    /\ reversals' = [reversals EXCEPT ![s] = @ + 1]
    /\ undoneBy' = [undoneBy EXCEPT ![s] = who]
    /\ UNCHANGED deducted

\* The supplier rows of the sale are undone and removed with it.
DeleteSalePermanently(s, who) ==
    /\ sale[s] \in {"live", "cancelled"}
    /\ sale' = [sale EXCEPT ![s] = "deleted"]
    /\ status' = [status EXCEPT ![s] = "blank"]
    /\ deducted' = [deducted EXCEPT ![s] = FALSE]
    /\ reversals' = [reversals EXCEPT ![s] = 0]
    /\ undoneBy' = [undoneBy EXCEPT ![s] = who]

-----------------------------------------------------------------------------
\* apply_outcome: one transaction under the sale's row lock.

\* Mutant of FlagSuccessAfterFailure: the conflict is not recorded.
DropSuccessAfterFailure(s, o) ==
    /\ status[s] = "failed"
    /\ o.result = "success"
    /\ UNCHANGED <<sale, status, conflict, hasRef, deducted, reversals, undoneBy>>

FlagSuccessAfterFailure(s, o) ==
    /\ status[s] = "failed"
    /\ o.result = "success"
    /\ conflict' = [conflict EXCEPT ![s] = TRUE]
    /\ UNCHANGED <<sale, status, hasRef, deducted, reversals, undoneBy>>

\* Mutant of IgnoreOutcome: a late answer overwrites a settled charge.
AcceptLateOutcome(s, o) ==
    /\ status[s] \notin OpenStatuses
    /\ ~(status[s] = "failed" /\ o.result = "success")
    /\ status' = [status EXCEPT ![s] = o.result]
    /\ UNCHANGED <<sale, conflict, hasRef, deducted, reversals, undoneBy>>

IgnoreOutcome(s, o) ==
    /\ status[s] \notin OpenStatuses
    /\ ~(status[s] = "failed" /\ o.result = "success")
    /\ UNCHANGED <<sale, status, conflict, hasRef, deducted, reversals, undoneBy>>

\* Success, unverified, or a failure of a sale that is already cancelled.
RecordOutcome(s, o) ==
    /\ status[s] \in OpenStatuses
    /\ o.result = "failed" => sale[s] = "cancelled"
    /\ status' = [status EXCEPT ![s] = o.result]
    /\ hasRef' = [hasRef EXCEPT ![s] = @ \/ o.ref]
    /\ conflict' = [conflict EXCEPT ![s] =
                       @ \/ (o.result = "success" /\ sale[s] = "cancelled")]
    /\ UNCHANGED <<sale, deducted, reversals, undoneBy>>

DiscardUnsentSale(s, o) ==
    /\ status[s] \in OpenStatuses
    /\ o.result = "failed"
    /\ ~o.reached
    /\ sale[s] = "live"
    /\ DeleteSalePermanently(s, "outcome")
    /\ UNCHANGED <<hasRef, conflict>>

ReverseFailedSale(s, o) ==
    /\ status[s] \in OpenStatuses
    /\ o.result = "failed"
    /\ o.reached
    /\ sale[s] = "live"
    /\ status' = [status EXCEPT ![s] = "failed"]
    /\ hasRef' = [hasRef EXCEPT ![s] = @ \/ o.ref]
    /\ \/ CancelSale(s, "outcome")
       \/ /\ reversals[s] > 0
          /\ UNCHANGED <<sale, deducted, reversals, undoneBy>>
    /\ UNCHANGED conflict

ApplyOutcome(s, o) ==
    /\ sale[s] \in {"live", "cancelled"}
    /\ told' = [told EXCEPT ![s] = @ \/ o.result = "success"]
    /\ \/ FlagSuccessAfterFailure(s, o)
       \/ IgnoreOutcome(s, o)
       \/ RecordOutcome(s, o)
       \/ DiscardUnsentSale(s, o)
       \/ ReverseFailedSale(s, o)

-----------------------------------------------------------------------------
\* The employee records the sale; the job is queued on commit.

Enqueue(s) ==
    \/ /\ messages[s] < MaxMessages
       /\ messages' = [messages EXCEPT ![s] = @ + 1]
    \/ /\ messages[s] = MaxMessages
       /\ UNCHANGED messages

\* create_charged_sale.  The enqueue can fail, which is only logged.  A second
\* submit of the same form token gets the sale that exists and changes nothing.
CreateChargedSale(s) ==
    /\ job[s] = "none"
    /\ job' = [job EXCEPT ![s] = "queued"]
    /\ sale' = [sale EXCEPT ![s] = "live"]
    /\ status' = [status EXCEPT ![s] = "processing"]
    /\ deducted' = [deducted EXCEPT ![s] = TRUE]
    /\ \/ Enqueue(s) /\ UNCHANGED faults
       \/ /\ faults < MaxFaults
          /\ faults' = faults + 1
          /\ UNCHANGED messages
    /\ UNCHANGED <<conflict, hasRef, reversals, undoneBy, told, stale, notSent>>
    /\ UNCHANGED <<workerVars, checkerVars, providerVars>>

-----------------------------------------------------------------------------
\* run_charge_job in a worker.

\* Take a message and load the job.
StartTask(w, s) ==
    /\ wpc[w] = "idle"
    /\ messages[s] > 0
    /\ messages' = [messages EXCEPT ![s] = @ - 1]
    /\ wpc' = [wpc EXCEPT ![w] = "claim"]
    /\ wsale' = [wsale EXCEPT ![w] = s]
    /\ UNCHANGED <<wtry, maySent, wout, job, stale, notSent, faults>>
    /\ UNCHANGED <<saleVars, checkerVars, providerVars>>

Leave(w) ==
    /\ wpc' = [wpc EXCEPT ![w] = "idle"]
    /\ wsale' = [wsale EXCEPT ![w] = NoSale]
    /\ wtry' = [wtry EXCEPT ![w] = 1]
    /\ maySent' = [maySent EXCEPT ![w] = FALSE]
    /\ wout' = [wout EXCEPT ![w] = NoOutcome]

\* The conditions _claim checks on the locked sale.
Claimable(s) == sale[s] = "live" /\ status[s] = "processing"

\* Mutant of MarkRunning: the job's status is not tested.
MarkRunningAgain(s) ==
    job' = [job EXCEPT ![s] = "running"]

\* mark_running: queued -> running, so one worker at most gets past it.
MarkRunning(s) ==
    /\ job[s] = "queued"
    /\ job' = [job EXCEPT ![s] = "running"]

Claim(w) ==
    LET s == wsale[w] IN
    /\ wpc[w] = "claim"
    /\ Claimable(s)
    /\ MarkRunning(s)
    /\ wpc' = [wpc EXCEPT ![w] = "attempt"]
    /\ UNCHANGED <<wsale, wtry, maySent, wout, stale, notSent, messages, faults>>
    /\ UNCHANGED <<saleVars, checkerVars, providerVars>>

FailIfQueued(s) ==
    job' = [job EXCEPT ![s] = IF @ = "queued" THEN "failed" ELSE @]

\* A refused job that is still queued is failed; a taken one is skipped.
ClaimRefused(w) ==
    LET s == wsale[w] IN
    /\ wpc[w] = "claim"
    /\ \/ ~Claimable(s) /\ FailIfQueued(s)
       \/ Claimable(s) /\ job[s] # "queued" /\ UNCHANGED job
    /\ Leave(w)
    /\ UNCHANGED <<stale, notSent, messages, faults>>
    /\ UNCHANGED <<saleVars, checkerVars, providerVars>>

\* provider_service.charge returns o; its operation row may say "not_sent:".
GatewayReturns(w, o, row) ==
    /\ wpc' = [wpc EXCEPT ![w] = "apply"]
    /\ wout' = [wout EXCEPT ![w] = o]
    /\ \E recorded \in {row, FALSE} :
           notSent' = [notSent EXCEPT ![wsale[w]] = @ \/ recorded]
    /\ UNCHANGED <<wsale, wtry>>

gatewayUnchanged == <<saleVars, job, stale, messages, checkerVars, faults>>

\* adapter.charge raises AuthRequired before its request leaves, and the login
\* that follows succeeds: the charge is called a second and last time.
LoginAndRetry(w) ==
    /\ wpc[w] = "attempt"
    /\ wtry[w] = 1
    /\ wtry' = [wtry EXCEPT ![w] = 2]
    /\ UNCHANGED <<wpc, wsale, maySent, wout, notSent, providerVars>>
    /\ UNCHANGED gatewayUnchanged

\* Nothing left: login busy or failed, AuthRequired again, an exception while
\* the request was prepared.  Or the adapter refused (PermanentError), which
\* leaves no "not_sent:" row.
RefuseBeforeSend(w) ==
    /\ wpc[w] = "attempt"
    /\ ~maySent[w]
    /\ \E row \in BOOLEAN : GatewayReturns(w, Outcome("failed", FALSE, FALSE), row)
    /\ UNCHANGED <<maySent, providerVars>>
    /\ UNCHANGED gatewayUnchanged

\* A TransientError of the adapter's preparatory calls (proxy, timeout) looks
\* to _charge_once like one raised after the request left.
TransientBeforeSend(w) ==
    /\ wpc[w] = "attempt"
    /\ maySent' = [maySent EXCEPT ![w] = TRUE]
    /\ GatewayReturns(w, Outcome("unverified", TRUE, FALSE), FALSE)
    /\ UNCHANGED providerVars
    /\ UNCHANGED gatewayUnchanged

\* The charge request leaves.
SendCharge(w) ==
    LET s == wsale[w] IN
    /\ wpc[w] = "attempt"
    /\ wpc' = [wpc EXCEPT ![w] = "sent"]
    /\ provider' = [provider EXCEPT ![s] = "inflight"]
    /\ sent' = [sent EXCEPT ![s] = @ + 1]
    /\ UNCHANGED <<wsale, wtry, maySent, wout, notSent>>
    /\ UNCHANGED gatewayUnchanged

\* The provider's answer shows that it took the charge.
ChargeAccepted(w) ==
    /\ wpc[w] = "sent"
    /\ provider[wsale[w]] \in {"accepted", "executed"}
    /\ GatewayReturns(w, Outcome("success", TRUE, TRUE), FALSE)
    /\ UNCHANGED <<maySent, providerVars>>
    /\ UNCHANGED gatewayUnchanged

\* Mutant of ChargeUnclear: a timeout is taken for a refusal.
ChargeTimedOutIsFailed(w) ==
    /\ wpc[w] = "sent"
    /\ GatewayReturns(w, Outcome("failed", TRUE, FALSE), FALSE)
    /\ UNCHANGED <<maySent, providerVars>>
    /\ UNCHANGED gatewayUnchanged

\* Timeout, broken connection or an unclear answer: TransientError.
ChargeUnclear(w) ==
    /\ wpc[w] = "sent"
    /\ maySent' = [maySent EXCEPT ![w] = TRUE]
    /\ \E ref \in {Adapter.refEarly /\ MayBeCharged(wsale[w]), FALSE} :
           GatewayReturns(w, Outcome("unverified", TRUE, ref), FALSE)
    /\ UNCHANGED providerVars
    /\ UNCHANGED gatewayUnchanged

\* The provider answered that it will not charge: PermanentError.
ChargeRejected(w) ==
    /\ wpc[w] = "sent"
    /\ provider[wsale[w]] = "rejected"
    /\ GatewayReturns(w, Outcome("failed", maySent[w], FALSE), FALSE)
    /\ UNCHANGED <<maySent, providerVars>>
    /\ UNCHANGED gatewayUnchanged

\* Any other exception escapes the adapter while it waits for the answer (the
\* task's soft time limit is one): may_have_sent is still FALSE.
ChargeEscapes(w) ==
    /\ wpc[w] = "sent"
    /\ ~Adapter.guardsSend
    /\ GatewayReturns(w, Outcome("failed", FALSE, FALSE), TRUE)
    /\ UNCHANGED <<maySent, providerVars>>
    /\ UNCHANGED gatewayUnchanged

Gateway(w) ==
    \/ LoginAndRetry(w)
    \/ RefuseBeforeSend(w)
    \/ TransientBeforeSend(w)
    \/ SendCharge(w)
    \/ ChargeAccepted(w)
    \/ ChargeUnclear(w)
    \/ ChargeRejected(w)
    \/ ChargeEscapes(w)

RecordCharge(w) ==
    /\ wpc[w] = "apply"
    /\ ApplyOutcome(wsale[w], wout[w])
    /\ wpc' = [wpc EXCEPT ![w] = "finish"]
    /\ UNCHANGED <<wsale, wtry, maySent, wout, faults>>
    /\ UNCHANGED <<jobVars, checkerVars, providerVars>>

\* mark_done and mark_failed leave a finished job alone.
FinishJob(s, to) ==
    job' = [job EXCEPT ![s] = IF @ \in {"done", "failed"} THEN @ ELSE to]

\* The outcome could not be written: the job fails, the verify task looks later.
RecordChargeFails(w) ==
    /\ wpc[w] = "apply"
    /\ faults < MaxFaults
    /\ faults' = faults + 1
    /\ FinishJob(wsale[w], "failed")
    /\ Leave(w)
    /\ UNCHANGED <<stale, notSent, messages>>
    /\ UNCHANGED <<saleVars, checkerVars, providerVars>>

MarkDone(w) ==
    /\ wpc[w] = "finish"
    /\ FinishJob(wsale[w], "done")
    /\ Leave(w)
    /\ UNCHANGED <<stale, notSent, messages, faults>>
    /\ UNCHANGED <<saleVars, checkerVars, providerVars>>

WorkerStep(w) ==
    \/ \E s \in Sale : StartTask(w, s)
    \/ Claim(w)
    \/ ClaimRefused(w)
    \/ Gateway(w)
    \/ RecordCharge(w)
    \/ MarkDone(w)

-----------------------------------------------------------------------------
\* _settle, in the verify beat or a recheck task.

\* The sale is read, without a lock.
LoadSale(c, s) ==
    /\ cpc[c] = "idle"
    /\ ChargeIsOpen(s)
    /\ cpc' = [cpc EXCEPT ![c] = "loaded"]
    /\ csale' = [csale EXCEPT ![c] = s]
    /\ cread' = [cread EXCEPT ![c] = [status |-> status[s], ref |-> hasRef[s]]]
    /\ UNCHANGED <<cout, saleVars, jobVars, workerVars, providerVars, faults>>

LeaveCheck(c) ==
    /\ cpc' = [cpc EXCEPT ![c] = "idle"]
    /\ csale' = [csale EXCEPT ![c] = NoSale]
    /\ cread' = [cread EXCEPT ![c] = NothingRead]
    /\ cout' = [cout EXCEPT ![c] = NoOutcome]

\* A queued job is handed to the workers again.
Requeue(c) ==
    LET s == csale[c] IN
    /\ cpc[c] = "loaded"
    /\ cread[c].status = "processing"
    /\ job[s] = "queued"
    /\ Enqueue(s)
    /\ LeaveCheck(c)
    /\ UNCHANGED <<job, stale, notSent, saleVars, workerVars, providerVars, faults>>

\* Mutant of WorkerHasIt: the age of the job does not count.
RunningForever(c) ==
    /\ cread[c].status = "processing"
    /\ job[csale[c]] = "running"

\* A worker has the job and may still be at it.
WorkerHasIt(c) ==
    /\ cread[c].status = "processing"
    /\ job[csale[c]] = "running"
    /\ ~stale[csale[c]]

LeaveAlone(c) ==
    /\ cpc[c] = "loaded"
    /\ ~(cread[c].status = "processing" /\ job[csale[c]] = "queued")
    /\ WorkerHasIt(c) \/ ~Adapter.canCheck
    /\ LeaveCheck(c)
    /\ UNCHANGED <<saleVars, jobVars, workerVars, providerVars, faults>>

GoCheck(c) ==
    /\ cpc[c] = "loaded"
    /\ ~(cread[c].status = "processing" /\ job[csale[c]] = "queued")
    /\ ~WorkerHasIt(c)
    /\ Adapter.canCheck
    /\ cpc' = [cpc EXCEPT ![c] = "check"]
    /\ UNCHANGED <<csale, cread, cout>>
    /\ UNCHANGED <<saleVars, jobVars, workerVars, providerVars, faults>>

\* What check_charge may answer about the charge of s.
CheckAnswers(s, ref) ==
    {r \in ChargeResult :
        r # "unverified" =>
            /\ ref \/ ~Adapter.needsRef
            /\ r = "success" => provider[s] = "executed"
            /\ r = "failed" => provider[s] \in {"none", "rejected"} \/ ~Adapter.truthful}

CheckCharge(c) ==
    /\ cpc[c] = "check"
    /\ \E r \in CheckAnswers(csale[c], cread[c].ref) :
           cout' = [cout EXCEPT ![c] = Outcome(r, TRUE, cread[c].ref)]
    /\ cpc' = [cpc EXCEPT ![c] = "apply"]
    /\ UNCHANGED <<csale, cread>>
    /\ UNCHANGED <<saleVars, jobVars, workerVars, providerVars, faults>>

\* An unverified answer only updates charge_checked_at; a sale deleted
\* meanwhile raises, and the exception is caught.
RecordCheck(c) ==
    /\ cpc[c] = "apply"
    /\ \/ /\ cout[c].result # "unverified"
          /\ ApplyOutcome(csale[c], cout[c])
       \/ /\ cout[c].result = "unverified" \/ sale[csale[c]] = "deleted"
          /\ UNCHANGED saleVars
    /\ LeaveCheck(c)
    /\ UNCHANGED <<jobVars, workerVars, providerVars, faults>>

CheckerStep(c) ==
    \/ Requeue(c)
    \/ LeaveAlone(c)
    \/ GoCheck(c)
    \/ CheckCharge(c)
    \/ RecordCheck(c)

-----------------------------------------------------------------------------
\* Management.

\* Mutant of ChargeInProgress: a running job does not hold the page back.
NeverInProgress(s) == FALSE /\ job[s] = "running"

\* The worker may still be charging: ChargeInProgress.
ChargeInProgress(s) == job[s] = "running" /\ ~stale[s]

\* Mutant of SaleChargeNotSent: no reference is taken as proof enough.
NoReferenceSaved(s) == ~hasRef[s]

\* sale_charge_not_sent: no reference and an operation row that says not sent.
SaleChargeNotSent(s) == ~hasRef[s] /\ notSent[s]

\* A charge that was never sent cannot be marked successful.
ManualSuccess(s) ==
    /\ ChargeIsOpen(s)
    /\ ~ChargeInProgress(s)
    /\ job[s] # "queued"
    /\ ApplyOutcome(s, Outcome("success", TRUE, FALSE))
    /\ UNCHANGED <<jobVars, workerVars, checkerVars, providerVars, faults>>

\* A failure needs proof that nothing was sent; a queued job is stopped.
ManualFailure(s) ==
    /\ ChargeIsOpen(s)
    /\ ~ChargeInProgress(s)
    /\ SaleChargeNotSent(s) \/ job[s] = "queued"
    /\ FailIfQueued(s)
    /\ ApplyOutcome(s, Outcome("failed", TRUE, FALSE))
    /\ UNCHANGED <<stale, notSent, messages>>
    /\ UNCHANGED <<workerVars, checkerVars, providerVars, faults>>

\* sale_cancel: refused while the charge is open.
ManagementCancels(s) ==
    /\ ~ChargeIsOpen(s)
    /\ CancelSale(s, "management")
    /\ UNCHANGED <<status, conflict, hasRef, told>>
    /\ UNCHANGED <<jobVars, workerVars, checkerVars, providerVars, faults>>

\* sale_delete_permanent: refused only while the charge is processing.
ManagementDeletes(s) ==
    /\ status[s] # "processing"
    /\ DeleteSalePermanently(s, "management")
    /\ UNCHANGED <<conflict, hasRef, told>>
    /\ UNCHANGED <<jobVars, workerVars, checkerVars, providerVars, faults>>

-----------------------------------------------------------------------------
\* The provider, external.  A request that is lost on the way is rejected.

ProviderAccepts(s) ==
    /\ provider[s] = "inflight"
    /\ provider' = [provider EXCEPT ![s] = "accepted"]
    /\ UNCHANGED <<sent, saleVars, jobVars, workerVars, checkerVars, faults>>

ProviderExecutes(s) ==
    /\ provider[s] = "accepted"
    /\ provider' = [provider EXCEPT ![s] = "executed"]
    /\ UNCHANGED <<sent, saleVars, jobVars, workerVars, checkerVars, faults>>

ProviderRejects(s) ==
    /\ provider[s] \in {"inflight", "accepted"}
    /\ provider' = [provider EXCEPT ![s] = "rejected"]
    /\ UNCHANGED <<sent, saleVars, jobVars, workerVars, checkerVars, faults>>

ProviderStep(s) == ProviderAccepts(s) \/ ProviderExecutes(s) \/ ProviderRejects(s)

-----------------------------------------------------------------------------
\* Time and faults.

\* Ten minutes after it was started: the task's hard limit (300 s) has ended
\* its worker before.
RunningGoesStale(s) ==
    /\ job[s] = "running"
    /\ ~stale[s]
    /\ \A w \in Worker : wsale[w] = s => wpc[w] = "claim"
    /\ stale' = [stale EXCEPT ![s] = TRUE]
    /\ UNCHANGED <<job, notSent, messages, saleVars, workerVars, checkerVars>>
    /\ UNCHANGED <<providerVars, faults>>

WorkerCrashes(w) ==
    /\ faults < MaxFaults
    /\ wpc[w] # "idle"
    /\ faults' = faults + 1
    /\ Leave(w)
    /\ UNCHANGED <<saleVars, jobVars, checkerVars, providerVars>>

CheckerCrashes(c) ==
    /\ faults < MaxFaults
    /\ cpc[c] # "idle"
    /\ faults' = faults + 1
    /\ LeaveCheck(c)
    /\ UNCHANGED <<saleVars, jobVars, workerVars, providerVars>>

MessageLost(s) ==
    /\ faults < MaxFaults
    /\ messages[s] > 0
    /\ faults' = faults + 1
    /\ messages' = [messages EXCEPT ![s] = @ - 1]
    /\ UNCHANGED <<job, stale, notSent, saleVars, workerVars, checkerVars>>
    /\ UNCHANGED providerVars

Next ==
    \/ \E s \in Sale :
         \/ CreateChargedSale(s)
         \/ ManualSuccess(s)
         \/ ManualFailure(s)
         \/ ManagementCancels(s)
         \/ ManagementDeletes(s)
         \/ ProviderStep(s)
         \/ RunningGoesStale(s)
         \/ MessageLost(s)
    \/ \E w \in Worker :
         \/ WorkerStep(w)
         \/ RecordChargeFails(w)
         \/ WorkerCrashes(w)
    \/ \E c \in Checker :
         \/ \E s \in Sale : LoadSale(c, s)
         \/ CheckerStep(c)
         \/ CheckerCrashes(c)

Spec == Init /\ [][Next]_vars

\* Workers and running checks go on; the provider decides what it accepted,
\* and, asked again and again, gives a definite answer in the end.
\* The beat runs every two minutes, oldest open sale first, and has time for all
\* of them (few enough are open, or their checks are quick), so a sale that stays
\* open is loaded again and again (strong fairness: the checkers are shared).  A
\* claimed job either ends or grows stale.
Fairness ==
    /\ \A w \in Worker : WF_vars(WorkerStep(w))
    /\ \A c \in Checker :
         /\ WF_vars(CheckerStep(c))
         /\ SF_vars(CheckCharge(c) /\ cout'[c].result # "unverified")
    /\ \A s \in Sale :
         /\ SF_vars(\E c \in Checker : LoadSale(c, s))
         /\ SF_vars(\E w \in Worker : StartTask(w, s))
         /\ WF_vars(ProviderStep(s))
         /\ WF_vars(RunningGoesStale(s))

FairSpec == Spec /\ Fairness

-----------------------------------------------------------------------------
\* The promise about the money, see ChargeMoney.

\* Where the supplier's money for the sale is.
Money(s) ==
    IF sale[s] = "none" THEN "unused"
    ELSE IF sale[s] = "live" THEN "held"
    ELSE IF undoneBy[s] = "outcome" THEN "returned"
    ELSE "refunded"

Request(s) ==
    IF provider[s] = "none" THEN "none"
    ELSE IF provider[s] = "rejected" THEN "void" ELSE "out"

Promise == INSTANCE ChargeMoney WITH
    money <- [s \in Sale |-> Money(s)],
    request <- [s \in Sale |-> Request(s)]

\* The steps of the worker, the checks and management keep the promise.
KeepsPromise == Promise!Spec

-----------------------------------------------------------------------------
\* Properties.

\* A charge is sent at most once, whatever is delivered twice, redelivered
\* after a crash, retried after a login or re-queued by the beat.
AtMostOneCharge == \A s \in Sale : sent[s] <= 1

\* A sale whose charge may have gone through is never undone by an outcome: the
\* worker's, a check's or a manual one.  Management can still cancel a settled
\* sale, and delete one after cancelling the charge at the provider.
NoReversalOfPossibleCharge ==
    \A s \in Sale : undoneBy[s] = "outcome" => ~MayBeCharged(s)

\* The supplier ledger agrees with the sale: one deduction while it exists, one
\* reversal when it is cancelled by any number of racing paths, nothing left
\* of it when it is deleted.
LedgerMatchesSale ==
    \A s \in Sale :
        /\ deducted[s] <=> sale[s] \in {"live", "cancelled"}
        /\ reversals[s] = IF sale[s] = "cancelled" THEN 1 ELSE 0

\* From the claim to the recorded outcome nobody else settles, cancels, deletes
\* or re-claims the sale a worker is charging, although it holds no lock then.
Charging(w) == wpc[w] \in {"attempt", "sent", "apply"}
ChargingSaleIsProtected ==
    \A w \in Worker : Charging(w) =>
        /\ sale[wsale[w]] = "live"
        /\ status[wsale[w]] = "processing"
        /\ job[wsale[w]] = "running"
        /\ \A v \in Worker : Charging(v) /\ wsale[v] = wsale[w] => v = w

\* A sale is not cancelled while its charge is open (the claim, apply_outcome
\* and the management pages all rely on it).
CancelledIsSettled ==
    \A s \in Sale : sale[s] = "cancelled" => status[s] \notin OpenStatuses

\* A success reported for a sale that a failed outcome has reversed is never
\* lost: the sale carries charge_conflict, in whatever order the two arrive.
SuccessAfterReversalIsFlagged ==
    \A s \in Sale :
        told[s] /\ sale[s] = "cancelled" /\ status[s] = "failed" => conflict[s]

\* A settled charge keeps its status: a late or second answer never reopens it.
SettledIsFinal ==
    [][\A s \in Sale :
         status[s] \in {"success", "failed"} /\ sale'[s] # "deleted"
             => status'[s] = status[s]]_vars

\* With a provider that can be asked, every charge is settled in the end.
ChargeIsSettled ==
    \A s \in Sale : ChargeIsOpen(s) ~> ~ChargeIsOpen(s)

\* "Adapters raise this only once the charge request may have left."
TransientMeansSent ==
    \A w \in Worker : maySent[w] => sent[wsale[w]] > 0

=============================================================================
