----------------------------- MODULE SmsGateway -----------------------------
(***************************************************************************)
(* The SMS gateway: a subscriber's SMS is delivered by a phone (perhaps    *)
(* more than once), answered at once or through a refresh job of its own,  *)
(* and the one reply waits in the outbox until a polling phone claims,     *)
(* sends and reports it.                                                   *)
(*                                                                         *)
(* Sources: sms_gateway/services/processing.py and outbox.py,              *)
(* sms_gateway/views/device_api.py, phone_refresh/tasks.py,                *)
(* phone_refresh/services/refresh_jobs.py, providers/jobs.py and the app   *)
(* android_gateway.                                                        *)
(*                                                                         *)
(* A step is one statement or transaction on the database, one broker call *)
(* or one event on a phone; requests, workers and beats may stop between   *)
(* any two of their steps.                                                 *)
(***************************************************************************)
EXTENDS Integers, FiniteSets, FiniteSetsExt

CONSTANTS
    Sms,          \* SMS received, each with its device_msg_id
    Copies,       \* deliveries of one SMS by the phone's app
    Device,       \* registered phones
    MaxAttempts,  \* OutboundSms.max_attempts
    PollLimit,    \* replies a poll may claim
    DailyLimit,   \* daily_send_limit of a device, 0 for none
    PauseAfter,   \* auto_pause_threshold, 0 for never
    MaxFaults,    \* bound: crashes, losses and early expiries
    MaxResends    \* bound: replies that management queues again

ASSUME AttemptsAssumption == MaxAttempts \in Nat \ {0} /\ PollLimit \in Nat \ {0}
ASSUME LimitsAssumption ==
    /\ DailyLimit \in Nat /\ PauseAfter \in Nat
    /\ MaxFaults \in Nat /\ MaxResends \in Nat

Request == Sms \X Copies

VARIABLES
    inbound,    \* InboundSms.state of the SMS, "none" before its row exists
    rows,       \* OutboundSms rows created for the SMS
    answer,     \* what the reply says
    out,        \* OutboundSms.state of the reply
    attempts,   \* OutboundSms.attempts
    late,       \* claimed_at of the reply is older than the claim timeout
    claims,     \* history: how often the reply was claimed since it was last resent
    overtaken,  \* history: was a report of it half applied when it was last resent?
    resends,    \* counts up to MaxResends
    request,    \* next step of a request of sms_inbound
    job,        \* ProviderJob.status of the SMS's refresh job
    queued,     \* is its run_refresh_job message in the broker?
    worker,     \* the worker that took the message: what it does, or has to tell
    reaper,     \* has reap_stuck_jobs yet to tell the SMS?
    phone,      \* <<d, m>>: phone d is sending the reply to m
    reports,    \* delivery reports on their way or half applied
    sentToday,  \* SmsGatewayDevice.sent_today
    failures,   \* consecutive_failures, counted up to PauseAfter
    paused,     \* auto_paused_at is set
    faults      \* counts up to MaxFaults

smsVars == <<inbound, rows, answer, out>>
claimVars == <<attempts, late, claims, overtaken, resends>>
jobVars == <<job, queued, worker, reaper>>
deviceVars == <<phone, reports, sentToday, failures, paused>>
vars == <<smsVars, claimVars, request, jobVars, deviceVars, faults>>

Finished == {"done", "failed"}
Report == [from: Device, sms: Sms, ok: BOOLEAN, read: Int]
NotRead == -1

TypeOK ==
    /\ inbound \in [Sms -> {"none", "received", "refreshing", "processed", "ignored"}]
    /\ rows \in [Sms -> Nat]
    /\ answer \in [Sms -> {"none", "fixed", "immediate", "result", "error"}]
    /\ out \in [Sms -> {"none", "queued", "claimed", "sent", "dead"}]
    /\ attempts \in [Sms -> Nat]
    /\ late \in [Sms -> BOOLEAN]
    /\ claims \in [Sms -> Nat]
    /\ overtaken \in [Sms -> BOOLEAN]
    /\ resends \in 0..MaxResends
    /\ request \in [Request -> {"new", "create", "route", "reply", "submit", "enqueue",
                                "unsent", "tell", "done"}]
    /\ job \in [Sms -> {"none", "queued", "running"} \cup Finished]
    /\ queued \in [Sms -> BOOLEAN]
    /\ worker \in [Sms -> {"idle", "run"} \cup Finished]
    /\ reaper \in [Sms -> BOOLEAN]
    /\ phone \subseteq Device \X Sms
    /\ reports \subseteq Report
    /\ sentToday \in [Device -> Nat]
    /\ failures \in [Device -> 0..PauseAfter]
    /\ paused \in [Device -> BOOLEAN]
    /\ faults \in 0..MaxFaults

Init ==
    /\ inbound = [m \in Sms |-> "none"]
    /\ rows = [m \in Sms |-> 0]
    /\ answer = [m \in Sms |-> "none"]
    /\ out = [m \in Sms |-> "none"]
    /\ attempts = [m \in Sms |-> 0]
    /\ late = [m \in Sms |-> FALSE]
    /\ claims = [m \in Sms |-> 0]
    /\ overtaken = [m \in Sms |-> FALSE]
    /\ resends = 0
    /\ request = [r \in Request |-> "new"]
    /\ job = [m \in Sms |-> "none"]
    /\ queued = [m \in Sms |-> FALSE]
    /\ worker = [m \in Sms |-> "idle"]
    /\ reaper = [m \in Sms |-> FALSE]
    /\ phone = {}
    /\ reports = {}
    /\ sentToday = [d \in Device |-> 0]
    /\ failures = [d \in Device |-> 0]
    /\ paused = [d \in Device |-> FALSE]
    /\ faults = 0

Fault ==
    /\ faults < MaxFaults
    /\ faults' = faults + 1

-----------------------------------------------------------------------------
\* The end of an inbound SMS.

\* _queue_reply.  The reply policies may leave the SMS without one ("none").
QueueReply(m, text) ==
    IF text = "none"
    THEN UNCHANGED <<rows, answer, out>>
    ELSE /\ rows' = [rows EXCEPT ![m] = @ + 1]
         /\ answer' = [answer EXCEPT ![m] = text]
         /\ out' = [out EXCEPT ![m] = "queued"]

\* Mutant of CompleteInbound: the state is not tested again.
CompleteAnyInbound(m, text) ==
    /\ inbound' = [inbound EXCEPT ![m] = "processed"]
    /\ QueueReply(m, text)

\* complete_inbound: the update from "refreshing" to "processed" admits one caller.
CompleteInbound(m, text) ==
    IF inbound[m] = "refreshing"
    THEN /\ inbound' = [inbound EXCEPT ![m] = "processed"]
         /\ QueueReply(m, text)
    ELSE UNCHANGED smsVars

\* jobs._finish, of mark_done and mark_failed.
FinishJob(m, result) ==
    job' = [job EXCEPT ![m] = IF @ \in Finished THEN @ ELSE result]

-----------------------------------------------------------------------------
\* A request of sms_inbound: process_inbound and submit_refresh.

Goto(r, step) == request' = [request EXCEPT ![r] = step]

\* The duplicate guard reads the row.
Arrive(r) ==
    /\ request[r] = "new"
    /\ Goto(r, IF inbound[r[1]] = "none" THEN "create" ELSE "done")
    /\ UNCHANGED <<smsVars, claimVars, jobVars, deviceVars, faults>>

\* The insert; the unique constraint refuses a second row of one device_msg_id.
Store(r) ==
    LET m == r[1] IN
    /\ request[r] = "create"
    /\ \/ /\ inbound[m] = "none"
          /\ inbound' = [inbound EXCEPT ![m] = "received"]
          /\ Goto(r, "route")
       \/ /\ inbound[m] # "none"
          /\ Goto(r, "done")
          /\ UNCHANGED inbound
    /\ UNCHANGED <<rows, answer, out, claimVars, jobVars, deviceVars, faults>>

\* finish: blocked, rate limited, a test, service off, or no number in the text.
FinishAtOnce(r) ==
    /\ request[r] = "route"
    /\ inbound' = [inbound EXCEPT ![r[1]] = "ignored"]
    /\ Goto(r, "reply")
    /\ UNCHANGED <<rows, answer, out, claimVars, jobVars, deviceVars, faults>>

FixedReply(r) ==
    /\ request[r] = "reply"
    /\ \E text \in {"fixed", "none"} : QueueReply(r[1], text)
    /\ Goto(r, "done")
    /\ UNCHANGED <<inbound, claimVars, jobVars, deviceVars, faults>>

\* _refresh_async marks the SMS before it submits the refresh.
MarkRefreshing(r) ==
    /\ request[r] = "route"
    /\ inbound' = [inbound EXCEPT ![r[1]] = "refreshing"]
    /\ Goto(r, "submit")
    /\ UNCHANGED <<rows, answer, out, claimVars, jobVars, deviceVars, faults>>

\* precheck has the answer (cool-down, refusal), or the submit raises.
AnswerAtOnce(r) ==
    /\ request[r] = "submit"
    /\ \E text \in {"immediate", "error", "none"} : CompleteInbound(r[1], text)
    /\ Goto(r, "done")
    /\ UNCHANGED <<claimVars, jobVars, deviceVars, faults>>

\* A job that has somebody to notify is never shared.
CreateJob(r) ==
    /\ request[r] = "submit"
    /\ job' = [job EXCEPT ![r[1]] = "queued"]
    /\ Goto(r, "enqueue")
    /\ UNCHANGED <<smsVars, claimVars, queued, worker, reaper, deviceVars, faults>>

Enqueue(r) ==
    /\ request[r] = "enqueue"
    /\ queued' = [queued EXCEPT ![r[1]] = TRUE]
    /\ Goto(r, "done")
    /\ UNCHANGED <<smsVars, claimVars, job, worker, reaper, deviceVars, faults>>

\* The broker call raises, whether or not the broker has the message.
EnqueueFails(r) ==
    /\ request[r] = "enqueue"
    /\ Fault
    /\ \E got \in BOOLEAN : queued' = [queued EXCEPT ![r[1]] = got]
    /\ Goto(r, "unsent")
    /\ UNCHANGED <<smsVars, claimVars, job, worker, reaper, deviceVars>>

\* Whoever finished the job, the busy answer follows.
FailUnsent(r) ==
    /\ request[r] = "unsent"
    /\ FinishJob(r[1], "failed")
    /\ Goto(r, "tell")
    /\ UNCHANGED <<smsVars, claimVars, queued, worker, reaper, deviceVars, faults>>

\* By the hook, and once more with the ticket's payload, to no effect.
TellBusy(r) ==
    /\ request[r] = "tell"
    /\ \E text \in {"error", "none"} : CompleteInbound(r[1], text)
    /\ Goto(r, "done")
    /\ UNCHANGED <<claimVars, jobVars, deviceVars, faults>>

RequestDies(r) ==
    /\ request[r] \notin {"new", "done"}
    /\ Fault
    /\ Goto(r, "done")
    /\ UNCHANGED <<smsVars, claimVars, jobVars, deviceVars>>

RequestGoesOn(r) ==
    \/ Store(r)
    \/ FinishAtOnce(r)
    \/ FixedReply(r)
    \/ MarkRefreshing(r)
    \/ AnswerAtOnce(r)
    \/ CreateJob(r)
    \/ Enqueue(r)
    \/ FailUnsent(r)
    \/ TellBusy(r)

RequestStep(r) == Arrive(r) \/ RequestGoesOn(r) \/ EnqueueFails(r) \/ RequestDies(r)

-----------------------------------------------------------------------------
\* The refresh job: run_refresh_job and the two beats.

\* The message is taken; mark_running decides whether there is work.
TakeJob(m) ==
    /\ queued[m]
    /\ queued' = [queued EXCEPT ![m] = FALSE]
    /\ \/ /\ job[m] = "queued"
          /\ job' = [job EXCEPT ![m] = "running"]
          /\ worker' = [worker EXCEPT ![m] = "run"]
       \/ /\ job[m] # "queued"
          /\ UNCHANGED <<job, worker>>
    /\ UNCHANGED <<smsVars, claimVars, request, reaper, deviceVars, faults>>

\* Mutant of RunEnds: the hook runs whoever finished the job.
RunEndsAndTells(m) ==
    /\ worker[m] = "run"
    /\ \E result \in Finished :
        /\ FinishJob(m, result)
        /\ worker' = [worker EXCEPT ![m] = result]
    /\ UNCHANGED <<smsVars, claimVars, request, queued, reaper, deviceVars, faults>>

\* The provider call is over.  A result that comes after another is dropped.
RunEnds(m) ==
    /\ worker[m] = "run"
    /\ \E result \in Finished :
        /\ FinishJob(m, result)
        /\ worker' = [worker EXCEPT ![m] = IF job[m] \in Finished THEN "idle" ELSE result]
    /\ UNCHANGED <<smsVars, claimVars, request, queued, reaper, deviceVars, faults>>

\* _safe_notify.  The worker tells what it found itself, not what is stored.
WorkerNotifies(m) ==
    /\ worker[m] \in Finished
    /\ \E text \in {IF worker[m] = "done" THEN "result" ELSE "error", "none"} :
           CompleteInbound(m, text)
    /\ worker' = [worker EXCEPT ![m] = "idle"]
    /\ UNCHANGED <<claimVars, request, job, queued, reaper, deviceVars, faults>>

\* Also an exception in the hook, which is only logged.
WorkerDies(m) ==
    /\ worker[m] # "idle"
    /\ Fault
    /\ worker' = [worker EXCEPT ![m] = "idle"]
    /\ UNCHANGED <<smsVars, claimVars, request, job, queued, reaper, deviceVars>>

MessageLost(m) ==
    /\ queued[m]
    /\ Fault
    /\ queued' = [queued EXCEPT ![m] = FALSE]
    /\ UNCHANGED <<smsVars, claimVars, request, job, worker, reaper, deviceVars>>

\* reap_stuck_jobs, of a job that is old enough.  A task is killed before that age,
\* which the code does not rely on.
Reap(m) ==
    /\ job[m] \in {"queued", "running"}
    /\ job' = [job EXCEPT ![m] = "failed"]
    /\ reaper' = [reaper EXCEPT ![m] = TRUE]
    /\ UNCHANGED <<smsVars, claimVars, request, queued, worker, deviceVars, faults>>

ReaperNotifies(m) ==
    /\ reaper[m]
    /\ \E text \in {"error", "none"} : CompleteInbound(m, text)
    /\ reaper' = [reaper EXCEPT ![m] = FALSE]
    /\ UNCHANGED <<claimVars, request, job, queued, worker, deviceVars, faults>>

ReaperDies(m) ==
    /\ reaper[m]
    /\ Fault
    /\ reaper' = [reaper EXCEPT ![m] = FALSE]
    /\ UNCHANGED <<smsVars, claimVars, request, job, queued, worker, deviceVars>>

\* Mutant of Sweep: it trusts the reaper with the SMS that have no failed job.
SweepFailed(m) ==
    /\ inbound[m] = "refreshing"
    /\ job[m] = "failed"
    /\ \E text \in {"error", "none"} : CompleteInbound(m, text)
    /\ UNCHANGED <<claimVars, request, jobVars, deviceVars, faults>>

\* sweep_stuck_inbound, of an SMS that is old enough, whatever its job does.
Sweep(m) ==
    /\ inbound[m] = "refreshing"
    /\ \E text \in {"error", "none"} : CompleteInbound(m, text)
    /\ UNCHANGED <<claimVars, request, jobVars, deviceVars, faults>>

JobGoesOn(m) == TakeJob(m) \/ RunEnds(m) \/ WorkerNotifies(m) \/ ReaperNotifies(m)

JobStep(m) ==
    \/ JobGoesOn(m)
    \/ Reap(m)
    \/ Sweep(m)
    \/ WorkerDies(m)
    \/ ReaperDies(m)
    \/ MessageLost(m)

-----------------------------------------------------------------------------
\* The outbox.

Remaining(d) == IF DailyLimit = 0 THEN PollLimit ELSE Max({0, DailyLimit - sentToday[d]})

\* Mutant of Unclaimed: overdue claims are not returned to the queue.
StillQueued(m) == out[m] = "queued"

\* A reply a phone may claim, once _reclaim_expired has run.
Unclaimed(m) == out[m] = "queued" \/ late[m]

\* claim_for_device: overdue claims are returned to the queue, then as many
\* replies as the device may have are claimed, in the order of the queue (any
\* order here).  The response may be lost.
Claim(d) ==
    LET free  == {m \in Sms : Unclaimed(m)}
        limit == Min({PollLimit, Remaining(d), Cardinality(free)})
    IN
    /\ ~paused[d]
    /\ limit > 0
    /\ \E mine \in kSubset(limit, free) :
        /\ out' = [m \in Sms |-> CASE m \in mine -> "claimed"
                                   [] m \in free \ mine -> "queued"
                                   [] OTHER -> out[m]]
        /\ attempts' = [m \in Sms |-> attempts[m] + IF m \in mine THEN 1 ELSE 0]
        /\ claims' = [m \in Sms |-> claims[m] + IF m \in mine THEN 1 ELSE 0]
        /\ late' = [m \in Sms |-> FALSE]
        /\ \/ phone' = phone \cup {<<d, m>> : m \in mine} /\ UNCHANGED faults
           \/ Fault /\ UNCHANGED phone
    /\ UNCHANGED <<inbound, rows, answer, overtaken, resends, request, jobVars, reports,
                   sentToday, failures, paused>>

\* No phone is at work on the reply and no report about it is on its way.
Forgotten(m) ==
    /\ \A d \in Device : <<d, m>> \notin phone
    /\ \A rep \in reports : rep.sms # m

\* The claim timeout passes, while the phone is slow or after it has given up.
ClaimExpires(m) ==
    /\ out[m] = "claimed" /\ ~late[m]
    /\ late' = [late EXCEPT ![m] = TRUE]
    /\ \/ Forgotten(m) /\ UNCHANGED faults
       \/ ~Forgotten(m) /\ Fault
    /\ UNCHANGED <<smsVars, attempts, claims, overtaken, resends, request, jobVars, deviceVars>>

\* The phone learns whether its SMS went out and reports it.
PhoneReports(d, m) ==
    /\ <<d, m>> \in phone
    /\ phone' = phone \ {<<d, m>>}
    /\ \E ok \in BOOLEAN :
           reports' = reports \cup {[from |-> d, sms |-> m, ok |-> ok, read |-> NotRead]}
    /\ UNCHANGED <<smsVars, claimVars, request, jobVars, sentToday, failures, paused, faults>>

PhoneDies(d, m) ==
    /\ <<d, m>> \in phone
    /\ Fault
    /\ phone' = phone \ {<<d, m>>}
    /\ UNCHANGED <<smsVars, claimVars, request, jobVars, reports, sentToday, failures, paused>>

\* A report that fails on its way is only logged by the app.
ReportLost(rep) ==
    /\ rep.read = NotRead
    /\ Fault
    /\ reports' = reports \ {rep}
    /\ UNCHANGED <<smsVars, claimVars, request, jobVars, phone, sentToday, failures, paused>>

\* mark_delivery, "sent": any state but "sent" becomes "sent", and the device is
\* taken for healthy.
ApplySent(rep) ==
    LET m == rep.sms
        d == rep.from IN
    /\ rep.ok
    /\ out' = [out EXCEPT ![m] = "sent"]
    /\ late' = [late EXCEPT ![m] = FALSE]
    /\ sentToday' = [sentToday EXCEPT ![d] = @ + IF out[m] = "sent" THEN 0 ELSE 1]
    /\ failures' = [failures EXCEPT ![d] = 0]
    /\ paused' = [paused EXCEPT ![d] = FALSE]
    /\ reports' = reports \ {rep}
    /\ UNCHANGED <<inbound, rows, answer, attempts, claims, overtaken, resends, request, jobVars,
                   phone, faults>>

\* mark_delivery, "failed": the row is read without a lock ...
ReadFailed(rep) ==
    /\ ~rep.ok /\ rep.read = NotRead
    /\ reports' = (reports \ {rep}) \cup {[rep EXCEPT !.read = attempts[rep.sms]]}
    /\ UNCHANGED <<smsVars, claimVars, request, jobVars, phone, sentToday, failures,
                   paused, faults>>

GivesUp(tries) == tries >= MaxAttempts

AfterFailure(tries) == IF GivesUp(tries) THEN "dead" ELSE "queued"

\* ... and written whatever has become of it.
ApplyFailed(rep) ==
    LET m == rep.sms
        d == rep.from
        n == failures[d] + 1 IN
    /\ ~rep.ok /\ rep.read # NotRead
    /\ out' = [out EXCEPT ![m] = AfterFailure(rep.read)]
    /\ late' = [late EXCEPT ![m] = FALSE]
    /\ failures' = [failures EXCEPT ![d] = Min({n, PauseAfter})]
    /\ paused' = [paused EXCEPT ![d] = @ \/ (PauseAfter > 0 /\ n >= PauseAfter)]
    /\ reports' = reports \ {rep}
    /\ UNCHANGED <<inbound, rows, answer, attempts, claims, overtaken, resends, request, jobVars,
                   phone, sentToday, faults>>

\* roll_daily_counter, on the first request of a day.
NewDay(d) ==
    /\ sentToday[d] > 0
    /\ sentToday' = [sentToday EXCEPT ![d] = 0]
    /\ UNCHANGED <<smsVars, claimVars, request, jobVars, phone, reports, failures, paused,
                   faults>>

\* device_reactivate
Reactivate(d) ==
    /\ paused[d]
    /\ paused' = [paused EXCEPT ![d] = FALSE]
    /\ failures' = [failures EXCEPT ![d] = 0]
    /\ UNCHANGED <<smsVars, claimVars, request, jobVars, phone, reports, sentToday, faults>>

\* Has a report read the reply and not written it yet?
HalfApplied(m) == \E rep \in reports : rep.sms = m /\ rep.read # NotRead

Resends(m) ==
    /\ out[m] # "none"
    /\ resends < MaxResends /\ resends' = resends + 1
    /\ out' = [out EXCEPT ![m] = "queued"]
    /\ late' = [late EXCEPT ![m] = FALSE]
    /\ claims' = [claims EXCEPT ![m] = 0]
    /\ overtaken' = [overtaken EXCEPT ![m] = HalfApplied(m)]
    /\ UNCHANGED <<inbound, rows, answer, request, jobVars, deviceVars, faults>>

\* Mutant of Resend: the attempts are not counted anew.
ResendCounted(m) == Resends(m) /\ UNCHANGED attempts

\* outbound_resend: offered for the dead letters, but any reply is queued again,
\* also one that a phone is sending, has sent or is reporting.
Resend(m) == Resends(m) /\ attempts' = [attempts EXCEPT ![m] = 0]

ReportStep(rep) == ApplySent(rep) \/ ReadFailed(rep) \/ ApplyFailed(rep)

DeviceStep(d) ==
    \/ Claim(d)
    \/ \E m \in Sms : PhoneReports(d, m) \/ PhoneDies(d, m)
    \/ NewDay(d)
    \/ Reactivate(d)

OutboxStep ==
    \/ \E d \in Device : DeviceStep(d)
    \/ \E m \in Sms : ClaimExpires(m) \/ Resend(m)
    \/ \E rep \in reports : ReportStep(rep) \/ ReportLost(rep)

Next ==
    \/ \E r \in Request : RequestStep(r)
    \/ \E m \in Sms : JobStep(m)
    \/ OutboxStep

Spec == Init /\ [][Next]_vars

\* Requests and tasks go on, the beats come round, an unpaused phone polls, what
\* it sends comes to an end, reports are applied, timeouts and days pass.
Fairness ==
    /\ \A r \in Request : WF_vars(RequestGoesOn(r))
    /\ \A m \in Sms : WF_vars(JobGoesOn(m)) /\ WF_vars(Reap(m)) /\ WF_vars(Sweep(m))
    /\ WF_vars(\E d \in Device : Claim(d))
    /\ \A d \in Device, m \in Sms : WF_vars(PhoneReports(d, m))
    /\ \A m \in Sms : WF_vars(Forgotten(m) /\ ClaimExpires(m))
    /\ WF_vars(\E rep \in reports : ReportStep(rep))
    /\ \A d \in Device : WF_vars(NewDay(d))

FairSpec == Spec /\ Fairness

-----------------------------------------------------------------------------
\* Properties.

\* "Create the single reply": deliveries repeated by the phone, the worker, the
\* reaper, the sweep and a failed enqueue together never queue a second one.
AtMostOneReply == \A m \in Sms : rows[m] <= 1

\* A subscriber is told a successful result only if that is how the job ended,
\* even when a failed enqueue or the reaper has failed the job meanwhile.
ResultIsTheJobs == \A m \in Sms : answer[m] = "result" => job[m] = "done"

\* A finished job stays as it is: pollers and the subscriber see one result.
FinishedForGood == [][\A m \in Sms : job[m] \in Finished => job'[m] = job[m]]_vars

\* A reply that management has queued again is given up only after it was claimed
\* as often as it may be since, whatever phones report of their earlier claims;
\* but for the report that had read the reply before it was resent and writes it
\* after.
DeadLetterWasTried ==
    \A m \in Sms : out[m] = "dead" /\ ~overtaken[m] => claims[m] >= MaxAttempts

\* An SMS that waits for its refresh is answered, whoever dies: the worker, the
\* reaper, or the request that submitted it.
RefreshingIsFinished ==
    \A m \in Sms : (inbound[m] = "refreshing") ~> (inbound[m] = "processed")

\* A queued reply is sent or given up, unless every phone is paused.
ReplyGoesOut ==
    \A m \in Sms : (out[m] = "queued") ~>
        (out[m] \in {"sent", "dead"} \/ \A d \in Device : paused[d])

\* "Remaining sends today": a device has a daily send cap.
DailyCapHolds == \A d \in Device : DailyLimit > 0 => sentToday[d] <= DailyLimit
=============================================================================
