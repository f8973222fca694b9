----------------------------- MODULE RefreshJobs -----------------------------
(***************************************************************************)
(* The refresh of one number: callers submit it, share a job that is under *)
(* way, poll for its answer or are told; workers and the reaper finish it. *)
(*                                                                         *)
(* Sources: phone_refresh/services/refresh_jobs.py, refresh_service.py,    *)
(* phone_refresh/tasks.py and providers/jobs.py.                           *)
(*                                                                         *)
(* Every read and every write of the database is an action of its own.     *)
(* Time is what it decides: a job is old when its callers need not wait    *)
(* any more, stuck when the reaper may fail it, and the number is cooling  *)
(* after a successful refresh.                                             *)
(***************************************************************************)
EXTENDS Naturals, FiniteSets

CONSTANTS
    Web,        \* callers of the public page
    Staff,      \* employees, who give their user id
    Api,        \* API tokens
    Sms,        \* inbound messages, which are told the answer
    Admin,      \* internal tests
    Nobody,
    MaxJobs,    \* bound: jobs ever created
    MaxFaults   \* bound: workers, requests and messages that die, locks that are not had or not kept

Caller == Web \cup Staff \cup Api \cup Sms \cup Admin
Job == 1..MaxJobs
NoJob == 0

ASSUME RefreshAssumption ==
    /\ MaxJobs \in Nat /\ MaxFaults \in Nat /\ Nobody \notin Caller
    /\ Staff \cap (Web \cup Api \cup Sms \cup Admin) = {} /\ Sms \cap (Web \cup Api \cup Admin) = {}
    /\ Api \cap (Web \cup Admin) = {} /\ Web \cap Admin = {}

VARIABLES
    at,         \* where each caller is
    ticket,     \* the job each caller was given
    answer,     \* what each caller was told
    seen,       \* the viewers an employee who joins has read
    lock,       \* who holds the Redis lock of the number
    unlocked,   \* has a submit been without it between its search and its write?
    job,        \* ProviderJob, with its message and its worker
    cooling,    \* is the last successful refresh within the cooldown?
    faults

vars == <<at, ticket, answer, seen, lock, unlocked, job, cooling, faults>>

Replies == {"refreshed", "other"}
Results == Replies \cup {"error", "busy"}
InFlight == {"queued", "running"}
Finished == {"done", "failed"}

FreeJob ==
    [status |-> "none", owner |-> Nobody, viewers |-> {}, old |-> FALSE, stuck |-> FALSE,
     result |-> "none", message |-> FALSE, worker |-> "none", reply |-> "none",
     tell |-> FALSE, calls |-> 0]

JobRow ==
    [status: InFlight \cup Finished \cup {"none"}, owner: Caller \cup {Nobody}, viewers: SUBSET Staff,
     old: BOOLEAN, stuck: BOOLEAN, result: Results \cup {"none"}, message: BOOLEAN,
     worker: {"none", "calling", "answered"}, reply: Replies \cup {"none", "error"},
     tell: BOOLEAN, calls: 0..1]

TypeOK ==
    /\ at \in [Caller -> {"idle", "checked", "locked", "granting", "creating", "created", "failing",
                          "waiting", "answered", "gone"}]
    /\ ticket \in [Caller -> Job \cup {NoJob}]
    /\ answer \in [Caller -> Results \cup {"none", "processing", "expired"}]
    /\ seen \in [Caller -> SUBSET Staff]
    /\ lock \in Caller \cup {Nobody} /\ unlocked \in BOOLEAN
    /\ job \in [Job -> JobRow]
    /\ cooling \in BOOLEAN
    /\ faults \in 0..MaxFaults

Init ==
    /\ at = [c \in Caller |-> "idle"] /\ ticket = [c \in Caller |-> NoJob]
    /\ answer = [c \in Caller |-> "none"] /\ seen = [c \in Caller |-> {}]
    /\ lock = Nobody /\ unlocked = FALSE /\ job = [j \in Job |-> FreeJob]
    /\ cooling = FALSE /\ faults = 0

Moves(c, from, to) == at[c] = from /\ at' = [at EXCEPT ![c] = to]
Fault == faults < MaxFaults /\ faults' = faults + 1

\* A caller is answered; an inbound message is told once.
Told(c, a) ==
    /\ answer' = [answer EXCEPT ![c] = IF @ = "none" THEN a ELSE @]
    /\ at' = [at EXCEPT ![c] = "answered"]

-----------------------------------------------------------------------------
\* submit_refresh

\* precheck: what the switches, the number and the cooldown decide at once, the
\* caller may ask again; an internal test does not wait for the cooldown.
Precheck(c) ==
    /\ cooling => c \in Admin
    /\ Moves(c, "idle", "checked")
    /\ UNCHANGED <<ticket, answer, seen, lock, unlocked, job, cooling, faults>>

\* Mutant of TakeLock: there is no lock.
TakeNoLock(c) ==
    /\ Moves(c, "checked", "locked")
    /\ UNCHANGED <<ticket, answer, seen, lock, unlocked, job, cooling, faults>>

\* _submit_lock: a submit waits three seconds and then goes on without it.
TakeLock(c) ==
    /\ lock = Nobody /\ lock' = c
    /\ Moves(c, "checked", "locked")
    /\ UNCHANGED <<ticket, answer, seen, unlocked, job, cooling, faults>>

GoOnWithoutLock(c) ==
    /\ Moves(c, "checked", "locked") /\ Fault /\ unlocked' = TRUE
    /\ UNCHANGED <<ticket, answer, seen, lock, job, cooling>>

\* SUBMIT_LOCK_TIMEOUT_SECONDS after it was taken the lock is free, while its
\* holder goes on.
LockExpires(c) ==
    /\ lock = c /\ at[c] \in {"locked", "granting", "creating"}
    /\ lock' = Nobody /\ Fault /\ unlocked' = TRUE
    /\ UNCHANGED <<at, ticket, answer, seen, job, cooling>>

\* A submit gives back the lock when it still has it, and goes on when it has not.
Release(c) == lock' = IF lock = c THEN Nobody ELSE lock

\* Whose job is private to an API token.
Token(c) == IF c \in Api THEN c ELSE Nobody

Plain(c) == c \notin Sms \cup Admin

\* _is_plain_job: only plain submits share a job, and a token's only with its own.
MayShare(c, j) == Plain(c) /\ Plain(job[j].owner) /\ Token(c) = Token(job[j].owner)

\* find_inflight: the jobs under way that are not older than a caller waits.
Joinable(c) == {j \in Job : job[j].status \in InFlight /\ ~job[j].old /\ MayShare(c, j)}

Newest(S) == CHOOSE j \in S : \A k \in S : k <= j

\* Mutant of Join: the employee is added after the lock is given back.
JoinUnlocked(c) ==
    /\ Joinable(c) # {}
    /\ LET j == Newest(Joinable(c)) IN
         /\ ticket' = [ticket EXCEPT ![c] = j]
         /\ seen' = [seen EXCEPT ![c] = IF c \in Staff THEN job[j].viewers ELSE {}]
    /\ Moves(c, "locked", IF c \in Staff THEN "granting" ELSE "waiting") /\ Release(c)
    /\ UNCHANGED <<answer, unlocked, job, cooling, faults>>

\* The newest such job is shared; an employee is added to those who may see it.
Join(c) ==
    /\ Joinable(c) # {}
    /\ LET j == Newest(Joinable(c)) IN
         /\ ticket' = [ticket EXCEPT ![c] = j]
         /\ IF c \in Staff
            THEN /\ Moves(c, "locked", "granting")
                 /\ seen' = [seen EXCEPT ![c] = job[j].viewers]
                 /\ UNCHANGED lock
            ELSE /\ Moves(c, "locked", "waiting") /\ Release(c)
                 /\ UNCHANGED seen
    /\ UNCHANGED <<answer, unlocked, job, cooling, faults>>

\* _grant_refresh_viewer: the payload that was read is written back with the
\* owner and the employee in it.
Grant(c) ==
    /\ job' = [job EXCEPT ![ticket[c]].viewers = seen[c] \cup {c} \cup ({job[ticket[c]].owner} \cap Staff)]
    /\ seen' = [seen EXCEPT ![c] = {}]
    /\ Moves(c, "granting", "waiting") /\ Release(c)
    /\ UNCHANGED <<ticket, answer, unlocked, cooling, faults>>

FindNone(c) ==
    /\ Joinable(c) = {}
    /\ Moves(c, "locked", "creating")
    /\ UNCHANGED <<ticket, answer, seen, lock, unlocked, job, cooling, faults>>

\* create_job: the next row.
Create(c) ==
    /\ \E j \in Job :
         /\ job[j].status = "none" /\ \A k \in 1..(j - 1) : job[k].status # "none"
         /\ job' = [job EXCEPT ![j] = [FreeJob EXCEPT !.status = "queued", !.owner = c]]
         /\ ticket' = [ticket EXCEPT ![c] = j]
    /\ Moves(c, "creating", "created") /\ Release(c)
    /\ UNCHANGED <<answer, seen, unlocked, cooling, faults>>

\* _enqueue: the message goes out ...
Enqueue(c) ==
    /\ job' = [job EXCEPT ![ticket[c]].message = TRUE]
    /\ Moves(c, "created", "waiting")
    /\ UNCHANGED <<ticket, answer, seen, lock, unlocked, cooling, faults>>

\* ... or the broker fails, perhaps after it took the message.
EnqueueRaises(c, arrived) ==
    /\ job' = [job EXCEPT ![ticket[c]].message = arrived]
    /\ Moves(c, "created", "failing") /\ Fault
    /\ UNCHANGED <<ticket, answer, seen, lock, unlocked, cooling>>

\* Mutant of FinishWith: what is finished already is overwritten.
FinishAgain(j, status, result) ==
    [job[j] EXCEPT !.status = status, !.result = result, !.tell = job[j].owner \in Sms,
                   !.old = FALSE, !.stuck = FALSE]

\* _finish: nothing when the job is finished already; whoever finishes a job
\* tells the inbound message that waits for it.  The age of a finished job does
\* not matter any more.
FinishWith(j, status, result) ==
    IF job[j].status \in Finished THEN job[j]
    ELSE [job[j] EXCEPT !.status = status, !.result = result, !.tell = job[j].owner \in Sms,
                        !.old = FALSE, !.stuck = FALSE]

\* The caller is told that the service is busy, whatever became of the job.
EnqueueFailed(c) ==
    /\ at[c] = "failing"
    /\ job' = [job EXCEPT ![ticket[c]] = FinishWith(ticket[c], "failed", "busy")]
    /\ Told(c, "busy")
    /\ UNCHANGED <<ticket, seen, lock, unlocked, cooling, faults>>

\* A request dies; the lock it had expires.
RequestDies(c) ==
    /\ at[c] \in {"locked", "granting", "creating", "created"} /\ Fault
    /\ at' = [at EXCEPT ![c] = "gone"] /\ Release(c)
    /\ seen' = [seen EXCEPT ![c] = {}]
    /\ UNCHANGED <<ticket, answer, unlocked, job, cooling>>

-----------------------------------------------------------------------------
\* run_refresh_job

\* mark_running: the message is taken, and comes again when the broker restores it.
Take(j, again) ==
    /\ job[j].message /\ job[j].status = "queued"
    /\ job' = [job EXCEPT ![j].status = "running", ![j].message = again, ![j].stuck = FALSE,
                          ![j].worker = "calling", ![j].calls = @ + 1]
    /\ UNCHANGED <<at, ticket, answer, seen, lock, unlocked, cooling>>
    /\ IF again THEN Fault ELSE UNCHANGED faults

TakeNothing(j) ==
    /\ job[j].message /\ job[j].status # "queued"
    /\ job' = [job EXCEPT ![j].message = FALSE]
    /\ UNCHANGED <<at, ticket, answer, seen, lock, unlocked, cooling, faults>>

\* complete, complete_failure: the provider answered, and a success is logged.
ProviderAnswers(j, reply) ==
    /\ job[j].worker = "calling"
    /\ job' = [job EXCEPT ![j].worker = "answered", ![j].reply = reply]
    /\ cooling' = (cooling \/ reply = "refreshed")
    /\ UNCHANGED <<at, ticket, answer, seen, lock, unlocked, faults>>

\* mark_done, mark_failed
WorkerFinishes(j) ==
    /\ job[j].worker = "answered"
    /\ job' = [job EXCEPT ![j] = [FinishWith(j, IF job[j].reply = "error" THEN "failed" ELSE "done",
                                             job[j].reply)
                                  EXCEPT !.worker = "none", !.reply = "none"]]
    /\ UNCHANGED <<at, ticket, answer, seen, lock, unlocked, cooling, faults>>

WorkerDies(j) ==
    /\ job[j].worker \in {"calling", "answered"} /\ Fault
    /\ job' = [job EXCEPT ![j].worker = "none", ![j].reply = "none"]
    /\ UNCHANGED <<at, ticket, answer, seen, lock, unlocked, cooling>>

MessageLost(j) ==
    /\ job[j].message /\ Fault
    /\ job' = [job EXCEPT ![j].message = FALSE]
    /\ UNCHANGED <<at, ticket, answer, seen, lock, unlocked, cooling>>

\* reap_stuck_jobs
Reap(j) ==
    /\ job[j].status \in InFlight /\ job[j].stuck
    /\ job' = [job EXCEPT ![j] = FinishWith(j, "failed", "error")]
    /\ UNCHANGED <<at, ticket, answer, seen, lock, unlocked, cooling, faults>>

\* _notify: whoever finished the job tells the inbound message.
Notify(j) ==
    /\ job[j].tell /\ job' = [job EXCEPT ![j].tell = FALSE]
    /\ Told(job[j].owner, job[j].result)
    /\ UNCHANGED <<ticket, seen, lock, unlocked, cooling, faults>>

\* The process that finished the job dies before it tells anyone.
TellLost(j) ==
    /\ job[j].tell /\ Fault
    /\ job' = [job EXCEPT ![j].tell = FALSE]
    /\ UNCHANGED <<at, ticket, answer, seen, lock, unlocked, cooling>>

-----------------------------------------------------------------------------
\* Polling

\* refresh_visible_to, job_payload and token_job_payload: a web page does not
\* see the jobs of employees and tokens, an employee those they did not start or
\* join, a token those of another.
Sees(c, j) ==
    CASE c \in Staff -> job[j].owner = c \/ c \in job[j].viewers
      [] c \in Api -> job[j].owner = c
      [] OTHER -> job[j].owner \notin Staff \cup Api

\* Mutant of Polled: who does not see the job goes on waiting.
PolledInVain(c, j) ==
    CASE Sees(c, j) /\ job[j].status \in Finished -> job[j].result
      [] Sees(c, j) /\ job[j].status \in InFlight /\ job[j].old -> "processing"
      [] OTHER -> "none"

\* _payload_for: the result, or the last word when the caller has waited enough.
\* A caller who does not see the job is told that it has expired.
Polled(c, j) ==
    CASE ~Sees(c, j) -> "expired"
      [] Sees(c, j) /\ job[j].status \in Finished -> job[j].result
      [] Sees(c, j) /\ job[j].status \in InFlight /\ job[j].old -> "processing"
      [] OTHER -> "none"

Poll(c) ==
    /\ at[c] = "waiting" /\ c \notin Sms
    /\ Polled(c, ticket[c]) # "none" /\ Told(c, Polled(c, ticket[c]))
    /\ UNCHANGED <<ticket, seen, lock, unlocked, job, cooling, faults>>

-----------------------------------------------------------------------------
\* Time

\* refresh_wait_seconds after the job was created
GrowsOld(j) ==
    /\ job[j].status \in InFlight /\ ~job[j].old
    /\ job' = [job EXCEPT ![j].old = TRUE]
    /\ UNCHANGED <<at, ticket, answer, seen, lock, unlocked, cooling, faults>>

\* Mutant of GetsStuck: a job that nobody took is never looked at.
GetsStuckRunning(j) ==
    /\ job[j].status = "running" /\ job[j].worker = "none"
    /\ ~job[j].stuck /\ job' = [job EXCEPT ![j].stuck = TRUE]
    /\ UNCHANGED <<at, ticket, answer, seen, lock, unlocked, cooling, faults>>

\* STUCK_JOB_SECONDS after it was queued, or started: longer than a request and
\* a worker may last.
GetsStuck(j) ==
    /\ \/ job[j].status = "queued" /\ at[job[j].owner] \notin {"created", "failing"}
       \/ job[j].status = "running" /\ job[j].worker = "none"
    /\ ~job[j].stuck /\ job' = [job EXCEPT ![j].stuck = TRUE]
    /\ UNCHANGED <<at, ticket, answer, seen, lock, unlocked, cooling, faults>>

CooldownEnds ==
    /\ cooling /\ cooling' = FALSE
    /\ UNCHANGED <<at, ticket, answer, seen, lock, unlocked, job, faults>>

-----------------------------------------------------------------------------

Submit(c) ==
    \/ Precheck(c) \/ TakeLock(c) \/ GoOnWithoutLock(c) \/ LockExpires(c)
    \/ Join(c) \/ Grant(c) \/ FindNone(c) \/ Create(c)
    \/ Enqueue(c) \/ (\E arrived \in BOOLEAN : EnqueueRaises(c, arrived)) \/ EnqueueFailed(c)
    \/ RequestDies(c)

Work(j) ==
    \/ (\E again \in BOOLEAN : Take(j, again)) \/ TakeNothing(j)
    \/ (\E reply \in Replies \cup {"error"} : ProviderAnswers(j, reply))
    \/ WorkerFinishes(j) \/ WorkerDies(j) \/ MessageLost(j)
    \/ Reap(j) \/ Notify(j) \/ TellLost(j)

Next ==
    \/ \E c \in Caller : Submit(c) \/ Poll(c)
    \/ \E j \in Job : Work(j) \/ GrowsOld(j) \/ GetsStuck(j)
    \/ CooldownEnds

Spec == Init /\ [][Next]_vars

\* A worker goes on with the job, or time and the reaper do.
GetsOn(j) ==
    \/ Take(j, FALSE) \/ WorkerFinishes(j) \/ GetsStuck(j) \/ Reap(j)
    \/ \E reply \in Replies \cup {"error"} : ProviderAnswers(j, reply)

GoesOn(c) == Join(c) \/ Grant(c) \/ FindNone(c) \/ Create(c) \/ Enqueue(c) \/ EnqueueFailed(c) \/ Poll(c)

\* The reaper runs every five minutes, a request goes on and a page polls.
Fairness ==
    /\ \A j \in Job : WF_vars(GetsOn(j))
    /\ \A c \in Caller : WF_vars(GoesOn(c))

FairSpec == Spec /\ Fairness

-----------------------------------------------------------------------------
\* Properties.

\* Submits that may share a job do: no two such jobs of one number are under way
\* while their callers wait, however the submits interleave, as long as each of
\* them had the lock and kept it until it had written.
OneJobPerNumber ==
    ~unlocked => \A i, j \in Job :
        i # j /\ job[i].status \in InFlight /\ job[j].status \in InFlight /\ ~job[i].old /\ ~job[j].old
          => ~MayShare(job[i].owner, j)

\* The first result stands: a worker that answers after the reaper, or a failed
\* enqueue after the worker, changes nothing.
FirstResultStands ==
    [][\A j \in Job : job[j].status \in Finished =>
          job'[j].status = job[j].status /\ job'[j].result = job[j].result]_vars

\* Everyone who shares a job is told what its row says, the inbound message too.
AnswerIsTheJobs ==
    \A c \in Caller : answer[c] \in Replies \cup {"error"} =>
        job[ticket[c]].status \in Finished /\ job[ticket[c]].result = answer[c]

\* An employee who joined a job may see it, whoever joins before or after: no
\* list of viewers that was read is written back over a newer one, as long as
\* every submit had the lock and kept it until it had written.
StaffSeesItsJob ==
    ~unlocked => \A c \in Staff : at[c] = "waiting" => Sees(c, ticket[c])

\* The job of a token, of an inbound message and of a test is nobody else's.
PrivateJobIsNotShared ==
    \A c \in Caller : ticket[c] # NoJob /\ job[ticket[c]].owner \in Api \cup Sms \cup Admin
        => job[ticket[c]].owner = c

\* A job whose worker or message is gone is finished all the same.
JobIsFinished == \A j \in Job : job[j].status # "none" ~> job[j].status \in Finished

\* Whoever holds a ticket is told something; an inbound message has sweeps of its
\* own (SmsGateway).
CallerIsAnswered == \A c \in Caller \ Sms : at[c] = "waiting" ~> at[c] = "answered"

-----------------------------------------------------------------------------
\* What the repository says and the code does not do.

\* refresh_jobs: callers "get an immediate answer or a job id to poll with
\* job_payload".
WebSeesItsJob == \A c \in Web : at[c] = "waiting" => Sees(c, ticket[c])

\* SystemSettings.cooldown_seconds: "Per-phone cooldown between successful
\* refreshes".
CooldownIsKept == [][\A j \in Job : job'[j].reply = "refreshed" /\ job[j].reply # "refreshed" => ~cooling]_vars
=============================================================================
