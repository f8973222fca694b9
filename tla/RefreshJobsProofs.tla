--------------------------- MODULE RefreshJobsProofs ---------------------------
(***************************************************************************)
(* Theorems about RefreshJobs, for any callers, any number of jobs and any *)
(* number of faults.                                                       *)
(*                                                                         *)
(* Most steps change the row of one job and perhaps where one caller is:   *)
(* LateStep says when such a step keeps the invariant.  The others are the *)
(* steps of a submit, which the lock of the number is for.                 *)
(***************************************************************************)
EXTENDS RefreshJobs, WellFoundedInduction, TLAPS

\* A caller who has no job of its own and has been told nothing.
Early == {"idle", "checked", "locked", "granting", "creating"}

\* A caller inside the lock.
Holding == {"locked", "granting", "creating"}

CallersInv ==
    \A c \in Caller :
        /\ at[c] \in Early => answer[c] = "none" /\ \A j \in Job : job[j].owner # c
        /\ ticket[c] # NoJob => job[ticket[c]].status # "none"
        /\ at[c] \in {"granting", "created", "failing", "waiting"} => ticket[c] # NoJob
        /\ at[c] \in {"created", "failing"} => job[ticket[c]].owner = c
        /\ answer[c] # "none" => ticket[c] # NoJob
        /\ at[c] = "granting" => c \in Staff

JobsInv ==
    \A j \in Job :
        /\ job[j].status = "none" => job[j] = FreeJob
        /\ job[j].status # "none" => job[j].owner \in Caller /\ ticket[job[j].owner] = j
        /\ job[j].tell => job[j].status \in Finished
        /\ job[j].status = "queued" => job[j].calls = 0

\* As long as no submit was inside without the lock: one caller is inside, finds
\* no job until it creates one, and has read the viewers nobody else changes.
LockInv ==
    ~unlocked => \A c \in Caller :
        /\ at[c] \in Holding => lock = c
        /\ at[c] = "creating" => Joinable(c) = {}
        /\ at[c] = "granting" => seen[c] = job[ticket[c]].viewers

Promises == OneJobPerNumber /\ StaffSeesItsJob /\ AnswerIsTheJobs /\ PrivateJobIsNotShared

Inv == TypeOK /\ CallersInv /\ JobsInv /\ LockInv /\ Promises

-----------------------------------------------------------------------------
\* Rows of jobs.

\* Nobody is no caller, and 0 is no job.
LEMMA Names == Nobody \notin Caller /\ NoJob \notin Job /\ Job \subseteq Nat /\ Sms \subseteq Caller /\ Staff \subseteq Caller
BY RefreshAssumption DEF Job, NoJob, Caller

\* The row of a job that does not exist.
LEMMA FreeJobTyped == FreeJob \in JobRow
BY DEF FreeJob, JobRow, InFlight, Finished, Results, Replies

\* How a row may change while its callers wait: whose it is stays, it does not
\* become young or unfinished again, and a result stands.
RowMoves(r, r2) ==
    /\ r2 \in JobRow /\ r.status # "none" /\ r2.status # "none"
    /\ r2.owner = r.owner /\ r2.viewers = r.viewers
    /\ r2.status \in InFlight => r.status \in InFlight /\ (r.old => r2.old)
    /\ r.status \in Finished => r2.status = r.status /\ r2.result = r.result
    /\ r2.tell => r2.status \in Finished
    /\ r2.status = "queued" => r2.calls = 0

\* A worker that leaves its job disturbs nothing the job has become.
LEMMA WorkerLeaves ==
    ASSUME NEW r, NEW f, RowMoves(r, f)
    PROVE  RowMoves(r, [f EXCEPT !.worker = "none", !.reply = "none"])
<1> DEFINE g == [f EXCEPT !.worker = "none", !.reply = "none"]
<1>1. f \in JobRow
  BY DEF RowMoves
<1>2. g \in JobRow
  BY <1>1 DEF JobRow
<1>3. /\ g.status = f.status /\ g.owner = f.owner /\ g.viewers = f.viewers /\ g.old = f.old
      /\ g.result = f.result /\ g.tell = f.tell /\ g.calls = f.calls
  BY <1>1 DEF JobRow
<1>4. /\ r.status # "none" /\ f.status # "none" /\ f.owner = r.owner /\ f.viewers = r.viewers
      /\ f.status \in InFlight => r.status \in InFlight /\ (r.old => f.old)
      /\ r.status \in Finished => f.status = r.status /\ f.result = r.result
      /\ f.tell => f.status \in Finished
      /\ f.status = "queued" => f.calls = 0
  BY DEF RowMoves
<1> HIDE DEF g
<1>5. /\ g.status # "none" /\ g.owner = r.owner /\ g.viewers = r.viewers
      /\ g.status \in InFlight => r.status \in InFlight /\ (r.old => g.old)
      /\ r.status \in Finished => g.status = r.status /\ g.result = r.result
      /\ g.tell => g.status \in Finished
      /\ g.status = "queued" => g.calls = 0
  BY <1>3, <1>4
<1> QED
  BY <1>2, <1>4, <1>5 DEF RowMoves, g

\* A caller stays where it is, or one that has a job moves on and is told
\* nothing but what the row of its job says.
CallerMoves(c) ==
    \/ at'[c] = at[c] /\ answer'[c] = answer[c]
    \/ /\ at[c] \notin Early /\ at'[c] \in {"waiting", "failing", "answered"} /\ ticket[c] \in Job
       /\ at'[c] \in {"waiting", "failing"} => at[c] = "created"
       /\ \/ answer'[c] = answer[c]
          \/ answer'[c] \in {"processing", "expired", "busy", "none"}
          \/ /\ answer'[c] \in Results /\ job'[ticket[c]].status \in Finished
             /\ job'[ticket[c]].result = answer'[c]

\* What the typing and the rows of the jobs need of such a step.
LateStep ==
    /\ UNCHANGED <<ticket, seen, lock, unlocked>>
    /\ cooling' \in BOOLEAN /\ faults' \in 0..MaxFaults
    /\ job' \in [Job -> JobRow] /\ \A j \in Job : job'[j] = job[j] \/ RowMoves(job[j], job'[j])
    /\ at' \in [Caller -> {"idle", "checked", "locked", "granting", "creating", "created", "failing",
                           "waiting", "answered", "gone"}]
    /\ answer' \in [Caller -> Results \cup {"none", "processing", "expired"}]
    /\ \A c \in Caller : CallerMoves(c)

\* Who sees a job stays the same when owner and viewers do.
LEMMA SeesStaff ==
    ASSUME NEW c \in Staff, NEW j
    PROVE  Sees(c, j) <=> job[j].owner = c \/ c \in job[j].viewers
<1>1. c \notin Api
  BY RefreshAssumption
<1>2. Sees(c, j) = (job[j].owner = c \/ c \in job[j].viewers)
  BY <1>1 DEF Sees
<1> QED BY <1>2

\* A step of a job or of a waiting caller keeps the invariant.
LEMMA LateKeeps ==
    ASSUME Inv, LateStep
    PROVE  Inv'
<1>1. /\ job \in [Job -> JobRow] /\ ticket \in [Caller -> Job \cup {NoJob}]
      /\ ticket' = ticket /\ seen' = seen /\ lock' = lock /\ unlocked' = unlocked
  BY DEF Inv, TypeOK, LateStep
<1>2. TypeOK'
  BY DEF Inv, TypeOK, LateStep
<1>3. ASSUME NEW j \in Job
      PROVE  /\ job'[j].owner = job[j].owner /\ job'[j].viewers = job[j].viewers
             /\ job'[j].status = "none" <=> job[j].status = "none"
             /\ job'[j].status = "none" => job'[j] = job[j]
             /\ job'[j].status \in InFlight => job[j].status \in InFlight /\ (job[j].old => job'[j].old)
             /\ job[j].status \in Finished => job'[j].status = job[j].status /\ job'[j].result = job[j].result
  BY DEF LateStep, RowMoves
<1>4. CallersInv'
  <2>1. ASSUME NEW c \in Caller
        PROVE  /\ at'[c] \in Early => answer'[c] = "none" /\ \A j \in Job : job'[j].owner # c
               /\ ticket'[c] # NoJob => job'[ticket'[c]].status # "none"
               /\ at'[c] \in {"granting", "created", "failing", "waiting"} => ticket'[c] # NoJob
               /\ at'[c] \in {"created", "failing"} => job'[ticket'[c]].owner = c
               /\ answer'[c] # "none" => ticket'[c] # NoJob
               /\ at'[c] = "granting" => c \in Staff
    <3>1. /\ at[c] \in Early => answer[c] = "none" /\ \A j \in Job : job[j].owner # c
          /\ ticket[c] # NoJob => job[ticket[c]].status # "none"
          /\ at[c] \in {"granting", "created", "failing", "waiting"} => ticket[c] # NoJob
          /\ at[c] \in {"created", "failing"} => job[ticket[c]].owner = c
          /\ answer[c] # "none" => ticket[c] # NoJob
          /\ at[c] = "granting" => c \in Staff
      BY DEF Inv, CallersInv
    <3>2. ticket[c] \in Job \cup {NoJob} /\ CallerMoves(c)
      BY <1>1 DEF LateStep
    <3>3. /\ at'[c] \in Early => at'[c] = at[c] /\ answer'[c] = answer[c]
          /\ at'[c] \in {"granting", "created", "failing", "waiting"} =>
                at[c] \in {"granting", "created", "failing", "waiting"}
          /\ at'[c] \in {"created", "failing"} => at[c] \in {"created", "failing"}
          /\ answer'[c] = answer[c] \/ ticket[c] # NoJob
          /\ at'[c] = "granting" => at[c] = "granting"
      BY <3>2, Names DEF CallerMoves, Early
    <3> QED BY <1>1, <1>3, <3>1, <3>2, <3>3
  <2> QED BY <2>1 DEF CallersInv
<1>5. JobsInv'
  <2>1. ASSUME NEW j \in Job
        PROVE  /\ job'[j].status = "none" => job'[j] = FreeJob
               /\ job'[j].status # "none" => job'[j].owner \in Caller /\ ticket'[job'[j].owner] = j
               /\ job'[j].tell => job'[j].status \in Finished
               /\ job'[j].status = "queued" => job'[j].calls = 0
    <3>1. /\ job[j].status = "none" => job[j] = FreeJob
          /\ job[j].status # "none" => job[j].owner \in Caller /\ ticket[job[j].owner] = j
          /\ job[j].tell => job[j].status \in Finished
          /\ job[j].status = "queued" => job[j].calls = 0
      BY DEF Inv, JobsInv
    <3>2. job'[j] = job[j] \/ RowMoves(job[j], job'[j])
      BY DEF LateStep
    <3>3. /\ job'[j].tell => job'[j].status \in Finished
          /\ job'[j].status = "queued" => job'[j].calls = 0
      BY <3>1, <3>2 DEF RowMoves
    <3> QED BY <1>1, <1>3, <3>1, <3>3
  <2> QED BY <2>1 DEF JobsInv
<1>6. ASSUME NEW c \in Caller
      PROVE  Joinable(c)' \subseteq Joinable(c)
  BY <1>3 DEF Joinable, MayShare
<1>7. LockInv'
  <2>1. SUFFICES ASSUME ~unlocked, NEW c \in Caller
        PROVE  /\ at'[c] \in Holding => lock = c
               /\ at'[c] = "creating" => Joinable(c)' = {}
               /\ at'[c] = "granting" => seen[c] = job'[ticket[c]].viewers
    BY <1>1 DEF LockInv
  <2>2. at'[c] \in Holding => at'[c] = at[c]
    BY DEF LateStep, CallerMoves, Holding
  <2>3. /\ at[c] \in Holding => lock = c
        /\ at[c] = "creating" => Joinable(c) = {}
        /\ at[c] = "granting" => seen[c] = job[ticket[c]].viewers
    BY <2>1 DEF Inv, LockInv
  <2>4. at[c] = "granting" => ticket[c] \in Job
    BY <1>1 DEF Inv, CallersInv
  <2> QED BY <1>3, <1>6, <2>2, <2>3, <2>4 DEF Holding
<1>8. OneJobPerNumber'
  <2>1. SUFFICES ASSUME ~unlocked, NEW i \in Job, NEW j \in Job, i # j,
                        job'[i].status \in InFlight, job'[j].status \in InFlight,
                        ~job'[i].old, ~job'[j].old
        PROVE  ~(Plain(job'[i].owner) /\ Plain(job'[j].owner) /\ Token(job'[i].owner) = Token(job'[j].owner))
    BY <1>1 DEF OneJobPerNumber, MayShare
  <2>2. ~MayShare(job[i].owner, j)
    BY <1>3, <2>1 DEF Inv, Promises, OneJobPerNumber
  <2> QED BY <1>3, <2>2 DEF MayShare
<1>9. StaffSeesItsJob'
  <2>1. SUFFICES ASSUME ~unlocked, NEW c \in Staff, at'[c] = "waiting"
        PROVE  job'[ticket[c]].owner = c \/ c \in job'[ticket[c]].viewers
    <3>1. ASSUME NEW c \in Staff
          PROVE  Sees(c, ticket[c])' <=> job'[ticket'[c]].owner = c \/ c \in job'[ticket'[c]].viewers
      <4>1. c \notin Api
        BY RefreshAssumption
      <4> QED BY <4>1 DEF Sees
    <3> QED BY <1>1, <3>1 DEF StaffSeesItsJob
  <2>2. at[c] = "waiting" \/ at[c] = "created"
    BY <2>1, Names DEF LateStep, CallerMoves
  <2>3. ticket[c] \in Job
    BY <1>1, <2>2, Names DEF Inv, CallersInv
  <2>4. job[ticket[c]].owner = c \/ c \in job[ticket[c]].viewers
    <3>1. CASE at[c] = "waiting"
      BY <2>1, <3>1, SeesStaff DEF Inv, Promises, StaffSeesItsJob
    <3>2. CASE at[c] = "created"
      BY <3>2, Names DEF Inv, CallersInv
    <3> QED BY <2>2, <3>1, <3>2
  <2> QED BY <1>3, <2>3, <2>4
<1>10. AnswerIsTheJobs'
  <2>1. SUFFICES ASSUME NEW c \in Caller, answer'[c] \in Replies \cup {"error"}
        PROVE  job'[ticket[c]].status \in Finished /\ job'[ticket[c]].result = answer'[c]
    BY <1>1 DEF AnswerIsTheJobs
  <2>2. CallerMoves(c)
    BY DEF LateStep
  <2>3. CASE answer'[c] = answer[c]
    <3>1. job[ticket[c]].status \in Finished /\ job[ticket[c]].result = answer[c]
      BY <2>1, <2>3 DEF Inv, Promises, AnswerIsTheJobs
    <3>2. ticket[c] \in Job
      BY <1>1, <2>1, <2>3 DEF Inv, CallersInv, Replies
    <3> QED BY <1>3, <2>3, <3>1, <3>2
  <2>4. CASE answer'[c] # answer[c]
    BY <2>1, <2>2, <2>4 DEF CallerMoves, Replies
  <2> QED BY <2>3, <2>4
<1>11. PrivateJobIsNotShared'
  <2>1. SUFFICES ASSUME NEW c \in Caller, ticket[c] # NoJob, job'[ticket[c]].owner \in Api \cup Sms \cup Admin
        PROVE  job'[ticket[c]].owner = c
    BY <1>1 DEF PrivateJobIsNotShared
  <2>2. ticket[c] \in Job
    BY <1>1, <2>1
  <2> QED BY <1>3, <2>1, <2>2 DEF Inv, Promises, PrivateJobIsNotShared
<1> QED BY <1>2, <1>4, <1>5, <1>7, <1>8, <1>9, <1>10, <1>11 DEF Inv, Promises

-----------------------------------------------------------------------------
\* The steps that change one row.

\* A job that does not exist has no message, no worker and nothing to tell.
LEMMA Existing ==
    ASSUME Inv, NEW j \in Job
    PROVE  /\ job[j] \in JobRow
           /\ job[j].message \/ job[j].tell \/ job[j].worker # "none" => job[j].status # "none"
           /\ job[j].tell => job[j].status \in Finished
           /\ job[j].status = "queued" => job[j].calls = 0
<1>1. job[j] \in JobRow
  BY DEF Inv, TypeOK
<1>2. job[j].status = "none" => job[j] = FreeJob
  BY DEF Inv, JobsInv
<1>3. FreeJob.message = FALSE /\ FreeJob.tell = FALSE /\ FreeJob.worker = "none"
  BY DEF FreeJob
<1>4. /\ job[j].tell => job[j].status \in Finished
      /\ job[j].status = "queued" => job[j].calls = 0
  BY DEF Inv, JobsInv
<1> QED BY <1>1, <1>2, <1>3, <1>4

\* All rows but one stay.
LEMMA OneRow ==
    ASSUME Inv, NEW j \in Job, NEW r, RowMoves(job[j], r), job' = [job EXCEPT ![j] = r]
    PROVE  job' \in [Job -> JobRow] /\ \A i \in Job : job'[i] = job[i] \/ RowMoves(job[i], job'[i])
<1>1. job \in [Job -> JobRow] /\ r \in JobRow
  BY DEF Inv, TypeOK, RowMoves
<1> QED BY <1>1

\* A worker, the broker, the reaper or time changes the row of a job.
LEMMA RowKeeps ==
    ASSUME Inv, NEW j \in Job, NEW r, RowMoves(job[j], r), job' = [job EXCEPT ![j] = r],
           UNCHANGED <<at, ticket, answer, seen, lock, unlocked>>,
           cooling' \in BOOLEAN, faults' \in 0..MaxFaults
    PROVE  Inv'
<1>1. job' \in [Job -> JobRow] /\ \A i \in Job : job'[i] = job[i] \/ RowMoves(job[i], job'[i])
  BY OneRow
<1>2. \A c \in Caller : CallerMoves(c)
  BY DEF CallerMoves
<1>3. /\ at' \in [Caller -> {"idle", "checked", "locked", "granting", "creating", "created", "failing",
                              "waiting", "answered", "gone"}]
      /\ answer' \in [Caller -> Results \cup {"none", "processing", "expired"}]
  BY DEF Inv, TypeOK
<1> QED BY <1>1, <1>2, <1>3, LateKeeps DEF LateStep

\* A fault is counted.
LEMMA FaultTyped == Inv /\ Fault => faults' \in 0..MaxFaults
BY RefreshAssumption DEF Inv, TypeOK, Fault

\* Finishing a job keeps what was finished.
LEMMA FinishMoves ==
    ASSUME Inv, NEW j \in Job, job[j].status # "none",
           NEW status \in Finished, NEW result \in Results \cup {"none"}
    PROVE  RowMoves(job[j], FinishWith(j, status, result))
<1>1. job[j] \in JobRow /\ (job[j].tell => job[j].status \in Finished)
      /\ (job[j].status = "queued" => job[j].calls = 0)
  BY Existing
<1>2. CASE job[j].status \in Finished
  BY <1>1, <1>2 DEF FinishWith, RowMoves, Finished
<1>3. CASE job[j].status \notin Finished
  <2> DEFINE t == job[j].owner \in Sms
  <2>1. FinishWith(j, status, result)
          = [job[j] EXCEPT !.status = status, !.result = result, !.tell = t, !.old = FALSE, !.stuck = FALSE]
    BY <1>3 DEF FinishWith
  <2>2. t \in BOOLEAN
    OBVIOUS
  <2> HIDE DEF t
  <2> QED BY <1>1, <1>3, <2>1, <2>2 DEF RowMoves, JobRow, Finished, InFlight
<1> QED BY <1>2, <1>3

\* Workers, the broker and the reaper keep the invariant.
LEMMA WorkKeeps ==
    ASSUME Inv, NEW j \in Job, Work(j) \/ GrowsOld(j) \/ GetsStuck(j)
    PROVE  Inv'
<1>1. /\ job[j] \in JobRow
      /\ job[j].message \/ job[j].tell \/ job[j].worker # "none" => job[j].status # "none"
      /\ job[j].tell => job[j].status \in Finished
      /\ job[j].status = "queued" => job[j].calls = 0
  BY Existing
<1>2. cooling \in BOOLEAN /\ faults \in 0..MaxFaults
  BY DEF Inv, TypeOK
<1>3. ASSUME NEW again \in BOOLEAN, Take(j, again)
      PROVE  Inv'
  <2> DEFINE r == [job[j] EXCEPT !.status = "running", !.message = again, !.stuck = FALSE,
                                 !.worker = "calling", !.calls = @ + 1]
  <2>1. RowMoves(job[j], r)
    <3>1. job[j].status = "queued" /\ job[j].calls = 0
      BY <1>1, <1>3 DEF Take
    <3>2. r = [job[j] EXCEPT !.status = "running", !.message = again, !.stuck = FALSE,
                             !.worker = "calling", !.calls = 1]
      BY <1>1, <3>1 DEF JobRow
    <3> HIDE DEF r
    <3>3. 1 \in 0..1 /\ again \in BOOLEAN /\ "running" \in InFlight \cup Finished \cup {"none"}
      BY <1>3 DEF InFlight
    <3>4. r \in JobRow
      BY <1>1, <3>2, <3>3 DEF JobRow
    <3>5. r \in JobRow /\ r.status = "running" /\ r.owner = job[j].owner /\ r.viewers = job[j].viewers
          /\ r.old = job[j].old /\ r.tell = job[j].tell
      BY <1>1, <3>2, <3>4 DEF JobRow
    <3> QED BY <1>1, <3>1, <3>5 DEF RowMoves, InFlight, Finished
  <2>2. job' = [job EXCEPT ![j] = r] /\ UNCHANGED <<at, ticket, answer, seen, lock, unlocked, cooling>>
    BY <1>3 DEF Take
  <2>3. faults' \in 0..MaxFaults
    BY <1>2, <1>3, FaultTyped DEF Take
  <2> HIDE DEF r
  <2> QED BY <1>2, <2>1, <2>2, <2>3, RowKeeps
<1>4. CASE TakeNothing(j) \/ MessageLost(j)
  <2> DEFINE r == [job[j] EXCEPT !.message = FALSE]
  <2>1. RowMoves(job[j], r)
    BY <1>1, <1>4 DEF TakeNothing, MessageLost, RowMoves, JobRow, InFlight, Finished
  <2>2. job' = [job EXCEPT ![j] = r] /\ UNCHANGED <<at, ticket, answer, seen, lock, unlocked, cooling>>
    BY <1>4 DEF TakeNothing, MessageLost
  <2>3. faults' \in 0..MaxFaults
    BY <1>2, <1>4, FaultTyped DEF TakeNothing, MessageLost
  <2> HIDE DEF r
  <2> QED BY <1>2, <2>1, <2>2, <2>3, RowKeeps
<1>5. ASSUME NEW reply \in Replies \cup {"error"}, ProviderAnswers(j, reply)
      PROVE  Inv'
  <2> DEFINE r == [job[j] EXCEPT !.worker = "answered", !.reply = reply]
  <2>1. RowMoves(job[j], r)
    BY <1>1, <1>5 DEF ProviderAnswers, RowMoves, JobRow, InFlight, Finished
  <2>2. /\ job' = [job EXCEPT ![j] = r] /\ UNCHANGED <<at, ticket, answer, seen, lock, unlocked, faults>>
        /\ cooling' \in BOOLEAN
    BY <1>2, <1>5 DEF ProviderAnswers
  <2> HIDE DEF r
  <2> QED BY <1>2, <2>1, <2>2, RowKeeps
<1>6. CASE WorkerFinishes(j)
  <2> DEFINE f == FinishWith(j, IF job[j].reply = "error" THEN "failed" ELSE "done", job[j].reply)
             r == [f EXCEPT !.worker = "none", !.reply = "none"]
  <2>1. RowMoves(job[j], f)
    <3>1. job[j].status # "none" /\ job[j].reply \in Results \cup {"none"}
      BY <1>1, <1>6 DEF WorkerFinishes, JobRow, Results
    <3>2. (IF job[j].reply = "error" THEN "failed" ELSE "done") \in Finished
      BY DEF Finished
    <3> QED BY <3>1, <3>2, FinishMoves
  <2>2. job' = [job EXCEPT ![j] = r] /\ UNCHANGED <<at, ticket, answer, seen, lock, unlocked, cooling, faults>>
    BY <1>6 DEF WorkerFinishes
  <2> HIDE DEF f
  <2>3. RowMoves(job[j], r)
    BY <2>1, WorkerLeaves
  <2> HIDE DEF r
  <2> QED BY <1>2, <2>2, <2>3, RowKeeps
<1>7. CASE WorkerDies(j)
  <2> DEFINE r == [job[j] EXCEPT !.worker = "none", !.reply = "none"]
  <2>1. RowMoves(job[j], r)
    BY <1>1, <1>7 DEF WorkerDies, RowMoves, JobRow, InFlight, Finished
  <2>2. job' = [job EXCEPT ![j] = r] /\ UNCHANGED <<at, ticket, answer, seen, lock, unlocked, cooling>>
    BY <1>7 DEF WorkerDies
  <2>3. faults' \in 0..MaxFaults
    BY <1>7, FaultTyped DEF WorkerDies
  <2> HIDE DEF r
  <2> QED BY <1>2, <2>1, <2>2, <2>3, RowKeeps
<1>8. CASE Reap(j)
  <2>1. RowMoves(job[j], FinishWith(j, "failed", "error"))
    BY <1>8, FinishMoves DEF Reap, InFlight, Finished, Results
  <2> QED BY <1>2, <1>8, <2>1, RowKeeps DEF Reap
<1>9. CASE GrowsOld(j)
  <2> DEFINE r == [job[j] EXCEPT !.old = TRUE]
  <2>1. RowMoves(job[j], r)
    BY <1>1, <1>9 DEF GrowsOld, RowMoves, JobRow, InFlight, Finished
  <2>2. job' = [job EXCEPT ![j] = r] /\ UNCHANGED <<at, ticket, answer, seen, lock, unlocked, cooling, faults>>
    BY <1>9 DEF GrowsOld
  <2> HIDE DEF r
  <2> QED BY <1>2, <2>1, <2>2, RowKeeps
<1>10. CASE GetsStuck(j)
  <2> DEFINE r == [job[j] EXCEPT !.stuck = TRUE]
  <2>1. RowMoves(job[j], r)
    BY <1>1, <1>10 DEF GetsStuck, RowMoves, JobRow, InFlight, Finished
  <2>2. job' = [job EXCEPT ![j] = r] /\ UNCHANGED <<at, ticket, answer, seen, lock, unlocked, cooling, faults>>
    BY <1>10 DEF GetsStuck
  <2> HIDE DEF r
  <2> QED BY <1>2, <2>1, <2>2, RowKeeps
<1>11. CASE TellLost(j)
  <2> DEFINE r == [job[j] EXCEPT !.tell = FALSE]
  <2>1. RowMoves(job[j], r)
    BY <1>1, <1>11 DEF TellLost, RowMoves, JobRow, InFlight, Finished
  <2>2. job' = [job EXCEPT ![j] = r] /\ UNCHANGED <<at, ticket, answer, seen, lock, unlocked, cooling>>
    BY <1>11 DEF TellLost
  <2>3. faults' \in 0..MaxFaults
    BY <1>11, FaultTyped DEF TellLost
  <2> HIDE DEF r
  <2> QED BY <1>2, <2>1, <2>2, <2>3, RowKeeps
<1>12. CASE Notify(j)
  <2> DEFINE r == [job[j] EXCEPT !.tell = FALSE]
             c == job[j].owner
  <2>1. RowMoves(job[j], r)
    BY <1>1, <1>12 DEF Notify, RowMoves, JobRow, InFlight, Finished
  <2>2. job' = [job EXCEPT ![j] = r] /\ UNCHANGED <<ticket, seen, lock, unlocked, cooling, faults>>
    BY <1>12 DEF Notify
  <2>3. /\ job[j].status \in Finished /\ c \in Caller /\ ticket[c] = j /\ at[c] \notin Early
        /\ job[j].result \in Results \cup {"none"}
    BY <1>1, <1>12 DEF Notify, Inv, JobsInv, CallersInv, Finished, JobRow
  <2>4. job' \in [Job -> JobRow] /\ \A i \in Job : job'[i] = job[i] \/ RowMoves(job[i], job'[i])
    BY <2>1, <2>2, OneRow
  <2>5. /\ at' = [at EXCEPT ![c] = "answered"]
        /\ answer' = [answer EXCEPT ![c] = IF @ = "none" THEN job[j].result ELSE @]
    BY <1>12 DEF Notify, Told
  <2>6. /\ at \in [Caller -> {"idle", "checked", "locked", "granting", "creating", "created", "failing",
                               "waiting", "answered", "gone"}]
        /\ answer \in [Caller -> Results \cup {"none", "processing", "expired"}]
        /\ job \in [Job -> JobRow]
    BY DEF Inv, TypeOK
  <2>7. job'[j].status \in Finished /\ job'[j].result = job[j].result
    BY <1>1, <2>2, <2>3, <2>6 DEF JobRow
  <2> HIDE DEF r, c
  <2>8. ASSUME NEW d \in Caller PROVE CallerMoves(d)
    <3>1. CASE d # c
      BY <2>5, <2>6, <3>1 DEF CallerMoves
    <3>2. CASE d = c
      <4>1. at'[c] = "answered" /\ (answer'[c] = answer[c] \/ answer'[c] = job[j].result)
        BY <2>3, <2>5, <2>6
      <4> QED BY <2>3, <2>7, <3>2, <4>1 DEF CallerMoves
    <3> QED BY <3>1, <3>2
  <2>9. /\ at' \in [Caller -> {"idle", "checked", "locked", "granting", "creating", "created", "failing",
                                "waiting", "answered", "gone"}]
        /\ answer' \in [Caller -> Results \cup {"none", "processing", "expired"}]
    BY <2>3, <2>5, <2>6
  <2> QED BY <1>2, <2>2, <2>4, <2>8, <2>9, LateKeeps DEF LateStep
<1> QED BY <1>3, <1>4, <1>5, <1>6, <1>7, <1>8, <1>9, <1>10, <1>11, <1>12 DEF Work

-----------------------------------------------------------------------------
\* The steps of a caller that has a job.

\* Such a caller moves on, and the row of one job may change with it.
LEMMA LateCaller ==
    ASSUME Inv, NEW c \in Caller, at[c] \notin Early, ticket[c] \in Job,
           NEW a \in {"waiting", "failing", "answered"}, a \in {"waiting", "failing"} => at[c] = "created",
           at' = [at EXCEPT ![c] = a],
           NEW x \in Results \cup {"none", "processing", "expired"}, answer' = [answer EXCEPT ![c] = x],
           \/ x = answer[c] \/ x \in {"none", "processing", "expired", "busy"}
           \/ job'[ticket[c]].status \in Finished /\ job'[ticket[c]].result = x,
           job' \in [Job -> JobRow], \A j \in Job : job'[j] = job[j] \/ RowMoves(job[j], job'[j]),
           UNCHANGED <<ticket, seen, lock, unlocked>>, cooling' \in BOOLEAN, faults' \in 0..MaxFaults
    PROVE  Inv'
<1>1. /\ at \in [Caller -> {"idle", "checked", "locked", "granting", "creating", "created", "failing",
                             "waiting", "answered", "gone"}]
      /\ answer \in [Caller -> Results \cup {"none", "processing", "expired"}]
  BY DEF Inv, TypeOK
<1>2. ASSUME NEW d \in Caller PROVE CallerMoves(d)
  <2>1. CASE d # c
    BY <1>1, <2>1 DEF CallerMoves
  <2>2. CASE d = c
    <3>1. at'[c] = a /\ answer'[c] = x
      BY <1>1
    <3>2. x \in {"none", "processing", "expired", "busy"} \/ x \in Results
      OBVIOUS
    <3> QED BY <2>2, <3>1, <3>2 DEF CallerMoves
  <2> QED BY <2>1, <2>2
<1>3. /\ at' \in [Caller -> {"idle", "checked", "locked", "granting", "creating", "created", "failing",
                              "waiting", "answered", "gone"}]
      /\ answer' \in [Caller -> Results \cup {"none", "processing", "expired"}]
  BY <1>1
<1> QED BY <1>2, <1>3, LateKeeps DEF LateStep

\* The message of a new job goes out, or does not.
LEMMA EnqueueKeeps ==
    ASSUME Inv, NEW c \in Caller, Enqueue(c) \/ (\E arrived \in BOOLEAN : EnqueueRaises(c, arrived))
    PROVE  Inv'
<1>1. /\ at[c] = "created" /\ ticket[c] \in Job /\ job[ticket[c]].status # "none"
      /\ answer \in [Caller -> Results \cup {"none", "processing", "expired"}]
      /\ cooling \in BOOLEAN /\ faults \in 0..MaxFaults
  BY DEF Enqueue, EnqueueRaises, Moves, Inv, CallersInv, TypeOK
<1>2. PICK b \in BOOLEAN, a \in {"waiting", "failing"} :
        /\ job' = [job EXCEPT ![ticket[c]].message = b] /\ at' = [at EXCEPT ![c] = a]
        /\ UNCHANGED <<ticket, answer, seen, lock, unlocked, cooling>>
        /\ faults' \in 0..MaxFaults
  <2>1. CASE Enqueue(c)
    BY <1>1, <2>1 DEF Enqueue, Moves
  <2>2. ASSUME NEW arrived \in BOOLEAN, EnqueueRaises(c, arrived)
        PROVE  /\ job' = [job EXCEPT ![ticket[c]].message = arrived] /\ at' = [at EXCEPT ![c] = "failing"]
               /\ UNCHANGED <<ticket, answer, seen, lock, unlocked, cooling>>
               /\ faults' \in 0..MaxFaults
    BY <2>2, FaultTyped DEF EnqueueRaises, Moves
  <2> QED BY <2>1, <2>2
<1> DEFINE r == [job[ticket[c]] EXCEPT !.message = b]
<1>3. RowMoves(job[ticket[c]], r)
  BY <1>1, Existing DEF RowMoves, JobRow
<1>4. job' = [job EXCEPT ![ticket[c]] = r]
  BY <1>2
<1>5. job' \in [Job -> JobRow] /\ \A j \in Job : job'[j] = job[j] \/ RowMoves(job[j], job'[j])
  <2> HIDE DEF r
  <2> QED BY <1>1, <1>3, <1>4, OneRow
<1>6. answer' = [answer EXCEPT ![c] = answer[c]] /\ answer[c] \in Results \cup {"none", "processing", "expired"}
  BY <1>1, <1>2
<1>7. at[c] \notin Early
  BY <1>1 DEF Early
<1> QED BY <1>1, <1>2, <1>5, <1>6, <1>7, LateCaller

\* A submit that could not send the message fails the job, unless it is finished.
LEMMA EnqueueFailedKeeps ==
    ASSUME Inv, NEW c \in Caller, EnqueueFailed(c)
    PROVE  Inv'
<1>1. /\ at[c] = "failing" /\ ticket[c] \in Job /\ job[ticket[c]].status # "none" /\ at[c] \notin Early
      /\ answer \in [Caller -> Results \cup {"none", "processing", "expired"}]
      /\ cooling \in BOOLEAN /\ faults \in 0..MaxFaults
  BY DEF EnqueueFailed, Inv, CallersInv, TypeOK, Early
<1> DEFINE r == FinishWith(ticket[c], "failed", "busy")
           x == IF answer[c] = "none" THEN "busy" ELSE answer[c]
<1>2. RowMoves(job[ticket[c]], r)
  BY <1>1, FinishMoves DEF Finished, Results
<1>3. /\ job' = [job EXCEPT ![ticket[c]] = r] /\ at' = [at EXCEPT ![c] = "answered"]
      /\ answer' = [answer EXCEPT ![c] = x]
      /\ UNCHANGED <<ticket, seen, lock, unlocked, cooling, faults>>
  BY DEF EnqueueFailed, Told
<1>4. x \in Results \cup {"none", "processing", "expired"} /\ (x = answer[c] \/ x = "busy")
  BY <1>1 DEF Results
<1> HIDE DEF r, x
<1>5. job' \in [Job -> JobRow] /\ \A j \in Job : job'[j] = job[j] \/ RowMoves(job[j], job'[j])
  BY <1>1, <1>2, <1>3, OneRow
<1> QED BY <1>1, <1>3, <1>4, <1>5, LateCaller

\* A poll tells what the row says, or that there is nothing to wait for.
LEMMA PollKeeps ==
    ASSUME Inv, NEW c \in Caller, Poll(c)
    PROVE  Inv'
<1>1. /\ at[c] = "waiting" /\ ticket[c] \in Job /\ at[c] \notin Early
      /\ answer \in [Caller -> Results \cup {"none", "processing", "expired"}]
      /\ job \in [Job -> JobRow] /\ cooling \in BOOLEAN /\ faults \in 0..MaxFaults
  BY DEF Poll, Inv, CallersInv, TypeOK, Early
<1> DEFINE w == Polled(c, ticket[c])
           x == IF answer[c] = "none" THEN w ELSE answer[c]
<1>2. /\ at' = [at EXCEPT ![c] = "answered"] /\ answer' = [answer EXCEPT ![c] = x]
      /\ UNCHANGED <<ticket, seen, lock, unlocked, job, cooling, faults>>
  BY DEF Poll, Told
<1>3. /\ w \in Results \cup {"none", "processing", "expired"}
      /\ w \in {"none", "processing", "expired"} \/ (job[ticket[c]].status \in Finished /\ job[ticket[c]].result = w)
  <2> DEFINE j == ticket[c]
  <2>1. job[j].result \in Results \cup {"none"} /\ (job[j].status \in Finished => job[j].status \notin InFlight)
    BY <1>1 DEF JobRow, Finished, InFlight
  <2>2. CASE ~Sees(c, j)
    <3>1. w = "expired"
      BY <2>2 DEF Polled
    <3> QED BY <3>1
  <2>3. CASE Sees(c, j) /\ job[j].status \in Finished
    <3>1. w = job[j].result
      BY <2>1, <2>3 DEF Polled
    <3> QED BY <2>1, <2>3, <3>1
  <2>4. CASE Sees(c, j) /\ job[j].status \notin Finished /\ job[j].status \in InFlight /\ job[j].old
    <3>1. w = "processing"
      BY <2>4 DEF Polled
    <3> QED BY <3>1
  <2>5. CASE Sees(c, j) /\ job[j].status \notin Finished /\ ~(job[j].status \in InFlight /\ job[j].old)
    <3>1. w = "none"
      BY <2>5 DEF Polled
    <3> QED BY <3>1
  <2> QED BY <2>2, <2>3, <2>4, <2>5
<1> HIDE DEF w
<1>4. /\ x \in Results \cup {"none", "processing", "expired"}
      /\ x = answer[c] \/ x = w
  BY <1>1, <1>3
<1> HIDE DEF x
<1>5. \/ x = answer[c] \/ x \in {"none", "processing", "expired", "busy"}
      \/ job'[ticket[c]].status \in Finished /\ job'[ticket[c]].result = x
  BY <1>2, <1>3, <1>4
<1> QED BY <1>1, <1>2, <1>4, <1>5, LateCaller

-----------------------------------------------------------------------------
\* The steps of a submit.

\* A caller that has no job yet goes on, or one that is submitting dies.
LEMMA EarlyKeeps ==
    ASSUME Inv, NEW c \in Caller, NEW b \in {"checked", "locked", "creating", "gone"},
           at' = [at EXCEPT ![c] = b], b # "gone" => at[c] \in {"idle", "checked", "locked"},
           UNCHANGED <<ticket, answer, job, cooling>>, faults' \in 0..MaxFaults,
           lock' \in Caller \cup {Nobody}, unlocked' \in BOOLEAN, seen' \in [Caller -> SUBSET Staff],
           unlocked => unlocked', \A d \in Caller : d # c => seen'[d] = seen[d],
           lock' = lock \/ lock \in {c, Nobody},
           ~unlocked' /\ b \in Holding => lock' = c,
           b = "creating" => Joinable(c) = {}
    PROVE  Inv'
<1>1. /\ at \in [Caller -> {"idle", "checked", "locked", "granting", "creating", "created", "failing",
                             "waiting", "answered", "gone"}]
      /\ job' = job /\ ticket' = ticket /\ answer' = answer
      /\ at'[c] = b /\ \A d \in Caller : d # c => at'[d] = at[d]
  BY DEF Inv, TypeOK
<1>2. TypeOK'
  BY <1>1 DEF Inv, TypeOK
<1>3. CallersInv'
  BY <1>1 DEF Inv, CallersInv, Early
<1>4. JobsInv'
  BY <1>1 DEF Inv, JobsInv
<1>5. LockInv'
  <2>1. SUFFICES ASSUME ~unlocked', NEW d \in Caller
        PROVE  /\ at'[d] \in Holding => lock' = d
               /\ at'[d] = "creating" => Joinable(d)' = {}
               /\ at'[d] = "granting" => seen'[d] = job[ticket[d]].viewers
    BY <1>1 DEF LockInv
  <2>2. Joinable(d)' = Joinable(d)
    BY <1>1 DEF Joinable, MayShare
  <2>3. CASE d = c
    BY <1>1, <2>1, <2>2, <2>3
  <2>4. CASE d # c
    <3>1. /\ at[d] \in Holding => lock = d
          /\ at[d] = "creating" => Joinable(d) = {}
          /\ at[d] = "granting" => seen[d] = job[ticket[d]].viewers
      BY <2>1 DEF Inv, LockInv
    <3> QED BY <1>1, <2>2, <2>4, <3>1, Names
  <2> QED BY <2>3, <2>4
<1>6. OneJobPerNumber'
  BY <1>1 DEF Inv, Promises, OneJobPerNumber, MayShare
<1>7. StaffSeesItsJob'
  <2>1. SUFFICES ASSUME ~unlocked', NEW d \in Staff, at'[d] = "waiting"
        PROVE  Sees(d, ticket[d])'
    BY <1>1 DEF StaffSeesItsJob
  <2>2. Sees(d, ticket[d])' = Sees(d, ticket[d])
    BY <1>1 DEF Sees
  <2>3. at[d] = "waiting"
    BY <1>1, <2>1, Names
  <2> QED BY <2>1, <2>2, <2>3 DEF Inv, Promises, StaffSeesItsJob
<1>8. AnswerIsTheJobs' /\ PrivateJobIsNotShared'
  BY <1>1 DEF Inv, Promises, AnswerIsTheJobs, PrivateJobIsNotShared
<1> QED BY <1>2, <1>3, <1>4, <1>5, <1>6, <1>7, <1>8 DEF Inv, Promises

\* The steps that find no job yet.
LEMMA SearchKeeps ==
    ASSUME Inv, NEW c \in Caller,
           Precheck(c) \/ TakeLock(c) \/ GoOnWithoutLock(c) \/ FindNone(c) \/ RequestDies(c)
    PROVE  Inv'
<1>1. /\ lock \in Caller \cup {Nobody} /\ unlocked \in BOOLEAN /\ seen \in [Caller -> SUBSET Staff]
      /\ faults \in 0..MaxFaults
  BY DEF Inv, TypeOK
<1>2. CASE Precheck(c)
  BY <1>1, <1>2, EarlyKeeps DEF Precheck, Moves, Holding
<1>3. CASE TakeLock(c)
  BY <1>1, <1>3, EarlyKeeps DEF TakeLock, Moves
<1>4. CASE GoOnWithoutLock(c)
  BY <1>1, <1>4, FaultTyped, EarlyKeeps DEF GoOnWithoutLock, Moves
<1>5. CASE FindNone(c)
  <2>1. ~unlocked => lock = c
    BY <1>5 DEF FindNone, Moves, Inv, LockInv, Holding
  <2> QED BY <1>1, <1>5, <2>1, EarlyKeeps DEF FindNone, Moves
<1>6. CASE RequestDies(c)
  <2>1. faults' \in 0..MaxFaults
    BY <1>6, FaultTyped DEF RequestDies
  <2>2. /\ at' = [at EXCEPT ![c] = "gone"] /\ lock' = (IF lock = c THEN Nobody ELSE lock)
        /\ seen' = [seen EXCEPT ![c] = {}] /\ UNCHANGED <<ticket, answer, unlocked, job, cooling>>
    BY <1>6 DEF RequestDies, Release
  <2>3. /\ seen' \in [Caller -> SUBSET Staff] /\ \A d \in Caller : d # c => seen'[d] = seen[d]
        /\ lock' \in Caller \cup {Nobody} /\ (lock' = lock \/ lock \in {c, Nobody})
    BY <1>1, <2>2
  <2>4. "gone" \notin Holding
    BY DEF Holding
  <2> QED BY <1>1, <2>1, <2>2, <2>3, <2>4, EarlyKeeps
<1> QED BY <1>2, <1>3, <1>4, <1>5, <1>6

\* When the lock of a caller inside expires, nothing is claimed of the lock any more.
LEMMA ExpiryKeeps ==
    ASSUME Inv, NEW c \in Caller, LockExpires(c)
    PROVE  Inv'
<1>1. /\ lock' = Nobody /\ unlocked' = TRUE /\ faults' \in 0..MaxFaults
      /\ UNCHANGED <<at, ticket, answer, seen, job, cooling>>
  BY FaultTyped DEF LockExpires
<1>2. TypeOK'
  BY <1>1 DEF Inv, TypeOK
<1>3. CallersInv' /\ JobsInv'
  BY <1>1 DEF Inv, CallersInv, JobsInv
<1>4. LockInv' /\ OneJobPerNumber' /\ StaffSeesItsJob'
  BY <1>1 DEF LockInv, OneJobPerNumber, StaffSeesItsJob
<1>5. AnswerIsTheJobs' /\ PrivateJobIsNotShared'
  BY <1>1 DEF Inv, Promises, AnswerIsTheJobs, PrivateJobIsNotShared
<1> QED BY <1>2, <1>3, <1>4, <1>5 DEF Inv, Promises

\* Of several jobs that may be shared one is the newest.
LEMMA NewestExists ==
    ASSUME NEW S \in SUBSET Job, S # {}
    PROVE  Newest(S) \in S
<1> DEFINE T == {MaxJobs - i : i \in S}
<1>1. MaxJobs \in Nat /\ S \subseteq 1..MaxJobs
  BY RefreshAssumption DEF Job
<1>2. T \subseteq Nat /\ T # {}
  <2>1. \A i \in S : MaxJobs - i \in Nat
    BY <1>1
  <2> QED BY <2>1
<1>3. PICK x \in T : \A y \in T : ~(<<y, x>> \in OpToRel(<, Nat))
  BY <1>2, NatLessThanWellFounded, WFMin
<1>4. \A y \in T : ~(y < x)
  BY <1>2, <1>3 DEF OpToRel
<1>5. PICK i \in S : x = MaxJobs - i
  OBVIOUS
<1>6. \A k \in S : k <= i
  <2> SUFFICES ASSUME NEW k \in S PROVE k <= i
    OBVIOUS
  <2>1. ~(MaxJobs - k < MaxJobs - i)
    BY <1>4, <1>5
  <2> QED BY <2>1, <1>1
<1> QED BY <1>6 DEF Newest

\* A caller is given a job that is under way; it had none.
LEMMA JoinKeeps ==
    ASSUME Inv, NEW c \in Caller, Join(c)
    PROVE  Inv'
<1> DEFINE j == Newest(Joinable(c))
<1>1. /\ at \in [Caller -> {"idle", "checked", "locked", "granting", "creating", "created", "failing",
                             "waiting", "answered", "gone"}]
      /\ job \in [Job -> JobRow] /\ ticket \in [Caller -> Job \cup {NoJob}]
      /\ seen \in [Caller -> SUBSET Staff] /\ lock \in Caller \cup {Nobody}
  BY DEF Inv, TypeOK
<1>2. j \in Joinable(c) /\ j \in Job
  <2>1. Joinable(c) # {} /\ Joinable(c) \subseteq Job
    BY DEF Join, Joinable
  <2> QED BY <2>1, NewestExists
<1>3. job[j].status \in InFlight /\ ~job[j].old /\ MayShare(c, j) /\ job[j].status # "none" /\ j # NoJob
  BY <1>2, Names DEF Joinable, InFlight
<1>4. at[c] = "locked" /\ answer[c] = "none" /\ \A i \in Job : job[i].owner # c
  BY DEF Join, Moves, Inv, CallersInv, Early
<1>5. /\ ticket' = [ticket EXCEPT ![c] = j] /\ UNCHANGED <<answer, unlocked, job, cooling, faults>>
  BY DEF Join
<1>6. PICK b \in {"granting", "waiting"} :
        /\ at' = [at EXCEPT ![c] = b] /\ (b = "granting" <=> c \in Staff)
        /\ b = "granting" => seen' = [seen EXCEPT ![c] = job[j].viewers] /\ lock' = lock
        /\ b = "waiting" => seen' = seen /\ lock' = IF lock = c THEN Nobody ELSE lock
  BY DEF Join, Moves, Release
<1> HIDE DEF j
<1>7. /\ at'[c] = b /\ ticket'[c] = j
      /\ \A d \in Caller : d # c => at'[d] = at[d] /\ ticket'[d] = ticket[d] /\ seen'[d] = seen[d]
      /\ b = "granting" => seen'[c] = job[j].viewers
      /\ ~unlocked => lock = c
  <2>1. ~unlocked => lock = c
    BY <1>4 DEF Inv, LockInv, Holding
  <2> QED BY <1>1, <1>5, <1>6, <2>1
<1>8. TypeOK'
  <2>1. job[j].viewers \in SUBSET Staff
    BY <1>1, <1>2 DEF JobRow
  <2>2. at' \in [Caller -> {"idle", "checked", "locked", "granting", "creating", "created", "failing",
                             "waiting", "answered", "gone"}]
        /\ ticket' \in [Caller -> Job \cup {NoJob}]
    BY <1>1, <1>2, <1>5, <1>6
  <2>3. seen' \in [Caller -> SUBSET Staff] /\ lock' \in Caller \cup {Nobody}
    BY <1>1, <1>6, <2>1
  <2> QED BY <1>5, <2>2, <2>3 DEF Inv, TypeOK
<1>9. CallersInv'
  BY <1>3, <1>4, <1>5, <1>6, <1>7 DEF Inv, CallersInv
<1>10. JobsInv'
  BY <1>4, <1>5, <1>7 DEF Inv, JobsInv
<1>11. LockInv'
  <2>1. SUFFICES ASSUME ~unlocked, NEW d \in Caller
        PROVE  /\ at'[d] \in Holding => lock' = d
               /\ at'[d] = "creating" => Joinable(d)' = {}
               /\ at'[d] = "granting" => seen'[d] = job[ticket'[d]].viewers
    BY <1>5 DEF LockInv
  <2>2. CASE d = c
    BY <1>6, <1>7, <2>1, <2>2 DEF Holding
  <2>3. CASE d # c
    <3>1. at'[d] \notin Holding
      BY <1>7, <2>1, <2>3 DEF Inv, LockInv
    <3> QED BY <3>1 DEF Holding
  <2> QED BY <2>2, <2>3
<1>12. OneJobPerNumber'
  BY <1>5 DEF Inv, Promises, OneJobPerNumber, MayShare
<1>13. StaffSeesItsJob'
  <2>1. SUFFICES ASSUME ~unlocked, NEW d \in Staff, at'[d] = "waiting"
        PROVE  Sees(d, ticket[d])'
    BY <1>5 DEF StaffSeesItsJob
  <2>2. d # c
    BY <1>6, <1>7, <2>1
  <2>3. at[d] = "waiting" /\ ticket'[d] = ticket[d] /\ job' = job
    BY <1>5, <1>7, <2>1, <2>2, Names
  <2>4. Sees(d, ticket[d])
    BY <2>1, <2>3 DEF Inv, Promises, StaffSeesItsJob
  <2> QED BY <2>3, <2>4 DEF Sees
<1>14. AnswerIsTheJobs'
  <2>1. "none" \notin Replies \cup {"error"}
    BY DEF Replies
  <2> QED BY <1>4, <1>5, <1>7, <2>1 DEF Inv, Promises, AnswerIsTheJobs
<1>15. PrivateJobIsNotShared'
  <2>1. SUFFICES ASSUME NEW d \in Caller, ticket'[d] # NoJob, job[ticket'[d]].owner \in Api \cup Sms \cup Admin
        PROVE  job[ticket'[d]].owner = d
    BY <1>5 DEF PrivateJobIsNotShared
  <2>2. CASE d # c
    BY <1>7, <2>1, <2>2 DEF Inv, Promises, PrivateJobIsNotShared
  <2>3. CASE d = c
    <3>1. job[j].owner \in Api /\ Token(c) = job[j].owner
      BY <1>3, <1>7, <2>1, <2>3 DEF MayShare, Plain, Token
    <3>2. job[j].owner # Nobody
      BY <3>1, Names DEF Caller
    <3> QED BY <1>7, <2>3, <3>1, <3>2 DEF Token
  <2> QED BY <2>2, <2>3
<1> QED BY <1>8, <1>9, <1>10, <1>11, <1>12, <1>13, <1>14, <1>15 DEF Inv, Promises

\* An employee is added to the viewers it has read: nobody is lost while the
\* lock is held.
LEMMA GrantKeeps ==
    ASSUME Inv, NEW c \in Caller, Grant(c)
    PROVE  Inv'
<1> DEFINE j == ticket[c]
           views == seen[c] \cup {c} \cup ({job[j].owner} \cap Staff)
           r == [job[j] EXCEPT !.viewers = views]
<1>1. /\ at \in [Caller -> {"idle", "checked", "locked", "granting", "creating", "created", "failing",
                             "waiting", "answered", "gone"}]
      /\ job \in [Job -> JobRow] /\ ticket \in [Caller -> Job \cup {NoJob}]
      /\ seen \in [Caller -> SUBSET Staff] /\ lock \in Caller \cup {Nobody}
  BY DEF Inv, TypeOK
<1>2. /\ at[c] = "granting" /\ c \in Staff /\ j \in Job /\ j # NoJob /\ job[j].status # "none"
      /\ answer[c] = "none" /\ \A i \in Job : job[i].owner # c
  BY <1>1 DEF Grant, Moves, Inv, CallersInv, Early
<1>3. /\ job' = [job EXCEPT ![j] = r] /\ seen' = [seen EXCEPT ![c] = {}]
      /\ at' = [at EXCEPT ![c] = "waiting"] /\ lock' = (IF lock = c THEN Nobody ELSE lock)
      /\ UNCHANGED <<ticket, answer, unlocked, cooling, faults>>
  BY DEF Grant, Moves, Release
<1>4. /\ views \in SUBSET Staff /\ c \in views /\ seen[c] \subseteq views
  BY <1>1, <1>2
<1> HIDE DEF views
<1>5. /\ r \in JobRow /\ r.viewers = views /\ r.owner = job[j].owner /\ r.status = job[j].status
      /\ r.old = job[j].old /\ r.tell = job[j].tell /\ r.calls = job[j].calls /\ r.result = job[j].result
  BY <1>1, <1>2, <1>4 DEF JobRow
<1> HIDE DEF r, j
<1>6. /\ job' \in [Job -> JobRow] /\ job'[j] = r /\ \A i \in Job : i # j => job'[i] = job[i]
      /\ at'[c] = "waiting" /\ \A d \in Caller : d # c => at'[d] = at[d] /\ seen'[d] = seen[d]
  BY <1>1, <1>2, <1>3, <1>5
<1>7. \A i \in Job :
        /\ job'[i].owner = job[i].owner /\ job'[i].status = job[i].status
        /\ job'[i].old = job[i].old /\ job'[i].tell = job[i].tell
        /\ job'[i].calls = job[i].calls /\ job'[i].result = job[i].result
        /\ job[i].status = "none" => job'[i] = job[i]
  BY <1>2, <1>5, <1>6
<1>8. \A d \in Caller : ticket'[d] = ticket[d] /\ answer'[d] = answer[d] /\ ticket[d] \in Job \cup {NoJob}
  BY <1>1, <1>3
<1>9. ~unlocked => lock = c /\ seen[c] = job[j].viewers
  BY <1>2 DEF Inv, LockInv, Holding, j
<1>10. TypeOK'
  <2>1. /\ seen' \in [Caller -> SUBSET Staff] /\ lock' \in Caller \cup {Nobody}
        /\ at' \in [Caller -> {"idle", "checked", "locked", "granting", "creating", "created", "failing",
                                "waiting", "answered", "gone"}]
    BY <1>1, <1>3
  <2> QED BY <1>3, <1>6, <2>1 DEF Inv, TypeOK
<1>11. CallersInv'
  <2>1. SUFFICES ASSUME NEW d \in Caller
        PROVE  /\ at'[d] \in Early => answer[d] = "none" /\ \A i \in Job : job'[i].owner # d
               /\ ticket[d] # NoJob => job'[ticket[d]].status # "none"
               /\ at'[d] \in {"granting", "created", "failing", "waiting"} => ticket[d] # NoJob
               /\ at'[d] \in {"created", "failing"} => job'[ticket[d]].owner = d
               /\ answer[d] # "none" => ticket[d] # NoJob
               /\ at'[d] = "granting" => d \in Staff
    BY <1>3 DEF CallersInv
  <2>2. /\ at[d] \in Early => answer[d] = "none" /\ \A i \in Job : job[i].owner # d
        /\ ticket[d] # NoJob => job[ticket[d]].status # "none"
        /\ at[d] \in {"granting", "created", "failing", "waiting"} => ticket[d] # NoJob
        /\ at[d] \in {"created", "failing"} => job[ticket[d]].owner = d
        /\ answer[d] # "none" => ticket[d] # NoJob
        /\ at[d] = "granting" => d \in Staff
    BY DEF Inv, CallersInv
  <2>3. at'[d] # at[d] => at'[d] = "waiting" /\ at[d] = "granting"
    BY <1>2, <1>6
  <2> QED BY <1>7, <1>8, <2>2, <2>3 DEF Early
<1>12. JobsInv'
  BY <1>3, <1>7 DEF Inv, JobsInv
<1>13. LockInv'
  <2>1. SUFFICES ASSUME ~unlocked, NEW d \in Caller
        PROVE  at'[d] \notin Holding
    BY <1>3 DEF LockInv, Holding
  <2>2. CASE d = c
    BY <1>6, <2>2 DEF Holding
  <2>3. CASE d # c
    BY <1>6, <1>9, <2>1, <2>3 DEF Inv, LockInv
  <2> QED BY <2>2, <2>3
<1>14. OneJobPerNumber'
  <2>1. SUFFICES ASSUME ~unlocked, NEW i \in Job, NEW k \in Job, i # k,
                        job[i].status \in InFlight, job[k].status \in InFlight, ~job[i].old, ~job[k].old
        PROVE  ~MayShare(job[i].owner, k)
    BY <1>3, <1>7 DEF OneJobPerNumber, MayShare
  <2> QED BY <2>1 DEF Inv, Promises, OneJobPerNumber
<1>15. StaffSeesItsJob'
  <2>1. SUFFICES ASSUME ~unlocked, NEW d \in Staff, at'[d] = "waiting"
        PROVE  job'[ticket[d]].owner = d \/ d \in job'[ticket[d]].viewers
    <3>1. ASSUME NEW d \in Staff
          PROVE  Sees(d, ticket[d])' <=> job'[ticket'[d]].owner = d \/ d \in job'[ticket'[d]].viewers
      <4>1. d \notin Api
        BY RefreshAssumption
      <4> QED BY <4>1 DEF Sees
    <3> QED BY <1>3, <3>1 DEF StaffSeesItsJob
  <2>2. CASE d = c
    BY <1>4, <1>5, <1>6, <2>2 DEF j
  <2>3. CASE d # c
    <3>1. at[d] = "waiting" /\ ticket[d] \in Job
      BY <1>6, <1>8, <2>1, <2>3, Names DEF Inv, CallersInv
    <3>2. job[ticket[d]].owner = d \/ d \in job[ticket[d]].viewers
      BY <2>1, <3>1, SeesStaff DEF Inv, Promises, StaffSeesItsJob
    <3>3. ticket[d] = j => job[ticket[d]].viewers \subseteq job'[ticket[d]].viewers
      BY <1>4, <1>5, <1>6, <1>9, <2>1
    <3> QED BY <1>6, <1>7, <3>1, <3>2, <3>3
  <2> QED BY <2>2, <2>3
<1>16. AnswerIsTheJobs'
  <2>1. SUFFICES ASSUME NEW d \in Caller, answer[d] \in Replies \cup {"error"}
        PROVE  job'[ticket[d]].status \in Finished /\ job'[ticket[d]].result = answer[d]
    BY <1>3 DEF AnswerIsTheJobs
  <2>2. ticket[d] \in Job
    BY <1>8, <2>1 DEF Inv, CallersInv, Replies
  <2> QED BY <1>7, <2>1, <2>2 DEF Inv, Promises, AnswerIsTheJobs
<1>17. PrivateJobIsNotShared'
  <2>1. SUFFICES ASSUME NEW d \in Caller, ticket[d] # NoJob, job'[ticket[d]].owner \in Api \cup Sms \cup Admin
        PROVE  job'[ticket[d]].owner = d
    BY <1>3 DEF PrivateJobIsNotShared
  <2> QED BY <1>7, <1>8, <2>1 DEF Inv, Promises, PrivateJobIsNotShared
<1> QED BY <1>10, <1>11, <1>12, <1>13, <1>14, <1>15, <1>16, <1>17 DEF Inv, Promises

\* A job is created by a caller that found none to share, and had none.
LEMMA CreateKeeps ==
    ASSUME Inv, NEW c \in Caller, Create(c)
    PROVE  Inv'
<1> DEFINE r == [FreeJob EXCEPT !.status = "queued", !.owner = c]
<1>1. /\ at \in [Caller -> {"idle", "checked", "locked", "granting", "creating", "created", "failing",
                             "waiting", "answered", "gone"}]
      /\ job \in [Job -> JobRow] /\ ticket \in [Caller -> Job \cup {NoJob}] /\ lock \in Caller \cup {Nobody}
  BY DEF Inv, TypeOK
<1>2. PICK j \in Job :
        /\ job[j].status = "none" /\ job' = [job EXCEPT ![j] = r] /\ ticket' = [ticket EXCEPT ![c] = j]
  BY DEF Create
<1>3. /\ at[c] = "creating" /\ at' = [at EXCEPT ![c] = "created"]
      /\ lock' = (IF lock = c THEN Nobody ELSE lock)
      /\ UNCHANGED <<answer, seen, unlocked, cooling, faults>>
  BY DEF Create, Moves, Release
<1>4. answer[c] = "none" /\ (\A i \in Job : job[i].owner # c) /\ j # NoJob
  BY <1>3, Names DEF Inv, CallersInv, Early
<1>5. ~unlocked => lock = c /\ Joinable(c) = {}
  BY <1>3 DEF Inv, LockInv, Holding
<1>6. /\ r \in JobRow /\ r.status = "queued" /\ r.owner = c /\ r.tell = FALSE /\ r.calls = 0
  BY FreeJobTyped DEF FreeJob, JobRow, InFlight
<1> HIDE DEF r
<1>7. /\ job' \in [Job -> JobRow] /\ job'[j] = r /\ \A i \in Job : i # j => job'[i] = job[i]
      /\ at'[c] = "created" /\ ticket'[c] = j
      /\ \A d \in Caller : d # c => at'[d] = at[d] /\ ticket'[d] = ticket[d]
  BY <1>1, <1>2, <1>3, <1>6
<1>8. \A d \in Caller : ticket[d] \in Job \cup {NoJob} /\ (ticket[d] # NoJob => ticket[d] # j)
  BY <1>1, <1>2 DEF Inv, CallersInv
<1>9. TypeOK'
  <2>1. /\ at' \in [Caller -> {"idle", "checked", "locked", "granting", "creating", "created", "failing",
                                "waiting", "answered", "gone"}]
        /\ ticket' \in [Caller -> Job \cup {NoJob}] /\ lock' \in Caller \cup {Nobody}
    BY <1>1, <1>2, <1>3
  <2> QED BY <1>3, <1>7, <2>1 DEF Inv, TypeOK
<1>10. CallersInv'
  <2>1. SUFFICES ASSUME NEW d \in Caller
        PROVE  /\ at'[d] \in Early => answer[d] = "none" /\ \A i \in Job : job'[i].owner # d
               /\ ticket'[d] # NoJob => job'[ticket'[d]].status # "none"
               /\ at'[d] \in {"granting", "created", "failing", "waiting"} => ticket'[d] # NoJob
               /\ at'[d] \in {"created", "failing"} => job'[ticket'[d]].owner = d
               /\ answer[d] # "none" => ticket'[d] # NoJob
               /\ at'[d] = "granting" => d \in Staff
    BY <1>3 DEF CallersInv
  <2>2. CASE d = c
    BY <1>4, <1>6, <1>7, <2>2 DEF Early
  <2>3. CASE d # c
    <3>1. /\ at[d] \in Early => answer[d] = "none" /\ \A i \in Job : job[i].owner # d
          /\ ticket[d] # NoJob => job[ticket[d]].status # "none"
          /\ at[d] \in {"granting", "created", "failing", "waiting"} => ticket[d] # NoJob
          /\ at[d] \in {"created", "failing"} => job[ticket[d]].owner = d
          /\ answer[d] # "none" => ticket[d] # NoJob
          /\ at[d] = "granting" => d \in Staff
      BY DEF Inv, CallersInv
    <3> QED BY <1>6, <1>7, <1>8, <2>3, <3>1
  <2> QED BY <2>2, <2>3
<1>11. JobsInv'
  <2>1. ASSUME NEW i \in Job
        PROVE  /\ job'[i].status = "none" => job'[i] = FreeJob
               /\ job'[i].status # "none" => job'[i].owner \in Caller /\ ticket'[job'[i].owner] = i
               /\ job'[i].tell => job'[i].status \in Finished
               /\ job'[i].status = "queued" => job'[i].calls = 0
    <3>1. CASE i = j
      BY <1>6, <1>7, <3>1
    <3>2. CASE i # j
      BY <1>4, <1>7, <3>2 DEF Inv, JobsInv
    <3> QED BY <3>1, <3>2
  <2> QED BY <2>1 DEF JobsInv
<1>12. LockInv'
  <2>1. SUFFICES ASSUME ~unlocked, NEW d \in Caller
        PROVE  at'[d] \notin Holding
    BY <1>3 DEF LockInv, Holding
  <2>2. CASE d = c
    BY <1>7, <2>2 DEF Holding
  <2>3. CASE d # c
    BY <1>5, <1>7, <2>1, <2>3 DEF Inv, LockInv
  <2> QED BY <2>2, <2>3
<1>13. OneJobPerNumber'
  <2>1. SUFFICES ASSUME ~unlocked, NEW i \in Job, NEW k \in Job, i # k,
                        job'[i].status \in InFlight, job'[k].status \in InFlight,
                        ~job'[i].old, ~job'[k].old
        PROVE  ~(Plain(job'[i].owner) /\ Plain(job'[k].owner) /\ Token(job'[i].owner) = Token(job'[k].owner))
    BY <1>3 DEF OneJobPerNumber, MayShare
  <2>2. ASSUME NEW h \in Job, h # j, job'[h].status \in InFlight, ~job'[h].old
        PROVE  ~(Plain(c) /\ Plain(job'[h].owner) /\ Token(c) = Token(job'[h].owner))
    BY <1>5, <1>7, <2>1, <2>2 DEF Joinable, MayShare
  <2>3. CASE i = j
    BY <1>6, <1>7, <2>1, <2>2, <2>3
  <2>4. CASE k = j
    BY <1>6, <1>7, <2>1, <2>2, <2>4
  <2>5. CASE i # j /\ k # j
    BY <1>7, <2>1, <2>5 DEF Inv, Promises, OneJobPerNumber, MayShare
  <2> QED BY <2>3, <2>4, <2>5
<1>14. StaffSeesItsJob'
  <2>1. SUFFICES ASSUME ~unlocked, NEW d \in Staff, at'[d] = "waiting"
        PROVE  job'[ticket'[d]].owner = d \/ d \in job'[ticket'[d]].viewers
    <3>1. ASSUME NEW d \in Staff
          PROVE  Sees(d, ticket[d])' <=> job'[ticket'[d]].owner = d \/ d \in job'[ticket'[d]].viewers
      <4>1. d \notin Api
        BY RefreshAssumption
      <4> QED BY <4>1 DEF Sees
    <3> QED BY <1>3, <3>1 DEF StaffSeesItsJob
  <2>2. d # c /\ at[d] = "waiting" /\ ticket'[d] = ticket[d] /\ ticket[d] # NoJob
    BY <1>7, <2>1, Names DEF Inv, CallersInv
  <2>3. job[ticket[d]].owner = d \/ d \in job[ticket[d]].viewers
    BY <2>1, <2>2, SeesStaff DEF Inv, Promises, StaffSeesItsJob
  <2> QED BY <1>7, <1>8, <2>2, <2>3, Names
<1>15. AnswerIsTheJobs'
  <2>1. SUFFICES ASSUME NEW d \in Caller, answer[d] \in Replies \cup {"error"}
        PROVE  job'[ticket'[d]].status \in Finished /\ job'[ticket'[d]].result = answer[d]
    BY <1>3 DEF AnswerIsTheJobs
  <2>2. d # c /\ ticket[d] # NoJob
    BY <1>4, <2>1 DEF Inv, CallersInv, Replies
  <2> QED BY <1>7, <1>8, <2>1, <2>2 DEF Inv, Promises, AnswerIsTheJobs
<1>16. PrivateJobIsNotShared'
  <2>1. SUFFICES ASSUME NEW d \in Caller, ticket'[d] # NoJob, job'[ticket'[d]].owner \in Api \cup Sms \cup Admin
        PROVE  job'[ticket'[d]].owner = d
    BY DEF PrivateJobIsNotShared
  <2>2. CASE d = c
    BY <1>6, <1>7, <2>2
  <2>3. CASE d # c
    BY <1>7, <1>8, <2>1, <2>3 DEF Inv, Promises, PrivateJobIsNotShared
  <2> QED BY <2>2, <2>3
<1> QED BY <1>9, <1>10, <1>11, <1>12, <1>13, <1>14, <1>15, <1>16 DEF Inv, Promises

-----------------------------------------------------------------------------
\* The specification.

\* Before anyone submits there is no job.
LEMMA InitInv == Init => Inv
<1> SUFFICES ASSUME Init PROVE Inv
  OBVIOUS
<1>1. \A j \in Job : job[j] = FreeJob
  BY DEF Init
<1>2. /\ FreeJob.status = "none" /\ FreeJob.owner = Nobody /\ FreeJob.tell = FALSE
      /\ "none" \notin InFlight /\ "none" \notin Replies \cup {"error"}
  BY DEF FreeJob, InFlight, Replies
<1>3. TypeOK
  <2>1. /\ at \in [Caller -> {"idle", "checked", "locked", "granting", "creating", "created", "failing",
                              "waiting", "answered", "gone"}]
        /\ answer \in [Caller -> Results \cup {"none", "processing", "expired"}]
    BY DEF Init
  <2>2. ticket \in [Caller -> Job \cup {NoJob}] /\ seen \in [Caller -> SUBSET Staff]
    BY DEF Init
  <2>3. job \in [Job -> JobRow]
    BY FreeJobTyped DEF Init
  <2>4. /\ lock \in Caller \cup {Nobody} /\ unlocked \in BOOLEAN /\ cooling \in BOOLEAN
    BY DEF Init
  <2>5. faults \in 0..MaxFaults
    <3>1. MaxFaults \in Nat /\ faults = 0
      BY RefreshAssumption DEF Init
    <3> QED BY <3>1
  <2> QED BY <2>1, <2>2, <2>3, <2>4, <2>5 DEF TypeOK
<1>4. CallersInv
  BY <1>1, <1>2, Names DEF Init, CallersInv, Early
<1>5. JobsInv
  BY <1>1, <1>2 DEF JobsInv
<1>6. LockInv
  BY DEF Init, LockInv, Holding
<1>7. Promises
  BY <1>1, <1>2, Names DEF Init, Promises, OneJobPerNumber, StaffSeesItsJob, AnswerIsTheJobs,
                            PrivateJobIsNotShared
<1> QED BY <1>3, <1>4, <1>5, <1>6, <1>7 DEF Inv

\* Inv is an invariant.
THEOREM InvHolds == Spec => []Inv
<1>1. Init => Inv
  BY InitInv
<1>2. Inv /\ [Next]_vars => Inv'
  <2> SUFFICES ASSUME Inv, [Next]_vars PROVE Inv'
    OBVIOUS
  <2>1. ASSUME NEW c \in Caller, Submit(c) \/ Poll(c)
        PROVE  Inv'
    BY <2>1, SearchKeeps, ExpiryKeeps, JoinKeeps, GrantKeeps, CreateKeeps, EnqueueKeeps, EnqueueFailedKeeps, PollKeeps
       DEF Submit
  <2>2. ASSUME UNCHANGED <<at, ticket, answer, seen, lock, unlocked, job, faults>>, cooling' \in BOOLEAN
        PROVE  Inv'
    <3>1. /\ \A c \in Caller : CallerMoves(c)
          /\ job' \in [Job -> JobRow] /\ \A j \in Job : job'[j] = job[j]
          /\ at' \in [Caller -> {"idle", "checked", "locked", "granting", "creating", "created", "failing",
                                  "waiting", "answered", "gone"}]
          /\ answer' \in [Caller -> Results \cup {"none", "processing", "expired"}]
          /\ faults' \in 0..MaxFaults
      BY <2>2 DEF Inv, TypeOK, CallerMoves
    <3> QED BY <2>2, <3>1, LateKeeps DEF LateStep
  <2>3. CASE CooldownEnds
    BY <2>2, <2>3 DEF CooldownEnds
  <2>4. CASE UNCHANGED vars
    BY <2>2, <2>4 DEF vars, Inv, TypeOK
  <2> QED BY <2>1, <2>3, <2>4, WorkKeeps DEF Next
<1> QED BY <1>1, <1>2, PTL DEF Spec

\* The variables keep their types; no job is run twice.
THEOREM TypeCorrect == Spec => []TypeOK
BY InvHolds, PTL DEF Inv

\* As long as every submit had the lock and kept it until it had written, a number
\* has one job under way that its callers could share.
THEOREM OneJob == Spec => []OneJobPerNumber
BY InvHolds, PTL DEF Inv, Promises

\* What a caller is told is what the row of its job says.
THEOREM AnswersAreTheJobs == Spec => []AnswerIsTheJobs
BY InvHolds, PTL DEF Inv, Promises

\* As long as every submit had the lock and kept it until it had written, no
\* employee loses sight of the job it joined.
THEOREM StaffSees == Spec => []StaffSeesItsJob
BY InvHolds, PTL DEF Inv, Promises

\* The job of a token, of an inbound message and of a test is nobody else's.
THEOREM PrivateJobs == Spec => []PrivateJobIsNotShared
BY InvHolds, PTL DEF Inv, Promises

\* A row that is finished is not finished again.
LEMMA ResultStands ==
    ASSUME Inv, Next, NEW j \in Job, job[j].status \in Finished
    PROVE  job'[j].status = job[j].status /\ job'[j].result = job[j].result
<1>1. job \in [Job -> JobRow] /\ job[j] \in JobRow /\ job[j].status \notin InFlight \cup {"none"}
  BY DEF Inv, TypeOK, InFlight, Finished
<1>2. ASSUME NEW c \in Caller, Submit(c) \/ Poll(c)
      PROVE  job'[j].status = job[j].status /\ job'[j].result = job[j].result
  <2>1. CASE UNCHANGED job
    BY <2>1
  <2>2. CASE Grant(c)
    BY <1>1, <2>2 DEF Grant, JobRow
  <2>3. CASE Create(c)
    <3>1. PICK i \in Job : job[i].status = "none" /\ \E r : job' = [job EXCEPT ![i] = r]
      BY <2>3 DEF Create
    <3>2. i # j
      BY <1>1, <3>1
    <3> QED BY <1>1, <3>1, <3>2
  <2>4. CASE Enqueue(c)
    BY <1>1, <2>4 DEF Enqueue, JobRow
  <2>5. ASSUME NEW arrived \in BOOLEAN, EnqueueRaises(c, arrived)
        PROVE  job'[j].status = job[j].status /\ job'[j].result = job[j].result
    BY <1>1, <2>5 DEF EnqueueRaises, JobRow
  <2>6. CASE EnqueueFailed(c)
    <3>1. job' = [job EXCEPT ![ticket[c]] = FinishWith(ticket[c], "failed", "busy")]
      BY <2>6 DEF EnqueueFailed
    <3>2. job'[j] = job[j]
      BY <1>1, <3>1 DEF FinishWith
    <3> QED BY <3>2
  <2> QED BY <1>2, <2>1, <2>2, <2>3, <2>4, <2>5, <2>6
          DEF Submit, Precheck, TakeLock, GoOnWithoutLock, LockExpires, Join, FindNone, RequestDies, Poll
<1>3. ASSUME NEW i \in Job, Work(i) \/ GrowsOld(i) \/ GetsStuck(i)
      PROVE  job'[j].status = job[j].status /\ job'[j].result = job[j].result
  <2>1. CASE i # j
    <3>1. job'[j] = job[j]
      BY <1>1, <1>3, <2>1
         DEF Work, Take, TakeNothing, ProviderAnswers, WorkerFinishes, WorkerDies, MessageLost, Reap,
             Notify, TellLost, GrowsOld, GetsStuck
    <3> QED BY <3>1
  <2>2. CASE i = j
    <3>1. job[i] \in JobRow /\ job[i].status \in Finished /\ job[i].status \notin InFlight
      BY <1>1, <2>2
    <3>2. /\ job[i].status # "queued" /\ job[i].status # "running"
      BY <3>1 DEF InFlight
    <3>3. CASE TakeNothing(i) \/ WorkerDies(i) \/ MessageLost(i) \/ Notify(i) \/ TellLost(i)
      BY <1>1, <2>2, <3>1, <3>3 DEF TakeNothing, WorkerDies, MessageLost, Notify, TellLost, JobRow
    <3>4. ASSUME NEW reply, ProviderAnswers(i, reply)
          PROVE  job'[j].status = job[j].status /\ job'[j].result = job[j].result
      BY <1>1, <2>2, <3>4 DEF ProviderAnswers, JobRow
    <3>5. CASE WorkerFinishes(i)
      <4>1. job' = [job EXCEPT ![i] = [job[i] EXCEPT !.worker = "none", !.reply = "none"]]
        BY <3>1, <3>5 DEF WorkerFinishes, FinishWith
      <4> QED BY <1>1, <2>2, <4>1 DEF JobRow
    <3> QED BY <1>3, <3>1, <3>2, <3>3, <3>4, <3>5 DEF Work, Take, Reap, GrowsOld, GetsStuck
  <2> QED BY <2>1, <2>2
<1>4. CASE CooldownEnds
  BY <1>4 DEF CooldownEnds
<1> QED BY <1>2, <1>3, <1>4 DEF Next

\* The first result of a job stands, whoever else finishes it.
THEOREM FirstResult == Spec => FirstResultStands
<1>1. Inv /\ [Next]_vars =>
        [\A j \in Job : job[j].status \in Finished =>
            job'[j].status = job[j].status /\ job'[j].result = job[j].result]_vars
  BY ResultStands
<1> QED BY <1>1, InvHolds, PTL DEF Spec, FirstResultStands
=============================================================================
