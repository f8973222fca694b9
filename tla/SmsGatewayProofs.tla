-------------------------- MODULE SmsGatewayProofs --------------------------
(***************************************************************************)
(* Proofs about SmsGateway, for any SMS, deliveries, phones and limits: an *)
(* SMS is answered at most once, a successful result is only told when the *)
(* job ended with it, a finished job stays as it is, and a reply is given  *)
(* up only when it has been tried.                                         *)
(*                                                                         *)
(* None of them is inductive.  What carries the first three is that the    *)
(* unique constraint lets one delivery own an SMS, that a refresh job is   *)
(* created by the owner and once, and that a worker tells what it wrote.   *)
(* The last follows from the attempts that reports have read since the     *)
(* reply was last resent.                                                  *)
(***************************************************************************)
EXTENDS SmsGateway, TLAPS

\* A request that has stored the row of its SMS and is not done with it.
Owns(r) == request[r] \notin {"new", "create", "done"}

\* The duplicate guard and the unique constraint leave one owner per SMS.
OneOwner ==
    /\ \A r, q \in Request : r[1] = q[1] /\ Owns(r) /\ Owns(q) => r = q
    /\ \A r \in Request : Owns(r) => inbound[r[1]] # "none"

\* An SMS that is not at an end has no reply yet.
ReplyAtTheEnd ==
    /\ AtMostOneReply
    /\ \A m \in Sms : inbound[m] \in {"none", "received", "refreshing"} => rows[m] = 0
    /\ \A r \in Request :
        /\ request[r] = "route" => inbound[r[1]] = "received"
        /\ request[r] = "reply" => inbound[r[1]] = "ignored" /\ rows[r[1]] = 0

\* A request creates the only job of its SMS, and a worker tells what is stored.
OneJob ==
    /\ \A m \in Sms : job[m] = "none" => worker[m] = "idle" /\ answer[m] # "result"
    /\ \A m \in Sms : inbound[m] = "none" => job[m] = "none"
    /\ \A r \in Request : request[r] \in {"route", "submit"} => job[r[1]] = "none"
    /\ \A m \in Sms : worker[m] \in Finished => job[m] = worker[m]

SafetyInv == TypeOK /\ OneOwner /\ ReplyAtTheEnd /\ OneJob /\ ResultIsTheJobs

-----------------------------------------------------------------------------
\* The smaller of two numbers is one of them.
LEMMA MinOfTwo ==
    ASSUME NEW a \in Int, NEW b \in Int
    PROVE  Min({a, b}) \in {a, b} /\ Min({a, b}) <= a /\ Min({a, b}) <= b
<1>1. \E x \in {a, b} : \A y \in {a, b} : x <= y
  OBVIOUS
<1> QED
  BY <1>1 DEF Min

\* Finishing an inbound SMS leaves its state, its replies and its answer typed.
LEMMA CompletionTyped ==
    ASSUME TypeOK, NEW m \in Sms, CompleteInbound(m, "none") \/ CompleteInbound(m, "fixed")
               \/ CompleteInbound(m, "immediate") \/ CompleteInbound(m, "result")
               \/ CompleteInbound(m, "error")
    PROVE  /\ inbound' \in [Sms -> {"none", "received", "refreshing", "processed", "ignored"}]
           /\ rows' \in [Sms -> Nat]
           /\ answer' \in [Sms -> {"none", "fixed", "immediate", "result", "error"}]
           /\ out' \in [Sms -> {"none", "queued", "claimed", "sent", "dead"}]
BY DEF TypeOK, CompleteInbound, QueueReply, smsVars

-----------------------------------------------------------------------------
\* Types.

\* A step of a request keeps the types.
LEMMA RequestTyped ==
    ASSUME TypeOK, NEW r \in Request, RequestStep(r)
    PROVE  TypeOK'
<1> USE DEF claimVars, jobVars, deviceVars, Goto
<1>0. r[1] \in Sms
  BY DEF Request
<1>1. CASE Arrive(r)
  BY <1>1 DEF Arrive, TypeOK, smsVars
<1>2. CASE Store(r)
  BY <1>0, <1>2 DEF Store, TypeOK
<1>3. CASE FinishAtOnce(r)
  BY <1>0, <1>3 DEF FinishAtOnce, TypeOK
<1>4. CASE FixedReply(r)
  BY <1>0, <1>4 DEF FixedReply, QueueReply, TypeOK
<1>5. CASE MarkRefreshing(r)
  BY <1>0, <1>5 DEF MarkRefreshing, TypeOK
<1>6. CASE AnswerAtOnce(r)
  BY <1>0, <1>6, CompletionTyped DEF AnswerAtOnce, TypeOK
<1>7. CASE CreateJob(r)
  BY <1>0, <1>7 DEF CreateJob, TypeOK, smsVars, Finished
<1>8. CASE Enqueue(r)
  BY <1>0, <1>8 DEF Enqueue, TypeOK, smsVars
<1>9. CASE EnqueueFails(r)
  BY <1>0, <1>9, LimitsAssumption DEF EnqueueFails, Fault, TypeOK, smsVars
<1>10. CASE FailUnsent(r)
  BY <1>0, <1>10 DEF FailUnsent, FinishJob, TypeOK, smsVars, Finished
<1>11. CASE TellBusy(r)
  BY <1>0, <1>11, CompletionTyped DEF TellBusy, TypeOK
<1>12. CASE RequestDies(r)
  BY <1>12, LimitsAssumption DEF RequestDies, Fault, TypeOK, smsVars
<1> QED
  BY <1>1, <1>2, <1>3, <1>4, <1>5, <1>6, <1>7, <1>8, <1>9, <1>10, <1>11, <1>12
  DEF RequestStep, RequestGoesOn

\* A step of a refresh job keeps the types.
LEMMA JobTyped ==
    ASSUME TypeOK, NEW m \in Sms, JobStep(m)
    PROVE  TypeOK'
<1> USE DEF claimVars, deviceVars, Finished
<1>1. CASE TakeJob(m)
  BY <1>1 DEF TakeJob, TypeOK, smsVars
<1>2. CASE RunEnds(m)
  BY <1>2 DEF RunEnds, FinishJob, TypeOK, smsVars
<1>3. CASE WorkerNotifies(m)
  BY <1>3, CompletionTyped DEF WorkerNotifies, TypeOK
<1>4. CASE ReaperNotifies(m)
  BY <1>4, CompletionTyped DEF ReaperNotifies, TypeOK
<1>5. CASE Reap(m)
  BY <1>5 DEF Reap, TypeOK, smsVars
<1>6. CASE Sweep(m)
  BY <1>6, CompletionTyped DEF Sweep, TypeOK, jobVars
<1>7. CASE WorkerDies(m)
  BY <1>7, LimitsAssumption DEF WorkerDies, Fault, TypeOK, smsVars
<1>8. CASE ReaperDies(m)
  BY <1>8, LimitsAssumption DEF ReaperDies, Fault, TypeOK, smsVars
<1>9. CASE MessageLost(m)
  BY <1>9, LimitsAssumption DEF MessageLost, Fault, TypeOK, smsVars
<1> QED
  BY <1>1, <1>2, <1>3, <1>4, <1>5, <1>6, <1>7, <1>8, <1>9 DEF JobStep, JobGoesOn

\* A step of the outbox or of a phone keeps the types.
LEMMA OutboxTyped ==
    ASSUME TypeOK, OutboxStep
    PROVE  TypeOK'
<1> USE DEF smsVars, claimVars, jobVars
<1>1. ASSUME NEW d \in Device, Claim(d)
      PROVE  TypeOK'
  <2>1. PICK mine \in SUBSET Sms :
           /\ out' = [m \in Sms |-> CASE m \in mine -> "claimed"
                                      [] m \in {n \in Sms : Unclaimed(n)} \ mine -> "queued"
                                      [] OTHER -> out[m]]
           /\ attempts' = [m \in Sms |-> attempts[m] + IF m \in mine THEN 1 ELSE 0]
           /\ claims' = [m \in Sms |-> claims[m] + IF m \in mine THEN 1 ELSE 0]
           /\ \/ phone' = phone \cup {<<d, m>> : m \in mine} /\ UNCHANGED faults
              \/ Fault /\ UNCHANGED phone
    BY <1>1, Zenon DEF Claim, kSubset
  <2>2. out' \in [Sms -> {"none", "queued", "claimed", "sent", "dead"}]
    BY <2>1 DEF TypeOK
  <2>3. attempts' \in [Sms -> Nat] /\ claims' \in [Sms -> Nat]
    BY <2>1 DEF TypeOK
  <2>4. phone' \subseteq Device \X Sms /\ faults' \in 0..MaxFaults
    BY <2>1, LimitsAssumption DEF TypeOK, Fault
  <2> QED
    BY <1>1, <2>2, <2>3, <2>4 DEF Claim, TypeOK
<1>2. ASSUME NEW d \in Device, NEW m \in Sms, PhoneReports(d, m)
      PROVE  TypeOK'
  BY <1>2 DEF PhoneReports, TypeOK, Report, NotRead
<1>3. ASSUME NEW d \in Device, NEW m \in Sms, PhoneDies(d, m)
      PROVE  TypeOK'
  BY <1>3, LimitsAssumption DEF PhoneDies, Fault, TypeOK
<1>4. ASSUME NEW d \in Device, NewDay(d)
      PROVE  TypeOK'
  BY <1>4 DEF NewDay, TypeOK
<1>5. ASSUME NEW d \in Device, Reactivate(d)
      PROVE  TypeOK'
  BY <1>5, LimitsAssumption DEF Reactivate, TypeOK
<1>6. ASSUME NEW m \in Sms, ClaimExpires(m)
      PROVE  TypeOK'
  BY <1>6, LimitsAssumption DEF ClaimExpires, Fault, TypeOK, deviceVars
<1>7. ASSUME NEW m \in Sms, Resend(m)
      PROVE  TypeOK'
  <2>1. /\ out' = [out EXCEPT ![m] = "queued"] /\ late' = [late EXCEPT ![m] = FALSE]
        /\ claims' = [claims EXCEPT ![m] = 0] /\ attempts' = [attempts EXCEPT ![m] = 0]
        /\ overtaken' = [overtaken EXCEPT ![m] = HalfApplied(m)] /\ HalfApplied(m) \in BOOLEAN
        /\ resends < MaxResends /\ resends' = resends + 1
        /\ UNCHANGED <<inbound, rows, answer, request, jobVars, deviceVars, faults>>
    BY <1>7 DEF Resend, Resends, HalfApplied
  <2>2. resends' \in 0..MaxResends
    BY <2>1, LimitsAssumption DEF TypeOK
  <2> QED
    BY <2>1, <2>2 DEF TypeOK, deviceVars
<1>8. ASSUME NEW rep \in reports, ApplySent(rep)
      PROVE  TypeOK'
  <2>1. rep.from \in Device /\ rep.sms \in Sms
    BY DEF TypeOK, Report
  <2> QED
    BY <1>8, <2>1, LimitsAssumption DEF ApplySent, TypeOK
<1>9. ASSUME NEW rep \in reports, ReadFailed(rep)
      PROVE  TypeOK'
  BY <1>9 DEF ReadFailed, TypeOK, Report
<1>10. ASSUME NEW rep \in reports, ApplyFailed(rep)
       PROVE  TypeOK'
  <2>1. rep.from \in Device /\ rep.sms \in Sms
    BY DEF TypeOK, Report
  <2>2. failures[rep.from] + 1 \in Nat
    BY <2>1, LimitsAssumption DEF TypeOK
  <2>3. Min({failures[rep.from] + 1, PauseAfter}) \in 0..PauseAfter
    <3> DEFINE n == failures[rep.from] + 1
    <3>1. n \in Nat /\ n \in Int /\ PauseAfter \in Nat /\ PauseAfter \in Int
      BY <2>2, LimitsAssumption
    <3> HIDE DEF n
    <3>2. Min({n, PauseAfter}) \in {n, PauseAfter} /\ Min({n, PauseAfter}) <= PauseAfter
      BY <3>1, MinOfTwo
    <3>3. Min({n, PauseAfter}) \in 0..PauseAfter
      BY <3>1, <3>2
    <3> QED
      BY <3>3 DEF n
  <2>4. AfterFailure(rep.read) \in {"dead", "queued"}
    BY DEF AfterFailure
  <2>5. out' \in [Sms -> {"none", "queued", "claimed", "sent", "dead"}]
    BY <1>10, <2>1, <2>4 DEF ApplyFailed, TypeOK
  <2>6. failures' \in [Device -> 0..PauseAfter]
    BY <1>10, <2>1, <2>3 DEF ApplyFailed, TypeOK
  <2>7. paused' \in [Device -> BOOLEAN]
    BY <1>10, <2>1 DEF ApplyFailed, TypeOK
  <2> QED
    BY <1>10, <2>1, <2>5, <2>6, <2>7 DEF ApplyFailed, TypeOK
<1>11. ASSUME NEW rep \in reports, ReportLost(rep)
       PROVE  TypeOK'
  BY <1>11, LimitsAssumption DEF ReportLost, Fault, TypeOK
<1> QED
  BY <1>1, <1>2, <1>3, <1>4, <1>5, <1>6, <1>7, <1>8, <1>9, <1>10, <1>11
  DEF OutboxStep, DeviceStep, ReportStep

-----------------------------------------------------------------------------
\* One owner, one reply, one job.

\* An owner stays the only one when it moves on or stops.
LEMMA RequestKeepsOwner ==
    ASSUME SafetyInv, NEW r \in Request, RequestStep(r)
    PROVE  OneOwner'
<1> USE DEF Goto
<1>0. r[1] \in Sms
  BY DEF Request
<1>1. /\ request' = [request EXCEPT ![r] = request'[r]]
      /\ request' \in [Request -> {"new", "create", "route", "reply", "submit", "enqueue",
                                  "unsent", "tell", "done"}]
  <2>1. \E step : request' = [request EXCEPT ![r] = step]
    BY DEF RequestStep, RequestGoesOn, Arrive, Store, FinishAtOnce, FixedReply, MarkRefreshing,
       AnswerAtOnce, CreateJob, Enqueue, EnqueueFails, FailUnsent, TellBusy, RequestDies
  <2>2. TypeOK'
    BY RequestTyped DEF SafetyInv
  <2> QED
    BY <2>1, <2>2 DEF SafetyInv, TypeOK
<1>2. \A m \in Sms : inbound[m] # "none" => inbound'[m] # "none"
  BY <1>0 DEF RequestStep, RequestGoesOn, Arrive, Store, FinishAtOnce, FixedReply,
     MarkRefreshing, AnswerAtOnce, CreateJob, Enqueue, EnqueueFails, FailUnsent, TellBusy,
     RequestDies, SafetyInv, TypeOK, CompleteInbound, smsVars
<1>3. CASE Owns(r) \/ ~Owns(r)'
  BY <1>0, <1>1, <1>2, <1>3 DEF SafetyInv, OneOwner, Owns, TypeOK, Request
<1>4. CASE ~Owns(r) /\ Owns(r)'
  <2>1. Store(r) /\ inbound[r[1]] = "none" /\ inbound' = [inbound EXCEPT ![r[1]] = "received"]
    BY <1>1, <1>4 DEF RequestStep, RequestGoesOn, Arrive, Store, FinishAtOnce, FixedReply,
       MarkRefreshing, AnswerAtOnce, CreateJob, Enqueue, EnqueueFails, FailUnsent, TellBusy,
       RequestDies, Owns, SafetyInv, TypeOK
  <2>2. \A q \in Request : q[1] = r[1] => ~Owns(q)
    BY <2>1 DEF SafetyInv, OneOwner
  <2>3. inbound'[r[1]] = "received"
    BY <1>0, <2>1 DEF SafetyInv, TypeOK
  <2> QED
    BY <1>1, <1>2, <1>4, <2>2, <2>3 DEF SafetyInv, OneOwner, Owns, TypeOK, Request
<1> QED
  BY <1>3, <1>4

\* A request writes at most one reply to its message.
LEMMA RequestKeepsReplies ==
    ASSUME SafetyInv, NEW r \in Request, RequestStep(r)
    PROVE  ReplyAtTheEnd'
<1> USE DEF Goto, SafetyInv, TypeOK, ReplyAtTheEnd, AtMostOneReply
<1>0. r[1] \in Sms /\ \A q \in Request : q[1] \in Sms
  BY DEF Request
<1>a. \A q \in Request : q # r /\ q[1] = r[1] /\ Owns(r) => request[q] \notin {"route", "reply"}
  BY DEF OneOwner, Owns
<1>1. CASE Arrive(r)
  BY <1>0, <1>1 DEF Arrive, smsVars
<1>2. CASE Store(r)
  <2>1. inbound[r[1]] = "none" => \A q \in Request : q[1] = r[1] => ~Owns(q)
    BY DEF OneOwner
  <2> QED
    BY <1>0, <1>2, <2>1 DEF Store, Owns
<1>3. CASE FinishAtOnce(r)
  BY <1>0, <1>a, <1>3 DEF FinishAtOnce, Owns
<1>4. CASE FixedReply(r)
  <2>1. /\ \A q \in Request : q # r => request'[q] = request[q]
        /\ request'[r] = "done" /\ inbound' = inbound
        /\ inbound[r[1]] = "ignored" /\ rows[r[1]] = 0
    BY <1>4 DEF FixedReply
  <2>2. rows' = rows \/ rows' = [rows EXCEPT ![r[1]] = @ + 1]
    BY <1>4 DEF FixedReply, QueueReply
  <2>3. \A q \in Request : q # r /\ q[1] = r[1] => request[q] \notin {"route", "reply"}
    BY <1>a, <1>4 DEF FixedReply, Owns
  <2> QED
    BY <1>0, <2>1, <2>2, <2>3
<1>5. CASE MarkRefreshing(r)
  BY <1>0, <1>a, <1>5 DEF MarkRefreshing, Owns
<1>6. CASE AnswerAtOnce(r)
  <2>1. CASE inbound[r[1]] = "refreshing"
    <3>1. /\ inbound' = [inbound EXCEPT ![r[1]] = "processed"]
          /\ rows' = rows \/ rows' = [rows EXCEPT ![r[1]] = @ + 1]
          /\ request' = [request EXCEPT ![r] = "done"]
      BY <1>6, <2>1 DEF AnswerAtOnce, CompleteInbound, QueueReply
    <3>2. rows[r[1]] = 0 /\ \A q \in Request : q[1] = r[1] => request[q] \notin {"route", "reply"}
      BY <1>0, <2>1
    <3> QED
      BY <1>0, <2>1, <3>1, <3>2
  <2>2. CASE inbound[r[1]] # "refreshing"
    BY <1>0, <1>6, <2>2 DEF AnswerAtOnce, CompleteInbound, smsVars
  <2> QED
    BY <2>1, <2>2
<1>7. CASE CreateJob(r)
  BY <1>0, <1>7 DEF CreateJob, smsVars
<1>8. CASE Enqueue(r)
  BY <1>0, <1>8 DEF Enqueue, smsVars
<1>9. CASE EnqueueFails(r)
  BY <1>0, <1>9 DEF EnqueueFails, smsVars
<1>10. CASE FailUnsent(r)
  BY <1>0, <1>10 DEF FailUnsent, smsVars
<1>11. CASE TellBusy(r)
  <2>1. CASE inbound[r[1]] = "refreshing"
    <3>1. /\ inbound' = [inbound EXCEPT ![r[1]] = "processed"]
          /\ rows' = rows \/ rows' = [rows EXCEPT ![r[1]] = @ + 1]
          /\ request' = [request EXCEPT ![r] = "done"]
      BY <1>11, <2>1 DEF TellBusy, CompleteInbound, QueueReply
    <3>2. rows[r[1]] = 0 /\ \A q \in Request : q[1] = r[1] => request[q] \notin {"route", "reply"}
      BY <1>0, <2>1
    <3> QED
      BY <1>0, <2>1, <3>1, <3>2
  <2>2. CASE inbound[r[1]] # "refreshing"
    BY <1>0, <1>11, <2>2 DEF TellBusy, CompleteInbound, smsVars
  <2> QED
    BY <2>1, <2>2
<1>12. CASE RequestDies(r)
  BY <1>0, <1>12 DEF RequestDies, smsVars
<1> QED
  BY <1>1, <1>2, <1>3, <1>4, <1>5, <1>6, <1>7, <1>8, <1>9, <1>10, <1>11, <1>12
  DEF RequestStep, RequestGoesOn

\* A request leaves a finished job alone.
LEMMA RequestKeepsJob ==
    ASSUME SafetyInv, NEW r \in Request, RequestStep(r)
    PROVE  OneJob' /\ ResultIsTheJobs' /\ \A m \in Sms : job[m] \in Finished => job'[m] = job[m]
<1> USE DEF Goto, SafetyInv, TypeOK, OneJob, ResultIsTheJobs, Finished, jobVars
<1>0. r[1] \in Sms /\ \A q \in Request : q[1] \in Sms
  BY DEF Request
<1>a. \A q \in Request : q # r /\ q[1] = r[1] /\ Owns(r) => request[q] \notin {"route", "submit"}
  BY DEF OneOwner, Owns
<1>1. CASE Arrive(r)
  BY <1>0, <1>1 DEF Arrive, smsVars
<1>2. CASE Store(r)
  BY <1>0, <1>2 DEF Store
<1>3. CASE FinishAtOnce(r)
  BY <1>0, <1>3 DEF FinishAtOnce
<1>4. CASE FixedReply(r)
  BY <1>0, <1>4 DEF FixedReply, QueueReply
<1>5. CASE MarkRefreshing(r)
  BY <1>0, <1>5 DEF MarkRefreshing
<1>6. CASE AnswerAtOnce(r)
  BY <1>0, <1>6 DEF AnswerAtOnce, CompleteInbound, QueueReply, smsVars
<1>7. CASE CreateJob(r)
  <2>1. inbound[r[1]] # "none"
    BY <1>7 DEF CreateJob, OneOwner, Owns
  <2> QED
    BY <1>0, <1>a, <1>7, <2>1 DEF CreateJob, smsVars, Owns
<1>8. CASE Enqueue(r)
  BY <1>0, <1>8 DEF Enqueue, smsVars
<1>9. CASE EnqueueFails(r)
  BY <1>0, <1>9 DEF EnqueueFails, smsVars
<1>10. CASE FailUnsent(r)
  <2>1. inbound[r[1]] # "none"
    BY <1>10 DEF FailUnsent, OneOwner, Owns
  <2> QED
    BY <1>0, <1>a, <1>10, <2>1 DEF FailUnsent, FinishJob, smsVars, Owns
<1>11. CASE TellBusy(r)
  BY <1>0, <1>11 DEF TellBusy, CompleteInbound, QueueReply, smsVars
<1>12. CASE RequestDies(r)
  BY <1>0, <1>12 DEF RequestDies, smsVars
<1> QED
  BY <1>1, <1>2, <1>3, <1>4, <1>5, <1>6, <1>7, <1>8, <1>9, <1>10, <1>11, <1>12
  DEF RequestStep, RequestGoesOn

\* The worker, the reaper and the sweep all finish an SMS through the one update
\* that admits one of them.
LEMMA CompletionKeepsReplies ==
    ASSUME SafetyInv, NEW m \in Sms, NEW text, CompleteInbound(m, text), UNCHANGED request
    PROVE  OneOwner' /\ ReplyAtTheEnd'
<1> USE DEF SafetyInv, TypeOK, OneOwner, ReplyAtTheEnd, AtMostOneReply, Owns
<1>0. \A q \in Request : q[1] \in Sms
  BY DEF Request
<1>1. CASE inbound[m] = "refreshing"
  BY <1>0, <1>1 DEF CompleteInbound, QueueReply
<1>2. CASE inbound[m] # "refreshing"
  BY <1>0, <1>2 DEF CompleteInbound, smsVars
<1> QED
  BY <1>1, <1>2

\* A step of a job writes at most one reply to its message.
LEMMA JobKeepsReplies ==
    ASSUME SafetyInv, NEW m \in Sms, JobStep(m)
    PROVE  OneOwner' /\ ReplyAtTheEnd'
<1>1. CASE UNCHANGED <<inbound, rows, request>>
  BY <1>1 DEF SafetyInv, OneOwner, ReplyAtTheEnd, AtMostOneReply, Owns
<1>2. ASSUME NEW text, CompleteInbound(m, text), UNCHANGED request
      PROVE  OneOwner' /\ ReplyAtTheEnd'
  BY <1>2, CompletionKeepsReplies
<1> QED
  BY <1>1, <1>2 DEF JobStep, JobGoesOn, TakeJob, RunEnds, WorkerNotifies, ReaperNotifies, Reap,
     Sweep, WorkerDies, ReaperDies, MessageLost, smsVars

\* A step of a job leaves a finished job alone.
LEMMA JobKeepsJob ==
    ASSUME SafetyInv, NEW m \in Sms, JobStep(m)
    PROVE  OneJob' /\ ResultIsTheJobs' /\ \A n \in Sms : job[n] \in Finished => job'[n] = job[n]
<1> USE DEF SafetyInv, TypeOK, OneJob, ResultIsTheJobs, Finished
<1>0. \A q \in Request : q[1] \in Sms
  BY DEF Request
<1>1. CASE TakeJob(m)
  BY <1>0, <1>1 DEF TakeJob, smsVars
<1>2. CASE RunEnds(m)
  BY <1>0, <1>2 DEF RunEnds, FinishJob, smsVars
<1>3. CASE WorkerNotifies(m)
  BY <1>0, <1>3 DEF WorkerNotifies, CompleteInbound, QueueReply, smsVars
<1>4. CASE ReaperNotifies(m)
  BY <1>0, <1>4 DEF ReaperNotifies, CompleteInbound, QueueReply, smsVars
<1>5. CASE Reap(m)
  BY <1>0, <1>5 DEF Reap, smsVars
<1>6. CASE Sweep(m)
  BY <1>0, <1>6 DEF Sweep, CompleteInbound, QueueReply, smsVars, jobVars
<1>7. CASE WorkerDies(m)
  BY <1>0, <1>7 DEF WorkerDies, smsVars
<1>8. CASE ReaperDies(m)
  BY <1>0, <1>8 DEF ReaperDies, smsVars
<1>9. CASE MessageLost(m)
  BY <1>0, <1>9 DEF MessageLost, smsVars
<1> QED
  BY <1>1, <1>2, <1>3, <1>4, <1>5, <1>6, <1>7, <1>8, <1>9 DEF JobStep, JobGoesOn

\* The outbox moves replies, and touches neither the SMS nor its job.
LEMMA OutboxKeeps ==
    ASSUME OutboxStep
    PROVE  UNCHANGED <<inbound, rows, answer, request, job, worker>>
BY DEF OutboxStep, DeviceStep, ReportStep, Claim, PhoneReports, PhoneDies, NewDay, Reactivate,
   ClaimExpires, Resend, Resends, ApplySent, ReadFailed, ApplyFailed, ReportLost, smsVars, claimVars, jobVars

\* Before anything is delivered there is no reply and no job.
LEMMA InitSafety == Init => SafetyInv
BY LimitsAssumption DEF Init, SafetyInv, TypeOK, OneOwner, Owns, ReplyAtTheEnd, AtMostOneReply,
   OneJob, ResultIsTheJobs, Finished, Request

\* Every step keeps the invariant and every finished job.
LEMMA NextSafety ==
    ASSUME SafetyInv, [Next]_vars
    PROVE  SafetyInv' /\ \A m \in Sms : job[m] \in Finished => job'[m] = job[m]
<1>1. ASSUME NEW r \in Request, RequestStep(r)
      PROVE  SafetyInv' /\ \A m \in Sms : job[m] \in Finished => job'[m] = job[m]
  <2>1. TypeOK'
    BY <1>1, RequestTyped DEF SafetyInv
  <2> QED
    BY <1>1, <2>1, RequestKeepsOwner, RequestKeepsReplies, RequestKeepsJob DEF SafetyInv
<1>2. ASSUME NEW m \in Sms, JobStep(m)
      PROVE  SafetyInv' /\ \A n \in Sms : job[n] \in Finished => job'[n] = job[n]
  <2>1. TypeOK'
    BY <1>2, JobTyped DEF SafetyInv
  <2> QED
    BY <1>2, <2>1, JobKeepsReplies, JobKeepsJob DEF SafetyInv
<1>3. CASE OutboxStep
  <2>1. TypeOK'
    BY <1>3, OutboxTyped DEF SafetyInv
  <2>2. UNCHANGED <<inbound, rows, answer, request, job, worker>>
    BY <1>3, OutboxKeeps
  <2> QED
    BY <2>1, <2>2 DEF SafetyInv, OneOwner, Owns, ReplyAtTheEnd, AtMostOneReply, OneJob,
       ResultIsTheJobs, Finished
<1>4. CASE UNCHANGED vars
  BY <1>4 DEF vars, smsVars, claimVars, jobVars, deviceVars, SafetyInv, TypeOK, OneOwner, Owns,
     ReplyAtTheEnd, AtMostOneReply, OneJob, ResultIsTheJobs, Finished
<1> QED
  BY <1>1, <1>2, <1>3, <1>4 DEF Next

\* SafetyInv is an invariant.
LEMMA Safety == Spec => []SafetyInv
<1>1. Init => SafetyInv
  BY InitSafety
<1>2. SafetyInv /\ [Next]_vars => SafetyInv'
  BY NextSafety
<1> QED
  BY <1>1, <1>2, PTL DEF Spec

-----------------------------------------------------------------------------
\* Attempts are claims: those counted in a row, and those a report has read since
\* the reply was last resent.
TriedInv ==
    /\ DeadLetterWasTried
    /\ \A m \in Sms : attempts[m] <= claims[m]
    /\ \A rep \in reports :
          rep.read # NotRead /\ ~overtaken[rep.sms] => rep.read <= claims[rep.sms]

\* A report gives a reply up on the attempts it has read, and claims only grow
\* until the reply is resent.
LEMMA OutboxKeepsTries ==
    ASSUME TypeOK, TriedInv, OutboxStep
    PROVE  TriedInv'
<1> USE DEF TypeOK, TriedInv, DeadLetterWasTried, smsVars, claimVars, jobVars, deviceVars
<1>0. \A rep \in reports : rep.sms \in Sms /\ rep.from \in Device /\ rep.read \in Int
  BY DEF Report
<1>1. ASSUME NEW d \in Device, Claim(d)
      PROVE  TriedInv'
  <2>1. PICK mine \in SUBSET Sms :
           /\ out' = [m \in Sms |-> CASE m \in mine -> "claimed"
                                      [] m \in {n \in Sms : Unclaimed(n)} \ mine -> "queued"
                                      [] OTHER -> out[m]]
           /\ attempts' = [m \in Sms |-> attempts[m] + IF m \in mine THEN 1 ELSE 0]
           /\ claims' = [m \in Sms |-> claims[m] + IF m \in mine THEN 1 ELSE 0]
    BY <1>1, Zenon DEF Claim, kSubset
  <2>0. overtaken' = overtaken
    BY <1>1 DEF Claim
  <2>2. \A m \in Sms : /\ claims[m] <= claims'[m]
                       /\ attempts'[m] <= claims'[m]
                       /\ out'[m] = "dead" => out[m] = "dead"
    BY <2>1
  <2>3. reports' = reports
    BY <1>1 DEF Claim
  <2>4. claims' \in [Sms -> Nat]
    BY <2>1
  <2> QED
    BY <1>0, <2>0, <2>2, <2>3, <2>4, AttemptsAssumption
<1>2. ASSUME NEW d \in Device, NEW m \in Sms, PhoneReports(d, m)
      PROVE  TriedInv'
  BY <1>2 DEF PhoneReports, NotRead
<1>3. ASSUME NEW m \in Sms, Resend(m)
      PROVE  TriedInv'
  <2>1. /\ out' = [out EXCEPT ![m] = "queued"]
        /\ claims' = [claims EXCEPT ![m] = 0] /\ attempts' = [attempts EXCEPT ![m] = 0]
        /\ overtaken' = [overtaken EXCEPT ![m] = HalfApplied(m)] /\ reports' = reports
    BY <1>3 DEF Resend, Resends
  <2>2. DeadLetterWasTried' /\ \A n \in Sms : attempts'[n] <= claims'[n]
    BY <2>1
  <2>3. ASSUME NEW rep \in reports, rep.read # NotRead, ~overtaken'[rep.sms]
        PROVE  rep.read <= claims'[rep.sms]
    <3>1. CASE rep.sms = m
      BY <1>0, <2>1, <2>3, <3>1 DEF HalfApplied
    <3>2. CASE rep.sms # m
      BY <1>0, <2>1, <2>3, <3>2
    <3> QED
      BY <3>1, <3>2
  <2> QED
    BY <2>1, <2>2, <2>3
<1>4. ASSUME NEW rep \in reports, ApplySent(rep)
      PROVE  TriedInv'
  BY <1>0, <1>4 DEF ApplySent
<1>5. ASSUME NEW rep \in reports, ReadFailed(rep)
      PROVE  TriedInv'
  <2>1. \A new \in reports' : new \in reports \/ (new.sms = rep.sms /\ new.read = attempts[rep.sms])
    BY <1>5 DEF ReadFailed, Report
  <2>2. UNCHANGED <<out, attempts, claims, overtaken>>
    BY <1>5 DEF ReadFailed
  <2> QED
    BY <1>0, <2>1, <2>2
<1>6. ASSUME NEW rep \in reports, ApplyFailed(rep)
      PROVE  TriedInv'
  <2>1. rep.read >= MaxAttempts /\ ~overtaken[rep.sms] => claims[rep.sms] >= MaxAttempts
    BY <1>0, AttemptsAssumption DEF NotRead
  <2>2. out' = [out EXCEPT ![rep.sms] = IF rep.read >= MaxAttempts THEN "dead" ELSE "queued"]
    BY <1>6 DEF ApplyFailed, AfterFailure, GivesUp
  <2>3. UNCHANGED <<attempts, claims, overtaken>> /\ reports' \subseteq reports
    BY <1>6 DEF ApplyFailed
  <2> QED
    BY <1>0, <2>1, <2>2, <2>3
<1>7. CASE /\ UNCHANGED <<out, attempts, claims, overtaken>>
           /\ reports' \subseteq reports
  BY <1>7
<1> QED
  BY <1>1, <1>2, <1>3, <1>4, <1>5, <1>6, <1>7 DEF OutboxStep, DeviceStep, ReportStep, PhoneDies,
     NewDay, Reactivate, ClaimExpires, ReportLost

\* A new reply is queued, and nothing else outside the outbox touches it.
LEMMA OthersKeepTries ==
    ASSUME TypeOK, TriedInv,
           \/ \E r \in Request : RequestStep(r)
           \/ \E m \in Sms : JobStep(m)
           \/ UNCHANGED vars
    PROVE  TriedInv'
<1> USE DEF smsVars, claimVars, jobVars, deviceVars
<1>1. UNCHANGED <<attempts, claims, overtaken, reports>>
  BY DEF vars, RequestStep, RequestGoesOn, Arrive, Store, FinishAtOnce, FixedReply, MarkRefreshing,
     AnswerAtOnce, CreateJob, Enqueue, EnqueueFails, FailUnsent, TellBusy, RequestDies, JobStep,
     JobGoesOn, TakeJob, RunEnds, WorkerNotifies, ReaperNotifies, Reap, Sweep, WorkerDies,
     ReaperDies, MessageLost
<1>2. out' = out \/ \E m \in Sms : out' = [out EXCEPT ![m] = "queued"]
  <2>1. \A r \in Request : r[1] \in Sms
    BY DEF Request
  <2> QED
    BY <2>1 DEF vars, RequestStep, RequestGoesOn, Arrive, Store, FinishAtOnce, FixedReply,
       MarkRefreshing, AnswerAtOnce, CreateJob, Enqueue, EnqueueFails, FailUnsent, TellBusy,
       RequestDies, JobStep, JobGoesOn, TakeJob, RunEnds, WorkerNotifies, ReaperNotifies, Reap,
       Sweep, WorkerDies, ReaperDies, MessageLost, CompleteInbound, QueueReply
<1> QED
  BY <1>1, <1>2 DEF TriedInv, DeadLetterWasTried, TypeOK

-----------------------------------------------------------------------------
\* Every reachable state is typed.
THEOREM TypeCorrect == Spec => []TypeOK
<1>1. SafetyInv => TypeOK
  BY DEF SafetyInv
<1> QED
  BY <1>1, Safety, PTL

\* However often an SMS is delivered and whoever finishes it, it has at most one
\* reply.
THEOREM OneReply == Spec => []AtMostOneReply
<1>1. SafetyInv => AtMostOneReply
  BY DEF SafetyInv, ReplyAtTheEnd
<1> QED
  BY <1>1, Safety, PTL

\* A successful result is told only of a job that ended with it.
THEOREM ToldResult == Spec => []ResultIsTheJobs
<1>1. SafetyInv => ResultIsTheJobs
  BY DEF SafetyInv
<1> QED
  BY <1>1, Safety, PTL

\* Neither the worker, the reaper nor a failed enqueue changes a finished job.
THEOREM JobsStayFinished == Spec => FinishedForGood
<1>1. SafetyInv /\ [Next]_vars => [\A m \in Sms : job[m] \in Finished => job'[m] = job[m]]_vars
  BY NextSafety
<1> QED
  BY <1>1, Safety, PTL DEF Spec, FinishedForGood

\* A reply is given up only after it was claimed as often as it may be since it
\* was last resent, unless a report that had read it before writes it after.
THEOREM DeadLettersWereTried == Spec => []DeadLetterWasTried
<1>1. Init => TriedInv
  BY DEF Init, TriedInv, DeadLetterWasTried
<1>2. TypeOK /\ TriedInv /\ [Next]_vars => TriedInv'
  BY OutboxKeepsTries, OthersKeepTries DEF Next
<1>3. TriedInv => DeadLetterWasTried
  BY DEF TriedInv
<1> QED
  BY <1>1, <1>2, <1>3, TypeCorrect, PTL DEF Spec
=============================================================================
