--------------------------- MODULE ProviderProofs ---------------------------
(***************************************************************************)
(* Proofs about the provider gateway: the charge of a sale (ChargeSale)    *)
(* and the session of the provider it is sent in (ProviderSession).  The   *)
(* two modules share no state; their proofs stand one after the other.     *)
(*                                                                         *)
(* Of ChargeSale: Control says which actors can touch a sale together: it  *)
(* is what the claim under the sale's lock, the ten-minute rule and the    *)
(* guards of the management pages buy.  The safety properties follow.      *)
(*                                                                         *)
(* Of ProviderSession: the holder of the login lock is the only one who    *)
(* may log in, and under the lock the counter of logins tells it whether   *)
(* the stored session is the one it was refused with.                      *)
(***************************************************************************)
EXTENDS ChargeSale, ProviderSession, FiniteSetTheorems, TLAPS

\* No worker is charging s and none can start to: its job is past the queue.
NobodyCharging(s) ==
    /\ job[s] \notin {"none", "queued"}
    /\ \A w \in Worker : wsale[w] = s => ~Charging(w)

SaleInv(s) ==
    /\ sale[s] = "none" <=> job[s] = "none"
    /\ sale[s] # "live" => status[s] \notin OpenStatuses
    /\ job[s] = "queued" => sale[s] = "live" /\ status[s] = "processing"
    /\ job[s] \in {"none", "queued"} => sent[s] = 0 /\ ~stale[s]
    /\ job[s] = "none" =>
         messages[s] = 0 /\ undoneBy[s] = "nobody" /\ status[s] = "blank"
    /\ sent[s] = 0 => provider[s] = "none"
    /\ sent[s] <= 1
    /\ deducted[s] <=> sale[s] \in {"live", "cancelled"}
    /\ reversals[s] = IF sale[s] = "cancelled" THEN 1 ELSE 0
    /\ undoneBy[s] # "nobody" <=> sale[s] \in {"cancelled", "deleted"}

WorkerInv(w) ==
    /\ wpc[w] # "idle" => wsale[w] \in Sale /\ job[wsale[w]] # "none"
    /\ Charging(w) =>
         /\ sale[wsale[w]] = "live"
         /\ status[wsale[w]] = "processing"
         /\ job[wsale[w]] = "running"
         /\ ~stale[wsale[w]]
         /\ \A v \in Worker : Charging(v) /\ wsale[v] = wsale[w] => v = w
    /\ wpc[w] = "attempt" => sent[wsale[w]] = 0
    /\ wpc[w] = "finish" => NobodyCharging(wsale[w])

CheckerInv(c) ==
    /\ cpc[c] # "idle" => csale[c] \in Sale /\ job[csale[c]] # "none"
    /\ \/ cpc[c] \in {"check", "apply"}
       \/ cpc[c] = "loaded" /\ cread[c].status = "unverified"
       => NobodyCharging(csale[c])

Control ==
    /\ \A s \in Sale : SaleInv(s)
    /\ \A w \in Worker : WorkerInv(w)
    /\ \A c \in Checker : CheckerInv(c)

-----------------------------------------------------------------------------
\* Type correctness.

\* cancel_sale keeps the count of reversals a number, also of an unknown sale.
LEMMA CancelType ==
    ASSUME reversals \in [Sale -> Nat], NEW s, NEW who, CancelSale(s, who)
    PROVE  reversals' \in [Sale -> Nat]
<1>1. CASE s \in Sale
  BY <1>1 DEF CancelSale
<1>2. CASE s \notin Sale
  BY <1>2 DEF CancelSale
<1> QED
  BY <1>1, <1>2

\* apply_outcome keeps the types of the sale rows.
LEMMA ApplyType ==
    ASSUME SaleTypeOK, NEW s, NEW o \in ChargeOutcome, ApplyOutcome(s, o)
    PROVE  SaleTypeOK'
<1> USE DEF SaleTypeOK
<1>1. told' \in [Sale -> BOOLEAN]
  BY DEF ApplyOutcome
<1>2. CASE FlagSuccessAfterFailure(s, o)
  BY <1>1, <1>2 DEF FlagSuccessAfterFailure
<1>3. CASE IgnoreOutcome(s, o)
  BY <1>1, <1>3 DEF IgnoreOutcome
<1>4. CASE RecordOutcome(s, o)
  BY <1>1, <1>4 DEF RecordOutcome, ChargeOutcome
<1>5. CASE DiscardUnsentSale(s, o)
  BY <1>1, <1>5 DEF DiscardUnsentSale, DeleteSalePermanently
<1>6. CASE ReverseFailedSale(s, o)
  <2>1. status' \in [Sale -> {"blank"} \cup ChargeResult \cup {"processing"}]
    BY <1>6 DEF ReverseFailedSale, ChargeResult
  <2>2. hasRef' \in [Sale -> BOOLEAN] /\ conflict' \in [Sale -> BOOLEAN]
    BY <1>6 DEF ReverseFailedSale
  <2>3. CASE CancelSale(s, "outcome")
    <3>1. sale' \in [Sale -> {"none", "live", "cancelled", "deleted"}]
      BY <2>3 DEF CancelSale
    <3>2. reversals' \in [Sale -> Nat]
      BY <2>3, CancelType
    <3>3. undoneBy' \in [Sale -> {"nobody", "outcome", "management"}]
      BY <2>3 DEF CancelSale
    <3>4. deducted' \in [Sale -> BOOLEAN]
      BY <2>3 DEF CancelSale
    <3> QED
      BY <1>1, <2>1, <2>2, <3>1, <3>2, <3>3, <3>4
  <2>4. CASE UNCHANGED <<sale, deducted, reversals, undoneBy>>
    BY <1>1, <2>1, <2>2, <2>4
  <2> QED
    BY <1>6, <2>3, <2>4 DEF ReverseFailedSale
<1> QED
  BY <1>2, <1>3, <1>4, <1>5, <1>6 DEF ApplyOutcome

\* Every reachable state of the charge flow has the declared types.
THEOREM Typing == Spec => []TypeOK
<1>1. Init => TypeOK
  <2> SUFFICES ASSUME Init PROVE TypeOK
    OBVIOUS
  <2>1. SaleTypeOK
    BY DEF Init, SaleTypeOK
  <2>2. JobTypeOK
    <3>1. /\ job = [s \in Sale |-> "none"]
          /\ stale = [s \in Sale |-> FALSE]
          /\ notSent = [s \in Sale |-> FALSE]
          /\ messages = [s \in Sale |-> 0]
      BY DEF Init
    <3>2. 0 \in 0..MaxMessages
      BY BoundAssumption
    <3> QED
      BY <3>1, <3>2 DEF JobTypeOK
  <2>3. NoOutcome \in ChargeOutcome
    BY DEF NoOutcome, Outcome, ChargeOutcome, ChargeResult
  <2>4. WorkerTypeOK
    <3>1. wpc = [w \in Worker |-> "idle"] /\ wsale = [w \in Worker |-> NoSale]
      BY DEF Init
    <3>2. wtry = [w \in Worker |-> 1] /\ maySent = [w \in Worker |-> FALSE]
      BY DEF Init
    <3>3. wout = [w \in Worker |-> NoOutcome]
      BY DEF Init
    <3> QED
      BY <2>3, <3>1, <3>2, <3>3 DEF WorkerTypeOK
  <2>5. NothingRead \in [status: OpenStatuses, ref: BOOLEAN]
    BY DEF NothingRead, OpenStatuses
  <2>6. CheckerTypeOK
    BY <2>3, <2>5 DEF Init, CheckerTypeOK
  <2>7. ProviderTypeOK
    BY DEF Init, ProviderTypeOK
  <2>8. faults \in 0..MaxFaults
    <3>1. faults = 0
      BY DEF Init
    <3> QED
      BY <3>1, BoundAssumption
  <2> QED
    BY <2>1, <2>2, <2>4, <2>6, <2>7, <2>8 DEF TypeOK
<1>2. TypeOK /\ [Next]_vars => TypeOK'
  <2> SUFFICES ASSUME TypeOK, [Next]_vars PROVE TypeOK'
    OBVIOUS
  <2> USE BoundAssumption, NoSaleAssumption
      DEF TypeOK, ChargeOutcome, ChargeResult, OpenStatuses
  <2>1. /\ UNCHANGED saleVars => SaleTypeOK'
        /\ UNCHANGED jobVars => JobTypeOK'
        /\ UNCHANGED workerVars => WorkerTypeOK'
        /\ UNCHANGED checkerVars => CheckerTypeOK'
        /\ UNCHANGED providerVars => ProviderTypeOK'
    <3>1. UNCHANGED saleVars => SaleTypeOK'
      BY DEF saleVars, SaleTypeOK
    <3>2. UNCHANGED jobVars => JobTypeOK'
      BY DEF jobVars, JobTypeOK
    <3>3. UNCHANGED workerVars => WorkerTypeOK'
      BY DEF workerVars, WorkerTypeOK
    <3>4. UNCHANGED checkerVars => CheckerTypeOK'
      BY DEF checkerVars, CheckerTypeOK
    <3>5. UNCHANGED providerVars => ProviderTypeOK'
      BY DEF providerVars, ProviderTypeOK
    <3> QED
      BY <3>1, <3>2, <3>3, <3>4, <3>5
  <2>2. ASSUME NEW s \in Sale, CreateChargedSale(s) PROVE TypeOK'
    <3>1. SaleTypeOK'
      BY <2>2 DEF SaleTypeOK, CreateChargedSale, Enqueue
    <3>2. JobTypeOK'
      BY <2>2 DEF JobTypeOK, CreateChargedSale, Enqueue
    <3>3. faults' \in 0..MaxFaults
      BY <2>2 DEF CreateChargedSale, Enqueue
    <3> QED
      BY <2>2, <2>1, <3>1, <3>2, <3>3 DEF CreateChargedSale
  <2>3. ASSUME NEW s \in Sale, ManualSuccess(s) PROVE TypeOK'
    <3>1. Outcome("success", TRUE, FALSE) \in ChargeOutcome
      BY DEF Outcome
    <3>2. SaleTypeOK'
      BY <2>3, <3>1, ApplyType DEF ManualSuccess
    <3> QED
      BY <2>3, <2>1, <3>2 DEF ManualSuccess
  <2>4. ASSUME NEW s \in Sale, ManualFailure(s) PROVE TypeOK'
    <3>1. Outcome("failed", TRUE, FALSE) \in ChargeOutcome
      BY DEF Outcome
    <3>2. SaleTypeOK'
      BY <2>4, <3>1, ApplyType DEF ManualFailure
    <3>3. JobTypeOK'
      BY <2>4 DEF JobTypeOK, ManualFailure, FailIfQueued
    <3> QED
      BY <2>4, <2>1, <3>2, <3>3 DEF ManualFailure
  <2>5. ASSUME NEW s \in Sale, ManagementCancels(s) PROVE TypeOK'
    <3>1. /\ sale' = [sale EXCEPT ![s] = "cancelled"]
          /\ reversals' = [reversals EXCEPT ![s] = 1]
          /\ undoneBy' = [undoneBy EXCEPT ![s] = "management"]
          /\ UNCHANGED <<deducted, status, conflict, hasRef, told>>
      BY <2>5 DEF ManagementCancels, CancelSale
    <3>2. SaleTypeOK'
      BY <3>1 DEF SaleTypeOK
    <3> QED
      BY <2>1, <2>5, <3>2 DEF ManagementCancels
  <2>6. ASSUME NEW s \in Sale, ManagementDeletes(s) PROVE TypeOK'
    BY <2>6, <2>1 DEF SaleTypeOK, ManagementDeletes, DeleteSalePermanently
  <2>7. ASSUME NEW s \in Sale, ProviderStep(s) PROVE TypeOK'
    BY <2>7, <2>1 DEF ProviderTypeOK, ProviderStep, ProviderAccepts,
        ProviderExecutes, ProviderRejects
  <2>8. ASSUME NEW s \in Sale, RunningGoesStale(s) PROVE TypeOK'
    BY <2>8, <2>1 DEF JobTypeOK, RunningGoesStale
  <2>9. ASSUME NEW s \in Sale, MessageLost(s) PROVE TypeOK'
    <3>1. JobTypeOK'
      BY <2>9 DEF JobTypeOK, MessageLost
    <3>2. faults' \in 0..MaxFaults
      BY <2>9 DEF MessageLost
    <3> QED
      BY <2>9, <2>1, <3>1, <3>2 DEF MessageLost
  <2>10. ASSUME NEW w \in Worker, NEW s \in Sale, StartTask(w, s) PROVE TypeOK'
    <3>1. JobTypeOK'
      BY <2>10 DEF JobTypeOK, StartTask
    <3>2. WorkerTypeOK'
      BY <2>10 DEF WorkerTypeOK, StartTask
    <3> QED
      BY <2>10, <2>1, <3>1, <3>2 DEF StartTask
  <2>11. ASSUME NEW w \in Worker, Claim(w) PROVE TypeOK'
    <3>1. JobTypeOK'
      BY <2>11 DEF JobTypeOK, Claim, MarkRunning
    <3>2. WorkerTypeOK'
      BY <2>11 DEF WorkerTypeOK, Claim, MarkRunning
    <3> QED
      BY <2>11, <2>1, <3>1, <3>2 DEF Claim
  <2>12. ASSUME NEW w \in Worker, ClaimRefused(w) PROVE TypeOK'
    <3>1. JobTypeOK'
      BY <2>12 DEF JobTypeOK, ClaimRefused, FailIfQueued, Leave
    <3>2. WorkerTypeOK'
      BY <2>12 DEF WorkerTypeOK, ClaimRefused, FailIfQueued, Leave, NoOutcome, Outcome
    <3> QED
      BY <2>12, <2>1, <3>1, <3>2 DEF ClaimRefused
  <2>13. ASSUME NEW w \in Worker, Gateway(w) PROVE TypeOK'
    <3>1. JobTypeOK'
      BY <2>13 DEF Gateway, JobTypeOK, LoginAndRetry, RefuseBeforeSend,
          TransientBeforeSend,
             SendCharge, ChargeAccepted, ChargeUnclear,
             ChargeRejected, ChargeEscapes,
             gatewayUnchanged, GatewayReturns
    <3>2. CASE LoginAndRetry(w)
      BY <2>1, <3>1, <3>2
      DEF LoginAndRetry, gatewayUnchanged,
          WorkerTypeOK, ProviderTypeOK, providerVars
    <3>3. CASE RefuseBeforeSend(w)
      BY <2>1, <3>1, <3>3
      DEF RefuseBeforeSend, GatewayReturns, Outcome, gatewayUnchanged,
          WorkerTypeOK, ProviderTypeOK, providerVars
    <3>4. CASE TransientBeforeSend(w)
      BY <2>1, <3>1, <3>4
      DEF TransientBeforeSend, GatewayReturns, Outcome, gatewayUnchanged,
          WorkerTypeOK, ProviderTypeOK, providerVars
    <3>5. CASE SendCharge(w)
      BY <2>1, <3>1, <3>5
      DEF SendCharge, gatewayUnchanged,
          WorkerTypeOK, ProviderTypeOK, providerVars
    <3>6. CASE ChargeAccepted(w)
      BY <2>1, <3>1, <3>6
      DEF ChargeAccepted, GatewayReturns, Outcome, gatewayUnchanged,
          WorkerTypeOK, ProviderTypeOK, providerVars
    <3>7. CASE ChargeUnclear(w)
      <4>1. PICK ref \in BOOLEAN :
               GatewayReturns(w, Outcome("unverified", TRUE, ref), FALSE)
        BY <3>7, AdapterAssumption DEF ChargeUnclear, AdapterProfiles, MayBeCharged
      <4>2. WorkerTypeOK'
        BY <3>7, <4>1 DEF ChargeUnclear, GatewayReturns, Outcome, WorkerTypeOK
      <4> QED
        BY <2>1, <3>1, <3>7, <4>2 DEF ChargeUnclear, gatewayUnchanged
    <3>8. CASE ChargeRejected(w)
      BY <2>1, <3>1, <3>8
      DEF ChargeRejected, GatewayReturns, Outcome, gatewayUnchanged,
          WorkerTypeOK, ProviderTypeOK, providerVars
    <3>9. CASE ChargeEscapes(w)
      BY <2>1, <3>1, <3>9
      DEF ChargeEscapes, GatewayReturns, Outcome, gatewayUnchanged,
          WorkerTypeOK, ProviderTypeOK, providerVars
    <3> QED
      BY <2>13, <3>2, <3>3, <3>4, <3>5, <3>6, <3>7, <3>8, <3>9 DEF Gateway
  <2>14. ASSUME NEW w \in Worker, RecordCharge(w) PROVE TypeOK'
    <3>1. wout[w] \in ChargeOutcome
      BY DEF WorkerTypeOK
    <3>2. SaleTypeOK'
      BY <2>14, <3>1, ApplyType DEF RecordCharge
    <3>3. WorkerTypeOK'
      BY <2>14 DEF WorkerTypeOK, RecordCharge
    <3> QED
      BY <2>14, <2>1, <3>2, <3>3 DEF RecordCharge
  <2>15. ASSUME NEW w \in Worker, MarkDone(w) PROVE TypeOK'
    <3>1. JobTypeOK'
      BY <2>15 DEF JobTypeOK, MarkDone, FinishJob, Leave
    <3>2. WorkerTypeOK'
      BY <2>15 DEF WorkerTypeOK, MarkDone, FinishJob, Leave, NoOutcome, Outcome
    <3> QED
      BY <2>15, <2>1, <3>1, <3>2 DEF MarkDone
  <2>16. ASSUME NEW w \in Worker, RecordChargeFails(w) PROVE TypeOK'
    <3>1. JobTypeOK'
      BY <2>16 DEF JobTypeOK, RecordChargeFails, FinishJob, Leave
    <3>2. WorkerTypeOK'
      BY <2>16 DEF WorkerTypeOK, RecordChargeFails, FinishJob, Leave, NoOutcome,
          Outcome
    <3>3. faults' \in 0..MaxFaults
      BY <2>16 DEF RecordChargeFails, FinishJob, Leave
    <3> QED
      BY <2>16, <2>1, <3>1, <3>2, <3>3 DEF RecordChargeFails
  <2>17. ASSUME NEW w \in Worker, WorkerCrashes(w) PROVE TypeOK'
    <3>1. WorkerTypeOK'
      BY <2>17 DEF WorkerTypeOK, WorkerCrashes, Leave, NoOutcome, Outcome
    <3>2. faults' \in 0..MaxFaults
      BY <2>17 DEF WorkerCrashes, Leave
    <3> QED
      BY <2>17, <2>1, <3>1, <3>2 DEF WorkerCrashes
  <2>18. ASSUME NEW c \in Checker, NEW s \in Sale, LoadSale(c, s) PROVE TypeOK'
    <3>1. [status |-> status[s], ref |-> hasRef[s]]
             \in [status: OpenStatuses, ref: BOOLEAN]
      BY <2>18 DEF SaleTypeOK, LoadSale, ChargeIsOpen
    <3>2. CheckerTypeOK'
      BY <2>18, <3>1 DEF CheckerTypeOK, LoadSale
    <3> QED
      BY <2>1, <2>18, <3>2 DEF LoadSale
  <2>19. ASSUME NEW c \in Checker, Requeue(c) PROVE TypeOK'
    <3>1. JobTypeOK'
      BY <2>19 DEF JobTypeOK, Requeue, Enqueue, LeaveCheck
    <3>2. CheckerTypeOK'
      BY <2>19 DEF CheckerTypeOK, Requeue, Enqueue, LeaveCheck, NoOutcome, Outcome,
          NothingRead
    <3> QED
      BY <2>19, <2>1, <3>1, <3>2 DEF Requeue
  <2>20. ASSUME NEW c \in Checker, LeaveAlone(c) PROVE TypeOK'
    BY <2>20, <2>1 DEF CheckerTypeOK, LeaveAlone, LeaveCheck, NoOutcome, Outcome,
        NothingRead
  <2>21. ASSUME NEW c \in Checker, GoCheck(c) PROVE TypeOK'
    BY <2>21, <2>1 DEF CheckerTypeOK, GoCheck
  <2>22. ASSUME NEW c \in Checker, CheckCharge(c) PROVE TypeOK'
    BY <2>22, <2>1 DEF CheckerTypeOK, CheckCharge, CheckAnswers, Outcome
  <2>23. ASSUME NEW c \in Checker, RecordCheck(c) PROVE TypeOK'
    <3>1. cout[c] \in ChargeOutcome
      BY DEF CheckerTypeOK
    <3>2. SaleTypeOK'
      BY <2>23, <2>1, <3>1, ApplyType DEF RecordCheck
    <3>3. CheckerTypeOK'
      BY <2>23 DEF CheckerTypeOK, RecordCheck, LeaveCheck, NoOutcome, Outcome,
          NothingRead
    <3> QED
      BY <2>23, <2>1, <3>2, <3>3 DEF RecordCheck
  <2>24. ASSUME NEW c \in Checker, CheckerCrashes(c) PROVE TypeOK'
    <3>1. CheckerTypeOK'
      BY <2>24 DEF CheckerTypeOK, CheckerCrashes, LeaveCheck, NoOutcome, Outcome,
          NothingRead
    <3>2. faults' \in 0..MaxFaults
      BY <2>24 DEF CheckerCrashes, LeaveCheck
    <3> QED
      BY <2>24, <2>1, <3>1, <3>2 DEF CheckerCrashes
  <2>25. CASE UNCHANGED vars
    BY <2>1, <2>25 DEF vars
  <2> QED
    BY <2>2, <2>3, <2>4, <2>5, <2>6, <2>7, <2>8, <2>9, <2>10, <2>11, <2>12, <2>13,
       <2>14, <2>15, <2>16, <2>17, <2>18, <2>19, <2>20, <2>21, <2>22, <2>23, <2>24, <2>25
    DEF Next, WorkerStep, CheckerStep
<1> QED
  BY <1>1, <1>2, PTL DEF Spec

-----------------------------------------------------------------------------
\* Who can touch a sale together.

\* A step that leaves the sale, its job and its requests alone keeps SaleInv.
LEMMA SaleFrame ==
    ASSUME NEW s, SaleInv(s), UNCHANGED <<saleVars, jobVars, providerVars>>
    PROVE  SaleInv(s)'
BY DEF SaleInv, saleVars, jobVars, providerVars

\* A step that leaves the workers, jobs and sales alone keeps WorkerInv.
LEMMA WorkerFrame ==
    ASSUME NEW w, WorkerInv(w),
           UNCHANGED <<sale, status, job, stale, sent, workerVars>>
    PROVE  WorkerInv(w)'
BY DEF WorkerInv, NobodyCharging, Charging, workerVars

\* A step that leaves the jobs, the workers and the checkers alone keeps
\* CheckerInv.
LEMMA CheckerFrame ==
    ASSUME NEW c, CheckerInv(c), UNCHANGED <<job, wpc, wsale, checkerVars>>
    PROVE  CheckerInv(c)'
BY DEF CheckerInv, NobodyCharging, Charging, checkerVars

\* What an outcome leaves of sale s, and of the others.
OutcomeEffect(s) ==
    /\ sale[s] \in {"live", "cancelled"}
    /\ sale'[s] \in {"live", "cancelled", "deleted"}
    /\ status'[s] \in OpenStatuses => sale'[s] = "live"
    /\ deducted'[s] <=> sale'[s] \in {"live", "cancelled"}
    /\ reversals'[s] = IF sale'[s] = "cancelled" THEN 1 ELSE 0
    /\ undoneBy'[s] # "nobody" <=> sale'[s] \in {"cancelled", "deleted"}
    /\ \A t \in Sale \ {s} :
         UNCHANGED <<sale[t], status[t], deducted[t], reversals[t], undoneBy[t]>>

\* What an outcome does to the rows of its sale, and that it touches no other.
LEMMA ApplyEffect ==
    ASSUME SaleTypeOK, NEW s \in Sale, NEW o, SaleInv(s), ApplyOutcome(s, o)
    PROVE  OutcomeEffect(s)
<1> USE DEF SaleTypeOK, SaleInv, OutcomeEffect
<1>1. CASE FlagSuccessAfterFailure(s, o)
  BY <1>1 DEF FlagSuccessAfterFailure, ApplyOutcome
<1>2. CASE IgnoreOutcome(s, o)
  BY <1>2 DEF IgnoreOutcome, ApplyOutcome
<1>3. CASE RecordOutcome(s, o)
  BY <1>3 DEF RecordOutcome, ApplyOutcome
<1>4. CASE DiscardUnsentSale(s, o)
  BY <1>4 DEF DiscardUnsentSale, DeleteSalePermanently, ApplyOutcome, OpenStatuses
<1>5. CASE ReverseFailedSale(s, o)
  BY <1>5 DEF ReverseFailedSale, CancelSale, ApplyOutcome, OpenStatuses
<1> QED
  BY <1>1, <1>2, <1>3, <1>4, <1>5 DEF ApplyOutcome

\* Control is an inductive invariant: every action of a worker, a check, the
\* management pages, the provider and every fault keeps it.
THEOREM Controlled == Spec => []Control
<1>1. Init => Control
  BY NoSaleAssumption DEF Init, Control, SaleInv, WorkerInv, CheckerInv, Charging,
      OpenStatuses
<1>2. TypeOK /\ Control /\ [Next]_vars => Control'
  <2> SUFFICES ASSUME TypeOK, Control, [Next]_vars PROVE Control'
    OBVIOUS
  <2> USE DEF OpenStatuses
  <2>types. SaleTypeOK /\ JobTypeOK /\ WorkerTypeOK /\ CheckerTypeOK /\ ProviderTypeOK
    BY DEF TypeOK
  <2>inv. /\ \A s \in Sale : SaleInv(s)
          /\ \A w \in Worker : WorkerInv(w)
          /\ \A c \in Checker : CheckerInv(c)
    BY DEF Control
  <2>1. ASSUME NEW s \in Sale, CreateChargedSale(s) PROVE Control'
    <3>1. ASSUME NEW t \in Sale PROVE SaleInv(t)'
      BY <2>1, <2>types, <2>inv
      DEF CreateChargedSale, Enqueue, SaleInv, SaleTypeOK, JobTypeOK,
          ProviderTypeOK, WorkerInv, Charging, saleVars, jobVars,
          providerVars
    <3>2. ASSUME NEW v \in Worker PROVE WorkerInv(v)'
      BY <2>1, <2>types, <2>inv
      DEF CreateChargedSale, Enqueue, WorkerInv, NobodyCharging, Charging,
          SaleInv, WorkerTypeOK, SaleTypeOK, JobTypeOK, saleVars, jobVars,
          workerVars, providerVars
    <3>3. ASSUME NEW d \in Checker PROVE CheckerInv(d)'
      BY <2>1, <2>types, <2>inv
      DEF CreateChargedSale, Enqueue, CheckerInv, NobodyCharging, Charging,
          WorkerInv, WorkerTypeOK, CheckerTypeOK, JobTypeOK, jobVars,
          workerVars, checkerVars
    <3> QED
      BY <3>1, <3>2, <3>3 DEF Control
  <2>2. ASSUME NEW s \in Sale, ManualSuccess(s) PROVE Control'
    <3>1. /\ s \in Sale
          /\ ApplyOutcome(s, Outcome("success", TRUE, FALSE))
      BY <2>2 DEF ManualSuccess
    <3>a. sale[s] = "live" /\ job[s] # "none"
      BY <2>2, <2>inv DEF ManualSuccess, ChargeIsOpen, SaleInv
    <3>b. job'[s] \notin {"none", "queued"}
      BY <2>2, <2>types, <3>a DEF ManualSuccess, FailIfQueued, JobTypeOK, jobVars
    <3>c. ASSUME NEW v \in Worker, Charging(v)' PROVE Charging(v) /\ wsale[v] # s
      BY <2>2, <2>inv, <3>c
      DEF ManualSuccess, ChargeInProgress, WorkerInv, Charging, workerVars
    <3>2. /\ \A t \in Sale \ {s} : job'[t] = job[t]
          /\ UNCHANGED <<stale, messages, providerVars>>
      BY <2>2, <2>types DEF ManualSuccess, jobVars
    <3>e. OutcomeEffect(s)
      BY <2>types, <2>inv, <3>1, ApplyEffect
    <3>3. ASSUME NEW t \in Sale PROVE SaleInv(t)'
      BY <2>inv, <3>1, <3>b, <3>c, <3>2, <3>e DEF OutcomeEffect, SaleInv, providerVars
    <3>4. ASSUME NEW v \in Worker PROVE WorkerInv(v)'
      BY <2>2, <2>types, <2>inv, <3>1, <3>b, <3>c, <3>2, <3>e
      DEF OutcomeEffect, ManualSuccess, WorkerInv, Charging, NobodyCharging,
          workerVars, providerVars
    <3>5. ASSUME NEW d \in Checker PROVE CheckerInv(d)'
      BY <2>2, <2>types, <2>inv, <3>1, <3>b, <3>c, <3>2
      DEF ManualSuccess, CheckerInv, Charging, NobodyCharging, workerVars, checkerVars
    <3> QED
      BY <3>3, <3>4, <3>5 DEF Control
  <2>3. ASSUME NEW s \in Sale, ManualFailure(s) PROVE Control'
    <3>1. /\ s \in Sale
          /\ ApplyOutcome(s, Outcome("failed", TRUE, FALSE))
      BY <2>3 DEF ManualFailure
    <3>a. sale[s] = "live" /\ job[s] # "none"
      BY <2>3, <2>inv DEF ManualFailure, ChargeIsOpen, SaleInv
    <3>b. job'[s] \notin {"none", "queued"}
      BY <2>3, <2>types, <3>a DEF ManualFailure, FailIfQueued, JobTypeOK, jobVars
    <3>c. ASSUME NEW v \in Worker, Charging(v)' PROVE Charging(v) /\ wsale[v] # s
      BY <2>3, <2>inv, <3>c
      DEF ManualFailure, ChargeInProgress, WorkerInv, Charging, workerVars
    <3>2. /\ \A t \in Sale \ {s} : job'[t] = job[t]
          /\ UNCHANGED <<stale, messages, providerVars>>
      BY <2>3, <2>types DEF ManualFailure, FailIfQueued, JobTypeOK
    <3>e. OutcomeEffect(s)
      BY <2>types, <2>inv, <3>1, ApplyEffect
    <3>3. ASSUME NEW t \in Sale PROVE SaleInv(t)'
      BY <2>inv, <3>1, <3>b, <3>c, <3>2, <3>e DEF OutcomeEffect, SaleInv, providerVars
    <3>4. ASSUME NEW v \in Worker PROVE WorkerInv(v)'
      BY <2>3, <2>types, <2>inv, <3>1, <3>b, <3>c, <3>2, <3>e
      DEF OutcomeEffect, ManualFailure, WorkerInv, Charging, NobodyCharging,
          workerVars, providerVars
    <3>5. ASSUME NEW d \in Checker PROVE CheckerInv(d)'
      BY <2>3, <2>types, <2>inv, <3>1, <3>b, <3>c, <3>2
      DEF ManualFailure, CheckerInv, Charging, NobodyCharging, workerVars, checkerVars
    <3> QED
      BY <3>3, <3>4, <3>5 DEF Control
  <2>4. ASSUME NEW s \in Sale, ManagementCancels(s) PROVE Control'
    <3>1. ASSUME NEW t \in Sale PROVE SaleInv(t)'
      BY <2>4, <2>types, <2>inv
      DEF ManagementCancels, CancelSale, ChargeIsOpen, SaleInv, SaleTypeOK,
          JobTypeOK, ProviderTypeOK, WorkerInv, Charging, saleVars, jobVars,
          providerVars
    <3>2. ASSUME NEW v \in Worker PROVE WorkerInv(v)'
      BY <2>4, <2>types, <2>inv
      DEF ManagementCancels, CancelSale, ChargeIsOpen, WorkerInv,
          NobodyCharging, Charging, SaleInv, WorkerTypeOK, SaleTypeOK,
          JobTypeOK, saleVars, jobVars, workerVars, providerVars
    <3>3. ASSUME NEW d \in Checker PROVE CheckerInv(d)'
      BY <2>4, <2>inv, CheckerFrame
      DEF ManagementCancels, jobVars, workerVars, checkerVars
    <3> QED
      BY <3>1, <3>2, <3>3 DEF Control
  <2>5. ASSUME NEW s \in Sale, ManagementDeletes(s) PROVE Control'
    <3>1. ASSUME NEW t \in Sale PROVE SaleInv(t)'
      BY <2>5, <2>types, <2>inv
      DEF ManagementDeletes, DeleteSalePermanently, SaleInv, SaleTypeOK,
          JobTypeOK, ProviderTypeOK, WorkerInv, Charging, saleVars, jobVars,
          providerVars
    <3>2. ASSUME NEW v \in Worker PROVE WorkerInv(v)'
      BY <2>5, <2>types, <2>inv
      DEF ManagementDeletes, DeleteSalePermanently, WorkerInv,
          NobodyCharging, Charging, SaleInv, WorkerTypeOK, SaleTypeOK,
          JobTypeOK, saleVars, jobVars, workerVars, providerVars
    <3>3. ASSUME NEW d \in Checker PROVE CheckerInv(d)'
      BY <2>5, <2>inv, CheckerFrame
      DEF ManagementDeletes, jobVars, workerVars, checkerVars
    <3> QED
      BY <3>1, <3>2, <3>3 DEF Control
  <2>6. ASSUME NEW s \in Sale, ProviderStep(s) PROVE Control'
    <3>1. UNCHANGED <<sent, saleVars, jobVars, workerVars, checkerVars>>
      BY <2>6 DEF ProviderStep, ProviderAccepts, ProviderExecutes, ProviderRejects
    <3>2. ASSUME NEW t \in Sale PROVE SaleInv(t)'
      BY <2>6, <2>types, <2>inv, <3>1
      DEF ProviderStep, ProviderAccepts, ProviderExecutes, ProviderRejects,
          SaleInv, ProviderTypeOK, saleVars, jobVars
    <3>3. ASSUME NEW v \in Worker PROVE WorkerInv(v)'
      BY <2>inv, <3>1, WorkerFrame DEF saleVars, jobVars
    <3>4. ASSUME NEW d \in Checker PROVE CheckerInv(d)'
      BY <2>inv, <3>1, CheckerFrame DEF jobVars, workerVars
    <3> QED
      BY <3>2, <3>3, <3>4 DEF Control
  <2>7. ASSUME NEW s \in Sale, RunningGoesStale(s) PROVE Control'
    <3>1. ASSUME NEW t \in Sale PROVE SaleInv(t)'
      BY <2>7, <2>types, <2>inv
      DEF RunningGoesStale, SaleInv, SaleTypeOK, JobTypeOK, ProviderTypeOK,
          WorkerInv, Charging, saleVars, jobVars, providerVars
    <3>2. ASSUME NEW v \in Worker PROVE WorkerInv(v)'
      BY <2>7, <2>types, <2>inv
      DEF RunningGoesStale, WorkerInv, NobodyCharging, Charging, SaleInv,
          WorkerTypeOK, SaleTypeOK, JobTypeOK, saleVars, jobVars, workerVars,
          providerVars
    <3>3. ASSUME NEW d \in Checker PROVE CheckerInv(d)'
      BY <2>7, <2>inv, CheckerFrame
      DEF RunningGoesStale, jobVars, workerVars, checkerVars
    <3> QED
      BY <3>1, <3>2, <3>3 DEF Control
  <2>8. ASSUME NEW s \in Sale, MessageLost(s) PROVE Control'
    <3>1. ASSUME NEW t \in Sale PROVE SaleInv(t)'
      BY <2>8, <2>types, <2>inv
      DEF MessageLost, SaleInv, SaleTypeOK, JobTypeOK, ProviderTypeOK,
          WorkerInv, Charging, saleVars, jobVars, providerVars
    <3>2. ASSUME NEW v \in Worker PROVE WorkerInv(v)'
      BY <2>8, <2>inv, WorkerFrame
      DEF MessageLost, saleVars, jobVars, workerVars, providerVars
    <3>3. ASSUME NEW d \in Checker PROVE CheckerInv(d)'
      BY <2>8, <2>inv, CheckerFrame
      DEF MessageLost, jobVars, workerVars, checkerVars
    <3> QED
      BY <3>1, <3>2, <3>3 DEF Control
  <2>9. ASSUME NEW w \in Worker, NEW s \in Sale, StartTask(w, s) PROVE Control'
    <3>1. ASSUME NEW t \in Sale PROVE SaleInv(t)'
      BY <2>9, <2>types, <2>inv
      DEF StartTask, SaleInv, SaleTypeOK, JobTypeOK, ProviderTypeOK,
          WorkerInv, Charging, saleVars, jobVars, providerVars
    <3>2. ASSUME NEW v \in Worker PROVE WorkerInv(v)'
      BY <2>9, <2>types, <2>inv
      DEF StartTask, WorkerInv, NobodyCharging, Charging, SaleInv,
          WorkerTypeOK, SaleTypeOK, JobTypeOK, saleVars, jobVars, workerVars,
          providerVars
    <3>3. ASSUME NEW d \in Checker PROVE CheckerInv(d)'
      BY <2>9, <2>types, <2>inv
      DEF StartTask, CheckerInv, NobodyCharging, Charging, WorkerInv,
          WorkerTypeOK, CheckerTypeOK, JobTypeOK, jobVars, workerVars,
          checkerVars
    <3> QED
      BY <3>1, <3>2, <3>3 DEF Control
  <2>10. ASSUME NEW w \in Worker, Claim(w) PROVE Control'
    <3>1. ASSUME NEW t \in Sale PROVE SaleInv(t)'
      BY <2>10, <2>types, <2>inv
      DEF Claim, MarkRunning, SaleInv, SaleTypeOK, JobTypeOK, ProviderTypeOK,
          WorkerInv, Charging, saleVars, jobVars, providerVars
    <3>2. ASSUME NEW v \in Worker PROVE WorkerInv(v)'
      BY <2>10, <2>types, <2>inv
      DEF Claim, MarkRunning, WorkerInv, NobodyCharging, Charging, SaleInv,
          WorkerTypeOK, SaleTypeOK, JobTypeOK, saleVars, jobVars, workerVars,
          providerVars
    <3>3. ASSUME NEW d \in Checker PROVE CheckerInv(d)'
      BY <2>10, <2>types, <2>inv
      DEF Claim, MarkRunning, CheckerInv, NobodyCharging, Charging,
          WorkerInv, WorkerTypeOK, CheckerTypeOK, JobTypeOK, jobVars,
          workerVars, checkerVars
    <3> QED
      BY <3>1, <3>2, <3>3 DEF Control
  <2>11. ASSUME NEW w \in Worker, ClaimRefused(w) PROVE Control'
    <3>1. ASSUME NEW t \in Sale PROVE SaleInv(t)'
      BY <2>11, <2>types, <2>inv
      DEF ClaimRefused, FailIfQueued, Leave, SaleInv, SaleTypeOK, JobTypeOK,
          ProviderTypeOK, WorkerInv, Charging, saleVars, jobVars,
          providerVars
    <3>2. ASSUME NEW v \in Worker PROVE WorkerInv(v)'
      BY <2>11, <2>types, <2>inv
      DEF ClaimRefused, FailIfQueued, Leave, WorkerInv, NobodyCharging,
          Charging, SaleInv, WorkerTypeOK, SaleTypeOK, JobTypeOK, saleVars,
          jobVars, workerVars, providerVars
    <3>3. ASSUME NEW d \in Checker PROVE CheckerInv(d)'
      BY <2>11, <2>types, <2>inv
      DEF ClaimRefused, FailIfQueued, Leave, CheckerInv, NobodyCharging,
          Charging, WorkerInv, WorkerTypeOK, CheckerTypeOK, JobTypeOK,
          jobVars, workerVars, checkerVars
    <3> QED
      BY <3>1, <3>2, <3>3 DEF Control
  <2>12. ASSUME NEW w \in Worker, Gateway(w) PROVE Control'
    <3>1. UNCHANGED <<wsale, saleVars, job, stale, messages, checkerVars>>
      BY <2>12 DEF Gateway, LoginAndRetry, RefuseBeforeSend, TransientBeforeSend,
          SendCharge, ChargeAccepted, ChargeUnclear, ChargeRejected,
          ChargeEscapes, gatewayUnchanged, GatewayReturns
    <3>2. CASE SendCharge(w)
      <4>1. ASSUME NEW t \in Sale PROVE SaleInv(t)'
        BY <2>types, <2>inv, <3>1, <3>2
        DEF SendCharge, SaleInv, WorkerInv, Charging, ProviderTypeOK, saleVars
      <4>2. ASSUME NEW v \in Worker PROVE WorkerInv(v)'
        BY <2>types, <2>inv, <3>1, <3>2
        DEF SendCharge, WorkerInv, Charging, NobodyCharging, WorkerTypeOK,
            ProviderTypeOK, saleVars
      <4>3. ASSUME NEW d \in Checker PROVE CheckerInv(d)'
        BY <2>types, <2>inv, <3>1, <3>2
        DEF SendCharge, CheckerInv, NobodyCharging, Charging, WorkerTypeOK,
            checkerVars
      <4> QED
        BY <4>1, <4>2, <4>3 DEF Control
    <3>3. CASE ~SendCharge(w)
      <4>1. /\ Charging(w)
            /\ UNCHANGED providerVars
            /\ \/ UNCHANGED wpc
               \/ wpc' = [wpc EXCEPT ![w] = "apply"]
        BY <2>12, <3>3 DEF Gateway, LoginAndRetry, RefuseBeforeSend,
            TransientBeforeSend, ChargeAccepted, ChargeUnclear,
            ChargeRejected, ChargeEscapes, GatewayReturns, Charging
      <4>2. ASSUME NEW t \in Sale PROVE SaleInv(t)'
        BY <2>inv, <3>1, <4>1 DEF SaleInv, saleVars, providerVars
      <4>3. ASSUME NEW v \in Worker PROVE WorkerInv(v)'
        BY <2>types, <2>inv, <3>1, <4>1
        DEF WorkerInv, Charging, NobodyCharging, WorkerTypeOK, saleVars,
            providerVars
      <4>4. ASSUME NEW d \in Checker PROVE CheckerInv(d)'
        BY <2>types, <2>inv, <3>1, <4>1
        DEF CheckerInv, NobodyCharging, Charging, WorkerTypeOK, checkerVars
      <4> QED
        BY <4>2, <4>3, <4>4 DEF Control
    <3> QED
      BY <3>2, <3>3
  <2>13. ASSUME NEW w \in Worker, RecordCharge(w) PROVE Control'
    <3>1. /\ wsale[w] \in Sale
          /\ ApplyOutcome(wsale[w], wout[w])
          /\ job'[wsale[w]] \notin {"none", "queued"}
          /\ \A v \in Worker : Charging(v)' => Charging(v) /\ wsale[v] # wsale[w]
      BY <2>13, <2>types, <2>inv
      DEF RecordCharge, SaleInv, WorkerInv, Charging, SaleTypeOK, JobTypeOK,
          WorkerTypeOK, workerVars, jobVars
    <3>2. /\ \A t \in Sale \ {wsale[w]} : job'[t] = job[t]
          /\ UNCHANGED <<stale, messages, providerVars>>
      BY <2>13, <2>types DEF RecordCharge, jobVars
    <3>e. OutcomeEffect(wsale[w])
      BY <2>types, <2>inv, <3>1, ApplyEffect
    <3>3. ASSUME NEW t \in Sale PROVE SaleInv(t)'
      BY <2>inv, <3>1, <3>2, <3>e DEF OutcomeEffect, SaleInv, providerVars
    <3>4. ASSUME NEW v \in Worker PROVE WorkerInv(v)'
      BY <2>13, <2>types, <2>inv, <3>1, <3>2, <3>e
      DEF OutcomeEffect, RecordCharge, WorkerInv, Charging, NobodyCharging,
          WorkerTypeOK, providerVars
    <3>5. ASSUME NEW d \in Checker PROVE CheckerInv(d)'
      BY <2>13, <2>types, <2>inv, <3>1, <3>2
      DEF RecordCharge, CheckerInv, Charging, NobodyCharging, WorkerTypeOK,
          checkerVars
    <3> QED
      BY <3>3, <3>4, <3>5 DEF Control
  <2>14. ASSUME NEW w \in Worker, MarkDone(w) PROVE Control'
    <3>1. ASSUME NEW t \in Sale PROVE SaleInv(t)'
      BY <2>14, <2>types, <2>inv
      DEF MarkDone, FinishJob, Leave, SaleInv, SaleTypeOK, JobTypeOK,
          ProviderTypeOK, WorkerInv, Charging, saleVars, jobVars,
          providerVars
    <3>2. ASSUME NEW v \in Worker PROVE WorkerInv(v)'
      BY <2>14, <2>types, <2>inv
      DEF MarkDone, FinishJob, Leave, WorkerInv, NobodyCharging, Charging,
          SaleInv, WorkerTypeOK, SaleTypeOK, JobTypeOK, saleVars, jobVars,
          workerVars, providerVars
    <3>3. ASSUME NEW d \in Checker PROVE CheckerInv(d)'
      BY <2>14, <2>types, <2>inv
      DEF MarkDone, FinishJob, Leave, CheckerInv, NobodyCharging, Charging,
          WorkerInv, WorkerTypeOK, CheckerTypeOK, JobTypeOK, jobVars,
          workerVars, checkerVars
    <3> QED
      BY <3>1, <3>2, <3>3 DEF Control
  <2>15. ASSUME NEW w \in Worker, RecordChargeFails(w) PROVE Control'
    <3>1. ASSUME NEW t \in Sale PROVE SaleInv(t)'
      BY <2>15, <2>types, <2>inv
      DEF RecordChargeFails, FinishJob, Leave, SaleInv, SaleTypeOK,
          JobTypeOK, ProviderTypeOK, WorkerInv, Charging, saleVars, jobVars,
          providerVars
    <3>2. ASSUME NEW v \in Worker PROVE WorkerInv(v)'
      BY <2>15, <2>types, <2>inv
      DEF RecordChargeFails, FinishJob, Leave, WorkerInv, NobodyCharging,
          Charging, SaleInv, WorkerTypeOK, SaleTypeOK, JobTypeOK, saleVars,
          jobVars, workerVars, providerVars
    <3>3. ASSUME NEW d \in Checker PROVE CheckerInv(d)'
      BY <2>15, <2>types, <2>inv
      DEF RecordChargeFails, FinishJob, Leave, CheckerInv, NobodyCharging,
          Charging, WorkerInv, WorkerTypeOK, CheckerTypeOK, JobTypeOK,
          jobVars, workerVars, checkerVars
    <3> QED
      BY <3>1, <3>2, <3>3 DEF Control
  <2>16. ASSUME NEW w \in Worker, WorkerCrashes(w) PROVE Control'
    <3>1. ASSUME NEW t \in Sale PROVE SaleInv(t)'
      BY <2>16, <2>inv, SaleFrame
      DEF WorkerCrashes, saleVars, jobVars, providerVars
    <3>2. ASSUME NEW v \in Worker PROVE WorkerInv(v)'
      BY <2>16, <2>types, <2>inv
      DEF WorkerCrashes, Leave, WorkerInv, NobodyCharging, Charging, SaleInv,
          WorkerTypeOK, SaleTypeOK, JobTypeOK, saleVars, jobVars, workerVars,
          providerVars
    <3>3. ASSUME NEW d \in Checker PROVE CheckerInv(d)'
      BY <2>16, <2>types, <2>inv
      DEF WorkerCrashes, Leave, CheckerInv, NobodyCharging, Charging,
          WorkerInv, WorkerTypeOK, CheckerTypeOK, JobTypeOK, jobVars,
          workerVars, checkerVars
    <3> QED
      BY <3>1, <3>2, <3>3 DEF Control
  <2>17. ASSUME NEW c \in Checker, NEW s \in Sale, LoadSale(c, s) PROVE Control'
    <3>1. ASSUME NEW t \in Sale PROVE SaleInv(t)'
      BY <2>17, <2>inv, SaleFrame
      DEF LoadSale, saleVars, jobVars, providerVars
    <3>2. ASSUME NEW v \in Worker PROVE WorkerInv(v)'
      BY <2>17, <2>inv, WorkerFrame
      DEF LoadSale, saleVars, jobVars, workerVars, providerVars
    <3>3. ASSUME NEW d \in Checker PROVE CheckerInv(d)'
      BY <2>17, <2>types, <2>inv
      DEF LoadSale, ChargeIsOpen, SaleInv, SaleTypeOK, saleVars, CheckerInv,
          NobodyCharging, Charging, WorkerInv, WorkerTypeOK, CheckerTypeOK,
          JobTypeOK, jobVars, workerVars, checkerVars
    <3> QED
      BY <3>1, <3>2, <3>3 DEF Control
  <2>18. ASSUME NEW c \in Checker, Requeue(c) PROVE Control'
    <3>1. ASSUME NEW t \in Sale PROVE SaleInv(t)'
      BY <2>18, <2>types, <2>inv
      DEF Requeue, Enqueue, LeaveCheck, SaleInv, SaleTypeOK, JobTypeOK,
          ProviderTypeOK, WorkerInv, Charging, saleVars, jobVars,
          providerVars
    <3>2. ASSUME NEW v \in Worker PROVE WorkerInv(v)'
      BY <2>18, <2>inv, WorkerFrame
      DEF Requeue, saleVars, jobVars, workerVars, providerVars
    <3>3. ASSUME NEW d \in Checker PROVE CheckerInv(d)'
      BY <2>18, <2>types, <2>inv
      DEF Requeue, Enqueue, LeaveCheck, CheckerInv, NobodyCharging, Charging,
          WorkerInv, WorkerTypeOK, CheckerTypeOK, JobTypeOK, jobVars,
          workerVars, checkerVars
    <3> QED
      BY <3>1, <3>2, <3>3 DEF Control
  <2>19. ASSUME NEW c \in Checker, LeaveAlone(c) PROVE Control'
    <3>1. ASSUME NEW t \in Sale PROVE SaleInv(t)'
      BY <2>19, <2>inv, SaleFrame
      DEF LeaveAlone, saleVars, jobVars, providerVars
    <3>2. ASSUME NEW v \in Worker PROVE WorkerInv(v)'
      BY <2>19, <2>inv, WorkerFrame
      DEF LeaveAlone, saleVars, jobVars, workerVars, providerVars
    <3>3. ASSUME NEW d \in Checker PROVE CheckerInv(d)'
      BY <2>19, <2>types, <2>inv
      DEF LeaveAlone, LeaveCheck, CheckerInv, NobodyCharging, Charging,
          WorkerInv, WorkerTypeOK, CheckerTypeOK, JobTypeOK, jobVars,
          workerVars, checkerVars
    <3> QED
      BY <3>1, <3>2, <3>3 DEF Control
  <2>20. ASSUME NEW c \in Checker, GoCheck(c) PROVE Control'
    <3>1. ASSUME NEW t \in Sale PROVE SaleInv(t)'
      BY <2>20, <2>inv, SaleFrame DEF GoCheck, saleVars, jobVars, providerVars
    <3>2. ASSUME NEW v \in Worker PROVE WorkerInv(v)'
      BY <2>20, <2>inv, WorkerFrame
      DEF GoCheck, saleVars, jobVars, workerVars, providerVars
    <3>3. ASSUME NEW d \in Checker PROVE CheckerInv(d)'
      BY <2>20, <2>types, <2>inv
      DEF GoCheck, WorkerHasIt, CheckerInv, NobodyCharging, Charging,
          WorkerInv, WorkerTypeOK, CheckerTypeOK, JobTypeOK, jobVars,
          workerVars, checkerVars
    <3> QED
      BY <3>1, <3>2, <3>3 DEF Control
  <2>21. ASSUME NEW c \in Checker, CheckCharge(c) PROVE Control'
    <3>1. ASSUME NEW t \in Sale PROVE SaleInv(t)'
      BY <2>21, <2>inv, SaleFrame
      DEF CheckCharge, saleVars, jobVars, providerVars
    <3>2. ASSUME NEW v \in Worker PROVE WorkerInv(v)'
      BY <2>21, <2>inv, WorkerFrame
      DEF CheckCharge, saleVars, jobVars, workerVars, providerVars
    <3>3. ASSUME NEW d \in Checker PROVE CheckerInv(d)'
      BY <2>21, <2>types, <2>inv
      DEF CheckCharge, CheckerInv, NobodyCharging, Charging, WorkerInv,
          WorkerTypeOK, CheckerTypeOK, JobTypeOK, jobVars, workerVars,
          checkerVars
    <3> QED
      BY <3>1, <3>2, <3>3 DEF Control
  <2>22. ASSUME NEW c \in Checker, RecordCheck(c) PROVE Control'
    <3>1. CASE UNCHANGED saleVars
      <4>1. ASSUME NEW t \in Sale PROVE SaleInv(t)'
        BY <2>22, <2>inv, <3>1, SaleFrame DEF RecordCheck
      <4>2. ASSUME NEW v \in Worker PROVE WorkerInv(v)'
        BY <2>22, <2>inv, <3>1, WorkerFrame
        DEF RecordCheck, saleVars, jobVars, providerVars
      <4>3. ASSUME NEW d \in Checker PROVE CheckerInv(d)'
        BY <2>22, <2>types, <2>inv
        DEF RecordCheck, LeaveCheck, CheckerInv, NobodyCharging, Charging,
            CheckerTypeOK, jobVars, workerVars
      <4> QED
        BY <4>1, <4>2, <4>3 DEF Control
    <3>2. CASE ApplyOutcome(csale[c], cout[c])
      <4>1. /\ csale[c] \in Sale
          /\ ApplyOutcome(csale[c], cout[c])
          /\ job'[csale[c]] \notin {"none", "queued"}
          /\ \A v \in Worker : Charging(v)' => Charging(v) /\ wsale[v] # csale[c]
      BY <2>22, <3>2, <2>types, <2>inv
        DEF RecordCheck, CheckerInv, NobodyCharging, LeaveCheck, SaleInv,
            WorkerInv, Charging, SaleTypeOK, JobTypeOK, WorkerTypeOK, workerVars,
            jobVars
      <4>2. /\ \A t \in Sale \ {csale[c]} : job'[t] = job[t]
          /\ UNCHANGED <<stale, messages, providerVars>>
      BY <2>22, <2>types DEF RecordCheck, jobVars
      <4>e. OutcomeEffect(csale[c])
      BY <2>types, <2>inv, <4>1, ApplyEffect
      <4>3. ASSUME NEW t \in Sale PROVE SaleInv(t)'
      BY <2>inv, <4>1, <4>2, <4>e DEF OutcomeEffect, SaleInv, providerVars
      <4>4. ASSUME NEW v \in Worker PROVE WorkerInv(v)'
      BY <2>22, <2>types, <2>inv, <4>1, <4>2, <4>e
      DEF OutcomeEffect, RecordCheck, LeaveCheck, WorkerInv, Charging,
          NobodyCharging, workerVars, providerVars
      <4>5. ASSUME NEW d \in Checker PROVE CheckerInv(d)'
      BY <2>22, <2>types, <2>inv, <4>1, <4>2
      DEF RecordCheck, LeaveCheck, CheckerInv, Charging, NobodyCharging,
          CheckerTypeOK, workerVars
      <4> QED
      BY <4>3, <4>4, <4>5 DEF Control
    <3> QED
      BY <2>22, <3>1, <3>2 DEF RecordCheck
  <2>23. ASSUME NEW c \in Checker, CheckerCrashes(c) PROVE Control'
    <3>1. ASSUME NEW t \in Sale PROVE SaleInv(t)'
      BY <2>23, <2>inv, SaleFrame
      DEF CheckerCrashes, saleVars, jobVars, providerVars
    <3>2. ASSUME NEW v \in Worker PROVE WorkerInv(v)'
      BY <2>23, <2>inv, WorkerFrame
      DEF CheckerCrashes, saleVars, jobVars, workerVars, providerVars
    <3>3. ASSUME NEW d \in Checker PROVE CheckerInv(d)'
      BY <2>23, <2>types, <2>inv
      DEF CheckerCrashes, LeaveCheck, CheckerInv, NobodyCharging, Charging,
          WorkerInv, WorkerTypeOK, CheckerTypeOK, JobTypeOK, jobVars,
          workerVars, checkerVars
    <3> QED
      BY <3>1, <3>2, <3>3 DEF Control
  <2>24. CASE UNCHANGED vars
    BY <2>inv, <2>24, SaleFrame, WorkerFrame, CheckerFrame DEF vars, Control,
        saleVars, jobVars, workerVars, checkerVars, providerVars
  <2> QED
    BY <2>1, <2>2, <2>3, <2>4, <2>5, <2>6, <2>7, <2>8, <2>9, <2>10, <2>11, <2>12,
       <2>13, <2>14, <2>15, <2>16, <2>17, <2>18, <2>19, <2>20, <2>21, <2>22, <2>23, <2>24
    DEF Next, WorkerStep, CheckerStep
<1> QED
  BY <1>1, <1>2, Typing, PTL DEF Spec

-----------------------------------------------------------------------------
\* What Control gives.

\* However often a job is delivered, redelivered or re-queued, and whatever
\* crashes, the charge of a sale is sent at most once.
THEOREM SentOnce == Spec => []AtMostOneCharge
<1>1. Control => AtMostOneCharge
  BY DEF Control, SaleInv, AtMostOneCharge
<1> QED
  BY <1>1, Controlled, PTL

\* The supplier ledger agrees with the sale, whichever paths race to undo it.
THEOREM LedgerAgrees == Spec => []LedgerMatchesSale
<1>1. Control => LedgerMatchesSale
  BY DEF Control, SaleInv, LedgerMatchesSale
<1> QED
  BY <1>1, Controlled, PTL

\* Nobody else touches a sale between the claim and the recorded outcome.
THEOREM ChargingProtected == Spec => []ChargingSaleIsProtected
<1>1. Control => ChargingSaleIsProtected
  BY DEF Control, WorkerInv, ChargingSaleIsProtected
<1> QED
  BY <1>1, Controlled, PTL

\* No sale is cancelled while its charge is open.
THEOREM CancelledSettled == Spec => []CancelledIsSettled
<1>1. Control => CancelledIsSettled
  BY DEF Control, SaleInv, CancelledIsSettled
<1> QED
  BY <1>1, Controlled, PTL

\* An outcome leaves the status of a settled sale, and of every other, alone.
LEMMA SettledStays ==
    ASSUME SaleTypeOK, NEW s \in Sale, NEW o, ApplyOutcome(s, o), NEW t \in Sale,
           status[t] \in {"success", "failed"}
    PROVE  status'[t] = status[t]
<1> USE DEF SaleTypeOK, OpenStatuses
<1>1. CASE FlagSuccessAfterFailure(s, o)
  BY <1>1 DEF FlagSuccessAfterFailure
<1>2. CASE IgnoreOutcome(s, o)
  BY <1>2 DEF IgnoreOutcome
<1>3. CASE RecordOutcome(s, o)
  BY <1>3 DEF RecordOutcome
<1>4. CASE DiscardUnsentSale(s, o)
  BY <1>4 DEF DiscardUnsentSale, DeleteSalePermanently
<1>5. CASE ReverseFailedSale(s, o)
  BY <1>5 DEF ReverseFailedSale
<1> QED
  BY <1>1, <1>2, <1>3, <1>4, <1>5 DEF ApplyOutcome

\* A settled charge keeps its status until its sale is deleted.
THEOREM SettledForGood == Spec => SettledIsFinal
<1>1. ASSUME TypeOK, Control, [Next]_vars, NEW t \in Sale,
             status[t] \in {"success", "failed"}, sale'[t] # "deleted"
      PROVE  status'[t] = status[t]
  <2>types. SaleTypeOK
    BY <1>1 DEF TypeOK
  <2>1. CASE UNCHANGED status
    BY <2>1
  <2>2. ASSUME NEW s \in Sale, CreateChargedSale(s) PROVE status'[t] = status[t]
    BY <1>1, <2>2, <2>types DEF CreateChargedSale, Control, SaleInv, SaleTypeOK
  <2>3. ASSUME NEW s \in Sale, ManagementDeletes(s) PROVE status'[t] = status[t]
    BY <1>1, <2>3, <2>types DEF ManagementDeletes, DeleteSalePermanently, SaleTypeOK
  <2>4. ASSUME NEW s \in Sale, NEW o, ApplyOutcome(s, o) PROVE status'[t] = status[t]
    BY <1>1, <2>4, <2>types, SettledStays
  <2>5. ASSUME NEW w \in Worker, RecordCharge(w) PROVE status'[t] = status[t]
    BY <1>1, <2>4, <2>5 DEF RecordCharge, Control, WorkerInv
  <2>6. ASSUME NEW c \in Checker, RecordCheck(c) PROVE status'[t] = status[t]
    BY <1>1, <2>4, <2>6 DEF RecordCheck, Control, CheckerInv, saleVars
  <2>7. ASSUME NEW s \in Sale, ManualSuccess(s) \/ ManualFailure(s)
        PROVE  status'[t] = status[t]
    BY <2>4, <2>7 DEF ManualSuccess, ManualFailure
  <2>8. ASSUME NEW w \in Worker, Gateway(w) PROVE UNCHANGED status
    BY <2>8 DEF Gateway, LoginAndRetry, RefuseBeforeSend, TransientBeforeSend,
        SendCharge, ChargeAccepted, ChargeUnclear, ChargeRejected, ChargeEscapes,
        gatewayUnchanged, saleVars
  <2>9. ASSUME NEW w \in Worker,
               \/ \E s \in Sale : StartTask(w, s)
               \/ Claim(w)
               \/ ClaimRefused(w)
               \/ MarkDone(w)
               \/ RecordChargeFails(w)
               \/ WorkerCrashes(w)
        PROVE  UNCHANGED status
    BY <2>9 DEF StartTask, Claim, ClaimRefused, MarkDone, RecordChargeFails,
        WorkerCrashes, saleVars
  <2>10. ASSUME NEW c \in Checker,
                \/ \E s \in Sale : LoadSale(c, s)
                \/ Requeue(c)
                \/ LeaveAlone(c)
                \/ GoCheck(c)
                \/ CheckCharge(c)
                \/ CheckerCrashes(c)
         PROVE  UNCHANGED status
    BY <2>10 DEF LoadSale, Requeue, LeaveAlone, GoCheck, CheckCharge,
        CheckerCrashes, saleVars
  <2>11. ASSUME NEW s \in Sale,
                \/ ManagementCancels(s)
                \/ ProviderStep(s)
                \/ RunningGoesStale(s)
                \/ MessageLost(s)
         PROVE  UNCHANGED status
    BY <2>11 DEF ManagementCancels, ProviderStep, ProviderAccepts,
        ProviderExecutes, ProviderRejects, RunningGoesStale, MessageLost, saleVars
  <2>12. CASE UNCHANGED vars
    BY <2>12 DEF vars, saleVars
  <2> QED
    BY <1>1, <2>1, <2>2, <2>3, <2>5, <2>6, <2>7, <2>8, <2>9, <2>10, <2>11, <2>12
    DEF Next, WorkerStep, CheckerStep
<1>2. TypeOK /\ Control /\ [Next]_vars =>
        [\A s \in Sale :
           status[s] \in {"success", "failed"} /\ sale'[s] # "deleted"
             => status'[s] = status[s]]_vars
  BY <1>1
<1> QED
  BY <1>2, Typing, Controlled, PTL DEF Spec, SettledIsFinal

-----------------------------------------------------------------------------
\* Contradicting answers, whatever the adapter does.

\* A sale that was told of a success is settled, and flagged if it had failed.
ToldInv(s) ==
    told[s] =>
        /\ sale[s] # "none"
        /\ status[s] \notin OpenStatuses
        /\ status[s] = "failed" => conflict[s]

\* A step that leaves the sale's row and what it was told alone keeps ToldInv.
LEMMA ToldFrame ==
    ASSUME NEW t \in Sale, ToldInv(t), UNCHANGED <<sale, status, conflict, told>>
    PROVE  ToldInv(t)'
BY DEF ToldInv

\* An outcome keeps it: a success settles an open sale or flags a failed one, and
\* a sale that was told before is not open any more.
LEMMA ToldByOutcome ==
    ASSUME SaleTypeOK, NEW s \in Sale, NEW o, ApplyOutcome(s, o),
           NEW t \in Sale, ToldInv(t)
    PROVE  ToldInv(t)'
<1> USE DEF SaleTypeOK, OpenStatuses, ToldInv
<1>1. sale[s] # "none" /\ told' = [told EXCEPT ![s] = @ \/ o.result = "success"]
  BY DEF ApplyOutcome
<1>2. CASE FlagSuccessAfterFailure(s, o)
  BY <1>1, <1>2 DEF FlagSuccessAfterFailure
<1>3. CASE IgnoreOutcome(s, o)
  BY <1>1, <1>3 DEF IgnoreOutcome
<1>4. CASE RecordOutcome(s, o)
  <2>1. CASE t = s
    BY <1>1, <1>4, <2>1 DEF RecordOutcome
  <2>2. CASE t # s
    BY <1>1, <1>4, <2>2 DEF RecordOutcome
  <2> QED
    BY <2>1, <2>2
<1>5. CASE DiscardUnsentSale(s, o)
  BY <1>1, <1>5 DEF DiscardUnsentSale, DeleteSalePermanently
<1>6. CASE ReverseFailedSale(s, o)
  BY <1>1, <1>6 DEF ReverseFailedSale, CancelSale
<1> QED
  BY <1>2, <1>3, <1>4, <1>5, <1>6 DEF ApplyOutcome

\* A success that reaches a sale its failed outcome has reversed, before or after
\* that, is not lost: the sale carries the conflict, for every adapter.
THEOREM ConflictIsFlagged == Spec => []SuccessAfterReversalIsFlagged
<1> DEFINE Flagged == \A s \in Sale : ToldInv(s)
<1>1. Init => Flagged
  BY DEF Init, ToldInv
<1>2. ASSUME TypeOK, Control, Flagged, [Next]_vars, NEW t \in Sale
      PROVE  ToldInv(t)'
  <2>types. SaleTypeOK
    BY <1>2 DEF TypeOK
  <2>1. CASE UNCHANGED <<sale, status, conflict, told>>
    BY <1>2, <2>1, ToldFrame
  <2>2. ASSUME NEW s \in Sale, CreateChargedSale(s) PROVE ToldInv(t)'
    <3>1. sale[s] = "none"
      BY <1>2, <2>2 DEF CreateChargedSale, Control, SaleInv
    <3> QED
      BY <1>2, <2>2, <2>types, <3>1 DEF CreateChargedSale, ToldInv, SaleTypeOK
  <2>3. ASSUME NEW s \in Sale, ManagementDeletes(s) PROVE ToldInv(t)'
    BY <1>2, <2>3, <2>types
    DEF ManagementDeletes, DeleteSalePermanently, ToldInv, SaleTypeOK, OpenStatuses
  <2>4. ASSUME NEW s \in Sale, ManagementCancels(s) PROVE ToldInv(t)'
    BY <1>2, <2>4, <2>types DEF ManagementCancels, CancelSale, ToldInv, SaleTypeOK
  <2>5. ASSUME NEW s \in Sale, NEW o, ApplyOutcome(s, o) PROVE ToldInv(t)'
    BY <1>2, <2>5, <2>types, ToldByOutcome
  <2>6. ASSUME NEW w \in Worker, RecordCharge(w) PROVE ToldInv(t)'
    BY <1>2, <2>5, <2>6 DEF RecordCharge, Control, WorkerInv
  <2>7. ASSUME NEW c \in Checker, RecordCheck(c) PROVE ToldInv(t)'
    BY <1>2, <2>1, <2>5, <2>7 DEF RecordCheck, Control, CheckerInv, saleVars
  <2>8. ASSUME NEW s \in Sale, ManualSuccess(s) \/ ManualFailure(s)
        PROVE  ToldInv(t)'
    BY <2>5, <2>8 DEF ManualSuccess, ManualFailure
  <2>9. ASSUME NEW w \in Worker, Gateway(w) PROVE ToldInv(t)'
    BY <2>1, <2>9 DEF Gateway, LoginAndRetry, RefuseBeforeSend, TransientBeforeSend,
        SendCharge, ChargeAccepted, ChargeUnclear, ChargeRejected, ChargeEscapes,
        gatewayUnchanged, saleVars
  <2>10. ASSUME NEW w \in Worker,
                \/ \E s \in Sale : StartTask(w, s)
                \/ Claim(w)
                \/ ClaimRefused(w)
                \/ MarkDone(w)
                \/ RecordChargeFails(w)
                \/ WorkerCrashes(w)
         PROVE  ToldInv(t)'
    BY <2>1, <2>10 DEF StartTask, Claim, ClaimRefused, MarkDone, RecordChargeFails,
        WorkerCrashes, saleVars
  <2>11. ASSUME NEW c \in Checker,
                \/ \E s \in Sale : LoadSale(c, s)
                \/ Requeue(c)
                \/ LeaveAlone(c)
                \/ GoCheck(c)
                \/ CheckCharge(c)
                \/ CheckerCrashes(c)
         PROVE  ToldInv(t)'
    BY <2>1, <2>11 DEF LoadSale, Requeue, LeaveAlone, GoCheck, CheckCharge,
        CheckerCrashes, saleVars
  <2>12. ASSUME NEW s \in Sale,
                \/ ProviderStep(s)
                \/ RunningGoesStale(s)
                \/ MessageLost(s)
         PROVE  ToldInv(t)'
    BY <2>1, <2>12 DEF ProviderStep, ProviderAccepts, ProviderExecutes,
        ProviderRejects, RunningGoesStale, MessageLost, saleVars
  <2>13. CASE UNCHANGED vars
    BY <2>1, <2>13 DEF vars, saleVars
  <2> QED
    BY <1>2, <2>2, <2>3, <2>4, <2>6, <2>7, <2>8, <2>9, <2>10, <2>11, <2>12, <2>13
    DEF Next, WorkerStep, CheckerStep
<1>3. TypeOK /\ Control /\ Flagged /\ [Next]_vars => Flagged'
  BY <1>2
<1>4. Flagged => SuccessAfterReversalIsFlagged
  BY DEF ToldInv, SuccessAfterReversalIsFlagged
<1> QED
  BY <1>1, <1>3, <1>4, Typing, Controlled, PTL DEF Spec

-----------------------------------------------------------------------------
(***************************************************************************)
(* What ChargeSale promises about money, for every adapter that keeps the  *)
(* contract of providers/contracts.py: once a request may have left every  *)
(* failure is a TransientError, and check_charge reports FAILED only for a *)
(* charge that will never be carried out.                                  *)
(*                                                                         *)
(* Control is true of every adapter.  MoneyInv adds what each pending      *)
(* outcome says of the provider, and is inductive only under the contract. *)
(***************************************************************************)

\* The adapter keeps the contract.
KeepsContract == Adapter.guardsSend /\ Adapter.truthful

\* A failure about to be recorded, by a worker, a check or by hand, is one of a
\* charge that did not and will not happen.
FailureIsTrue ==
    /\ \A w \in Worker :
         wpc[w] = "apply" /\ wout[w].result = "failed" => ~MayBeCharged(wsale[w])
    /\ \A c \in Checker :
         cpc[c] = "apply" /\ cout[c].result = "failed" => ~MayBeCharged(csale[c])

NotSentIsTrue(s) ==
    notSent[s] =>
        /\ ~MayBeCharged(s)
        /\ job[s] \notin {"none", "queued"}
        /\ \A w \in Worker : wsale[w] = s => wpc[w] \notin {"attempt", "sent"}

MoneyInv ==
    /\ FailureIsTrue
    /\ \A s \in Sale : NotSentIsTrue(s)
    /\ NoReversalOfPossibleCharge

-----------------------------------------------------------------------------
\* Only a failed outcome undoes a sale on behalf of an outcome.
LEMMA UndoneByFailure ==
    ASSUME SaleTypeOK, NEW s \in Sale, NEW o, ApplyOutcome(s, o),
           NEW t \in Sale, undoneBy'[t] = "outcome"
    PROVE  undoneBy[t] = "outcome" \/ (t = s /\ o.result = "failed")
<1> USE DEF SaleTypeOK
<1>1. CASE FlagSuccessAfterFailure(s, o)
  BY <1>1 DEF FlagSuccessAfterFailure
<1>2. CASE IgnoreOutcome(s, o)
  BY <1>2 DEF IgnoreOutcome
<1>3. CASE RecordOutcome(s, o)
  BY <1>3 DEF RecordOutcome
<1>4. CASE DiscardUnsentSale(s, o)
  BY <1>4 DEF DiscardUnsentSale, DeleteSalePermanently
<1>5. CASE ReverseFailedSale(s, o)
  BY <1>5 DEF ReverseFailedSale, CancelSale
<1> QED
  BY <1>1, <1>2, <1>3, <1>4, <1>5 DEF ApplyOutcome

\* Under the contract, whatever is about to be recorded as a failure, or stands
\* as "not sent", is a charge that did not and will not happen.
THEOREM FailuresAreTrue ==
    ASSUME KeepsContract
    PROVE  Spec => []MoneyInv
<1>1. Init => MoneyInv
  BY DEF Init, MoneyInv, FailureIsTrue, NotSentIsTrue,
         NoReversalOfPossibleCharge
<1>2. TypeOK /\ Control /\ MoneyInv /\ [Next]_vars => MoneyInv'
  <2> SUFFICES ASSUME TypeOK, Control, MoneyInv, [Next]_vars PROVE MoneyInv'
    OBVIOUS
  <2>types. SaleTypeOK /\ JobTypeOK /\ WorkerTypeOK /\ CheckerTypeOK /\ ProviderTypeOK
    BY DEF TypeOK
  <2>inv. /\ \A s \in Sale : SaleInv(s)
          /\ \A w \in Worker : WorkerInv(w)
          /\ \A c \in Checker : CheckerInv(c)
    BY DEF Control
  <2>money. FailureIsTrue /\ (\A s \in Sale : NotSentIsTrue(s)) /\ NoReversalOfPossibleCharge
    BY DEF MoneyInv
  <2>1. ASSUME NEW s \in Sale, CreateChargedSale(s) PROVE MoneyInv'
    <3>1. FailureIsTrue'
      BY <2>1, <2>types, <2>inv, <2>money
      DEF CreateChargedSale, Enqueue, FailureIsTrue, MayBeCharged,
          WorkerTypeOK, CheckerTypeOK, ProviderTypeOK, WorkerInv, CheckerInv,
          Charging, saleVars, jobVars, workerVars, checkerVars, providerVars
    <3>2. ASSUME NEW t \in Sale PROVE NotSentIsTrue(t)'
      BY <2>1, <2>types, <2>inv, <2>money
      DEF CreateChargedSale, Enqueue, NotSentIsTrue, MayBeCharged, JobTypeOK,
          WorkerTypeOK, ProviderTypeOK, saleVars, jobVars, workerVars,
          checkerVars, providerVars
    <3>3. NoReversalOfPossibleCharge'
      BY <2>1, <2>types, <2>inv, <2>money
      DEF CreateChargedSale, Enqueue, NoReversalOfPossibleCharge,
          MayBeCharged, SaleInv, SaleTypeOK, ProviderTypeOK, saleVars,
          jobVars, workerVars, checkerVars, providerVars
    <3> QED
      BY <3>1, <3>2, <3>3 DEF MoneyInv
  <2>2. ASSUME NEW s \in Sale, ManualSuccess(s) PROVE MoneyInv'
    <3>1. FailureIsTrue'
      BY <2>2, <2>types, <2>inv, <2>money
      DEF ManualSuccess, FailureIsTrue, MayBeCharged, WorkerTypeOK,
          CheckerTypeOK, ProviderTypeOK, WorkerInv, CheckerInv, Charging,
          saleVars, jobVars, workerVars, checkerVars, providerVars
    <3>2. ASSUME NEW t \in Sale PROVE NotSentIsTrue(t)'
      BY <2>2, <2>types, <2>inv, <2>money
      DEF ManualSuccess, NotSentIsTrue, MayBeCharged, JobTypeOK,
          WorkerTypeOK, ProviderTypeOK, saleVars, jobVars, workerVars,
          checkerVars, providerVars
    <3>3. Outcome("success", TRUE, FALSE).result # "failed"
      BY DEF Outcome
    <3>4. ASSUME NEW t \in Sale, undoneBy'[t] = "outcome" PROVE undoneBy[t] = "outcome"
      BY <2>2, <2>types, <3>3, <3>4, UndoneByFailure DEF ManualSuccess
    <3>5. NoReversalOfPossibleCharge'
      BY <2>2, <2>money, <3>4
      DEF ManualSuccess, NoReversalOfPossibleCharge, MayBeCharged, providerVars
    <3> QED
      BY <3>1, <3>2, <3>5 DEF MoneyInv
  <2>3. ASSUME NEW s \in Sale, ManualFailure(s) PROVE MoneyInv'
    <3>1. FailureIsTrue'
      BY <2>3, <2>types, <2>inv, <2>money
      DEF ManualFailure, FailIfQueued, FailureIsTrue, MayBeCharged,
          WorkerTypeOK, CheckerTypeOK, ProviderTypeOK, WorkerInv, CheckerInv,
          Charging, saleVars, jobVars, workerVars, checkerVars, providerVars
    <3>2. ASSUME NEW t \in Sale PROVE NotSentIsTrue(t)'
      BY <2>3, <2>types, <2>inv, <2>money
      DEF ManualFailure, FailIfQueued, NotSentIsTrue, MayBeCharged,
          JobTypeOK, WorkerTypeOK, ProviderTypeOK, saleVars, jobVars,
          workerVars, checkerVars, providerVars
    <3>3. ~MayBeCharged(s)
      BY <2>3, <2>types, <2>inv, <2>money
      DEF ManualFailure, SaleChargeNotSent, NotSentIsTrue, MayBeCharged, SaleInv
    <3>4. ASSUME NEW t \in Sale, undoneBy'[t] = "outcome"
          PROVE  undoneBy[t] = "outcome" \/ t = s
      BY <2>3, <2>types, <3>4, UndoneByFailure DEF ManualFailure
    <3>5. NoReversalOfPossibleCharge'
      BY <2>3, <2>money, <3>3, <3>4
      DEF ManualFailure, NoReversalOfPossibleCharge, MayBeCharged, providerVars
    <3> QED
      BY <3>1, <3>2, <3>5 DEF MoneyInv
  <2>4. ASSUME NEW s \in Sale, ManagementCancels(s) PROVE MoneyInv'
    <3>1. FailureIsTrue'
      BY <2>4, <2>types, <2>inv, <2>money
      DEF ManagementCancels, CancelSale, FailureIsTrue, MayBeCharged,
          WorkerTypeOK, CheckerTypeOK, ProviderTypeOK, WorkerInv, CheckerInv,
          Charging, saleVars, jobVars, workerVars, checkerVars, providerVars
    <3>2. ASSUME NEW t \in Sale PROVE NotSentIsTrue(t)'
      BY <2>4, <2>types, <2>inv, <2>money
      DEF ManagementCancels, CancelSale, NotSentIsTrue, MayBeCharged,
          JobTypeOK, WorkerTypeOK, ProviderTypeOK, saleVars, jobVars,
          workerVars, checkerVars, providerVars
    <3>3. NoReversalOfPossibleCharge'
      BY <2>4, <2>types, <2>inv, <2>money
      DEF ManagementCancels, CancelSale, NoReversalOfPossibleCharge,
          MayBeCharged, SaleInv, SaleTypeOK, ProviderTypeOK, saleVars,
          jobVars, workerVars, checkerVars, providerVars
    <3> QED
      BY <3>1, <3>2, <3>3 DEF MoneyInv
  <2>5. ASSUME NEW s \in Sale, ManagementDeletes(s) PROVE MoneyInv'
    <3>1. FailureIsTrue'
      BY <2>5, <2>types, <2>inv, <2>money
      DEF ManagementDeletes, DeleteSalePermanently, FailureIsTrue,
          MayBeCharged, WorkerTypeOK, CheckerTypeOK, ProviderTypeOK,
          WorkerInv, CheckerInv, Charging, saleVars, jobVars, workerVars,
          checkerVars, providerVars
    <3>2. ASSUME NEW t \in Sale PROVE NotSentIsTrue(t)'
      BY <2>5, <2>types, <2>inv, <2>money
      DEF ManagementDeletes, DeleteSalePermanently, NotSentIsTrue,
          MayBeCharged, JobTypeOK, WorkerTypeOK, ProviderTypeOK, saleVars,
          jobVars, workerVars, checkerVars, providerVars
    <3>3. NoReversalOfPossibleCharge'
      BY <2>5, <2>types, <2>inv, <2>money
      DEF ManagementDeletes, DeleteSalePermanently,
          NoReversalOfPossibleCharge, MayBeCharged, SaleInv, SaleTypeOK,
          ProviderTypeOK, saleVars, jobVars, workerVars, checkerVars,
          providerVars
    <3> QED
      BY <3>1, <3>2, <3>3 DEF MoneyInv
  <2>6. ASSUME NEW s \in Sale, ProviderStep(s) PROVE MoneyInv'
    <3>1. FailureIsTrue'
      BY <2>6, <2>types, <2>inv, <2>money
      DEF ProviderStep, ProviderAccepts, ProviderExecutes, ProviderRejects,
          FailureIsTrue, MayBeCharged, WorkerTypeOK, CheckerTypeOK,
          ProviderTypeOK, WorkerInv, CheckerInv, Charging, saleVars, jobVars,
          workerVars, checkerVars, providerVars
    <3>2. ASSUME NEW t \in Sale PROVE NotSentIsTrue(t)'
      BY <2>6, <2>types, <2>inv, <2>money
      DEF ProviderStep, ProviderAccepts, ProviderExecutes, ProviderRejects,
          NotSentIsTrue, MayBeCharged, JobTypeOK, WorkerTypeOK,
          ProviderTypeOK, saleVars, jobVars, workerVars, checkerVars,
          providerVars
    <3>3. NoReversalOfPossibleCharge'
      BY <2>6, <2>types, <2>inv, <2>money
      DEF ProviderStep, ProviderAccepts, ProviderExecutes, ProviderRejects,
          NoReversalOfPossibleCharge, MayBeCharged, SaleInv, SaleTypeOK,
          ProviderTypeOK, saleVars, jobVars, workerVars, checkerVars,
          providerVars
    <3> QED
      BY <3>1, <3>2, <3>3 DEF MoneyInv
  <2>7. ASSUME NEW s \in Sale, RunningGoesStale(s) PROVE MoneyInv'
    <3>1. FailureIsTrue'
      BY <2>7, <2>types, <2>inv, <2>money
      DEF RunningGoesStale, FailureIsTrue, MayBeCharged, WorkerTypeOK,
          CheckerTypeOK, ProviderTypeOK, WorkerInv, CheckerInv, Charging,
          saleVars, jobVars, workerVars, checkerVars, providerVars
    <3>2. ASSUME NEW t \in Sale PROVE NotSentIsTrue(t)'
      BY <2>7, <2>types, <2>inv, <2>money
      DEF RunningGoesStale, NotSentIsTrue, MayBeCharged, JobTypeOK,
          WorkerTypeOK, ProviderTypeOK, saleVars, jobVars, workerVars,
          checkerVars, providerVars
    <3>3. NoReversalOfPossibleCharge'
      BY <2>7, <2>types, <2>inv, <2>money
      DEF RunningGoesStale, NoReversalOfPossibleCharge, MayBeCharged,
          SaleInv, SaleTypeOK, ProviderTypeOK, saleVars, jobVars, workerVars,
          checkerVars, providerVars
    <3> QED
      BY <3>1, <3>2, <3>3 DEF MoneyInv
  <2>8. ASSUME NEW s \in Sale, MessageLost(s) PROVE MoneyInv'
    <3>1. FailureIsTrue'
      BY <2>8, <2>types, <2>inv, <2>money
      DEF MessageLost, FailureIsTrue, MayBeCharged, WorkerTypeOK,
          CheckerTypeOK, ProviderTypeOK, WorkerInv, CheckerInv, Charging,
          saleVars, jobVars, workerVars, checkerVars, providerVars
    <3>2. ASSUME NEW t \in Sale PROVE NotSentIsTrue(t)'
      BY <2>8, <2>types, <2>inv, <2>money
      DEF MessageLost, NotSentIsTrue, MayBeCharged, JobTypeOK, WorkerTypeOK,
          ProviderTypeOK, saleVars, jobVars, workerVars, checkerVars,
          providerVars
    <3>3. NoReversalOfPossibleCharge'
      BY <2>8, <2>types, <2>inv, <2>money
      DEF MessageLost, NoReversalOfPossibleCharge, MayBeCharged, SaleInv,
          SaleTypeOK, ProviderTypeOK, saleVars, jobVars, workerVars,
          checkerVars, providerVars
    <3> QED
      BY <3>1, <3>2, <3>3 DEF MoneyInv
  <2>9. ASSUME NEW w \in Worker, NEW s \in Sale, StartTask(w, s) PROVE MoneyInv'
    <3>1. FailureIsTrue'
      BY <2>9, <2>types, <2>inv, <2>money
      DEF StartTask, FailureIsTrue, MayBeCharged, WorkerTypeOK,
          CheckerTypeOK, ProviderTypeOK, WorkerInv, CheckerInv, Charging,
          saleVars, jobVars, workerVars, checkerVars, providerVars
    <3>2. ASSUME NEW t \in Sale PROVE NotSentIsTrue(t)'
      BY <2>9, <2>types, <2>inv, <2>money
      DEF StartTask, NotSentIsTrue, MayBeCharged, JobTypeOK, WorkerTypeOK,
          ProviderTypeOK, saleVars, jobVars, workerVars, checkerVars,
          providerVars
    <3>3. NoReversalOfPossibleCharge'
      BY <2>9, <2>types, <2>inv, <2>money
      DEF StartTask, NoReversalOfPossibleCharge, MayBeCharged, SaleInv,
          SaleTypeOK, ProviderTypeOK, saleVars, jobVars, workerVars,
          checkerVars, providerVars
    <3> QED
      BY <3>1, <3>2, <3>3 DEF MoneyInv
  <2>10. ASSUME NEW w \in Worker, Claim(w) PROVE MoneyInv'
    <3>1. FailureIsTrue'
      BY <2>10, <2>types, <2>inv, <2>money
      DEF Claim, MarkRunning, FailureIsTrue, MayBeCharged, WorkerTypeOK,
          CheckerTypeOK, ProviderTypeOK, WorkerInv, CheckerInv, Charging,
          saleVars, jobVars, workerVars, checkerVars, providerVars
    <3>2. ASSUME NEW t \in Sale PROVE NotSentIsTrue(t)'
      BY <2>10, <2>types, <2>inv, <2>money
      DEF Claim, MarkRunning, NotSentIsTrue, MayBeCharged, JobTypeOK,
          WorkerTypeOK, ProviderTypeOK, saleVars, jobVars, workerVars,
          checkerVars, providerVars
    <3>3. NoReversalOfPossibleCharge'
      BY <2>10, <2>types, <2>inv, <2>money
      DEF Claim, MarkRunning, NoReversalOfPossibleCharge, MayBeCharged,
          SaleInv, SaleTypeOK, ProviderTypeOK, saleVars, jobVars, workerVars,
          checkerVars, providerVars
    <3> QED
      BY <3>1, <3>2, <3>3 DEF MoneyInv
  <2>11. ASSUME NEW w \in Worker, ClaimRefused(w) PROVE MoneyInv'
    <3>1. FailureIsTrue'
      BY <2>11, <2>types, <2>inv, <2>money
      DEF ClaimRefused, FailIfQueued, Leave, FailureIsTrue, MayBeCharged,
          WorkerTypeOK, CheckerTypeOK, ProviderTypeOK, WorkerInv, CheckerInv,
          Charging, saleVars, jobVars, workerVars, checkerVars, providerVars
    <3>2. ASSUME NEW t \in Sale PROVE NotSentIsTrue(t)'
      BY <2>11, <2>types, <2>inv, <2>money
      DEF ClaimRefused, FailIfQueued, Leave, NotSentIsTrue, MayBeCharged,
          JobTypeOK, WorkerTypeOK, ProviderTypeOK, saleVars, jobVars,
          workerVars, checkerVars, providerVars
    <3>3. NoReversalOfPossibleCharge'
      BY <2>11, <2>types, <2>inv, <2>money
      DEF ClaimRefused, FailIfQueued, Leave, NoReversalOfPossibleCharge,
          MayBeCharged, SaleInv, SaleTypeOK, ProviderTypeOK, saleVars,
          jobVars, workerVars, checkerVars, providerVars
    <3> QED
      BY <3>1, <3>2, <3>3 DEF MoneyInv
  <2>12. ASSUME NEW w \in Worker, Gateway(w) PROVE MoneyInv'
    <3>1. /\ UNCHANGED <<wsale, saleVars, job, stale, messages, checkerVars>>
          /\ Charging(w)
      BY <2>12 DEF Gateway, LoginAndRetry, RefuseBeforeSend, TransientBeforeSend,
          SendCharge, ChargeAccepted, ChargeUnclear, ChargeRejected,
          ChargeEscapes, gatewayUnchanged, GatewayReturns, Charging
    <3>2. /\ wsale[w] \in Sale
          /\ sale[wsale[w]] = "live"
          /\ job[wsale[w]] = "running"
          /\ \A v \in Worker : Charging(v) /\ wsale[v] = wsale[w] => v = w
      BY <2>inv, <3>1 DEF WorkerInv, Charging
    <3>3. NoReversalOfPossibleCharge'
      <4>1. CASE SendCharge(w)
        BY <2>types, <2>inv, <2>money, <3>1, <3>2, <4>1
        DEF SendCharge, NoReversalOfPossibleCharge, MayBeCharged, SaleInv,
            ProviderTypeOK, saleVars
      <4>2. CASE ~SendCharge(w)
        BY <2>12, <2>money, <3>1, <4>2
        DEF Gateway, LoginAndRetry, RefuseBeforeSend, TransientBeforeSend,
            ChargeAccepted, ChargeUnclear, ChargeRejected, ChargeEscapes,
            NoReversalOfPossibleCharge, MayBeCharged, saleVars, providerVars
      <4> QED
        BY <4>1, <4>2
    <3>4. CASE SendCharge(w)
      <4>1. FailureIsTrue'
        BY <2>types, <2>inv, <2>money, <3>1, <3>2, <3>4
        DEF SendCharge, FailureIsTrue, MayBeCharged, WorkerTypeOK, CheckerTypeOK,
            ProviderTypeOK, CheckerInv, NobodyCharging, Charging, checkerVars
      <4>2. ASSUME NEW t \in Sale PROVE NotSentIsTrue(t)'
        BY <2>types, <2>inv, <2>money, <3>1, <3>2, <3>4
        DEF SendCharge, NotSentIsTrue, MayBeCharged, WorkerTypeOK, ProviderTypeOK
      <4> QED
        BY <3>3, <4>1, <4>2 DEF MoneyInv
    <3>5. CASE LoginAndRetry(w)
      BY <2>money, <3>1, <3>3, <3>5
      DEF LoginAndRetry, MoneyInv, FailureIsTrue, NotSentIsTrue, MayBeCharged,
          checkerVars, providerVars
    <3>6. ASSUME NEW o \in ChargeOutcome, NEW row \in BOOLEAN,
                 GatewayReturns(w, o, row), UNCHANGED providerVars,
                 o.result = "failed" \/ row => ~MayBeCharged(wsale[w])
          PROVE  MoneyInv'
      <4>1. FailureIsTrue'
        BY <2>types, <2>money, <3>1, <3>6
        DEF GatewayReturns, FailureIsTrue, MayBeCharged, WorkerTypeOK,
            checkerVars, providerVars
      <4>2. ASSUME NEW t \in Sale PROVE NotSentIsTrue(t)'
        <5>1. CASE t # wsale[w]
          BY <2>types, <2>money, <3>1, <3>6, <5>1
          DEF GatewayReturns, NotSentIsTrue, MayBeCharged, WorkerTypeOK,
              JobTypeOK, providerVars
        <5>2. CASE t = wsale[w]
          <6>1. \A v \in Worker : wsale'[v] = t => wpc'[v] \notin {"attempt", "sent"}
            BY <2>types, <3>1, <3>2, <3>6, <5>2
            DEF GatewayReturns, Charging, WorkerTypeOK
          <6>2. notSent'[t] => notSent[t] \/ row
            <7>1. PICK recorded \in {row, FALSE} :
                     notSent' = [notSent EXCEPT ![t] = @ \/ recorded]
              BY <3>6, <5>2 DEF GatewayReturns
            <7>2. notSent'[t] => notSent[t] \/ recorded
              BY <2>types, <7>1 DEF JobTypeOK
            <7>3. recorded => row
              BY <7>1
            <7> QED
              BY <7>2, <7>3
          <6>3. notSent'[t] => ~MayBeCharged(t)'
            BY <2>money, <3>6, <5>2, <6>2
            DEF NotSentIsTrue, MayBeCharged, providerVars
          <6> QED
            BY <3>1, <3>2, <5>2, <6>1, <6>3 DEF NotSentIsTrue
        <5> QED
          BY <5>1, <5>2
      <4> QED
        BY <3>3, <4>1, <4>2 DEF MoneyInv
    <3>7. CASE RefuseBeforeSend(w)
      <4>1. ~MayBeCharged(wsale[w])
        BY <2>inv, <3>2, <3>7 DEF RefuseBeforeSend, WorkerInv, SaleInv, MayBeCharged
      <4>2. Outcome("failed", FALSE, FALSE) \in ChargeOutcome
        BY DEF Outcome, ChargeOutcome, ChargeResult
      <4> QED
        BY <3>6, <3>7, <4>1, <4>2 DEF RefuseBeforeSend
    <3>8. CASE TransientBeforeSend(w)
      <4>1. /\ Outcome("unverified", TRUE, FALSE) \in ChargeOutcome
            /\ Outcome("unverified", TRUE, FALSE).result # "failed"
        BY DEF Outcome, ChargeOutcome, ChargeResult
      <4> QED
        BY <3>6, <3>8, <4>1 DEF TransientBeforeSend
    <3>9. CASE ChargeAccepted(w)
      <4>1. /\ Outcome("success", TRUE, TRUE) \in ChargeOutcome
            /\ Outcome("success", TRUE, TRUE).result # "failed"
        BY DEF Outcome, ChargeOutcome, ChargeResult
      <4> QED
        BY <3>6, <3>9, <4>1 DEF ChargeAccepted
    <3>10. CASE ChargeUnclear(w)
      <4>1. PICK ref \in BOOLEAN :
               GatewayReturns(w, Outcome("unverified", TRUE, ref), FALSE)
        BY <3>10, AdapterAssumption DEF ChargeUnclear, AdapterProfiles, MayBeCharged
      <4>2. /\ Outcome("unverified", TRUE, ref) \in ChargeOutcome
            /\ Outcome("unverified", TRUE, ref).result # "failed"
        BY DEF Outcome, ChargeOutcome, ChargeResult
      <4> QED
        BY <3>6, <3>10, <4>1, <4>2 DEF ChargeUnclear
    <3>11. CASE ChargeRejected(w)
      <4>1. ~MayBeCharged(wsale[w])
        BY <3>11 DEF ChargeRejected, MayBeCharged
      <4>2. Outcome("failed", maySent[w], FALSE) \in ChargeOutcome
        BY <2>types DEF WorkerTypeOK, Outcome, ChargeOutcome, ChargeResult
      <4> QED
        BY <3>6, <3>11, <4>1, <4>2 DEF ChargeRejected
    <3> QED
      BY <2>12, <3>4, <3>5, <3>7, <3>8, <3>9, <3>10, <3>11
      DEF Gateway, ChargeEscapes, KeepsContract
  <2>13. ASSUME NEW w \in Worker, RecordCharge(w) PROVE MoneyInv'
    <3>1. FailureIsTrue'
      BY <2>13, <2>types, <2>inv, <2>money
      DEF RecordCharge, FailureIsTrue, MayBeCharged, WorkerTypeOK,
          CheckerTypeOK, ProviderTypeOK, WorkerInv, CheckerInv, Charging,
          saleVars, jobVars, workerVars, checkerVars, providerVars
    <3>2. ASSUME NEW t \in Sale PROVE NotSentIsTrue(t)'
      BY <2>13, <2>types, <2>inv, <2>money
      DEF RecordCharge, NotSentIsTrue, MayBeCharged, JobTypeOK, WorkerTypeOK,
          ProviderTypeOK, saleVars, jobVars, workerVars, checkerVars,
          providerVars
    <3>3. NoReversalOfPossibleCharge'
      BY <2>13, <2>types, <2>inv, <2>money, UndoneByFailure
      DEF RecordCharge, NoReversalOfPossibleCharge, MayBeCharged, SaleInv,
          SaleTypeOK, ProviderTypeOK, FailureIsTrue, CheckerInv, WorkerInv,
          saleVars, jobVars, workerVars, checkerVars, providerVars
    <3> QED
      BY <3>1, <3>2, <3>3 DEF MoneyInv
  <2>14. ASSUME NEW w \in Worker, MarkDone(w) PROVE MoneyInv'
    <3>1. FailureIsTrue'
      BY <2>14, <2>types, <2>inv, <2>money
      DEF MarkDone, FinishJob, Leave, FailureIsTrue, MayBeCharged,
          WorkerTypeOK, CheckerTypeOK, ProviderTypeOK, WorkerInv, CheckerInv,
          Charging, saleVars, jobVars, workerVars, checkerVars, providerVars
    <3>2. ASSUME NEW t \in Sale PROVE NotSentIsTrue(t)'
      BY <2>14, <2>types, <2>inv, <2>money
      DEF MarkDone, FinishJob, Leave, NotSentIsTrue, MayBeCharged, JobTypeOK,
          WorkerTypeOK, ProviderTypeOK, saleVars, jobVars, workerVars,
          checkerVars, providerVars
    <3>3. NoReversalOfPossibleCharge'
      BY <2>14, <2>types, <2>inv, <2>money
      DEF MarkDone, FinishJob, Leave, NoReversalOfPossibleCharge,
          MayBeCharged, SaleInv, SaleTypeOK, ProviderTypeOK, saleVars,
          jobVars, workerVars, checkerVars, providerVars
    <3> QED
      BY <3>1, <3>2, <3>3 DEF MoneyInv
  <2>15. ASSUME NEW w \in Worker, RecordChargeFails(w) PROVE MoneyInv'
    <3>1. FailureIsTrue'
      BY <2>15, <2>types, <2>inv, <2>money
      DEF RecordChargeFails, FinishJob, Leave, FailureIsTrue, MayBeCharged,
          WorkerTypeOK, CheckerTypeOK, ProviderTypeOK, WorkerInv, CheckerInv,
          Charging, saleVars, jobVars, workerVars, checkerVars, providerVars
    <3>2. ASSUME NEW t \in Sale PROVE NotSentIsTrue(t)'
      BY <2>15, <2>types, <2>inv, <2>money
      DEF RecordChargeFails, FinishJob, Leave, NotSentIsTrue, MayBeCharged,
          JobTypeOK, WorkerTypeOK, ProviderTypeOK, saleVars, jobVars,
          workerVars, checkerVars, providerVars
    <3>3. NoReversalOfPossibleCharge'
      BY <2>15, <2>types, <2>inv, <2>money
      DEF RecordChargeFails, FinishJob, Leave, NoReversalOfPossibleCharge,
          MayBeCharged, SaleInv, SaleTypeOK, ProviderTypeOK, saleVars,
          jobVars, workerVars, checkerVars, providerVars
    <3> QED
      BY <3>1, <3>2, <3>3 DEF MoneyInv
  <2>16. ASSUME NEW w \in Worker, WorkerCrashes(w) PROVE MoneyInv'
    <3>1. FailureIsTrue'
      BY <2>16, <2>types, <2>inv, <2>money
      DEF WorkerCrashes, Leave, FailureIsTrue, MayBeCharged, WorkerTypeOK,
          CheckerTypeOK, ProviderTypeOK, WorkerInv, CheckerInv, Charging,
          saleVars, jobVars, workerVars, checkerVars, providerVars
    <3>2. ASSUME NEW t \in Sale PROVE NotSentIsTrue(t)'
      BY <2>16, <2>types, <2>inv, <2>money
      DEF WorkerCrashes, Leave, NotSentIsTrue, MayBeCharged, JobTypeOK,
          WorkerTypeOK, ProviderTypeOK, saleVars, jobVars, workerVars,
          checkerVars, providerVars
    <3>3. NoReversalOfPossibleCharge'
      BY <2>16, <2>types, <2>inv, <2>money
      DEF WorkerCrashes, Leave, NoReversalOfPossibleCharge, MayBeCharged,
          SaleInv, SaleTypeOK, ProviderTypeOK, saleVars, jobVars, workerVars,
          checkerVars, providerVars
    <3> QED
      BY <3>1, <3>2, <3>3 DEF MoneyInv
  <2>17. ASSUME NEW c \in Checker, NEW s \in Sale, LoadSale(c, s) PROVE MoneyInv'
    <3>1. FailureIsTrue'
      BY <2>17, <2>types, <2>inv, <2>money
      DEF LoadSale, ChargeIsOpen, FailureIsTrue, MayBeCharged, WorkerTypeOK,
          CheckerTypeOK, ProviderTypeOK, WorkerInv, CheckerInv, Charging,
          saleVars, jobVars, workerVars, checkerVars, providerVars
    <3>2. ASSUME NEW t \in Sale PROVE NotSentIsTrue(t)'
      BY <2>17, <2>types, <2>inv, <2>money
      DEF LoadSale, ChargeIsOpen, NotSentIsTrue, MayBeCharged, JobTypeOK,
          WorkerTypeOK, ProviderTypeOK, saleVars, jobVars, workerVars,
          checkerVars, providerVars
    <3>3. NoReversalOfPossibleCharge'
      BY <2>17, <2>types, <2>inv, <2>money
      DEF LoadSale, ChargeIsOpen, NoReversalOfPossibleCharge, MayBeCharged,
          SaleInv, SaleTypeOK, ProviderTypeOK, saleVars, jobVars, workerVars,
          checkerVars, providerVars
    <3> QED
      BY <3>1, <3>2, <3>3 DEF MoneyInv
  <2>18. ASSUME NEW c \in Checker, Requeue(c) PROVE MoneyInv'
    <3>1. FailureIsTrue'
      BY <2>18, <2>types, <2>inv, <2>money
      DEF Requeue, Enqueue, LeaveCheck, FailureIsTrue, MayBeCharged,
          WorkerTypeOK, CheckerTypeOK, ProviderTypeOK, WorkerInv, CheckerInv,
          Charging, saleVars, jobVars, workerVars, checkerVars, providerVars
    <3>2. ASSUME NEW t \in Sale PROVE NotSentIsTrue(t)'
      BY <2>18, <2>types, <2>inv, <2>money
      DEF Requeue, Enqueue, LeaveCheck, NotSentIsTrue, MayBeCharged,
          JobTypeOK, WorkerTypeOK, ProviderTypeOK, saleVars, jobVars,
          workerVars, checkerVars, providerVars
    <3>3. NoReversalOfPossibleCharge'
      BY <2>18, <2>types, <2>inv, <2>money
      DEF Requeue, Enqueue, LeaveCheck, NoReversalOfPossibleCharge,
          MayBeCharged, SaleInv, SaleTypeOK, ProviderTypeOK, saleVars,
          jobVars, workerVars, checkerVars, providerVars
    <3> QED
      BY <3>1, <3>2, <3>3 DEF MoneyInv
  <2>19. ASSUME NEW c \in Checker, LeaveAlone(c) PROVE MoneyInv'
    <3>1. FailureIsTrue'
      BY <2>19, <2>types, <2>inv, <2>money
      DEF LeaveAlone, LeaveCheck, FailureIsTrue, MayBeCharged, WorkerTypeOK,
          CheckerTypeOK, ProviderTypeOK, WorkerInv, CheckerInv, Charging,
          saleVars, jobVars, workerVars, checkerVars, providerVars
    <3>2. ASSUME NEW t \in Sale PROVE NotSentIsTrue(t)'
      BY <2>19, <2>types, <2>inv, <2>money
      DEF LeaveAlone, LeaveCheck, NotSentIsTrue, MayBeCharged, JobTypeOK,
          WorkerTypeOK, ProviderTypeOK, saleVars, jobVars, workerVars,
          checkerVars, providerVars
    <3>3. NoReversalOfPossibleCharge'
      BY <2>19, <2>types, <2>inv, <2>money
      DEF LeaveAlone, LeaveCheck, NoReversalOfPossibleCharge, MayBeCharged,
          SaleInv, SaleTypeOK, ProviderTypeOK, saleVars, jobVars, workerVars,
          checkerVars, providerVars
    <3> QED
      BY <3>1, <3>2, <3>3 DEF MoneyInv
  <2>20. ASSUME NEW c \in Checker, GoCheck(c) PROVE MoneyInv'
    <3>1. FailureIsTrue'
      BY <2>20, <2>types, <2>inv, <2>money
      DEF GoCheck, FailureIsTrue, MayBeCharged, WorkerTypeOK, CheckerTypeOK,
          ProviderTypeOK, WorkerInv, CheckerInv, Charging, saleVars, jobVars,
          workerVars, checkerVars, providerVars
    <3>2. ASSUME NEW t \in Sale PROVE NotSentIsTrue(t)'
      BY <2>20, <2>types, <2>inv, <2>money
      DEF GoCheck, NotSentIsTrue, MayBeCharged, JobTypeOK, WorkerTypeOK,
          ProviderTypeOK, saleVars, jobVars, workerVars, checkerVars,
          providerVars
    <3>3. NoReversalOfPossibleCharge'
      BY <2>20, <2>types, <2>inv, <2>money
      DEF GoCheck, NoReversalOfPossibleCharge, MayBeCharged, SaleInv,
          SaleTypeOK, ProviderTypeOK, saleVars, jobVars, workerVars,
          checkerVars, providerVars
    <3> QED
      BY <3>1, <3>2, <3>3 DEF MoneyInv
  <2>21. ASSUME NEW c \in Checker, CheckCharge(c) PROVE MoneyInv'
    <3>1. FailureIsTrue'
      BY <2>21, <2>types, <2>inv, <2>money
      DEF CheckCharge, CheckAnswers, Outcome, KeepsContract, FailureIsTrue, MayBeCharged,
          WorkerTypeOK, CheckerTypeOK, ProviderTypeOK, WorkerInv, CheckerInv,
          Charging, saleVars, jobVars, workerVars, checkerVars, providerVars
    <3>2. ASSUME NEW t \in Sale PROVE NotSentIsTrue(t)'
      BY <2>21, <2>types, <2>inv, <2>money
      DEF CheckCharge, CheckAnswers, Outcome, NotSentIsTrue, MayBeCharged,
          JobTypeOK, WorkerTypeOK, ProviderTypeOK, saleVars, jobVars,
          workerVars, checkerVars, providerVars
    <3>3. NoReversalOfPossibleCharge'
      BY <2>21, <2>types, <2>inv, <2>money
      DEF CheckCharge, CheckAnswers, Outcome, NoReversalOfPossibleCharge,
          MayBeCharged, SaleInv, SaleTypeOK, ProviderTypeOK, saleVars,
          jobVars, workerVars, checkerVars, providerVars
    <3> QED
      BY <3>1, <3>2, <3>3 DEF MoneyInv
  <2>22. ASSUME NEW c \in Checker, RecordCheck(c) PROVE MoneyInv'
    <3>1. FailureIsTrue'
      BY <2>22, <2>types, <2>inv, <2>money
      DEF RecordCheck, LeaveCheck, FailureIsTrue, MayBeCharged, WorkerTypeOK,
          CheckerTypeOK, ProviderTypeOK, WorkerInv, CheckerInv, Charging,
          saleVars, jobVars, workerVars, checkerVars, providerVars
    <3>2. ASSUME NEW t \in Sale PROVE NotSentIsTrue(t)'
      BY <2>22, <2>types, <2>inv, <2>money
      DEF RecordCheck, LeaveCheck, NotSentIsTrue, MayBeCharged, JobTypeOK,
          WorkerTypeOK, ProviderTypeOK, saleVars, jobVars, workerVars,
          checkerVars, providerVars
    <3>3. NoReversalOfPossibleCharge'
      BY <2>22, <2>types, <2>inv, <2>money, UndoneByFailure
      DEF RecordCheck, LeaveCheck, NoReversalOfPossibleCharge, MayBeCharged,
          SaleInv, SaleTypeOK, ProviderTypeOK, FailureIsTrue, CheckerInv,
          WorkerInv, saleVars, jobVars, workerVars, checkerVars, providerVars
    <3> QED
      BY <3>1, <3>2, <3>3 DEF MoneyInv
  <2>23. ASSUME NEW c \in Checker, CheckerCrashes(c) PROVE MoneyInv'
    <3>1. FailureIsTrue'
      BY <2>23, <2>types, <2>inv, <2>money
      DEF CheckerCrashes, LeaveCheck, FailureIsTrue, MayBeCharged,
          WorkerTypeOK, CheckerTypeOK, ProviderTypeOK, WorkerInv, CheckerInv,
          Charging, saleVars, jobVars, workerVars, checkerVars, providerVars
    <3>2. ASSUME NEW t \in Sale PROVE NotSentIsTrue(t)'
      BY <2>23, <2>types, <2>inv, <2>money
      DEF CheckerCrashes, LeaveCheck, NotSentIsTrue, MayBeCharged, JobTypeOK,
          WorkerTypeOK, ProviderTypeOK, saleVars, jobVars, workerVars,
          checkerVars, providerVars
    <3>3. NoReversalOfPossibleCharge'
      BY <2>23, <2>types, <2>inv, <2>money
      DEF CheckerCrashes, LeaveCheck, NoReversalOfPossibleCharge,
          MayBeCharged, SaleInv, SaleTypeOK, ProviderTypeOK, saleVars,
          jobVars, workerVars, checkerVars, providerVars
    <3> QED
      BY <3>1, <3>2, <3>3 DEF MoneyInv
  <2>24. CASE UNCHANGED vars
    BY <2>24, <2>money
    DEF vars, MoneyInv, FailureIsTrue, NotSentIsTrue,
        NoReversalOfPossibleCharge, MayBeCharged, saleVars, jobVars,
        workerVars, checkerVars, providerVars
  <2> QED
    BY <2>1, <2>2, <2>3, <2>4, <2>5, <2>6, <2>7, <2>8, <2>9, <2>10, <2>11, <2>12,
       <2>13, <2>14, <2>15, <2>16, <2>17, <2>18, <2>19, <2>20, <2>21, <2>22, <2>23, <2>24
    DEF Next, WorkerStep, CheckerStep
<1> QED
  BY <1>1, <1>2, Typing, Controlled, PTL DEF Spec

\* Under the contract, an outcome never undoes a sale whose charge may have
\* gone through.
THEOREM ReturnedOnlyIfUncharged ==
    ASSUME KeepsContract
    PROVE  Spec => []NoReversalOfPossibleCharge
<1>1. MoneyInv => NoReversalOfPossibleCharge
  BY DEF MoneyInv
<1> QED
  BY <1>1, FailuresAreTrue, PTL

-----------------------------------------------------------------------------
\* ChargeSale implements ChargeMoney.

MoneyKept(s) == Money(s)' = Money(s) /\ Request(s)' = Request(s)

\* One step of ChargeMoney for the sale s.
MoneyMoves(s) ==
    \/ /\ Money(s) = "unused" /\ Money(s)' = "held"
       /\ Request(s)' = Request(s)
    \/ /\ Request(s) = "none" /\ Request(s)' = "out"
       /\ Money(s) = "held" /\ Money(s)' = "held"
    \/ /\ Request(s) = "out" /\ Request(s)' = "void"
       /\ Money(s)' = Money(s)
    \/ /\ Money(s) = "held" /\ Money(s)' = "returned"
       /\ Request(s) # "out" /\ Request(s)' = Request(s)
    \/ /\ Money(s) \in {"held", "returned"} /\ Money(s)' = "refunded"
       /\ Request(s)' = Request(s)

PromiseStep ==
    \/ \A t \in Sale : MoneyKept(t)
    \/ \E s \in Sale : MoneyMoves(s) /\ \A t \in Sale \ {s} : MoneyKept(t)

\* A step described sale by sale is a step of ChargeMoney.
LEMMA StepIsPromised ==
    ASSUME PromiseStep
    PROVE  [Promise!Next]_(Promise!vars)
<1>1. CASE \A t \in Sale : MoneyKept(t)
  BY <1>1 DEF MoneyKept, Promise!vars
<1>2. ASSUME NEW s \in Sale, MoneyMoves(s), \A t \in Sale \ {s} : MoneyKept(t)
      PROVE  Promise!Next
  <2> DEFINE m == [t \in Sale |-> Money(t)]
             r == [t \in Sale |-> Request(t)]
  <2>1. /\ m' = [m EXCEPT ![s] = Money(s)']
        /\ r' = [r EXCEPT ![s] = Request(s)']
    BY <1>2 DEF MoneyKept
  <2>2. m[s] = Money(s) /\ r[s] = Request(s)
    OBVIOUS
  <2>3. Money(s)' = Money(s) => m' = m
    BY <2>1, <2>2
  <2>4. Request(s)' = Request(s) => r' = r
    BY <2>1, <2>2
  <2> HIDE DEF m, r
  <2>5. \/ m[s] = "unused" /\ m' = [m EXCEPT ![s] = "held"] /\ r' = r
        \/ /\ m[s] = "held" /\ r[s] = "none" /\ m' = m
           /\ r' = [r EXCEPT ![s] = "out"]
        \/ r[s] = "out" /\ m' = m /\ r' = [r EXCEPT ![s] = "void"]
        \/ /\ m[s] = "held" /\ r[s] # "out" /\ r' = r
           /\ m' = [m EXCEPT ![s] = "returned"]
        \/ /\ m[s] \in {"held", "returned"} /\ r' = r
           /\ m' = [m EXCEPT ![s] = "refunded"]
    BY <1>2, <2>1, <2>2, <2>3, <2>4 DEF MoneyMoves
  <2> QED
    BY <2>5 DEF m, r, Promise!Next, Promise!Hold, Promise!Send,
        Promise!BecomesVoid, Promise!Return, Promise!Refund
<1> QED
  BY <1>1, <1>2 DEF PromiseStep

\* An outcome that reports a failure only truly returns the money as promised.
LEMMA OutcomeIsPromised ==
    ASSUME SaleTypeOK, ProviderTypeOK, NEW s \in Sale, NEW o, SaleInv(s),
           ApplyOutcome(s, o), UNCHANGED providerVars,
           o.result = "failed" => ~MayBeCharged(s)
    PROVE  PromiseStep
<1>1. CASE UNCHANGED <<sale, undoneBy>>
  BY <1>1 DEF PromiseStep, MoneyKept, Money, Request, providerVars
<1>2. CASE DiscardUnsentSale(s, o)
  BY <1>2 DEF DiscardUnsentSale, DeleteSalePermanently, PromiseStep, MoneyMoves,
      MoneyKept, Money, Request, MayBeCharged, SaleTypeOK, ProviderTypeOK, providerVars
<1>3. CASE ReverseFailedSale(s, o) /\ CancelSale(s, "outcome")
  BY <1>3 DEF ReverseFailedSale, CancelSale, PromiseStep, MoneyMoves,
      MoneyKept, Money, Request, MayBeCharged, SaleTypeOK, ProviderTypeOK, providerVars
<1> QED
  BY <1>1, <1>2, <1>3 DEF ApplyOutcome, FlagSuccessAfterFailure, IgnoreOutcome,
      RecordOutcome, ReverseFailedSale

\* ChargeSale implements ChargeMoney when the adapter keeps its contract.
THEOREM PromiseIsKept ==
    ASSUME KeepsContract
    PROVE  Spec => KeepsPromise
<1>1. Init => Promise!Init
  BY DEF Init, Promise!Init, Money, Request
<1>2. TypeOK /\ Control /\ MoneyInv /\ [Next]_vars => [Promise!Next]_(Promise!vars)
  <2> SUFFICES ASSUME TypeOK, Control, MoneyInv, [Next]_vars PROVE PromiseStep
    BY StepIsPromised
  <2>types. SaleTypeOK /\ JobTypeOK /\ WorkerTypeOK /\ CheckerTypeOK /\ ProviderTypeOK
    BY DEF TypeOK
  <2>inv. /\ \A s \in Sale : SaleInv(s)
          /\ \A w \in Worker : WorkerInv(w)
          /\ \A c \in Checker : CheckerInv(c)
    BY DEF Control
  <2>money. FailureIsTrue /\ (\A s \in Sale : NotSentIsTrue(s)) /\ NoReversalOfPossibleCharge
    BY DEF MoneyInv
  <2>1. CASE UNCHANGED <<sale, undoneBy, provider>>
    BY <2>1 DEF PromiseStep, MoneyKept, Money, Request
  <2>2. ASSUME NEW s \in Sale, CreateChargedSale(s) PROVE PromiseStep
    BY <2>2, <2>types, <2>inv
    DEF CreateChargedSale, PromiseStep, MoneyMoves, MoneyKept, Money, Request,
        SaleInv, SaleTypeOK, providerVars
  <2>3. ASSUME NEW s \in Sale, ManualSuccess(s) PROVE PromiseStep
    <3>1. Outcome("success", TRUE, FALSE).result # "failed"
      BY DEF Outcome
    <3> QED
      BY <2>3, <2>types, <2>inv, <3>1, OutcomeIsPromised DEF ManualSuccess
  <2>4. ASSUME NEW s \in Sale, ManualFailure(s) PROVE PromiseStep
    <3>1. ~MayBeCharged(s)
      BY <2>4, <2>inv, <2>money DEF ManualFailure, SaleChargeNotSent,
          NotSentIsTrue, MayBeCharged, SaleInv
    <3> QED
      BY <2>4, <2>types, <2>inv, <3>1, OutcomeIsPromised DEF ManualFailure
  <2>5. ASSUME NEW w \in Worker, RecordCharge(w) PROVE PromiseStep
    <3>1. wsale[w] \in Sale
      BY <2>5, <2>inv DEF RecordCharge, WorkerInv
    <3> QED
      BY <2>5, <2>types, <2>inv, <2>money, <3>1, OutcomeIsPromised
      DEF RecordCharge, FailureIsTrue
  <2>6. ASSUME NEW c \in Checker, RecordCheck(c) PROVE PromiseStep
    <3>1. csale[c] \in Sale
      BY <2>6, <2>inv DEF RecordCheck, CheckerInv
    <3>2. CASE UNCHANGED saleVars
      BY <2>6, <2>1, <3>2 DEF RecordCheck, saleVars, providerVars
    <3>3. CASE ApplyOutcome(csale[c], cout[c])
      BY <2>6, <2>types, <2>inv, <2>money, <3>1, <3>3, OutcomeIsPromised
      DEF RecordCheck, FailureIsTrue
    <3> QED
      BY <2>6, <3>2, <3>3 DEF RecordCheck
  <2>7. ASSUME NEW s \in Sale, ManagementCancels(s) PROVE PromiseStep
    BY <2>7, <2>types
    DEF ManagementCancels, CancelSale, PromiseStep, MoneyMoves, MoneyKept, Money,
        Request, SaleTypeOK, providerVars
  <2>8. ASSUME NEW s \in Sale, ManagementDeletes(s) PROVE PromiseStep
    BY <2>8, <2>types
    DEF ManagementDeletes, DeleteSalePermanently, PromiseStep, MoneyMoves,
        MoneyKept, Money, Request, SaleTypeOK, providerVars
  <2>9. ASSUME NEW s \in Sale, ProviderStep(s) PROVE PromiseStep
    BY <2>9, <2>types
    DEF ProviderStep, ProviderAccepts, ProviderExecutes, ProviderRejects,
        PromiseStep, MoneyMoves, MoneyKept, Money, Request, ProviderTypeOK, saleVars
  <2>10. ASSUME NEW w \in Worker, SendCharge(w) PROVE PromiseStep
    BY <2>10, <2>types, <2>inv
    DEF SendCharge, gatewayUnchanged, PromiseStep, MoneyMoves, MoneyKept, Money,
        Request, WorkerInv, Charging, SaleInv, ProviderTypeOK, saleVars
  <2>11. ASSUME NEW w \in Worker, Gateway(w), ~SendCharge(w)
         PROVE  UNCHANGED <<sale, undoneBy, provider>>
    BY <2>11 DEF Gateway, LoginAndRetry, RefuseBeforeSend, TransientBeforeSend,
        ChargeAccepted, ChargeUnclear, ChargeRejected, ChargeEscapes,
        gatewayUnchanged, saleVars, providerVars
  <2>12. ASSUME NEW w \in Worker,
                \/ \E s \in Sale : StartTask(w, s)
                \/ Claim(w)
                \/ ClaimRefused(w)
                \/ MarkDone(w)
                \/ RecordChargeFails(w)
                \/ WorkerCrashes(w)
         PROVE  UNCHANGED <<sale, undoneBy, provider>>
    BY <2>12 DEF StartTask, Claim, ClaimRefused, MarkDone, RecordChargeFails,
        WorkerCrashes, saleVars, providerVars
  <2>13. ASSUME NEW c \in Checker,
                \/ \E s \in Sale : LoadSale(c, s)
                \/ Requeue(c)
                \/ LeaveAlone(c)
                \/ GoCheck(c)
                \/ CheckCharge(c)
                \/ CheckerCrashes(c)
         PROVE  UNCHANGED <<sale, undoneBy, provider>>
    BY <2>13 DEF LoadSale, Requeue, LeaveAlone, GoCheck, CheckCharge,
        CheckerCrashes, saleVars, providerVars
  <2>14. ASSUME NEW s \in Sale, RunningGoesStale(s) \/ MessageLost(s)
         PROVE  UNCHANGED <<sale, undoneBy, provider>>
    BY <2>14 DEF RunningGoesStale, MessageLost, saleVars, providerVars
  <2>15. CASE UNCHANGED vars
    BY <2>1, <2>15 DEF vars, saleVars, providerVars
  <2> QED
    BY <2>1, <2>2, <2>3, <2>4, <2>5, <2>6, <2>7, <2>8, <2>9, <2>10, <2>11, <2>12,
       <2>13, <2>14, <2>15
    DEF Next, WorkerStep, CheckerStep
<1> QED
  BY <1>1, <1>2, Typing, Controlled, FailuresAreTrue, PTL
  DEF Spec, KeepsPromise, Promise!Spec

-----------------------------------------------------------------------------
(***************************************************************************)
(* The session the charges are sent in (ProviderSession).                  *)
(***************************************************************************)

\* A login that is stored and not yet counted.
Uncounted(w) == at[w] \in {"saving", "counting"}
UncountedSessions == {used[w] : w \in {v \in Caller : Uncounted(v)}}

SessionShape ==
    /\ SessionTypeOK
    /\ stored \in 0..made /\ copy \in 0..made /\ generation \in 0..made
    /\ used \in [Caller -> 0..made]

\* Every login is counted once at most, so that the counter never passes the
\* sessions made.
CountedOnce ==
    /\ \A w \in Caller : Uncounted(w) => used[w] \in 1..made
    /\ \A v, w \in Caller : Uncounted(v) /\ Uncounted(w) /\ used[v] = used[w] => v = w
    /\ generation + Cardinality(UncountedSessions) <= made

\* A step on one caller leaves the others where they are.
LEMMA OthersStay ==
    ASSUME SessionShape, NEW w \in Caller,
           Start(w) \/ Works(w) \/ Renewed(w) \/ SaveCopyFails(w) \/ Dies(w)
    PROVE  \A v \in Caller : v # w => at'[v] = at[v] /\ seen'[v] = seen[v] /\ used'[v] = used[v]
BY DEF SessionShape, SessionTypeOK, Works, Start, Load, LoadCopy, Restore, Answered, Refused,
       Renewed, CompareStored, Overwrite, CheckCooldown, TakeLock, LoginBusy, AnotherLoggedIn,
       AnotherFailed, BeginLogin, LoginFails, LoginSaves, SaveCopy, SaveCopyFails, Count, Dies,
       Moves, Ends

Place ==
    {"idle", "loading", "copying", "restoring", "calling", "renewing", "overwriting",
     "renewed", "refused", "waiting", "locked", "logging in", "saving", "counting"}

\* The two ways a caller's place changes.
LEMMA MovesShape ==
    ASSUME SessionShape, NEW w \in Caller, NEW from, NEW to \in Place, Moves(w, from, to)
    PROVE  at' \in [Caller -> Place]
BY DEF SessionShape, SessionTypeOK, Moves, Place, InLogin

LEMMA EndsShape ==
    ASSUME SessionShape, NEW w \in Caller, Ends(w)
    PROVE  /\ at' \in [Caller -> Place] /\ seen' \in [Caller -> 0..MaxLogins]
           /\ used' \in [Caller -> 0..made] /\ retried' \in [Caller -> BOOLEAN]
<1>1. 0 \in 0..made /\ 0 \in 0..MaxLogins
  BY SessionAssumption DEF SessionShape, SessionTypeOK
<1>2. at' \in [Caller -> Place] /\ retried' \in [Caller -> BOOLEAN]
  BY DEF SessionShape, SessionTypeOK, Ends, Place, InLogin
<1> QED
  BY <1>1, <1>2 DEF SessionShape, SessionTypeOK, Ends, NoSession

\* What is left to show of the types after a step.
Marks ==
    /\ cooldown \in BOOLEAN /\ lock \in Caller \cup {Nobody}
    /\ seen \in [Caller -> 0..MaxLogins] /\ retried \in [Caller -> BOOLEAN]
    /\ reset \in {"no", "clearing", "done"} /\ calm \in BOOLEAN /\ mishaps \in 0..MaxMishaps
Figures ==
    /\ stored \in 0..made /\ copy \in 0..made /\ generation \in 0..made
    /\ made \in 0..MaxLogins /\ valid \subseteq 1..made /\ used \in [Caller -> 0..made]

LEMMA ShapeOfParts ==
    SessionShape <=> Marks /\ Figures /\ at \in [Caller -> Place]
<1>1. ASSUME NEW m \in 0..MaxLogins
      PROVE  0..m \subseteq Session \cup {NoSession} /\ 0..m \subseteq 0..MaxLogins
  BY <1>1, SessionAssumption DEF Session, NoSession
<1>2. Figures => used \in [Caller -> Session \cup {NoSession}]
  BY <1>1 DEF Figures
<1>3. Figures => /\ stored \in Session \cup {NoSession} /\ copy \in Session \cup {NoSession}
                 /\ generation \in 0..MaxLogins
  BY <1>1 DEF Figures
<1>4. (at \in [Caller -> Place]) <=> at \in [Caller -> {"idle", "loading", "copying", "restoring",
        "calling", "renewing", "overwriting", "renewed", "refused", "waiting", "locked"} \cup InLogin]
  BY DEF Place, InLogin
<1> QED
  BY <1>2, <1>3, <1>4 DEF SessionShape, SessionTypeOK, Marks, Figures

LEMMA ShapeOfPartsNext ==
    ASSUME Marks', Figures', at' \in [Caller -> Place]
    PROVE  SessionShape'
<1>1. ASSUME NEW m \in 0..MaxLogins
      PROVE  0..m \subseteq Session \cup {NoSession} /\ 0..m \subseteq 0..MaxLogins
  BY <1>1, SessionAssumption DEF Session, NoSession
<1>2. used' \in [Caller -> Session \cup {NoSession}]
  BY <1>1 DEF Figures
<1>3. /\ stored' \in Session \cup {NoSession} /\ copy' \in Session \cup {NoSession}
      /\ generation' \in 0..MaxLogins
  BY <1>1 DEF Figures
<1>4. at' \in [Caller -> {"idle", "loading", "copying", "restoring",
        "calling", "renewing", "overwriting", "renewed", "refused", "waiting", "locked"} \cup InLogin]
  BY DEF Place, InLogin
<1> QED
  BY <1>2, <1>3, <1>4 DEF SessionShape, SessionTypeOK, Marks, Figures

\* A set of sessions is finite.
LEMMA UpToIsFinite ==
    ASSUME NEW n \in Nat, NEW T, T \subseteq 1..n
    PROVE  IsFiniteSet(T)
<1>1. IsFiniteSet(1..n)
  BY FS_Interval
<1> QED
  BY <1>1, FS_Subset

\* The types are kept, but for a login that is stored or counted.
LEMMA CallerStepShape ==
    ASSUME SessionShape, NEW w \in Caller,
           Start(w) \/ Works(w) \/ Renewed(w) \/ SaveCopyFails(w) \/ Dies(w),
           ~LoginSaves(w), ~Count(w)
    PROVE  Marks' /\ Figures' /\ at' \in [Caller -> Place]
<1>t. Marks /\ Figures /\ at \in [Caller -> Place]
  BY ShapeOfParts
<1>b. MaxLogins \in Nat /\ MaxMishaps \in Nat /\ 0 \in 0..made /\ 0..made \subseteq 0..MaxLogins
  BY <1>t, SessionAssumption DEF Figures
<1>p. /\ "loading" \in Place /\ "copying" \in Place /\ "restoring" \in Place /\ "calling" \in Place
      /\ "renewing" \in Place /\ "overwriting" \in Place /\ "renewed" \in Place
      /\ "refused" \in Place /\ "waiting" \in Place /\ "locked" \in Place
      /\ "logging in" \in Place /\ "saving" \in Place /\ "counting" \in Place
  BY DEF Place
<1>1. CASE Start(w)
  <2>1. at' \in [Caller -> Place]
    BY <1>1, <1>p, MovesShape DEF Start
  <2> QED
    BY <1>1, <1>t, <1>b, <2>1 DEF Start, Marks, Figures
<1>2. CASE Load(w)
  <2>1. at' \in [Caller -> Place]
    BY <1>2, <1>p, MovesShape DEF Load
  <2> QED
    BY <1>2, <1>t, <1>b, <2>1 DEF Load, Marks, Figures
<1>3. CASE LoadCopy(w)
  <2>1. at' \in [Caller -> Place]
    BY <1>3, <1>p, MovesShape DEF LoadCopy
  <2> QED
    BY <1>3, <1>t, <1>b, <2>1 DEF LoadCopy, Marks, Figures
<1>4. CASE Restore(w)
  <2>1. at' \in [Caller -> Place]
    BY <1>4, <1>p, MovesShape DEF Restore
  <2> QED
    BY <1>4, <1>t, <1>b, <2>1 DEF Restore, Marks, Figures, WriteBack
<1>5. CASE Answered(w)
  <2>1. /\ at' \in [Caller -> Place] /\ seen' \in [Caller -> 0..MaxLogins]
        /\ used' \in [Caller -> 0..made] /\ retried' \in [Caller -> BOOLEAN]
    BY <1>5, EndsShape DEF Answered
  <2> QED
    BY <1>5, <1>t, <1>b, <2>1 DEF Answered, Marks, Figures
<1>6. CASE Refused(w)
  <2>1. /\ at' \in [Caller -> Place] /\ seen' \in [Caller -> 0..MaxLogins]
        /\ used' \in [Caller -> 0..made] /\ retried' \in [Caller -> BOOLEAN]
    <3>1. CASE Ends(w)
      BY <3>1, EndsShape
    <3>2. CASE ~Ends(w)
      BY <1>6, <1>t, <1>p, <3>2, MovesShape DEF Refused, Moves, Marks, Figures
    <3> QED
      BY <3>1, <3>2
  <2> QED
    BY <1>6, <1>t, <1>b, <2>1 DEF Refused, Marks, Figures
<1>7. CASE Renewed(w)
  <2>1. at' \in [Caller -> Place]
    BY <1>7, <1>p, MovesShape DEF Renewed
  <2> QED
    BY <1>7, <1>t, <1>b, <2>1 DEF Renewed, Marks, Figures
<1>8. CASE CompareStored(w)
  <2>1. at' \in [Caller -> Place]
    BY <1>8, <1>p, MovesShape DEF CompareStored
  <2> QED
    BY <1>8, <1>t, <1>b, <2>1 DEF CompareStored, Marks, Figures
<1>9. CASE Overwrite(w)
  <2>1. at' \in [Caller -> Place]
    BY <1>9, <1>p, MovesShape DEF Overwrite
  <2> QED
    BY <1>9, <1>t, <1>b, <2>1 DEF Overwrite, Marks, Figures, WriteBack
<1>10. CASE CheckCooldown(w)
  <2>1. /\ at' \in [Caller -> Place] /\ seen' \in [Caller -> 0..MaxLogins]
        /\ used' \in [Caller -> 0..made] /\ retried' \in [Caller -> BOOLEAN]
    <3>1. CASE Ends(w)
      BY <3>1, EndsShape
    <3>2. CASE ~Ends(w)
      BY <1>10, <1>t, <1>p, <3>2, MovesShape DEF CheckCooldown, Moves, Marks, Figures
    <3> QED
      BY <3>1, <3>2
  <2> QED
    BY <1>10, <1>t, <1>b, <2>1 DEF CheckCooldown, Marks, Figures
<1>11. CASE TakeLock(w)
  <2>1. at' \in [Caller -> Place]
    BY <1>11, <1>p, MovesShape DEF TakeLock
  <2> QED
    BY <1>11, <1>t, <1>b, <2>1 DEF TakeLock, Marks, Figures
<1>12. CASE LoginBusy(w)
  <2>1. /\ at' \in [Caller -> Place] /\ seen' \in [Caller -> 0..MaxLogins]
        /\ used' \in [Caller -> 0..made] /\ retried' \in [Caller -> BOOLEAN]
    BY <1>12, EndsShape DEF LoginBusy
  <2> QED
    BY <1>12, <1>t, <1>b, <2>1 DEF LoginBusy, Marks, Figures
<1>13. CASE AnotherLoggedIn(w)
  <2>1. at' \in [Caller -> Place]
    BY <1>13, <1>p, MovesShape DEF AnotherLoggedIn
  <2> QED
    BY <1>13, <1>t, <1>b, <2>1 DEF AnotherLoggedIn, Marks, Figures, Release
<1>14. CASE AnotherFailed(w)
  <2>1. /\ at' \in [Caller -> Place] /\ seen' \in [Caller -> 0..MaxLogins]
        /\ used' \in [Caller -> 0..made] /\ retried' \in [Caller -> BOOLEAN]
    BY <1>14, EndsShape DEF AnotherFailed
  <2> QED
    BY <1>14, <1>t, <1>b, <2>1 DEF AnotherFailed, Marks, Figures, Release
<1>15. CASE BeginLogin(w)
  <2>1. at' \in [Caller -> Place]
    BY <1>15, <1>p, MovesShape DEF BeginLogin
  <2> QED
    BY <1>15, <1>t, <1>b, <2>1 DEF BeginLogin, Marks, Figures
<1>16. CASE SaveCopy(w)
  <2>1. at' \in [Caller -> Place]
    BY <1>16, <1>p, MovesShape DEF SaveCopy
  <2> QED
    BY <1>16, <1>t, <1>b, <2>1 DEF SaveCopy, Marks, Figures
<1>17. CASE SaveCopyFails(w)
  <2>1. /\ at' \in [Caller -> Place] /\ seen' \in [Caller -> 0..MaxLogins]
        /\ used' \in [Caller -> 0..made] /\ retried' \in [Caller -> BOOLEAN]
    BY <1>17, EndsShape DEF SaveCopyFails
  <2>2. mishaps' \in 0..MaxMishaps
    BY <1>17, <1>t, <1>b DEF SaveCopyFails, Marks
  <2> QED
    BY <1>17, <1>t, <2>1, <2>2 DEF SaveCopyFails, Release, Marks, Figures
<1>18. CASE Dies(w)
  <2>1. /\ at' \in [Caller -> Place] /\ seen' \in [Caller -> 0..MaxLogins]
        /\ used' \in [Caller -> 0..made] /\ retried' \in [Caller -> BOOLEAN]
    BY <1>18, EndsShape DEF Dies
  <2>2. mishaps' \in 0..MaxMishaps
    BY <1>18, <1>t, <1>b DEF Dies, Marks
  <2> QED
    BY <1>18, <1>t, <2>1, <2>2 DEF Dies, Release, Marks, Figures
<1>19. ASSUME NEW cools \in BOOLEAN, LoginFails(w, cools)
      PROVE  Marks' /\ Figures' /\ at' \in [Caller -> Place]
  <2>1. /\ at' \in [Caller -> Place] /\ seen' \in [Caller -> 0..MaxLogins]
        /\ used' \in [Caller -> 0..made] /\ retried' \in [Caller -> BOOLEAN]
    BY <1>19, EndsShape DEF LoginFails
  <2> QED
    BY <1>19, <1>t, <1>b, <2>1 DEF LoginFails, Release, Marks, Figures
<1> QED
  BY <1>1, <1>2, <1>3, <1>4, <1>5, <1>6, <1>7, <1>8, <1>9, <1>10, <1>11, <1>12, <1>13, <1>14, <1>15, <1>16, <1>17, <1>18, <1>19 DEF Works

\* A login that is stored, or counted.
LEMMA LoginShape ==
    ASSUME SessionShape, CountedOnce, NEW w \in Caller, LoginSaves(w) \/ Count(w)
    PROVE  Marks' /\ Figures' /\ at' \in [Caller -> Place]
<1>t. Marks /\ Figures /\ at \in [Caller -> Place]
  BY ShapeOfParts
<1>m. MaxLogins \in Nat /\ made \in Nat /\ generation \in Nat
  BY <1>t, SessionAssumption DEF Figures
<1>1. CASE LoginSaves(w)
  <2>1. /\ made' = made + 1 /\ made < MaxLogins /\ valid' = valid \cup {made'} /\ stored' = made'
        /\ used' = [used EXCEPT ![w] = made']
        /\ UNCHANGED <<copy, generation, cooldown, lock, seen, retried, reset, calm, mishaps>>
    BY <1>1 DEF LoginSaves
  <2>2. /\ made' \in 0..MaxLogins /\ 0..made \subseteq 0..made' /\ 1..made \subseteq 1..made'
        /\ made' \in 0..made' /\ made' \in 1..made'
    BY <1>m, <2>1
  <2>3. at' \in [Caller -> Place]
    BY <1>1, MovesShape DEF LoginSaves, Place
  <2>4. used' \in [Caller -> 0..made']
    BY <1>t, <2>1, <2>2 DEF Figures
  <2>5. valid' \subseteq 1..made'
    BY <1>t, <2>1, <2>2 DEF Figures
  <2>6. Figures'
    BY <1>t, <2>1, <2>2, <2>4, <2>5 DEF Figures
  <2> QED
    BY <1>t, <2>1, <2>3, <2>6 DEF Marks
<1>2. CASE Count(w)
  <2>1. generation + 1 \in 0..made
    <3>1. UncountedSessions \subseteq 1..made /\ used[w] \in UncountedSessions
      BY <1>2 DEF Count, Moves, CountedOnce, UncountedSessions, Uncounted
    <3>2. IsFiniteSet(UncountedSessions)
      BY <1>m, <3>1, UpToIsFinite
    <3>3. Cardinality(UncountedSessions) \in Nat /\ Cardinality(UncountedSessions) # 0
      BY <3>1, <3>2, FS_CardinalityType, FS_EmptySet
    <3>4. generation + Cardinality(UncountedSessions) <= made
      BY DEF CountedOnce
    <3> HIDE DEF UncountedSessions
    <3> QED
      BY <1>m, <3>3, <3>4
  <2>2. at' \in [Caller -> Place]
    BY <1>2, MovesShape DEF Count, Place
  <2> QED
    BY <1>2, <1>t, <2>1, <2>2 DEF Count, Release, Marks, Figures
<1> QED
  BY <1>1, <1>2

LEMMA SessionShapeKept ==
    ASSUME SessionShape, CountedOnce, [SessionNext]_sessionVars
    PROVE  SessionShape'
<1>t. Marks /\ Figures /\ at \in [Caller -> Place]
  BY ShapeOfParts
<1>b. MaxLogins \in Nat /\ MaxMishaps \in Nat /\ 0 \in 0..made
  BY <1>t, SessionAssumption DEF Figures
<1> SUFFICES Marks' /\ Figures' /\ at' \in [Caller -> Place]
  BY ShapeOfPartsNext
<1>1. ASSUME NEW w \in Caller, Start(w) \/ Works(w) \/ Renewed(w) \/ SaveCopyFails(w) \/ Dies(w)
      PROVE  Marks' /\ Figures' /\ at' \in [Caller -> Place]
  BY <1>1, CallerStepShape, LoginShape
<1>2. CASE CooldownEnds \/ ResetRedis \/ ResetCopy
  BY <1>2, <1>t, <1>b DEF CooldownEnds, ResetRedis, ResetCopy, NoSession, Marks, Figures
<1>3. CASE RedisRestarts
  <2>1. Figures' /\ at' \in [Caller -> Place]
    BY <1>3, <1>t, <1>b DEF RedisRestarts, NoSession, Figures
  <2>2. Marks'
    <3>1. mishaps' \in 0..MaxMishaps
      BY <1>3, <1>t, <1>b DEF RedisRestarts, Marks
    <3> QED
      BY <1>3, <1>t, <3>1 DEF RedisRestarts, Marks
  <2> QED
    BY <2>1, <2>2
<1>4. ASSUME NEW s \in Session, Expires(s)
      PROVE  Marks' /\ Figures' /\ at' \in [Caller -> Place]
  BY <1>4, <1>t DEF Expires, Marks, Figures
<1>5. CASE UNCHANGED sessionVars
  BY <1>5, <1>t DEF sessionVars, Marks, Figures
<1> QED
  BY <1>1, <1>2, <1>3, <1>4, <1>5 DEF SessionNext

LEMMA LessFits ==
    \A a, b, g, h, m \in Nat : a <= b /\ h <= g /\ g + b <= m => h + a <= m
OBVIOUS

\* Where a login that is not counted yet can come from.
LEMMA UncountedStays ==
    ASSUME SessionShape, CountedOnce, made' = made, generation' <= generation, generation' \in Nat,
           \A v \in Caller : Uncounted(v)' => Uncounted(v) /\ used'[v] = used[v]
    PROVE  CountedOnce'
<1>1. UncountedSessions' \subseteq UncountedSessions /\ UncountedSessions \subseteq 1..made
  BY DEF UncountedSessions, CountedOnce
<1>2. made \in Nat /\ generation \in Nat
  BY SessionAssumption DEF SessionShape, SessionTypeOK
<1>3. IsFiniteSet(UncountedSessions)
  BY <1>1, <1>2, UpToIsFinite
<1> DEFINE before == Cardinality(UncountedSessions)
           after == Cardinality(UncountedSessions')
<1>4. IsFiniteSet(UncountedSessions') /\ after <= before
  BY <1>1, <1>3, FS_Subset
<1>5. before \in Nat /\ after \in Nat
  BY <1>3, <1>4, FS_CardinalityType
<1>6. generation + before <= made
  BY DEF CountedOnce
<1> HIDE DEF before, after
<1>7. generation' + after <= made'
  BY <1>2, <1>4, <1>5, <1>6, LessFits
<1>8. \A w \in Caller : Uncounted(w)' => used'[w] \in 1..made'
  BY DEF CountedOnce
<1>9. \A v, w \in Caller : Uncounted(v)' /\ Uncounted(w)' /\ used'[v] = used'[w] => v = w
  BY DEF CountedOnce
<1> QED
  BY <1>7, <1>8, <1>9 DEF CountedOnce, after

\* A login is stored.
LEMMA StoredIsUncounted ==
    ASSUME SessionShape, CountedOnce, NEW w \in Caller, LoginSaves(w)
    PROVE  CountedOnce'
<1>1. /\ made' = made + 1 /\ used' = [used EXCEPT ![w] = made'] /\ generation' = generation
      /\ at[w] = "logging in" /\ at' = [at EXCEPT ![w] = IF Durable THEN "saving" ELSE "counting"]
  BY DEF LoginSaves, Moves
<1>2. made \in Nat /\ generation \in Nat /\ used \in [Caller -> 0..made] /\ at \in [Caller -> Place]
  BY ShapeOfParts, SessionAssumption DEF Figures
<1>3. /\ ~Uncounted(w) /\ Uncounted(w)' /\ used'[w] = made'
      /\ \A v \in Caller : v # w => (Uncounted(v)' <=> Uncounted(v)) /\ used'[v] = used[v]
  BY <1>1, <1>2 DEF Uncounted
<1>n. made \in Nat /\ made' = made + 1 /\ generation \in Nat /\ generation' = generation
  BY <1>1, <1>2
<1>4. UncountedSessions \subseteq 1..made
  BY DEF UncountedSessions, CountedOnce
<1>5. UncountedSessions' = UncountedSessions \cup {made'}
  BY <1>3 DEF UncountedSessions
<1>6. made' \notin UncountedSessions
  BY <1>n, <1>4
<1>7. IsFiniteSet(UncountedSessions)
  BY <1>2, <1>4, UpToIsFinite
<1> DEFINE before == Cardinality(UncountedSessions)
           after == Cardinality(UncountedSessions')
<1>8. after = before + 1 /\ before \in Nat
  BY <1>5, <1>6, <1>7, FS_AddElement, FS_CardinalityType
<1>9. generation + before <= made
  BY DEF CountedOnce
<1> HIDE DEF before, after
<1>10. generation' + after <= made'
  BY <1>n, <1>8, <1>9
<1>11. \A v \in Caller : Uncounted(v) => used[v] \in 1..made
  BY DEF CountedOnce
<1>12. ASSUME NEW v \in Caller, Uncounted(v)'
       PROVE  used'[v] \in 1..made' /\ (v # w => used'[v] # made')
  <2>1. CASE v = w
    BY <1>n, <1>3, <2>1
  <2>2. CASE v # w
    <3>1. used[v] \in 1..made /\ used'[v] = used[v]
      BY <1>3, <1>11, <1>12, <2>2
    <3> QED
      BY <1>n, <3>1
  <2> QED
    BY <2>1, <2>2
<1>14. \A u, v \in Caller : Uncounted(u)' /\ Uncounted(v)' /\ used'[u] = used'[v] => u = v
  BY <1>3, <1>12 DEF CountedOnce
<1> QED
  BY <1>10, <1>12, <1>14 DEF CountedOnce, after

\* A login is counted.
LEMMA CountedIsCounted ==
    ASSUME SessionShape, CountedOnce, NEW w \in Caller, Count(w)
    PROVE  CountedOnce'
<1>1. /\ made' = made /\ used' = used /\ generation' = generation + 1
      /\ at[w] = "counting" /\ at' = [at EXCEPT ![w] = "loading"]
  BY DEF Count, Moves
<1>2. made \in Nat /\ generation \in Nat /\ at \in [Caller -> Place]
  BY ShapeOfParts, SessionAssumption DEF Figures
<1>3. /\ Uncounted(w) /\ ~Uncounted(w)'
      /\ \A v \in Caller : v # w => (Uncounted(v)' <=> Uncounted(v))
  BY <1>1, <1>2 DEF Uncounted
<1>4. UncountedSessions \subseteq 1..made /\ used[w] \in UncountedSessions
  BY <1>3 DEF UncountedSessions, CountedOnce
<1>5. UncountedSessions' = UncountedSessions \ {used[w]}
  BY <1>1, <1>3 DEF UncountedSessions, CountedOnce
<1>7. IsFiniteSet(UncountedSessions)
  BY <1>2, <1>4, UpToIsFinite
<1> DEFINE before == Cardinality(UncountedSessions)
           after == Cardinality(UncountedSessions')
<1>8. after = before - 1 /\ before \in Nat
  BY <1>4, <1>5, <1>7, FS_RemoveElement, FS_CardinalityType
<1>9. generation + before <= made
  BY DEF CountedOnce
<1> HIDE DEF before, after
<1>10. generation' + after <= made'
  BY <1>1, <1>2, <1>8, <1>9
<1>11. \A v \in Caller : Uncounted(v)' => used'[v] \in 1..made'
  BY <1>1, <1>3 DEF CountedOnce
<1>12. \A u, v \in Caller : Uncounted(u)' /\ Uncounted(v)' /\ used'[u] = used'[v] => u = v
  BY <1>1, <1>3 DEF CountedOnce
<1> QED
  BY <1>10, <1>11, <1>12 DEF CountedOnce, after

LEMMA CountedOnceKept ==
    ASSUME SessionShape, CountedOnce, [SessionNext]_sessionVars
    PROVE  CountedOnce'
<1>t. generation \in Nat /\ at \in [Caller -> Place]
  BY ShapeOfParts, SessionAssumption DEF Figures
<1>1. ASSUME NEW w \in Caller, Start(w) \/ Works(w) \/ Renewed(w) \/ SaveCopyFails(w) \/ Dies(w)
      PROVE  CountedOnce'
  <2>1. CASE LoginSaves(w)
    BY <2>1, StoredIsUncounted
  <2>2. CASE Count(w)
    BY <2>2, CountedIsCounted
  <2>3. CASE ~LoginSaves(w) /\ ~Count(w)
    <3>1. made' = made /\ generation' = generation
      BY <1>1, <2>3 DEF Works, Start, Load, LoadCopy, Restore, Answered, Refused,
         Renewed, CompareStored, Overwrite, CheckCooldown, TakeLock, LoginBusy, AnotherLoggedIn,
         AnotherFailed, BeginLogin, LoginFails, SaveCopy, SaveCopyFails, Dies
    <3>2. Uncounted(w)' => Uncounted(w) /\ used'[w] = used[w]
      BY <1>1, <1>t, <2>3 DEF Uncounted, Works, Start, Load, LoadCopy, Restore, Answered, Refused,
         Renewed, CompareStored, Overwrite, CheckCooldown, TakeLock, LoginBusy, AnotherLoggedIn,
         AnotherFailed, BeginLogin, LoginFails, SaveCopy, SaveCopyFails, Dies, Moves, Ends
    <3>3. \A v \in Caller : Uncounted(v)' => Uncounted(v) /\ used'[v] = used[v]
      BY <1>1, <3>2, OthersStay DEF Uncounted
    <3> QED
      BY <1>t, <3>1, <3>3, UncountedStays
  <2> QED
    BY <2>1, <2>2, <2>3
<1>2. CASE \/ CooldownEnds \/ ResetRedis \/ ResetCopy \/ RedisRestarts
           \/ (\E s \in Session : Expires(s)) \/ UNCHANGED sessionVars
  <2>1. made' = made /\ at' = at /\ used' = used /\ generation' \in {generation, 0}
    BY <1>2 DEF CooldownEnds, ResetRedis, ResetCopy, RedisRestarts, Expires, sessionVars
  <2>2. generation' <= generation /\ generation' \in Nat
    BY <1>t, <2>1
  <2>3. \A v \in Caller : Uncounted(v)' => Uncounted(v) /\ used'[v] = used[v]
    BY <2>1 DEF Uncounted
  <2> QED
    BY <2>1, <2>2, <2>3, UncountedStays
<1> QED
  BY <1>1, <1>2 DEF SessionNext

\* Everything of the session is of its type, and the counter of logins never passes the
\* logins made: no login is counted twice, whatever fails.
SessionTypeInv == SessionShape /\ CountedOnce

LEMMA SessionTypesAtFirst ==
    ASSUME SessionInit
    PROVE  SessionTypeInv
<1>1. 0 \in 0..MaxLogins /\ 0 \in 0..MaxMishaps /\ 0..0 = {0} /\ 1..0 = {}
  BY SessionAssumption
<1>2. Marks /\ Figures /\ at \in [Caller -> Place]
  BY <1>1 DEF SessionInit, NoSession, Marks, Figures, Place
<1>3. SessionShape
  BY <1>2, ShapeOfParts
<1>4. \A w \in Caller : ~Uncounted(w)
  BY DEF SessionInit, Uncounted
<1>5. Cardinality(UncountedSessions) = 0
  <2>1. UncountedSessions = {}
    BY <1>4 DEF UncountedSessions
  <2> QED
    BY <2>1, FS_EmptySet
<1>6. made = 0 /\ generation = 0
  BY DEF SessionInit
<1> QED
  BY <1>3, <1>4, <1>5, <1>6 DEF SessionTypeInv, CountedOnce

LEMMA SessionTypesKept ==
    ASSUME SessionTypeInv, [SessionNext]_sessionVars
    PROVE  SessionTypeInv'
BY SessionShapeKept, CountedOnceKept DEF SessionTypeInv

\* The session is well typed, and the counter of logins in Redis never passes the sessions
\* made: no login is counted twice, whoever dies or fails on the way.
THEOREM SessionTyping == SessionSpec => [](SessionTypeOK /\ generation <= made)
<1>1. SessionInit => SessionTypeInv
  BY SessionTypesAtFirst
<1>2. SessionTypeInv /\ [SessionNext]_sessionVars => SessionTypeInv'
  BY SessionTypesKept
<1>3. SessionTypeInv => SessionTypeOK /\ generation <= made
  BY DEF SessionTypeInv, SessionShape, SessionTypeOK
<1> QED
  BY <1>1, <1>2, <1>3, PTL DEF SessionSpec
-----------------------------------------------------------------------------
(***************************************************************************)
(* One login at a time, and one for each session that is refused.          *)
(***************************************************************************)

\* Whoever logs in, or is about to, has the lock.
LoginHeld == calm => \A w \in Caller : at[w] \in InLogin \cup {"locked"} => lock = w

\* What is stored is the newest session, and it is counted but for a login under way.
LoginsKnown ==
    calm => /\ stored = made
            /\ \A w \in Caller : Uncounted(w) => generation + 1 = made
            /\ (\A w \in Caller : ~Uncounted(w)) => generation = made

\* A caller has loaded a session at least as new as the counter it began with.
SeenIsOld ==
    calm => \A w \in Caller : seen[w] <= generation /\ (at[w] # "loading" => seen[w] <= used[w])

CopyingHasNone == \A w \in Caller : at[w] = "copying" => used[w] = NoSession

SessionInv ==
    SessionTypeInv /\ LoginHeld /\ LoginsKnown /\ SeenIsOld /\ CopyingHasNone

CallerStep(w) == Start(w) \/ Works(w) \/ Renewed(w) \/ SaveCopyFails(w) \/ Dies(w)

OtherStep ==
    \/ CooldownEnds \/ ResetRedis \/ ResetCopy \/ RedisRestarts
    \/ (\E s \in Session : Expires(s)) \/ UNCHANGED sessionVars

LEMMA SessionSteps ==
    ASSUME [SessionNext]_sessionVars
    PROVE  (\E w \in Caller : CallerStep(w)) \/ OtherStep
BY DEF SessionNext, CallerStep, OtherStep

LEMMA NextIsNew ==
    \A m, n \in Nat : n <= m => n # m + 1
OBVIOUS

LEMMA NoneBetween ==
    \A m, n \in Nat : n <= m /\ m <= n => n = m
OBVIOUS

LEMMA FiguresAreNumbers ==
    ASSUME SessionTypeInv
    PROVE  /\ stored \in Nat /\ copy \in Nat /\ made \in Nat /\ generation \in Nat
           /\ stored <= made /\ valid \subseteq 1..made /\ at \in [Caller -> Place]
           /\ \A w \in Caller : seen[w] \in Nat /\ used[w] \in Nat /\ used[w] <= made
           /\ used \in [Caller -> 0..made] /\ seen \in [Caller -> 0..MaxLogins]
<1>1. /\ Marks /\ Figures /\ at \in [Caller -> Place] /\ MaxLogins \in Nat
  BY ShapeOfParts, SessionAssumption DEF SessionTypeInv
<1>2. made \in Nat
  BY <1>1 DEF Figures
<1> QED
  BY <1>1, <1>2 DEF Marks, Figures

\* Once something has gone wrong, it stays so.
LEMMA CalmEnds ==
    ASSUME SessionTypeInv, NEW w, (w \in Caller /\ CallerStep(w)) \/ OtherStep, calm'
    PROVE  calm
<1>1. calm \in BOOLEAN
  BY DEF SessionTypeInv, SessionShape, SessionTypeOK
<1>2. CASE w \in Caller /\ CallerStep(w)
  BY <1>1, <1>2 DEF CallerStep, Works, Start, Load, LoadCopy, Restore, WriteBack, Answered, Refused,
     Renewed, CompareStored, Overwrite, CheckCooldown, TakeLock, LoginBusy, AnotherLoggedIn,
     AnotherFailed, BeginLogin, LoginFails, LoginSaves, SaveCopy, SaveCopyFails, Count, Dies
<1>3. CASE OtherStep
  BY <1>1, <1>3 DEF OtherStep, CooldownEnds, ResetRedis, ResetCopy, RedisRestarts, Expires, sessionVars
<1> QED
  BY <1>2, <1>3

\* The steps that are no caller's leave a calm session as it is, but for what expires
\* and the copy.
LEMMA OtherStepLeaves ==
    ASSUME OtherStep, calm'
    PROVE  /\ stored' = stored /\ made' = made /\ generation' = generation /\ lock' = lock
           /\ at' = at /\ seen' = seen /\ used' = used
BY DEF OtherStep, CooldownEnds, ResetRedis, ResetCopy, RedisRestarts, Expires, sessionVars

LEMMA LoginHeldKept ==
    ASSUME SessionInv, NEW w, (w \in Caller /\ CallerStep(w)) \/ OtherStep
    PROVE  LoginHeld'
<1> SUFFICES ASSUME calm', NEW v \in Caller, at'[v] \in InLogin \cup {"locked"}
             PROVE  lock' = v
  BY DEF LoginHeld
<1>1. calm /\ SessionTypeInv
  BY CalmEnds DEF SessionInv
<1>t. at \in [Caller -> Place]
  BY <1>1, FiguresAreNumbers
<1>2. \A u \in Caller : at[u] \in InLogin \cup {"locked"} => lock = u
  BY <1>1 DEF SessionInv, LoginHeld
<1>3. CASE OtherStep
  BY <1>2, <1>3, OtherStepLeaves
<1>4. CASE w \in Caller /\ CallerStep(w)
  <2> w \in Caller
    BY <1>4
  <2>1. CASE v = w
    <3>1. \/ lock' = w
          \/ at[w] \in InLogin \cup {"locked"} /\ lock' = lock
      BY <1>4, <1>t, <2>1 DEF CallerStep, InLogin, Works, Start, Load, LoadCopy, Restore, Answered, Refused,
         Renewed, CompareStored, Overwrite, CheckCooldown, TakeLock, LoginBusy, AnotherLoggedIn,
         AnotherFailed, BeginLogin, LoginFails, LoginSaves, SaveCopy, SaveCopyFails, Count, Dies,
         Moves, Ends
    <3> QED
      BY <1>2, <2>1, <3>1
  <2>2. CASE v # w
    <3>1. lock = v /\ lock # Nobody
      BY <1>1, <1>2, <1>4, <2>2, OthersStay, SessionAssumption DEF SessionTypeInv, CallerStep
    <3>2. lock' = lock \/ (lock = Nobody /\ lock' = w) \/ lock' = IF lock = w THEN Nobody ELSE lock
      BY <1>4 DEF CallerStep, Works, Start, Load, LoadCopy, Restore, Answered, Refused,
         Renewed, CompareStored, Overwrite, CheckCooldown, TakeLock, LoginBusy, AnotherLoggedIn,
         AnotherFailed, BeginLogin, LoginFails, LoginSaves, SaveCopy, SaveCopyFails, Count, Dies,
         Release
    <3> QED
      BY <2>2, <3>1, <3>2
  <2> QED
    BY <2>1, <2>2
<1> QED
  BY <1>3, <1>4

LEMMA LoginsKnownKept ==
    ASSUME SessionInv, NEW w, (w \in Caller /\ CallerStep(w)) \/ OtherStep
    PROVE  LoginsKnown'
<1> SUFFICES ASSUME calm'
             PROVE  /\ stored' = made'
                    /\ \A v \in Caller : Uncounted(v)' => generation' + 1 = made'
                    /\ (\A v \in Caller : ~Uncounted(v)') => generation' = made'
  BY DEF LoginsKnown
<1>1. calm /\ SessionTypeInv
  BY CalmEnds DEF SessionInv
<1>2. /\ stored = made
      /\ \A v \in Caller : Uncounted(v) => generation + 1 = made
      /\ (\A v \in Caller : ~Uncounted(v)) => generation = made
  BY <1>1 DEF SessionInv, LoginsKnown
<1>3. \A v \in Caller : at[v] \in InLogin \cup {"locked"} => lock = v
  BY <1>1 DEF SessionInv, LoginHeld
<1>n. /\ stored \in Nat /\ made \in Nat /\ generation \in Nat /\ at \in [Caller -> Place]
      /\ \A u \in Caller : used[u] \in Nat /\ used[u] <= made
  BY <1>1, FiguresAreNumbers
<1>4. CASE OtherStep
  BY <1>2, <1>4, OtherStepLeaves DEF Uncounted
<1>5. CASE w \in Caller /\ CallerStep(w)
  <2> w \in Caller
    BY <1>5
  <2>o. \A v \in Caller : v # w => at'[v] = at[v]
    BY <1>1, <1>5, OthersStay DEF SessionTypeInv, CallerStep
  <2>1. CASE LoginSaves(w)
    <3>1. at[w] = "logging in" /\ stored' = made' /\ made' = made + 1 /\ generation' = generation
      BY <2>1 DEF LoginSaves, Moves
    <3>2. \A v \in Caller : ~Uncounted(v)
      BY <1>3, <3>1 DEF Uncounted, InLogin
    <3>3. Uncounted(w)'
      BY <1>n, <2>1 DEF LoginSaves, Moves, Uncounted
    <3> QED
      BY <1>2, <1>n, <3>1, <3>2, <3>3
  <2>2. CASE Count(w)
    <3>1. at[w] = "counting" /\ stored' = stored /\ made' = made /\ generation' = generation + 1
      BY <2>2 DEF Count, Moves
    <3>2. \A v \in Caller : ~Uncounted(v)'
      <4>1. at'[w] = "loading"
        BY <1>n, <2>2 DEF Count, Moves
      <4> QED
        BY <1>3, <2>o, <3>1, <4>1 DEF Uncounted, InLogin
    <3>3. generation + 1 = made
      BY <1>2, <3>1 DEF Uncounted
    <3> QED
      BY <1>2, <1>n, <3>1, <3>2, <3>3
  <2>3. CASE ~LoginSaves(w) /\ ~Count(w)
    <3>1. made' = made /\ generation' = generation
      BY <1>5, <2>3 DEF CallerStep, Works, Start, Load, LoadCopy, Restore, Answered, Refused,
         Renewed, CompareStored, Overwrite, CheckCooldown, TakeLock, LoginBusy, AnotherLoggedIn,
         AnotherFailed, BeginLogin, LoginFails, SaveCopy, SaveCopyFails, Dies
    <3>2. Uncounted(w)' <=> Uncounted(w)
      BY <1>1, <1>5, <1>n, <2>3 DEF Uncounted, InLogin, CallerStep, Works, Start, Load, LoadCopy, Restore,
         Answered, Refused, Renewed, CompareStored, Overwrite, CheckCooldown, TakeLock, LoginBusy,
         AnotherLoggedIn, AnotherFailed, BeginLogin, LoginFails, SaveCopy, SaveCopyFails, Dies, Moves, Ends
    <3>3. \A v \in Caller : Uncounted(v)' <=> Uncounted(v)
      BY <2>o, <3>2 DEF Uncounted
    <3>4. stored' = stored \/ (stored' = used[w] /\ used[w] >= stored)
      BY <1>5, <2>3 DEF CallerStep, Works, Start, Load, LoadCopy, Restore, WriteBack, Answered, Refused,
         Renewed, CompareStored, Overwrite, CheckCooldown, TakeLock, LoginBusy, AnotherLoggedIn,
         AnotherFailed, BeginLogin, LoginFails, SaveCopy, SaveCopyFails, Dies
    <3>m. used[w] \in Nat /\ used[w] <= made
      BY <1>5, <1>n
    <3>5. stored' = made'
      BY <1>2, <1>n, <3>m, <3>1, <3>4
    <3> QED
      BY <1>2, <3>1, <3>3, <3>5
  <2> QED
    BY <2>1, <2>2, <2>3
<1> QED
  BY <1>4, <1>5

LEMMA SeenIsOldKept ==
    ASSUME SessionInv, NEW w, (w \in Caller /\ CallerStep(w)) \/ OtherStep
    PROVE  SeenIsOld'
<1> SUFFICES ASSUME calm', NEW v \in Caller
             PROVE  seen'[v] <= generation' /\ (at'[v] # "loading" => seen'[v] <= used'[v])
  BY DEF SeenIsOld
<1>1. calm /\ SessionTypeInv
  BY CalmEnds DEF SessionInv
<1>2. \A u \in Caller : seen[u] <= generation /\ (at[u] # "loading" => seen[u] <= used[u])
  BY <1>1 DEF SessionInv, SeenIsOld
<1>n. /\ stored \in Nat /\ made \in Nat /\ generation \in Nat /\ copy \in Nat /\ at \in [Caller -> Place]
      /\ \A u \in Caller : seen[u] \in Nat /\ used[u] \in Nat /\ used[u] <= made
      /\ used \in [Caller -> 0..made] /\ seen \in [Caller -> 0..MaxLogins]
  BY <1>1, FiguresAreNumbers
<1>3. CASE OtherStep
  BY <1>2, <1>3, OtherStepLeaves
<1>4. CASE w \in Caller /\ CallerStep(w)
  <2> w \in Caller
    BY <1>4
  <2>g. generation' = generation \/ generation' = generation + 1
    BY <1>4 DEF CallerStep, Works, Start, Load, LoadCopy, Restore, Answered, Refused,
       Renewed, CompareStored, Overwrite, CheckCooldown, TakeLock, LoginBusy, AnotherLoggedIn,
       AnotherFailed, BeginLogin, LoginFails, LoginSaves, SaveCopy, SaveCopyFails, Count, Dies
  <2>h. generation' \in Nat /\ generation <= generation'
    BY <1>n, <2>g
  <2>1. CASE v # w
    <3>1. at'[v] = at[v] /\ seen'[v] = seen[v] /\ used'[v] = used[v]
      BY <1>1, <1>4, <2>1, OthersStay DEF SessionTypeInv, CallerStep
    <3> QED
      BY <1>2, <1>n, <2>h, <3>1
  <2>2. CASE v = w
    <3>1. CASE Start(w)
      BY <1>n, <2>2, <3>1 DEF Start, Moves
    <3>2. CASE Load(w)
      <4>1. used'[w] = stored /\ seen'[w] = seen[w] /\ generation' = generation
        BY <1>n, <3>2 DEF Load
      <4>2. stored = made /\ generation <= made
        <5>1. /\ stored = made
              /\ \A u \in Caller : Uncounted(u) => generation + 1 = made
              /\ (\A u \in Caller : ~Uncounted(u)) => generation = made
          BY <1>1 DEF SessionInv, LoginsKnown
        <5> QED
          BY <1>n, <5>1
      <4> QED
        BY <1>2, <1>n, <2>2, <4>1, <4>2
    <3>3. CASE LoadCopy(w)
      <4>1. at[w] = "copying" /\ used'[w] = copy /\ seen'[w] = seen[w] /\ generation' = generation
        BY <1>n, <3>3 DEF LoadCopy, Moves
      <4>2. used[w] = 0
        BY <4>1 DEF SessionInv, CopyingHasNone, NoSession
      <4> QED
        BY <1>2, <1>n, <2>2, <4>1, <4>2
    <3>4. CASE LoginSaves(w)
      <4>1. at[w] = "logging in" /\ used'[w] = made + 1 /\ seen'[w] = seen[w] /\ generation' = generation
        BY <1>n, <3>4 DEF LoginSaves, Moves
      <4>2. seen[w] <= generation /\ seen[w] <= used[w]
        BY <1>2, <1>4, <4>1
      <4>3. seen[w] \in Nat /\ used[w] \in Nat /\ used[w] <= made
        BY <1>4, <1>n
      <4>4. seen[w] <= made + 1
        BY <1>n, <4>2, <4>3
      <4> QED
        BY <2>2, <4>1, <4>2, <4>4
    <3>5. CASE Count(w)
      <4>1. at'[w] = "loading" /\ seen'[w] = seen[w]
        BY <1>n, <3>5 DEF Count, Moves
      <4> QED
        BY <1>2, <1>n, <2>2, <2>h, <4>1
    <3>6. CASE ~Start(w) /\ ~Load(w) /\ ~LoadCopy(w) /\ ~LoginSaves(w) /\ ~Count(w)
      <4>1. \/ seen'[w] = 0 /\ used'[w] = 0
            \/ seen'[w] = seen[w] /\ at'[w] = "loading"
            \/ seen'[w] = seen[w] /\ used'[w] = used[w] /\ at[w] # "loading"
        BY <1>4, <1>n, <3>6 DEF CallerStep, NoSession, Works, Restore, Answered, Refused,
           Renewed, CompareStored, Overwrite, CheckCooldown, TakeLock, LoginBusy, AnotherLoggedIn,
           AnotherFailed, BeginLogin, LoginFails, SaveCopy, SaveCopyFails, Dies, Moves, Ends
      <4> QED
        BY <1>2, <1>n, <2>2, <2>h, <4>1
    <3> QED
      BY <3>1, <3>2, <3>3, <3>4, <3>5, <3>6
  <2> QED
    BY <2>1, <2>2
<1> QED
  BY <1>3, <1>4

LEMMA CopyingHasNoneKept ==
    ASSUME SessionInv, NEW w, (w \in Caller /\ CallerStep(w)) \/ OtherStep
    PROVE  CopyingHasNone'
<1> SUFFICES ASSUME NEW v \in Caller, at'[v] = "copying" PROVE used'[v] = NoSession
  BY DEF CopyingHasNone
<1>t. SessionTypeInv /\ at \in [Caller -> Place] /\ used \in [Caller -> 0..made]
  BY FiguresAreNumbers DEF SessionInv
<1>1. \A u \in Caller : at[u] = "copying" => used[u] = NoSession
  BY DEF SessionInv, CopyingHasNone
<1>2. CASE OtherStep
  <2>1. at' = at /\ used' = used
    BY <1>2 DEF OtherStep, CooldownEnds, ResetRedis, ResetCopy, RedisRestarts, Expires, sessionVars
  <2> QED
    BY <1>1, <2>1
<1>3. CASE w \in Caller /\ CallerStep(w) /\ v # w
  BY <1>1, <1>3, <1>t, OthersStay DEF SessionTypeInv, CallerStep
<1>4. CASE w \in Caller /\ CallerStep(w) /\ v = w
  BY <1>4, <1>t DEF CallerStep, Works, Start, Load, LoadCopy, Restore, Answered, Refused,
     Renewed, CompareStored, Overwrite, CheckCooldown, TakeLock, LoginBusy, AnotherLoggedIn,
     AnotherFailed, BeginLogin, LoginFails, LoginSaves, SaveCopy, SaveCopyFails, Count, Dies, Moves, Ends
<1> QED
  BY <1>2, <1>3, <1>4

LEMMA SessionInvAtFirst ==
    ASSUME SessionInit
    PROVE  SessionInv
<1>1. SessionTypeInv
  BY SessionTypesAtFirst
<1> QED
  BY <1>1 DEF SessionInit, SessionInv, LoginHeld, LoginsKnown, SeenIsOld, CopyingHasNone,
              Uncounted, InLogin, NoSession

LEMMA SessionInvKept ==
    ASSUME SessionInv, [SessionNext]_sessionVars
    PROVE  SessionInv'
<1>1. SessionTypeInv'
  BY SessionTypesKept DEF SessionInv
<1>2. ASSUME NEW w, (w \in Caller /\ CallerStep(w)) \/ OtherStep
      PROVE  LoginHeld' /\ LoginsKnown' /\ SeenIsOld' /\ CopyingHasNone'
  BY <1>2, LoginHeldKept, LoginsKnownKept, SeenIsOldKept, CopyingHasNoneKept
<1> QED
  BY <1>1, <1>2, SessionSteps DEF SessionInv

\* One worker at a time logs in, whatever expires, whoever waits and however many workers
\* there are: from the start until a reset, a restart of Redis, a login cut short or a
\* session written over a newer one.
THEOREM LoginsExcludeOneAnother == SessionSpec => []OneLoginAtATime
<1>1. SessionInit => SessionInv
  BY SessionInvAtFirst
<1>2. SessionInv /\ [SessionNext]_sessionVars => SessionInv'
  BY SessionInvKept
<1>3. SessionInv => OneLoginAtATime
  BY DEF SessionInv, LoginHeld, OneLoginAtATime
<1> QED
  BY <1>1, <1>2, <1>3, PTL DEF SessionSpec

\* A worker that waited for the lock logs in only when the stored session is the one that
\* it was refused with: a session that was refused is replaced once, for any number of
\* workers that were refused with it, and whether or not the provider still accepts it.
THEOREM LoginsAreNeeded == SessionSpec => NoUntriedSessionReplaced
<1>1. SessionInit => SessionInv
  BY SessionInvAtFirst
<1>2. SessionInv /\ [SessionNext]_sessionVars => SessionInv'
  BY SessionInvKept
<1>3. SessionInv /\ [SessionNext]_sessionVars
        => [\A w \in Caller : calm /\ at[w] = "locked" /\ at'[w] = "logging in" => stored = used[w]]_sessionVars
  <2> SUFFICES ASSUME SessionInv, [SessionNext]_sessionVars, NEW w \in Caller,
                      calm, at[w] = "locked", at'[w] = "logging in"
               PROVE  stored = used[w]
    OBVIOUS
  <2>n. /\ SessionTypeInv /\ made \in Nat /\ generation \in Nat /\ seen[w] \in Nat /\ used[w] \in Nat
        /\ used[w] <= made /\ at \in [Caller -> Place]
    BY FiguresAreNumbers DEF SessionInv
  <2>1. generation = seen[w]
    <3>1. CASE OtherStep
      BY <3>1 DEF OtherStep, CooldownEnds, ResetRedis, ResetCopy, RedisRestarts, Expires, sessionVars
    <3>2. ASSUME NEW v \in Caller, CallerStep(v)
          PROVE  generation = seen[w]
      <4>1. v = w
        BY <2>n, <3>2, OthersStay DEF SessionTypeInv, CallerStep
      <4> QED
        BY <2>n, <3>2, <4>1 DEF CallerStep, Works, Start, Load, LoadCopy, Restore, Answered, Refused,
           Renewed, CompareStored, Overwrite, CheckCooldown, TakeLock, LoginBusy, AnotherLoggedIn,
           AnotherFailed, BeginLogin, LoginFails, LoginSaves, SaveCopy, SaveCopyFails, Count, Dies, Moves, Ends
    <3> QED
      BY <3>1, <3>2, SessionSteps
  <2>2. \A v \in Caller : ~Uncounted(v)
    BY DEF SessionInv, LoginHeld, Uncounted, InLogin
  <2>3. generation = made /\ stored = made
    BY <2>2 DEF SessionInv, LoginsKnown
  <2>4. seen[w] <= used[w]
    BY DEF SessionInv, SeenIsOld
  <2> DEFINE u == used[w]
             g == seen[w]
  <2>5. u \in Nat /\ made \in Nat /\ u <= made /\ g = made /\ g <= u
    BY <2>n, <2>1, <2>3, <2>4
  <2> HIDE DEF u, g
  <2>6. u = made
    BY <2>5, NoneBetween
  <2> QED
    BY <2>3, <2>6 DEF u
<1> QED
  BY <1>1, <1>2, <1>3, PTL DEF SessionSpec, NoUntriedSessionReplaced
=============================================================================
