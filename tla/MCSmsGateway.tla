---------------------------- MODULE MCSmsGateway ----------------------------
(***************************************************************************)
(* Instances of SmsGateway for TLC.                                        *)
(*                                                                         *)
(* To keep the run small it begins in one of two ways: nothing has come    *)
(* yet, and management will resend nothing, or every SMS has been answered *)
(* at once, its reply is queued, and management will.                      *)
(***************************************************************************)
EXTENDS SmsGateway

Quiet ==
    /\ inbound = [m \in Sms |-> "none"] /\ rows = [m \in Sms |-> 0]
    /\ answer = [m \in Sms |-> "none"] /\ out = [m \in Sms |-> "none"]
    /\ request = [r \in Request |-> "new"]
    /\ resends = MaxResends

Answered ==
    /\ inbound = [m \in Sms |-> "ignored"] /\ rows = [m \in Sms |-> 1]
    /\ answer = [m \in Sms |-> "fixed"] /\ out = [m \in Sms |-> "queued"]
    /\ request = [r \in Request |-> "done"]
    /\ resends = 0

MCInit ==
    /\ Quiet \/ Answered
    /\ attempts = [m \in Sms |-> 0] /\ late = [m \in Sms |-> FALSE]
    /\ claims = [m \in Sms |-> 0] /\ overtaken = [m \in Sms |-> FALSE]
    /\ job = [m \in Sms |-> "none"] /\ queued = [m \in Sms |-> FALSE]
    /\ worker = [m \in Sms |-> "idle"] /\ reaper = [m \in Sms |-> FALSE]
    /\ phone = {} /\ reports = {}
    /\ sentToday = [d \in Device |-> 0] /\ failures = [d \in Device |-> 0]
    /\ paused = [d \in Device |-> FALSE] /\ faults = 0

MCSpec == MCInit /\ [][Next]_vars /\ Fairness
=============================================================================
