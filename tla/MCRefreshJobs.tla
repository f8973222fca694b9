---------------------------- MODULE MCRefreshJobs ----------------------------
(***************************************************************************)
(* Model checking of RefreshJobs: a page, two employees and an inbound     *)
(* message that want the same number refreshed.                            *)
(*                                                                         *)
(* To keep the run small not all of them come.  Either nobody has come yet *)
(* and the callers of one member of Absent never will, or a page waits for *)
(* the job it has queued, the inbound message never comes, and the         *)
(* employees meet at that job.                                             *)
(***************************************************************************)
EXTENDS RefreshJobs

CONSTANT Absent     \* the sets of callers that may stay away in the first case

Away(gone) == [c \in Caller |-> IF c \in gone THEN "gone" ELSE "idle"]

\* Nobody has come yet.
Afresh ==
    /\ \E gone \in Absent : at = Away(gone)
    /\ ticket = [c \in Caller |-> NoJob] /\ job = [j \in Job |-> FreeJob]

\* A page waits for its job, whose message is on its way.
PageWaits ==
    \E w \in Web :
        /\ at = [Away(Sms) EXCEPT ![w] = "waiting"]
        /\ ticket = [c \in Caller |-> IF c = w THEN 1 ELSE NoJob]
        /\ job = [j \in Job |-> IF j = 1
                                THEN [FreeJob EXCEPT !.status = "queued", !.owner = w, !.message = TRUE]
                                ELSE FreeJob]

MCInit ==
    /\ Afresh \/ PageWaits
    /\ answer = [c \in Caller |-> "none"] /\ seen = [c \in Caller |-> {}]
    /\ lock = Nobody /\ unlocked = FALSE /\ cooling = FALSE /\ faults = 0

MCSpec == MCInit /\ [][Next]_vars /\ Fairness
=============================================================================
