------------------------------ MODULE SaleEntry ------------------------------
(***************************************************************************)
(* The submit of the sale form: plain, or with a charge at the provider.   *)
(*                                                                         *)
(* Sources: sales/views/employee.py (employee_entry), sales/charging.py    *)
(* (the same-day guard and the form's token), sales/services.py.           *)
(*                                                                         *)
(* A form is rendered with a fresh token and may be submitted more than    *)
(* once, by anybody.  Each statement of the database is an action; a row   *)
(* that a transaction inserts or locks is held until it ends, and an       *)
(* insert that repeats a key waits for the one it repeats.                 *)
(***************************************************************************)
EXTENDS Integers, FiniteSets

CONSTANTS
    Request,    \* the submits; each records at most one sale
    NoRequest,
    Form, User, Phone,
    Asks,       \* what the requests may be submitted with
    LastDay,    \* bound: days that pass
    MaxFaults   \* bound: requests whose process or connection is lost

Ask == [form: Form, user: User, phone: Phone, charge: BOOLEAN, confirmed: BOOLEAN]

ASSUME EntryAssumption ==
    NoRequest \notin Request /\ Asks \subseteq [Request -> Ask] /\ LastDay \in Nat /\ MaxFaults \in Nat

VARIABLES
    at,         \* where each request is
    asks,       \* what each one is submitted with; it never changes
    answer,     \* what its user was told, and the sale that it named
    sale,       \* sales.Sale, by the request that recorded it
    job,        \* ProviderJob by idempotency_key: the request that inserted it
    known,      \* SaleReferenceLock: the numbers whose row is committed, from the first sale on
    holder,     \* who has inserted or locked the row of each number
    company,    \* who has locked the company
    today,
    faults

vars == <<at, asks, answer, sale, job, known, holder, company, today, faults>>

NoSale == [status |-> "none", number |-> "none", day |-> 0, edited |-> FALSE]
GoneSale == [status |-> "deleted", number |-> "none", day |-> 0, edited |-> FALSE]
NoAnswer == [kind |-> "none", sale |-> NoRequest]

SaleRow ==
    [status: {"draft", "standing", "cancelled"}, number: Phone, day: 0..LastDay, edited: BOOLEAN]
        \cup {NoSale, GoneSale}

\* Where a request holds rows: it is inside its transaction.
Inside == {"guard", "again", "job", "sale", "commit"}

TypeOK ==
    /\ at \in [Request -> {"idle", "token", "today", "insert", "row", "done"} \cup Inside]
    /\ asks \in [Request -> Ask]
    /\ answer \in [Request -> [kind: {"none", "recorded", "duplicate", "used", "repeat", "refused", "lost"},
                               sale: Request \cup {NoRequest}]]
    /\ sale \in [Request -> SaleRow]
    /\ job \in [Form -> Request \cup {NoRequest}]
    /\ known \subseteq Phone
    /\ holder \in [Phone -> Request \cup {NoRequest}]
    /\ company \in Request \cup {NoRequest}
    /\ today \in 0..LastDay /\ faults \in 0..MaxFaults

Init ==
    /\ at = [r \in Request |-> "idle"] /\ asks \in Asks
    /\ answer = [r \in Request |-> NoAnswer] /\ sale = [r \in Request |-> NoSale]
    /\ job = [f \in Form |-> NoRequest]
    /\ known \in SUBSET Phone /\ holder = [p \in Phone |-> NoRequest] /\ company = NoRequest
    /\ today = 0 /\ faults = 0

Moves(r, from, to) == at[r] = from /\ at' = [at EXCEPT ![r] = to]
Fault == faults < MaxFaults /\ faults' = faults + 1

\* sale_recorded_today: what has been committed.
SoldToday(p) == \E s \in Request : sale[s].status = "standing" /\ sale[s].number = p /\ sale[s].day = today

\* _job_for_token and _sale_for_job: a job is seen once its request has committed it.
Taken(r) == LET j == job[asks[r].form] IN j # NoRequest /\ at[j] = "done"
OwnSale(r) ==
    LET j == job[asks[r].form] IN sale[j].status \in {"standing", "cancelled"} /\ asks[j].user = asks[r].user

-----------------------------------------------------------------------------
\* How a request ends.

Answers(r, kind, s) ==
    /\ at' = [at EXCEPT ![r] = "done"] /\ answer' = [answer EXCEPT ![r] = [kind |-> kind, sale |-> s]]
    /\ UNCHANGED <<asks, today>>

Releases(r) ==
    /\ holder' = [p \in Phone |-> IF holder[p] = r THEN NoRequest ELSE holder[p]]
    /\ company' = IF company = r THEN NoRequest ELSE company

Commits(r) ==
    /\ known' = known \cup {p \in Phone : holder[p] = r}
    /\ sale' = [sale EXCEPT ![r].status = IF @ = "draft" THEN "standing" ELSE @]
    /\ Releases(r)
    /\ UNCHANGED job

\* Mutant of RollBack: the job was created before the transaction began.
RollBackButJob(r) ==
    /\ sale' = [sale EXCEPT ![r] = NoSale]
    /\ Releases(r)
    /\ UNCHANGED <<job, known>>

\* Mutant of RollBack: the number stays locked, as by a lock of the session.
RollBackLocked(r) ==
    /\ job' = [f \in Form |-> IF job[f] = r THEN NoRequest ELSE job[f]]
    /\ sale' = [sale EXCEPT ![r] = NoSale]
    /\ company' = IF company = r THEN NoRequest ELSE company
    /\ UNCHANGED <<known, holder>>

RollBack(r) ==
    /\ job' = [f \in Form |-> IF job[f] = r THEN NoRequest ELSE job[f]]
    /\ sale' = [sale EXCEPT ![r] = NoSale]
    /\ Releases(r)
    /\ UNCHANGED known

-----------------------------------------------------------------------------
\* employee_entry: before the transaction.

Submit(r) ==
    /\ Moves(r, "idle", IF asks[r].charge THEN "token" ELSE "today")
    /\ UNCHANGED <<asks, answer, sale, job, known, holder, company, today, faults>>

\* Outside the transaction, inside it, or when the insert met the key of another:
\* the token has been used, by the same user ...
Duplicate(r) ==
    /\ at[r] \in {"token", "again", "job"} /\ Taken(r) /\ OwnSale(r)
    /\ Commits(r) /\ Answers(r, "duplicate", job[asks[r].form])
    /\ UNCHANGED faults

\* ... or by another, or for a sale that is gone.
Used(r) ==
    /\ at[r] \in {"token", "again", "job"} /\ Taken(r) /\ ~OwnSale(r)
    /\ RollBack(r) /\ Answers(r, "used", NoRequest)
    /\ UNCHANGED faults

Unused(r) ==
    /\ ~Taken(r)
    /\ Moves(r, "token", "today") \/ Moves(r, "again", "job")
    /\ UNCHANGED <<asks, answer, sale, job, known, holder, company, today, faults>>

\* The user may not charge, the company cannot be charged, or the customer, the
\* product, the payment or the stock is refused by what create_sale calls.
Refused(r) ==
    /\ at[r] \in {"again", "sale"} \/ (at[r] = "token" /\ ~Taken(r))
    /\ RollBack(r) /\ Answers(r, "refused", NoRequest)
    /\ UNCHANGED faults

\* The first look at the day, or the one under the lock of the number.
SoldAlready(r) ==
    /\ at[r] \in {"today", "guard"} /\ ~asks[r].confirmed /\ SoldToday(asks[r].phone)
    /\ RollBack(r) /\ Answers(r, "repeat", NoRequest)
    /\ UNCHANGED faults

NotSoldYet(r) ==
    /\ asks[r].confirmed \/ ~SoldToday(asks[r].phone)
    /\ \/ Moves(r, "today", "insert")
       \/ Moves(r, "guard", IF asks[r].charge THEN "again" ELSE "sale")
    /\ UNCHANGED <<asks, answer, sale, job, known, holder, company, today, faults>>

-----------------------------------------------------------------------------
\* lock_sale_reference

\* The row of a new number; the one that inserts it holds it.
InsertNumber(r) ==
    /\ asks[r].phone \notin known /\ holder[asks[r].phone] = NoRequest
    /\ Moves(r, "insert", "guard") /\ holder' = [holder EXCEPT ![asks[r].phone] = r]
    /\ UNCHANGED <<asks, answer, sale, job, known, company, today, faults>>

\* Its row exists: the savepoint is undone.
NumberIsKnown(r) ==
    /\ asks[r].phone \in known /\ Moves(r, "insert", "row")
    /\ UNCHANGED <<asks, answer, sale, job, known, holder, company, today, faults>>

\* Mutant of LockNumber: the row is read without a lock.
ReadNumber(r) ==
    /\ Moves(r, "row", "guard")
    /\ UNCHANGED <<asks, answer, sale, job, known, holder, company, today, faults>>

LockNumber(r) ==
    /\ holder[asks[r].phone] = NoRequest
    /\ Moves(r, "row", "guard") /\ holder' = [holder EXCEPT ![asks[r].phone] = r]
    /\ UNCHANGED <<asks, answer, sale, job, known, company, today, faults>>

-----------------------------------------------------------------------------
\* create_charged_sale and create_sale

\* Mutant of InsertJob: the key is not unique.
InsertAnyJob(r) ==
    /\ Moves(r, "job", "sale") /\ job' = [job EXCEPT ![asks[r].form] = r]
    /\ UNCHANGED <<asks, answer, sale, known, holder, company, today, faults>>

\* The job first: it waits for another that inserts the same key.
InsertJob(r) ==
    /\ job[asks[r].form] = NoRequest
    /\ Moves(r, "job", "sale") /\ job' = [job EXCEPT ![asks[r].form] = r]
    /\ UNCHANGED <<asks, answer, sale, known, holder, company, today, faults>>

\* create_sale, with the company locked, and finalize_sale_after_entry.
RecordSale(r) ==
    /\ company = NoRequest /\ company' = r
    /\ Moves(r, "sale", "commit")
    /\ sale' = [sale EXCEPT ![r] =
                   [status |-> "draft", number |-> asks[r].phone, day |-> today, edited |-> FALSE]]
    /\ UNCHANGED <<asks, answer, job, known, holder, today, faults>>

Recorded(r) ==
    /\ at[r] = "commit" /\ Commits(r) /\ Answers(r, "recorded", r)
    /\ UNCHANGED faults

\* The process dies; what it had not committed is undone ...
Dies(r) ==
    /\ at[r] \notin {"idle", "done"} /\ Fault
    /\ RollBack(r) /\ Answers(r, "lost", NoRequest)

\* ... and what it had is not told.
DiesRecorded(r) ==
    /\ at[r] = "commit" /\ Fault
    /\ Commits(r) /\ Answers(r, "lost", NoRequest)

-----------------------------------------------------------------------------
\* What happens to a recorded sale: cancel_sale, delete_sale_permanently (also of
\* a refused charge), and update_sale_fields, which types another number.  (A
\* cancelled sale may be edited too: nothing reads its number.)

Cancel(s) ==
    /\ sale[s].status = "standing" /\ company = NoRequest
    /\ sale' = [sale EXCEPT ![s].status = "cancelled"]
    /\ UNCHANGED <<at, asks, answer, job, known, holder, company, today, faults>>

Delete(s) ==
    /\ sale[s].status \in {"standing", "cancelled"} /\ company = NoRequest
    /\ sale' = [sale EXCEPT ![s] = GoneSale]
    /\ UNCHANGED <<at, asks, answer, job, known, holder, company, today, faults>>

Edit(s, p) ==
    /\ sale[s].status = "standing"
    /\ sale' = [sale EXCEPT ![s].number = p, ![s].edited = TRUE]
    /\ UNCHANGED <<at, asks, answer, job, known, holder, company, today, faults>>

Midnight ==
    /\ today < LastDay /\ today' = today + 1
    /\ UNCHANGED <<at, asks, answer, sale, job, known, holder, company, faults>>

-----------------------------------------------------------------------------

Works(r) ==
    \/ Duplicate(r) \/ Used(r) \/ Unused(r) \/ Refused(r) \/ SoldAlready(r) \/ NotSoldYet(r)
    \/ InsertNumber(r) \/ NumberIsKnown(r) \/ LockNumber(r)
    \/ InsertJob(r) \/ RecordSale(r) \/ Recorded(r)

Next ==
    \/ \E r \in Request : Submit(r) \/ Works(r) \/ Dies(r) \/ DiesRecorded(r)
    \/ \E s \in Request : Cancel(s) \/ Delete(s) \/ (\E p \in Phone : Edit(s, p))
    \/ Midnight

Spec == Init /\ [][Next]_vars

\* A request that has begun goes on: it waits for nothing but the locks.
FairSpec == Spec /\ \A r \in Request : WF_vars(Works(r))

-----------------------------------------------------------------------------
\* Properties.

\* However often a form is submitted, by whom and for which number, at most one
\* charge comes of it: the token is the key of its job.
OneChargePerForm ==
    \A r, s \in Request :
        /\ asks[r].charge /\ sale[r].status # "none"
        /\ asks[s].charge /\ sale[s].status # "none"
        /\ asks[r].form = asks[s].form
        => r = s

\* Two sales of one number on one day do not pass the check together: when a sale
\* that nobody confirmed is committed, no other sale entered for its number stands.
RepeatWasConfirmed ==
    [][\A r, s \in Request :
          /\ sale[r].status = "draft" /\ sale'[r].status = "standing" /\ ~asks[r].confirmed
          /\ s # r /\ sale[s].status = "standing" /\ ~sale[s].edited
          => ~(sale[s].number = asks[r].phone /\ sale[s].day = sale[r].day)]_vars

\* What the user is told is so: a sale that is "recorded" is there, the one a
\* duplicate names is the user's own, of the same form, and a request that was
\* turned away, or got lost before the commit, has left neither sale nor job.
AnswerIsTrue ==
    \A r \in Request : at[r] = "done" =>
        LET a == answer[r]
            hasJob == \E f \in Form : job[f] = r
        IN
        /\ a.kind = "recorded" => sale[r].status # "none"
        /\ a.kind = "duplicate" =>
              /\ a.sale \in Request
              /\ asks[a.sale].user = asks[r].user /\ asks[a.sale].form = asks[r].form
              /\ sale[a.sale].status \notin {"none", "draft"}
        /\ a.kind \notin {"recorded", "lost"} => sale[r].status = "none"
        /\ hasJob <=> (asks[r].charge /\ sale[r].status # "none")

\* Every submit is answered: no two wait for each other.
RequestIsAnswered == \A r \in Request : at[r] = "token" \/ at[r] = "today" ~> at[r] = "done"
=============================================================================
