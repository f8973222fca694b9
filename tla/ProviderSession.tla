--------------------------- MODULE ProviderSession ---------------------------
(***************************************************************************)
(* The session of one provider: workers share it through Redis, log in     *)
(* when the provider refuses it, and see to it that one login is enough    *)
(* for all of them.                                                        *)
(*                                                                         *)
(* Sources: providers/sessions.py, and what the adapters of Sky and Layan  *)
(* keep: Sky saves its session again when a request renews it, Layan keeps *)
(* a copy in the database and puts it back when Redis has none.            *)
(*                                                                         *)
(* Sessions are numbered in the order of the logins that made them.  Each  *)
(* command to Redis and each statement of the database is an action.  A    *)
(* worker is a Caller here, Init and its like are named for the session:   *)
(* ProviderProofs reads this module beside ChargeSale.                     *)
(***************************************************************************)
EXTENDS Integers, FiniteSets

CONSTANTS
    Caller,
    Nobody,
    Durable,    \* does the adapter keep a copy of its session?
    Renews,     \* does the adapter save its session again?
    MaxLogins,  \* bound: sessions ever made
    MaxMishaps  \* bound: workers that die, copies that fail, restarts of Redis

Session == 1..MaxLogins
NoSession == 0

ASSUME SessionAssumption ==
    /\ Nobody \notin Caller /\ MaxLogins \in Nat /\ MaxMishaps \in Nat
    /\ Durable \in BOOLEAN /\ Renews \in BOOLEAN

VARIABLES
    stored,     \* the session in Redis
    copy,       \* the one in the database
    made,       \* the last session that a login made
    valid,      \* the sessions the provider accepts
    generation, \* the counter of logins in Redis
    cooldown,   \* is the cool-down of a failed login running?
    lock,       \* who holds the login lock
    at,         \* where each worker is
    seen,       \* the generation each worker began with
    used,       \* the session each worker has loaded, or made
    retried,    \* has each one's call been refused once?
    reset,      \* where the administrator's reset is
    calm,       \* no reset, no restart of Redis, no login cut short, and no session
                \* written over a newer one yet
    mishaps

sessionVars == <<stored, copy, made, valid, generation, cooldown, lock, at, seen, used, retried, reset, calm, mishaps>>

InLogin == {"logging in", "saving", "counting"}

SessionTypeOK ==
    /\ stored \in Session \cup {NoSession} /\ copy \in Session \cup {NoSession}
    /\ made \in 0..MaxLogins /\ valid \subseteq 1..made
    /\ generation \in 0..MaxLogins /\ cooldown \in BOOLEAN
    /\ lock \in Caller \cup {Nobody}
    /\ at \in [Caller -> {"idle", "loading", "copying", "restoring", "calling", "renewing",
                          "overwriting", "renewed", "refused", "waiting", "locked"} \cup InLogin]
    /\ seen \in [Caller -> 0..MaxLogins]
    /\ used \in [Caller -> Session \cup {NoSession}]
    /\ retried \in [Caller -> BOOLEAN]
    /\ reset \in {"no", "clearing", "done"}
    /\ calm \in BOOLEAN /\ mishaps \in 0..MaxMishaps

SessionInit ==
    /\ stored = NoSession /\ copy = NoSession /\ made = 0 /\ valid = {}
    /\ generation = 0 /\ cooldown = FALSE /\ lock = Nobody
    /\ at = [w \in Caller |-> "idle"] /\ seen = [w \in Caller |-> 0]
    /\ used = [w \in Caller |-> NoSession] /\ retried = [w \in Caller |-> FALSE]
    /\ reset = "no" /\ calm = TRUE /\ mishaps = 0

Moves(w, from, to) == at[w] = from /\ at' = [at EXCEPT ![w] = to]

\* The call is over; what it had loaded is forgotten.
Ends(w) ==
    /\ at' = [at EXCEPT ![w] = "idle"]
    /\ seen' = [seen EXCEPT ![w] = 0] /\ used' = [used EXCEPT ![w] = NoSession]
    /\ retried' = [retried EXCEPT ![w] = FALSE]

Release(w) == lock' = IF lock = w THEN Nobody ELSE lock

-----------------------------------------------------------------------------
\* run_authenticated

Start(w) ==
    /\ Moves(w, "idle", "loading") /\ seen' = [seen EXCEPT ![w] = generation]
    /\ UNCHANGED <<stored, copy, made, valid, generation, cooldown, lock, used, retried, reset, calm, mishaps>>

\* from_store: the session in Redis ...
Load(w) ==
    /\ used' = [used EXCEPT ![w] = stored]
    /\ Moves(w, "loading", IF stored = NoSession /\ Durable THEN "copying" ELSE "calling")
    /\ UNCHANGED <<stored, copy, made, valid, generation, cooldown, lock, seen, retried, reset, calm, mishaps>>

\* ... else the copy, which is then put back.
LoadCopy(w) ==
    /\ used' = [used EXCEPT ![w] = copy]
    /\ Moves(w, "copying", IF copy = NoSession THEN "calling" ELSE "restoring")
    /\ UNCHANGED <<stored, copy, made, valid, generation, cooldown, lock, seen, retried, reset, calm, mishaps>>

\* What a worker writes back may be older than what another has just stored.
WriteBack(w) ==
    /\ stored' = used[w] /\ calm' = (calm /\ used[w] >= stored)

Restore(w) ==
    /\ Moves(w, "restoring", "calling") /\ WriteBack(w)
    /\ UNCHANGED <<copy, made, valid, generation, cooldown, lock, seen, used, retried, reset, mishaps>>

\* The request goes through.
Answered(w) ==
    /\ at[w] \in {"calling", "renewed"} /\ used[w] \in valid /\ Ends(w)
    /\ UNCHANGED <<stored, copy, made, valid, generation, cooldown, lock, reset, calm, mishaps>>

\* Mutant of Refused: there is a login every time.
RefusedAgain(w) ==
    /\ at[w] \in {"calling", "renewed"}
    /\ at' = [at EXCEPT ![w] = "refused"] /\ retried' = [retried EXCEPT ![w] = TRUE]
    /\ UNCHANGED <<stored, copy, made, valid, generation, cooldown, lock, seen, used, reset, calm, mishaps>>

\* AuthRequired: the first time there is a login, the second time the call fails.
\* The adapters raise it for a session that is gone, and also for one that the
\* provider still accepts: for any HTTP error, or when the proxy has changed.
Refused(w) ==
    /\ at[w] \in {"calling", "renewed"}
    /\ \/ /\ ~retried[w] /\ retried' = [retried EXCEPT ![w] = TRUE]
          /\ at' = [at EXCEPT ![w] = "refused"]
          /\ UNCHANGED <<seen, used>>
       \/ retried[w] /\ Ends(w)
    /\ UNCHANGED <<stored, copy, made, valid, generation, cooldown, lock, reset, calm, mishaps>>

\* The health check of Sky renews the session: _refresh_jwt ...
Renewed(w) ==
    /\ Renews /\ used[w] \in valid /\ Moves(w, "calling", "renewing")
    /\ UNCHANGED <<stored, copy, made, valid, generation, cooldown, lock, seen, used, retried, reset, calm, mishaps>>

\* ... save_session reads what is stored ...
CompareStored(w) ==
    /\ at[w] = "renewing"
    /\ Moves(w, "renewing", IF stored > used[w] THEN "renewed" ELSE "overwriting")
    /\ UNCHANGED <<stored, copy, made, valid, generation, cooldown, lock, seen, used, retried, reset, calm, mishaps>>

\* ... and writes its own unless that was newer.
Overwrite(w) ==
    /\ Moves(w, "overwriting", "renewed") /\ WriteBack(w)
    /\ UNCHANGED <<copy, made, valid, generation, cooldown, lock, seen, used, retried, reset, mishaps>>

-----------------------------------------------------------------------------
\* _login_once

CheckCooldown(w) ==
    /\ IF cooldown THEN at[w] = "refused" /\ Ends(w)
       ELSE Moves(w, "refused", "waiting") /\ UNCHANGED <<seen, used, retried>>
    /\ UNCHANGED <<stored, copy, made, valid, generation, cooldown, lock, reset, calm, mishaps>>

\* Mutant of TakeLock: there is no lock.
TakeNoLock(w) ==
    /\ lock' = lock /\ Moves(w, "waiting", "locked")
    /\ UNCHANGED <<stored, copy, made, valid, generation, cooldown, seen, used, retried, reset, calm, mishaps>>

TakeLock(w) ==
    /\ lock = Nobody /\ lock' = w /\ Moves(w, "waiting", "locked")
    /\ UNCHANGED <<stored, copy, made, valid, generation, cooldown, seen, used, retried, reset, calm, mishaps>>

\* lock_wait has passed: login_busy.
LoginBusy(w) ==
    /\ lock # Nobody /\ at[w] = "waiting" /\ Ends(w)
    /\ UNCHANGED <<stored, copy, made, valid, generation, cooldown, lock, reset, calm, mishaps>>

\* Another worker has logged in meanwhile: its session is tried.
AnotherLoggedIn(w) ==
    /\ generation # seen[w] /\ Moves(w, "locked", "loading") /\ Release(w)
    /\ UNCHANGED <<stored, copy, made, valid, generation, cooldown, seen, used, retried, reset, calm, mishaps>>

AnotherFailed(w) ==
    /\ generation = seen[w] /\ cooldown /\ at[w] = "locked" /\ Ends(w) /\ Release(w)
    /\ UNCHANGED <<stored, copy, made, valid, generation, cooldown, reset, calm, mishaps>>

\* Mutant of BeginLogin: the generation is not looked at.
BeginLoginAnyway(w) ==
    /\ ~cooldown /\ Moves(w, "locked", "logging in")
    /\ UNCHANGED <<stored, copy, made, valid, generation, cooldown, lock, seen, used, retried, reset, calm, mishaps>>

BeginLogin(w) ==
    /\ generation = seen[w] /\ ~cooldown /\ Moves(w, "locked", "logging in")
    /\ UNCHANGED <<stored, copy, made, valid, generation, cooldown, lock, seen, used, retried, reset, calm, mishaps>>

\* A failure starts the cool-down, unless it only asked for a code.
LoginFails(w, cools) ==
    /\ at[w] = "logging in" /\ Ends(w) /\ Release(w)
    /\ cooldown' = (cooldown \/ cools)
    /\ UNCHANGED <<stored, copy, made, valid, generation, reset, calm, mishaps>>

\* login of the adapter: the provider makes a session, which is saved.
LoginSaves(w) ==
    /\ made < MaxLogins /\ made' = made + 1
    /\ valid' = valid \cup {made'} /\ stored' = made' /\ used' = [used EXCEPT ![w] = made']
    /\ Moves(w, "logging in", IF Durable THEN "saving" ELSE "counting")
    /\ UNCHANGED <<copy, generation, cooldown, lock, seen, retried, reset, calm, mishaps>>

SaveCopy(w) ==
    /\ Moves(w, "saving", "counting") /\ copy' = used[w]
    /\ UNCHANGED <<stored, made, valid, generation, cooldown, lock, seen, used, retried, reset, calm, mishaps>>

\* The database fails: a login that is in Redis counts as a failed one.
SaveCopyFails(w) ==
    /\ at[w] = "saving" /\ mishaps < MaxMishaps /\ mishaps' = mishaps + 1
    /\ Ends(w) /\ Release(w) /\ cooldown' = TRUE /\ calm' = FALSE
    /\ UNCHANGED <<stored, copy, made, valid, generation, reset>>

\* bump_generation: only now do the others know.
Count(w) ==
    /\ Moves(w, "counting", "loading") /\ Release(w)
    /\ generation' = generation + 1 /\ cooldown' = FALSE
    /\ UNCHANGED <<stored, copy, made, valid, seen, used, retried, reset, calm, mishaps>>

-----------------------------------------------------------------------------
\* The provider, the administrator and mishaps

CooldownEnds ==
    /\ cooldown /\ cooldown' = FALSE
    /\ UNCHANGED <<stored, copy, made, valid, generation, lock, at, seen, used, retried, reset, calm, mishaps>>

Expires(s) ==
    /\ s \in valid /\ valid' = valid \ {s}
    /\ UNCHANGED <<stored, copy, made, generation, cooldown, lock, at, seen, used, retried, reset, calm, mishaps>>

\* reset_session: Redis first ...
ResetRedis ==
    /\ reset = "no" /\ reset' = "clearing"
    /\ stored' = NoSession /\ cooldown' = FALSE /\ calm' = FALSE
    /\ UNCHANGED <<copy, made, valid, generation, lock, at, seen, used, retried, mishaps>>

\* ... and then the copy.
ResetCopy ==
    /\ reset = "clearing" /\ reset' = "done"
    /\ copy' = NoSession
    /\ UNCHANGED <<stored, made, valid, generation, cooldown, lock, at, seen, used, retried, calm, mishaps>>

\* A worker dies; the lock it held expires.
Dies(w) ==
    /\ at[w] # "idle" /\ mishaps < MaxMishaps /\ mishaps' = mishaps + 1
    /\ Ends(w) /\ Release(w) /\ calm' = (calm /\ at[w] \notin InLogin)
    /\ UNCHANGED <<stored, copy, made, valid, generation, cooldown, reset>>

RedisRestarts ==
    /\ mishaps < MaxMishaps /\ mishaps' = mishaps + 1
    /\ stored' = NoSession /\ generation' = 0 /\ cooldown' = FALSE /\ lock' = Nobody /\ calm' = FALSE
    /\ UNCHANGED <<copy, made, valid, at, seen, used, retried, reset>>

-----------------------------------------------------------------------------

Works(w) ==
    \/ Load(w) \/ LoadCopy(w) \/ Restore(w) \/ Answered(w) \/ Refused(w) \/ CompareStored(w) \/ Overwrite(w)
    \/ CheckCooldown(w) \/ TakeLock(w) \/ LoginBusy(w) \/ AnotherLoggedIn(w) \/ AnotherFailed(w)
    \/ BeginLogin(w) \/ (\E cools \in BOOLEAN : LoginFails(w, cools))
    \/ LoginSaves(w) \/ SaveCopy(w) \/ Count(w)

SessionNext ==
    \/ \E w \in Caller : Start(w) \/ Works(w) \/ Renewed(w) \/ SaveCopyFails(w) \/ Dies(w)
    \/ CooldownEnds \/ ResetRedis \/ ResetCopy \/ RedisRestarts
    \/ \E s \in Session : Expires(s)

SessionSpec == SessionInit /\ [][SessionNext]_sessionVars

\* A worker that has begun goes on: every wait of it has a limit.
FairSessionSpec == SessionSpec /\ \A w \in Caller : WF_sessionVars(Works(w))

-----------------------------------------------------------------------------
\* Properties.

\* One worker at a time logs in: the provider would throw out the first session
\* or lock the account.
OneLoginAtATime ==
    calm => \A v, w \in Caller : at[v] \in InLogin /\ at[w] \in InLogin => v = w

\* One login per refused session: however many workers were refused with it and
\* waited for the lock, one of them replaces it, and none of the others replaces
\* the new one, which it has not tried.
NoUntriedSessionReplaced ==
    [][\A w \in Caller : calm /\ at[w] = "locked" /\ at'[w] = "logging in" => stored = used[w]]_sessionVars

\* Every call comes to an end: nobody waits for a login that will not come.
CallEnds == \A w \in Caller : at[w] # "idle" ~> at[w] = "idle"
=============================================================================
