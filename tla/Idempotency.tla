----------------------------- MODULE Idempotency -----------------------------
(***************************************************************************)
(* The idempotency coordinator: requests that carry the same idempotency   *)
(* key in the same scope share one row of idempotency_records.  The first  *)
(* one inserts the row and executes, the others are answered from it.      *)
(*                                                                         *)
(* Execute (service/idempotency.go) is a sequence of separate statements   *)
(* of repository/idempotency_repo.go, every one of them an action here.    *)
(* `now' is read once, when the request enters, and compared with the row  *)
(* much later; the module keeps it per request for that reason.  A request *)
(* with ExecutionTimeout renews its claim while it executes.               *)
(*                                                                         *)
(* Requests without a key touch no row and are left out.  All instances    *)
(* are taken to read the same clock.                                       *)
(***************************************************************************)
EXTENDS Integers, FiniteSets

CONSTANTS
    Requests,      \* concurrent callers of Execute with this scope and key
    Fingerprints,  \* request_fingerprint: hash of method, route, actor, payload
    TTL,           \* opts.TTL, life of a record
    LockTTL,       \* cfg.ProcessingTimeout
    Backoff,       \* cfg.FailedRetryBackoff
    MaxClock       \* bound of the clock

ASSUME TTLAssumption == TTL \in Nat \ {0}
ASSUME LockAssumption == LockTTL \in Nat \ {0}
ASSUME BackoffAssumption == Backoff \in Nat \ {0}
ASSUME ClockAssumption == MaxClock \in Nat
ASSUME FingerprintAssumption == "none" \notin Fingerprints

VARIABLES
    clock,    \* wall clock
    row,      \* the row of (scope, key)
    lastId,   \* last value of the id sequence
    req,      \* the requests in flight
    lapsed,   \* history: the row has been expired at some moment
    done      \* history: the business callback has succeeded

vars == <<clock, row, lastId, req, lapsed, done>>

Times == 0 .. (MaxClock + TTL + LockTTL + Backoff)
Statuses == {"none", "processing", "succeeded", "failed_retryable"}
Steps == {"idle", "create", "get", "reclaimExpired", "reread", "decide",
          "reclaimFailed", "execute", "markSucceeded", "markFailed"}
Bodies == Fingerprints \cup {"none"}  \* a response, named after the request it answers

\* No row: id 0, and locked 0 stands for locked_until IS NULL.
Rows == [id : Nat, status : Statuses, fp : Fingerprints \cup {"none"},
         body : Bodies, locked : Times, expires : Times]
NoRow == [id |-> 0, status |-> "none", fp |-> "none", body |-> "none",
          locked |-> 0, expires |-> 0]

\* The variables of one call of Execute.
Calls == [at : Steps, fp : Fingerprints \cup {"none"}, timed : BOOLEAN,
          renewing : BOOLEAN, now : 0 .. MaxClock, seen : Rows, id : Nat,
          expires : Times, until : Times, body : Bodies]
Idle == [at |-> "idle", fp |-> "none", timed |-> FALSE, renewing |-> FALSE, now |-> 0,
         seen |-> NoRow, id |-> 0, expires |-> 0, until |-> 0, body |-> "none"]

\* Requests that hold a claim: executing, or about to write the outcome.
Holding == {"execute", "markSucceeded", "markFailed"}
Holders == {q \in Requests : req[q].at \in Holding}

\* Mutant: a record is given up when its lock, not its TTL, has run out.
ExpiredLock(r, now) == r.locked <= now
\* Mutant: a key is answered whatever request it was used for.
AnyRequest(r, fp) == r.status # "none"

Expired(r, now) == r.expires <= now
SameRequest(r, fp) == r.fp = fp
Retryable(status) == status = "failed_retryable"

Init ==
    /\ clock = 0
    /\ row = NoRow
    /\ lastId = 0
    /\ req = [q \in Requests |-> Idle]
    /\ lapsed = FALSE
    /\ done = FALSE

\* lapsed records that the row has been expired while it existed.
Lapse == lapsed' = (lapsed \/ (row'.status # "none" /\ row'.expires <= clock'))

Goto(q, step) == req' = [req EXCEPT ![q].at = step]
Answer(q) == req' = [req EXCEPT ![q] = Idle]

-----------------------------------------------------------------------------
Tick ==
    /\ clock < MaxClock
    /\ clock' = clock + 1
    /\ UNCHANGED <<row, lastId, req, done>>
    /\ Lapse

\* A request enters Execute; now, expiresAt and lockedUntil are computed here.
Begin(q) ==
    /\ req[q].at = "idle"
    /\ \E fp \in Fingerprints, timed \in BOOLEAN :
          req' = [req EXCEPT ![q] = [Idle EXCEPT !.at = "create", !.fp = fp,
                      !.timed = timed, !.now = clock, !.expires = clock + TTL]]
    /\ UNCHANGED <<clock, row, lastId, done>>
    /\ Lapse

\* INSERT ... ON CONFLICT (scope, idempotency_key_hash) DO NOTHING.
CreateProcessing(q) ==
    /\ req[q].at = "create"
    /\ IF row.status = "none"
       THEN /\ lastId' = lastId + 1
            /\ row' = [id |-> lastId + 1, status |-> "processing", fp |-> req[q].fp,
                       body |-> "none", locked |-> req[q].now + LockTTL,
                       expires |-> req[q].expires]
            /\ req' = [req EXCEPT ![q].at = "execute", ![q].id = lastId + 1,
                               ![q].renewing = req[q].timed]
       ELSE /\ Goto(q, "get")
            /\ UNCHANGED <<row, lastId>>
    /\ UNCHANGED <<clock, done>>
    /\ Lapse

\* GetByScopeAndKeyHash after the insert found a row, and the two tests on it.
\* A row deleted meanwhile is reported as an unavailable store.
GetExisting(q) ==
    /\ req[q].at = "get"
    /\ IF row.status = "none" \/ ~SameRequest(row, req[q].fp)
       THEN Answer(q)
       ELSE req' = [req EXCEPT ![q].seen = row,
                      ![q].at = IF Expired(row, req[q].now)
                                THEN "reclaimExpired" ELSE "decide"]
    /\ UNCHANGED <<clock, row, lastId, done>>
    /\ Lapse

\* Mutant: the status read before is not tested again.
ReclaimableBlind(q, fromStatus) ==
    /\ row.id = req[q].seen.id
    /\ row.locked <= req[q].now

\* The WHERE clause of TryReclaim: id, status as read before, and the lock.
Reclaimable(q, fromStatus) ==
    /\ row.id = req[q].seen.id
    /\ row.status = fromStatus
    /\ row.locked <= req[q].now

\* A successful TryReclaim; the fingerprint and the stored body stay.
Reclaim(q) ==
    /\ row' = [row EXCEPT !.status = "processing",
                  !.locked = req[q].now + LockTTL, !.expires = req[q].expires]
    /\ req' = [req EXCEPT ![q].at = "execute", ![q].id = row.id, ![q].seen = NoRow,
                       ![q].renewing = req[q].timed]

ReclaimExpired(q) ==
    /\ req[q].at = "reclaimExpired"
    /\ IF Reclaimable(q, req[q].seen.status)
       THEN Reclaim(q)
       ELSE Goto(q, "reread") /\ UNCHANGED row
    /\ UNCHANGED <<clock, lastId, done>>
    /\ Lapse

\* The second read, after somebody else changed the expired row.  Its expiry
\* is not looked at again.
Reread(q) ==
    /\ req[q].at = "reread"
    /\ IF row.status = "none" \/ ~SameRequest(row, req[q].fp)
       THEN Answer(q)
       ELSE req' = [req EXCEPT ![q].seen = row, ![q].at = "decide"]
    /\ UNCHANGED <<clock, row, lastId, done>>
    /\ Lapse

\* The switch on the status read.  A succeeded record is replayed (or found
\* not to decode), a processing one is a conflict, a failed one is retried once
\* its backoff has passed.
Decide(q) ==
    /\ req[q].at = "decide"
    /\ IF Retryable(req[q].seen.status) /\ req[q].seen.locked <= req[q].now
       THEN Goto(q, "reclaimFailed")
       ELSE Answer(q)
    /\ UNCHANGED <<clock, row, lastId, done>>
    /\ Lapse

ReclaimFailed(q) ==
    /\ req[q].at = "reclaimFailed"
    /\ IF Reclaimable(q, "failed_retryable")
       THEN Reclaim(q)
       ELSE Answer(q) /\ UNCHANGED row
    /\ UNCHANGED <<clock, lastId, done>>
    /\ Lapse

-----------------------------------------------------------------------------
\* With ExecutionTimeout the TTL starts anew when the execution has ended.
NewExpiry(q) == IF req[q].timed THEN clock + TTL ELSE req[q].expires

\* execute(ctx) returns a result.
ExecuteOk(q) ==
    /\ req[q].at = "execute"
    /\ req' = [req EXCEPT ![q].at = "markSucceeded", ![q].body = req[q].fp,
                          ![q].expires = NewExpiry(q)]
    /\ done' = TRUE
    /\ UNCHANGED <<clock, row, lastId>>
    /\ Lapse

\* execute(ctx) returns an error.
ExecuteError(q) ==
    /\ req[q].at = "execute"
    /\ req' = [req EXCEPT ![q].at = "markFailed", ![q].expires = NewExpiry(q),
                          ![q].until = clock + Backoff]
    /\ UNCHANGED <<clock, row, lastId, done>>
    /\ Lapse

\* Mutant: the lock of the record is left behind.
MarkSucceededLocked(q) ==
    /\ req[q].at = "markSucceeded"
    /\ row' = IF row.id = req[q].id
              THEN [row EXCEPT !.status = "succeeded", !.body = req[q].body,
                               !.expires = req[q].expires]
              ELSE row
    /\ Answer(q)
    /\ UNCHANGED <<clock, lastId, done>>
    /\ Lapse

\* UPDATE ... WHERE id: neither the status nor the owner of the row is tested.
MarkSucceeded(q) ==
    /\ req[q].at = "markSucceeded"
    /\ row' = IF row.id = req[q].id
              THEN [row EXCEPT !.status = "succeeded", !.body = req[q].body,
                               !.locked = 0, !.expires = req[q].expires]
              ELSE row
    /\ Answer(q)
    /\ UNCHANGED <<clock, lastId, done>>
    /\ Lapse

MarkFailedRetryable(q) ==
    /\ req[q].at = "markFailed"
    /\ row' = IF row.id = req[q].id
              THEN [row EXCEPT !.status = "failed_retryable",
                               !.locked = req[q].until, !.expires = req[q].expires]
              ELSE row
    /\ Answer(q)
    /\ UNCHANGED <<clock, lastId, done>>
    /\ Lapse

\* The WHERE clause of ExtendProcessingLock.
Renewable(q) == row.id = req[q].id /\ row.status = "processing" /\ row.fp = req[q].fp

\* One beat of renewProcessingLease, which runs until Execute returns.  A beat
\* that updates no row ends the renewal; one that fails is simply late.
Renew(q) ==
    /\ req[q].at \in Holding /\ req[q].renewing
    /\ IF Renewable(q)
       THEN /\ row' = [row EXCEPT !.locked = clock + LockTTL, !.expires = clock + TTL]
            /\ UNCHANGED req
       ELSE /\ req' = [req EXCEPT ![q].renewing = FALSE]
            /\ UNCHANGED row
    /\ UNCHANGED <<clock, lastId, done>>
    /\ Lapse

\* Mutant: a request that is cancelled gives its key back for a retry.
AbandonReleases(q) ==
    /\ req[q].at # "idle"
    /\ Answer(q)
    /\ row' = IF req[q].at \in Holding /\ row.id = req[q].id
              THEN [row EXCEPT !.status = "failed_retryable"] ELSE row
    /\ UNCHANGED <<clock, lastId, done>>
    /\ Lapse

\* A statement fails, its answer is lost, the client goes away or the process
\* dies: the request ends where it is and writes nothing more.
Abandon(q) ==
    /\ req[q].at # "idle"
    /\ Answer(q)
    /\ UNCHANGED <<clock, row, lastId, done>>
    /\ Lapse

\* The cleanup job deletes expired rows whatever their status.
DeleteExpired ==
    /\ row.status # "none"
    /\ row.expires <= clock
    /\ row' = NoRow
    /\ UNCHANGED <<clock, lastId, req, done>>
    /\ Lapse

Step(q) ==
    \/ Begin(q) \/ CreateProcessing(q) \/ GetExisting(q) \/ ReclaimExpired(q)
    \/ Reread(q) \/ Decide(q) \/ ReclaimFailed(q) \/ ExecuteOk(q) \/ ExecuteError(q)
    \/ MarkSucceeded(q) \/ MarkFailedRetryable(q) \/ Renew(q) \/ Abandon(q)

Next ==
    \/ Tick
    \/ DeleteExpired
    \/ \E q \in Requests : Step(q)

Spec == Init /\ [][Next]_vars

-----------------------------------------------------------------------------
\* Types, and that a stored result carries no lock.
TypeOK ==
    /\ clock \in 0 .. MaxClock
    /\ row \in Rows
    /\ row.status = "succeeded" => row.locked = 0
    /\ lastId \in Nat
    /\ req \in [Requests -> Calls]
    /\ lapsed \in BOOLEAN
    /\ done \in BOOLEAN

\* Until the row has expired for the first time, at most one request executes,
\* or still owes the row its outcome, for the key.
SingleExecutor == ~lapsed => \A p, q \in Holders : p = q

\* A step in which the business callback of q has its effect.
Succeeds(q) == req[q].at = "execute" /\ req'[q].at = "markSucceeded"

\* Until the row has expired for the first time the business effect happens at
\* most once, whatever fails, is abandoned or retried in between.
EffectOnceBeforeExpiry ==
    [][\A q \in Requests : (Succeeds(q) /\ ~lapsed) => ~done]_vars

\* A stored result is not disturbed before it expires for the first time: no
\* late failure of another request overwrites it, nobody claims it.
ResultIsStable ==
    [][(row.status = "succeeded" /\ ~lapsed') => row' = row]_vars

\* A replayed response was produced by a request with the same fingerprint,
\* also when the row was deleted and created again between the two reads.
ReplayMatchesRequest ==
    \A q \in Requests :
        (req[q].at = "decide" /\ req[q].seen.status = "succeeded")
            => req[q].seen.body = req[q].fp

\* The key as its callers see it, until it expires for the first time.
Phase ==
    IF lapsed THEN "over"
    ELSE IF row.status = "processing"
         THEN (IF done THEN "effected" ELSE "claimed")
         ELSE [none |-> "free", failed_retryable |-> "failed",
               succeeded |-> "stored"][row.status]

Key == INSTANCE KeyPromise WITH
    Callers <- Requests, Questions <- Fingerprints, Nothing <- "none",
    phase <- Phase, owners <- IF lapsed THEN {} ELSE Holders,
    asked <- IF lapsed THEN "none" ELSE row.fp,
    answer <- IF lapsed THEN "none" ELSE row.body

\* Execute, statement by statement, implements the promise of a key: the record
\* goes from claim over effect to answer, one owner at a time, and a record whose
\* owner is gone is left as it is until it expires.
KeepsKeyPromise == Key!Spec

\* Only an expired result is given up for a new execution: otherwise the effect
\* happens again within its TTL, for which "concurrent same-key requests should
\* execute business side-effect once" (service/idempotency_test.go:394).
OnlyExpiredResultsAreReclaimed ==
    [][(row.status = "succeeded" /\ row'.status = "processing")
          => row.expires <= clock]_vars
==============================================================================
