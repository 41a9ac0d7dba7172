-------------------------- MODULE IdempotencyProofs --------------------------
(***************************************************************************)
(* Proofs about Idempotency, for any number of requests and any TTL, lock  *)
(* and backoff.                                                            *)
(***************************************************************************)
EXTENDS Idempotency, TLAPS

USE TTLAssumption, LockAssumption, BackoffAssumption, ClockAssumption

\* Times computed from a moment of the clock stay within the bound.
LEMMA TimesBounds ==
    ASSUME NEW t \in 0 .. MaxClock
    PROVE  t + TTL \in Times /\ t + LockTTL \in Times /\ t + Backoff \in Times
BY DEF Times

\* A fresh row and an idle request are well typed.
LEMMA EmptyTypes == NoRow \in Rows /\ Idle \in Calls
<1>1. 0 \in Times /\ 0 \in 0 .. MaxClock
  BY DEF Times
<1>2. NoRow \in Rows
  BY <1>1 DEF NoRow, Rows, Statuses, Bodies
<1>3. Idle \in Calls
  BY <1>1, <1>2 DEF Idle, Calls, Steps, Bodies
<1>. QED BY <1>2, <1>3

-----------------------------------------------------------------------------
(* Type correctness *)

\* Ending one call keeps the type of all of them.
LEMMA AnswerType ==
    ASSUME req \in [Requests -> Calls], NEW q \in Requests, Answer(q)
    PROVE  req' \in [Requests -> Calls]
BY EmptyTypes DEF Answer

\* Moving one request keeps the type of all of them.
LEMMA GotoType ==
    ASSUME req \in [Requests -> Calls], NEW q \in Requests, NEW s \in Steps, Goto(q, s)
    PROVE  req' \in [Requests -> Calls]
BY DEF Goto, Calls

\* A claim gives the row a lock and a TTL.
LEMMA ReclaimType ==
    ASSUME TypeOK, NEW q \in Requests, Reclaim(q)
    PROVE  /\ row' \in Rows /\ row'.status = "processing"
           /\ req' \in [Requests -> Calls]
<1>1. req[q] \in Calls /\ row \in Rows
  BY DEF TypeOK
<1>2. req[q].now + LockTTL \in Times /\ req[q].expires \in Times
  BY <1>1, TimesBounds DEF Calls
<1>3. row' \in Rows /\ row'.status = "processing"
  BY <1>1, <1>2 DEF Reclaim, Rows, Statuses
<1>4. req' \in [Requests -> Calls]
  BY <1>1, EmptyTypes DEF Reclaim, TypeOK, Calls, Rows, Steps
<1>. QED BY <1>3, <1>4

\* Every step keeps the types.
LEMMA NextType == TypeOK /\ [Next]_vars => TypeOK'
<1>. SUFFICES ASSUME TypeOK, [Next]_vars PROVE TypeOK'
  OBVIOUS
<1>. DEFINE RowOK == row \in Rows /\ (row.status = "succeeded" => row.locked = 0)
            ReqOK == req \in [Requests -> Calls]
<1>0. ASSUME RowOK', ReqOK', Lapse, clock' \in 0 .. MaxClock, lastId' \in Nat,
             done' \in BOOLEAN
      PROVE  TypeOK'
  BY <1>0 DEF TypeOK, Lapse
<1>1. CASE Tick
  BY <1>1, <1>0 DEF Tick, TypeOK
<1>2. CASE DeleteExpired
  BY <1>2, <1>0, EmptyTypes DEF DeleteExpired, TypeOK, NoRow
<1>3. ASSUME NEW q \in Requests, Step(q) PROVE TypeOK'
  <2>. req[q] \in Calls /\ row \in Rows
    BY DEF TypeOK
  <2>. DEFINE c == req[q]
  <2>. NewExpiry(q) \in Times
    BY TimesBounds DEF NewExpiry, TypeOK, Calls
  <2>1. CASE Begin(q)
    <3>1. PICK fp \in Fingerprints, timed \in BOOLEAN :
             req' = [req EXCEPT ![q] = [Idle EXCEPT !.at = "create", !.fp = fp,
                        !.timed = timed, !.now = clock, !.expires = clock + TTL]]
      BY <2>1 DEF Begin
    <3>2. [Idle EXCEPT !.at = "create", !.fp = fp, !.timed = timed,
              !.now = clock, !.expires = clock + TTL] \in Calls
      BY EmptyTypes, TimesBounds DEF TypeOK, Calls, Steps
    <3>. QED BY <2>1, <3>1, <3>2, <1>0 DEF Begin, TypeOK
  <2>2. CASE CreateProcessing(q)
    <3>1. CASE row.status = "none"
      <4>1. c.now + LockTTL \in Times
        BY TimesBounds DEF Calls
      <4>2. RowOK'
        BY <2>2, <3>1, <4>1 DEF CreateProcessing, TypeOK, Rows, Calls, Statuses, Bodies
      <4>3. ReqOK'
        BY <2>2, <3>1 DEF CreateProcessing, TypeOK, Calls, Steps
      <4>. QED BY <2>2, <3>1, <4>2, <4>3, <1>0 DEF CreateProcessing, TypeOK
    <3>2. CASE row.status # "none"
      BY <2>2, <3>2, <1>0, GotoType DEF CreateProcessing, TypeOK, Steps
    <3>. QED BY <3>1, <3>2
  <2>3. CASE GetExisting(q)
    <3>1. ReqOK'
      <4>1. CASE Answer(q)
        BY <4>1, AnswerType DEF TypeOK
      <4>2. CASE ~Answer(q)
        BY <2>3, <4>2 DEF GetExisting, TypeOK, Calls, Steps
      <4>. QED BY <4>1, <4>2
    <3>. QED BY <2>3, <3>1, <1>0 DEF GetExisting, TypeOK
  <2>4. CASE ReclaimExpired(q)
    <3>1. CASE Reclaim(q)
      BY <2>4, <3>1, ReclaimType, <1>0 DEF ReclaimExpired, TypeOK
    <3>2. CASE ~Reclaim(q)
      BY <2>4, <3>2, GotoType, <1>0 DEF ReclaimExpired, TypeOK, Steps
    <3>. QED BY <3>1, <3>2
  <2>5. CASE Reread(q)
    <3>1. ReqOK'
      <4>1. CASE Answer(q)
        BY <4>1, AnswerType DEF TypeOK
      <4>2. CASE ~Answer(q)
        BY <2>5, <4>2 DEF Reread, TypeOK, Calls, Steps
      <4>. QED BY <4>1, <4>2
    <3>. QED BY <2>5, <3>1, <1>0 DEF Reread, TypeOK
  <2>6. CASE Decide(q)
    BY <2>6, AnswerType, GotoType, <1>0 DEF Decide, TypeOK, Steps
  <2>7. CASE ReclaimFailed(q)
    <3>1. CASE Reclaim(q)
      BY <2>7, <3>1, ReclaimType, <1>0 DEF ReclaimFailed, TypeOK
    <3>2. CASE ~Reclaim(q)
      BY <2>7, <3>2, AnswerType, <1>0 DEF ReclaimFailed, TypeOK
    <3>. QED BY <3>1, <3>2
  <2>8. CASE ExecuteOk(q)
    <3>1. ReqOK'
      BY <2>8 DEF ExecuteOk, TypeOK, Calls, Steps, Bodies
    <3>. QED BY <2>8, <3>1, <1>0 DEF ExecuteOk, TypeOK
  <2>9. CASE ExecuteError(q)
    <3>1. ReqOK'
      BY <2>9, TimesBounds DEF ExecuteError, TypeOK, Calls, Steps
    <3>. QED BY <2>9, <3>1, <1>0 DEF ExecuteError, TypeOK
  <2>10. CASE MarkSucceeded(q)
    <3>1. RowOK'
      BY <2>10, EmptyTypes DEF MarkSucceeded, TypeOK, Rows, Calls, Statuses, NoRow
    <3>. QED BY <2>10, <3>1, AnswerType, <1>0 DEF MarkSucceeded, TypeOK
  <2>11. CASE MarkFailedRetryable(q)
    <3>1. RowOK'
      BY <2>11 DEF MarkFailedRetryable, TypeOK, Rows, Calls, Statuses
    <3>. QED BY <2>11, <3>1, AnswerType, <1>0 DEF MarkFailedRetryable, TypeOK
  <2>12. CASE Renew(q)
    <3>1. clock + TTL \in Times /\ clock + LockTTL \in Times
      BY TimesBounds DEF TypeOK
    <3>2. RowOK'
      BY <2>12, <3>1 DEF Renew, Renewable, TypeOK, Rows
    <3>3. ReqOK'
      <4>1. CASE Renewable(q)
        BY <2>12, <4>1 DEF Renew, TypeOK
      <4>2. CASE ~Renewable(q)
        <5>1. [c EXCEPT !.renewing = FALSE] \in Calls
          BY DEF Calls
        <5>. QED BY <2>12, <4>2, <5>1 DEF Renew, TypeOK
      <4>. QED BY <4>1, <4>2
    <3>. QED BY <2>12, <3>2, <3>3, <1>0 DEF Renew, TypeOK
  <2>13. CASE Abandon(q)
    BY <2>13, AnswerType, <1>0 DEF Abandon, TypeOK
  <2>. QED BY <1>3, <2>1, <2>2, <2>3, <2>4, <2>5, <2>6, <2>7, <2>8, <2>9, <2>10,
              <2>11, <2>12, <2>13 DEF Step
<1>4. CASE UNCHANGED vars
  BY <1>4 DEF vars, TypeOK
<1>. QED BY <1>1, <1>2, <1>3, <1>4 DEF Next

\* The initial state is well typed.
LEMMA InitType == Init => TypeOK
<1>. SUFFICES ASSUME Init PROVE TypeOK
  OBVIOUS
<1>1. clock \in 0 .. MaxClock /\ lastId \in Nat
  BY DEF Init
<1>2. row \in Rows /\ row.status # "succeeded"
  BY EmptyTypes DEF Init, NoRow
<1>3. req \in [Requests -> Calls]
  BY EmptyTypes DEF Init
<1>4. lapsed \in BOOLEAN /\ done \in BOOLEAN
  BY DEF Init
<1>. QED BY <1>1, <1>2, <1>3, <1>4 DEF TypeOK

\* The state is well typed in every reachable state.
THEOREM TypeCorrect == Spec => []TypeOK
<1>. QED BY InitType, NextType, PTL DEF Spec

-----------------------------------------------------------------------------
(* One executor and one effect before the first expiry *)

\* now was read from the clock.
Past == \A q \in Requests : req[q].now <= clock

\* As long as the row has never been expired: it is not expired, nobody is on
\* the path that takes over expired rows, and a request that holds a claim
\* holds the row, which then is processing.  Once the callback has succeeded
\* the row is never back in a state from which it can be claimed.
Owned ==
    ~lapsed =>
      /\ row.status # "none" => ~(row.expires <= clock)
      /\ \A q \in Requests : req[q].at \notin {"reclaimExpired", "reread"}
      /\ \A q \in Requests : req[q].at \in Holding
                               => row.status = "processing" /\ row.id = req[q].id
      /\ \A p, q \in Requests : (req[p].at \in Holding /\ req[q].at \in Holding) => p = q
      /\ done => row.status \in {"processing", "succeeded"}
      /\ done => \A q \in Requests : req[q].at \in Holding => req[q].at = "markSucceeded"

\* Time only passes, so a moment read before stays in the past.
LEMMA NextPast == TypeOK /\ Past /\ [Next]_vars => Past'
<1>. SUFFICES ASSUME TypeOK, Past, [Next]_vars, NEW p \in Requests
              PROVE  req'[p].now <= clock'
  BY DEF Past
<1>. req[p] \in Calls /\ req[p].now <= clock /\ clock \in 0 .. MaxClock
  BY DEF TypeOK, Past
<1>1. CASE Tick
  BY <1>1 DEF Tick, Calls
<1>2. CASE DeleteExpired
  BY <1>2 DEF DeleteExpired
<1>3. ASSUME NEW q \in Requests, Step(q) PROVE req'[p].now <= clock'
  <2>1. CASE Begin(q)
    BY <2>1 DEF Begin, TypeOK, Idle
  <2>2. CASE ~Begin(q)
    <3>1. clock' = clock
      BY <1>3, <2>2 DEF Step, CreateProcessing, GetExisting, ReclaimExpired, Reread,
            Decide, ReclaimFailed, ExecuteOk, ExecuteError, MarkSucceeded,
            MarkFailedRetryable, Renew, Abandon
    <3>2. req'[p].now = req[p].now \/ req'[p].now = 0
      <4>1. CASE CreateProcessing(q)
        BY <4>1 DEF CreateProcessing, Goto, TypeOK, Calls
      <4>2. CASE GetExisting(q)
        BY <4>2 DEF GetExisting, Answer, Idle, TypeOK, Calls
      <4>3. CASE ReclaimExpired(q)
        BY <4>3 DEF ReclaimExpired, Reclaim, Goto, TypeOK, Calls
      <4>4. CASE Reread(q)
        BY <4>4 DEF Reread, Answer, Idle, TypeOK, Calls
      <4>5. CASE Decide(q)
        BY <4>5 DEF Decide, Goto, Answer, Idle, TypeOK, Calls
      <4>6. CASE ReclaimFailed(q)
        BY <4>6 DEF ReclaimFailed, Reclaim, Answer, Idle, TypeOK, Calls
      <4>7. CASE ExecuteOk(q)
        BY <4>7 DEF ExecuteOk, TypeOK, Calls
      <4>8. CASE ExecuteError(q)
        BY <4>8 DEF ExecuteError, TypeOK, Calls
      <4>9. CASE MarkSucceeded(q)
        BY <4>9 DEF MarkSucceeded, Answer, Idle, TypeOK, Calls
      <4>10. CASE MarkFailedRetryable(q)
        BY <4>10 DEF MarkFailedRetryable, Answer, Idle, TypeOK, Calls
      <4>11. CASE Renew(q)
        BY <4>11 DEF Renew, TypeOK, Calls
      <4>12. CASE Abandon(q)
        BY <4>12 DEF Abandon, Answer, Idle, TypeOK, Calls
      <4>. QED BY <1>3, <2>2, <4>1, <4>2, <4>3, <4>4, <4>5, <4>6,
              <4>7, <4>8, <4>9, <4>10, <4>11, <4>12 DEF Step
    <3>. QED BY <3>1, <3>2
  <2>. QED BY <2>1, <2>2
<1>4. CASE UNCHANGED vars
  BY <1>4 DEF vars
<1>. QED BY <1>1, <1>2, <1>3, <1>4 DEF Next

\* A step that moves one request, and neither the row nor the clock, keeps Owned
\* unless it enters a claim or the take-over of an expired row.
LEMMA QuietStep ==
    ASSUME Owned, Lapse, NEW q \in Requests, TypeOK,
           UNCHANGED <<clock, row, done>>,
           \A p \in Requests \ {q} : req'[p] = req[p],
           req'[q].at \notin Holding,
           lapsed \/ req'[q].at \notin {"reclaimExpired", "reread"}
    PROVE  Owned'
BY DEF Owned, Lapse

\* A claim: nobody held the row before, and no result was stored.
LEMMA ClaimStep ==
    ASSUME Owned, Lapse, NEW q \in Requests, TypeOK,
           UNCHANGED <<clock, done>>,
           row.status \in {"none", "failed_retryable"},
           \A p \in Requests \ {q} : req'[p] = req[p],
           row'.status = "processing", req'[q].at = "execute", row'.id = req'[q].id
    PROVE  Owned'
BY DEF Owned, Lapse, Holding

\* Every step keeps Owned.
LEMMA NextOwned == TypeOK /\ Past /\ Owned /\ [Next]_vars => Owned'
<1>. SUFFICES ASSUME TypeOK, Past, Owned, [Next]_vars PROVE Owned'
  OBVIOUS
<1>1. CASE Tick
  BY <1>1 DEF Tick, Owned, Lapse
<1>2. CASE DeleteExpired
  BY <1>2 DEF DeleteExpired, Owned, Lapse, NoRow, TypeOK, Rows, Times
<1>3. ASSUME NEW q \in Requests, Step(q) PROVE Owned'
  <2>. req[q] \in Calls /\ row \in Rows /\ req[q].now <= clock
    BY DEF TypeOK, Past
  <2>1. CASE Begin(q)
    BY <2>1, QuietStep DEF Begin, TypeOK, Idle, Holding
  <2>2. CASE CreateProcessing(q)
    <3>1. CASE row.status = "none"
      BY <2>2, <3>1, ClaimStep DEF CreateProcessing, TypeOK, Calls
    <3>2. CASE row.status # "none"
      BY <2>2, <3>2, QuietStep DEF CreateProcessing, Goto, TypeOK, Calls, Holding
    <3>. QED BY <3>1, <3>2
  <2>3. CASE GetExisting(q)
    <3>1. row.status = "none" \/ lapsed \/ ~Expired(row, req[q].now)
      BY DEF Owned, Expired, TypeOK, Calls, Rows, Times
    <3>2. req'[q].at \notin Holding /\ (lapsed \/ req'[q].at \notin {"reclaimExpired", "reread"})
      BY <2>3, <3>1 DEF GetExisting, Answer, Idle, TypeOK, Calls, Holding
    <3>3. \A p \in Requests \ {q} : req'[p] = req[p]
      BY <2>3 DEF GetExisting, Answer, TypeOK
    <3>. QED BY <2>3, <3>2, <3>3, QuietStep DEF GetExisting
  <2>4. CASE ReclaimExpired(q)
    BY <2>4 DEF ReclaimExpired, Owned, Lapse
  <2>5. CASE Reread(q)
    BY <2>5 DEF Reread, Owned, Lapse
  <2>6. CASE Decide(q)
    BY <2>6, QuietStep DEF Decide, Goto, Answer, Idle, TypeOK, Calls, Holding
  <2>7. CASE ReclaimFailed(q)
    <3>1. CASE Reclaimable(q, "failed_retryable")
      <4>1. row.status = "failed_retryable" /\ Reclaim(q) /\ Lapse /\ UNCHANGED <<clock, done>>
        BY <2>7, <3>1 DEF ReclaimFailed, Reclaimable
      <4>2. row'.status = "processing" /\ row'.id = row.id
        BY <4>1 DEF Reclaim, Rows
      <4>3. req'[q].at = "execute" /\ req'[q].id = row.id
        BY <4>1 DEF Reclaim, TypeOK, Calls
      <4>4. \A p \in Requests \ {q} : req'[p] = req[p]
        BY <4>1 DEF Reclaim, TypeOK
      <4>. QED BY <4>1, <4>2, <4>3, <4>4, ClaimStep
    <3>2. CASE ~Reclaimable(q, "failed_retryable")
      BY <2>7, <3>2, QuietStep DEF ReclaimFailed, Answer, Idle, TypeOK, Holding
    <3>. QED BY <3>1, <3>2
  <2>8. CASE ExecuteOk(q)
    BY <2>8 DEF ExecuteOk, Owned, Lapse, TypeOK, Calls, Holding
  <2>9. CASE ExecuteError(q)
    BY <2>9 DEF ExecuteError, Owned, Lapse, TypeOK, Calls, Holding
  <2>10. CASE MarkSucceeded(q)
    BY <2>10 DEF MarkSucceeded, Answer, Idle, Owned, Lapse, TypeOK, Rows, Holding
  <2>11. CASE MarkFailedRetryable(q)
    BY <2>11 DEF MarkFailedRetryable, Answer, Idle, Owned, Lapse, TypeOK, Rows, Holding
  <2>12. CASE Renew(q)
    <3>1. CASE Renewable(q)
      BY <2>12, <3>1 DEF Renew, Renewable, Owned, Lapse, TypeOK, Rows
    <3>2. CASE ~Renewable(q)
      BY <2>12, <3>2 DEF Renew, Owned, Lapse, TypeOK, Calls, Holding
    <3>. QED BY <3>1, <3>2
  <2>13. CASE Abandon(q)
    BY <2>13, QuietStep DEF Abandon, Answer, Idle, TypeOK, Holding
  <2>. QED BY <1>3, <2>1, <2>2, <2>3, <2>4, <2>5, <2>6, <2>7, <2>8, <2>9, <2>10,
              <2>11, <2>12, <2>13 DEF Step
<1>4. CASE UNCHANGED vars
  BY <1>4 DEF vars, Owned
<1>. QED BY <1>1, <1>2, <1>3, <1>4 DEF Next

\* Initially nothing is owned.
LEMMA InitOwned == Init => TypeOK /\ Past /\ Owned
<1>1. Init => Past
  BY DEF Init, Idle, Past
<1>2. Init => Owned
  BY DEF Init, Idle, NoRow, Owned, Holding
<1>. QED BY <1>1, <1>2, InitType

\* Before the row has expired for the first time at most one request executes
\* for a key, for any number of requests, failures and abandoned calls.
THEOREM OneExecutor == Spec => []SingleExecutor
<1>1. TypeOK /\ Past /\ Owned /\ [Next]_vars => (TypeOK /\ Past /\ Owned)'
  BY NextType, NextPast, NextOwned
<1>2. Owned => SingleExecutor
  BY DEF Owned, SingleExecutor, Holders
<1>. QED BY InitOwned, <1>1, <1>2, PTL DEF Spec

\* Before that moment the business effect happens at most once.
THEOREM OneEffect == Spec => EffectOnceBeforeExpiry
<1>1. TypeOK /\ Past /\ Owned /\ [Next]_vars => (TypeOK /\ Past /\ Owned)'
  BY NextType, NextPast, NextOwned
<1>2. Owned => [\A q \in Requests : (Succeeds(q) /\ ~lapsed) => ~done]_vars
  BY DEF Owned, Succeeds, Holding
<1>. QED BY InitOwned, <1>1, <1>2, PTL DEF Spec, EffectOnceBeforeExpiry

\* Only a request that owes its outcome could overwrite a stored result, and
\* none does: before the first expiry holders only exist while the row is
\* processing.  So a stored result stays as it is.
THEOREM StableResult == Spec => ResultIsStable
<1>1. TypeOK /\ Past /\ Owned /\ [Next]_vars => (TypeOK /\ Past /\ Owned)'
  BY NextType, NextPast, NextOwned
<1>2. ASSUME TypeOK, Owned, [Next]_vars, row.status = "succeeded", ~lapsed', row' # row
      PROVE  FALSE
  <2>1. ~lapsed
    <3>1. CASE Lapse
      BY <1>2, <3>1 DEF Lapse
    <3>2. CASE UNCHANGED vars
      BY <1>2, <3>2 DEF vars
    <3>. QED BY <1>2, <3>1, <3>2 DEF Next, Tick, DeleteExpired, Step, Begin,
          CreateProcessing, GetExisting, ReclaimExpired, Reread, Decide, ReclaimFailed,
          ExecuteOk, ExecuteError, MarkSucceeded, MarkFailedRetryable, Renew, Abandon
  <2>2. CASE DeleteExpired
    BY <1>2, <2>1, <2>2 DEF DeleteExpired, Owned
  <2>3. ASSUME NEW q \in Requests, Step(q) PROVE FALSE
    <3>1. req[q].at \notin Holding /\ req[q].at # "reclaimExpired"
      BY <1>2, <2>1 DEF Owned
    <3>2. ~Reclaimable(q, "failed_retryable")
      BY <1>2 DEF Reclaimable
    <3>. QED BY <1>2, <2>3, <3>1, <3>2 DEF Step, Begin, CreateProcessing, GetExisting,
          ReclaimExpired, Reread, Decide, ReclaimFailed, ExecuteOk, ExecuteError,
          MarkSucceeded, MarkFailedRetryable, Renew, Abandon, Holding
  <2>. QED BY <1>2, <2>2, <2>3 DEF Next, Tick, vars
<1>3. TypeOK /\ Owned /\ [Next]_vars
        => [(row.status = "succeeded" /\ ~lapsed') => row' = row]_vars
  BY <1>2
<1>. QED BY InitOwned, <1>1, <1>3, PTL DEF Spec, ResultIsStable

-----------------------------------------------------------------------------
(* Replays *)

\* Steps at which a request relies on the row it has read.
Readers == {"reclaimExpired", "reread", "decide", "reclaimFailed"}

\* The row: it has an id of the sequence, and a stored body is the response to
\* the request the row was created for.
RowIdentity(r, last) ==
    /\ r.id <= last
    /\ r.status # "none" => r.id # 0
    /\ r.status = "succeeded" => r.body = r.fp

\* A request c: ids are never reused, so whoever knows the id of the row knows
\* its fingerprint, however often the row was deleted and created again.
CallIdentity(c, r, last) ==
    /\ c.at \in Holding =>
         c.id # 0 /\ c.id <= last /\ (c.id = r.id => c.fp = r.fp)
    /\ c.at = "markSucceeded" => c.body = c.fp
    /\ c.at \in Readers =>
         /\ c.seen.fp = c.fp /\ c.seen.id # 0 /\ c.seen.id <= last
         /\ c.seen.id = r.id => c.seen.fp = r.fp
         /\ c.seen.status = "succeeded" => c.seen.body = c.fp

Identity ==
    /\ RowIdentity(row, lastId)
    /\ \A q \in Requests : CallIdentity(req[q], row, lastId)

\* The requests that do not move keep their knowledge of the row: it keeps its
\* identity, is deleted, or is created under a new id.
LEMMA OtherCalls ==
    ASSUME TypeOK, Identity, NEW p \in Requests, req'[p] = req[p],
           \/ row'.id = row.id /\ row'.fp = row.fp /\ lastId' = lastId
           \/ row'.id = 0 /\ lastId' = lastId
           \/ row'.id = lastId + 1 /\ lastId' = lastId + 1
    PROVE  CallIdentity(req'[p], row', lastId')
<1>. req[p] \in Calls /\ lastId \in Nat /\ row \in Rows
  BY DEF TypeOK
<1>. CallIdentity(req[p], row, lastId)
  BY DEF Identity
<1>. QED BY DEF CallIdentity, Calls, Rows

\* A step of q that leaves the row alone.
LEMMA ReadStep ==
    ASSUME TypeOK, Identity, NEW q \in Requests, UNCHANGED <<row, lastId>>,
           \A p \in Requests \ {q} : req'[p] = req[p],
           CallIdentity(req'[q], row, lastId)
    PROVE  Identity'
BY OtherCalls DEF Identity

\* A step of q that updates the row and keeps its identity.
LEMMA WriteStep ==
    ASSUME TypeOK, Identity, NEW q \in Requests, lastId' = lastId,
           row'.id = row.id, row'.fp = row.fp,
           RowIdentity(row', lastId),
           \A p \in Requests \ {q} : req'[p] = req[p],
           CallIdentity(req'[q], row', lastId)
    PROVE  Identity'
BY OtherCalls DEF Identity

\* Ending a call is always such a step.
LEMMA IdleIdentity ==
    ASSUME NEW q \in Requests, TypeOK, Answer(q), NEW r, NEW l
    PROVE  CallIdentity(req'[q], r, l) /\ \A p \in Requests \ {q} : req'[p] = req[p]
BY DEF CallIdentity, Idle, Answer, TypeOK, Holding, Readers

\* A claim of a row by its id and fingerprint.
LEMMA ReclaimIdentity ==
    ASSUME TypeOK, Identity, NEW q \in Requests, req[q].at \in Readers, NEW status,
           Reclaimable(q, status), Reclaim(q), lastId' = lastId
    PROVE  Identity'
<1>. req[q] \in Calls /\ row \in Rows /\ CallIdentity(req[q], row, lastId) /\ RowIdentity(row, lastId)
  BY DEF TypeOK, Identity
<1>1. row'.id = row.id /\ row'.fp = row.fp /\ row'.status = "processing"
  BY DEF Reclaim, Rows
<1>2. req'[q].at = "execute" /\ req'[q].id = row.id /\ req'[q].fp = req[q].fp
  BY DEF Reclaim, TypeOK, Calls
<1>3. row.id # 0 /\ row.id <= lastId /\ row.fp = req[q].fp
  BY DEF Reclaimable, CallIdentity
<1>4. RowIdentity(row', lastId)
  BY <1>1, <1>3 DEF RowIdentity
<1>5. CallIdentity(req'[q], row', lastId)
  BY <1>1, <1>2, <1>3 DEF CallIdentity, Holding, Readers
<1>6. \A p \in Requests \ {q} : req'[p] = req[p]
  BY DEF Reclaim, TypeOK
<1>. QED BY <1>1, <1>4, <1>5, <1>6, WriteStep

\* Every step keeps Identity.
LEMMA NextIdentity == TypeOK /\ Identity /\ [Next]_vars => Identity'
<1>. SUFFICES ASSUME TypeOK, Identity, [Next]_vars PROVE Identity'
  OBVIOUS
<1>1. CASE Tick
  BY <1>1 DEF Tick, Identity
<1>2. CASE DeleteExpired
  <2>1. row'.id = 0 /\ row'.status = "none" /\ lastId' = lastId /\ req' = req
    BY <1>2 DEF DeleteExpired, NoRow
  <2>2. RowIdentity(row', lastId')
    BY <2>1 DEF RowIdentity, TypeOK
  <2>. QED BY <2>1, <2>2, OtherCalls DEF Identity
<1>3. ASSUME NEW q \in Requests, Step(q) PROVE Identity'
  <2>. req[q] \in Calls /\ row \in Rows /\ CallIdentity(req[q], row, lastId) /\ RowIdentity(row, lastId)
    BY DEF TypeOK, Identity
  <2>1. CASE Begin(q)
    <3>1. req'[q].at = "create" /\ \A p \in Requests \ {q} : req'[p] = req[p]
      BY <2>1 DEF Begin, TypeOK, Idle
    <3>2. CallIdentity(req'[q], row, lastId)
      BY <3>1 DEF CallIdentity, Holding, Readers
    <3>. QED BY <2>1, <3>1, <3>2, ReadStep DEF Begin
  <2>2. CASE CreateProcessing(q)
    <3>1. CASE row.status = "none"
      <4>1. /\ row'.id = lastId + 1 /\ row'.fp = req[q].fp /\ row'.status = "processing"
            /\ lastId' = lastId + 1
        BY <2>2, <3>1 DEF CreateProcessing
      <4>2. req'[q].at = "execute" /\ req'[q].id = lastId + 1 /\ req'[q].fp = req[q].fp
        BY <2>2, <3>1 DEF CreateProcessing, TypeOK, Calls
      <4>3. \A p \in Requests \ {q} : req'[p] = req[p]
        BY <2>2, <3>1 DEF CreateProcessing, TypeOK
      <4>4. RowIdentity(row', lastId') /\ CallIdentity(req'[q], row', lastId')
        BY <4>1, <4>2 DEF RowIdentity, CallIdentity, TypeOK, Holding, Readers
      <4>. QED BY <4>1, <4>3, <4>4, OtherCalls DEF Identity
    <3>2. CASE row.status # "none"
      <4>1. req'[q].at = "get" /\ \A p \in Requests \ {q} : req'[p] = req[p]
        BY <2>2, <3>2 DEF CreateProcessing, Goto, TypeOK, Calls
      <4>2. CallIdentity(req'[q], row, lastId)
        BY <4>1 DEF CallIdentity, Holding, Readers
      <4>. QED BY <2>2, <3>2, <4>1, <4>2, ReadStep DEF CreateProcessing
    <3>. QED BY <3>1, <3>2
  <2>3. CASE GetExisting(q) \/ Reread(q)
    <3>1. CASE Answer(q)
      BY <2>3, <3>1, IdleIdentity, ReadStep DEF GetExisting, Reread
    <3>2. CASE ~Answer(q)
      <4>1. row.status # "none" /\ row.fp = req[q].fp
        BY <2>3, <3>2 DEF GetExisting, Reread, SameRequest
      <4>2. /\ req'[q].at \in Readers /\ req'[q].seen = row /\ req'[q].fp = req[q].fp
            /\ \A p \in Requests \ {q} : req'[p] = req[p]
        BY <2>3, <3>2 DEF GetExisting, Reread, TypeOK, Calls, Readers
      <4>3. CallIdentity(req'[q], row, lastId)
        BY <4>1, <4>2 DEF CallIdentity, RowIdentity, Holding, Readers
      <4>. QED BY <2>3, <4>2, <4>3, ReadStep DEF GetExisting, Reread
    <3>. QED BY <3>1, <3>2
  <2>4. CASE ReclaimExpired(q)
    <3>1. CASE Reclaimable(q, req[q].seen.status)
      BY <2>4, <3>1, ReclaimIdentity DEF ReclaimExpired, Readers
    <3>2. CASE ~Reclaimable(q, req[q].seen.status)
      <4>1. /\ req'[q] = [req[q] EXCEPT !.at = "reread"]
            /\ \A p \in Requests \ {q} : req'[p] = req[p]
        BY <2>4, <3>2 DEF ReclaimExpired, Goto, TypeOK
      <4>2. CallIdentity(req'[q], row, lastId)
        BY <2>4, <4>1 DEF ReclaimExpired, CallIdentity, Calls, Holding, Readers
      <4>. QED BY <2>4, <3>2, <4>1, <4>2, ReadStep DEF ReclaimExpired
    <3>. QED BY <3>1, <3>2
  <2>5. CASE Decide(q)
    <3>1. CASE Answer(q)
      BY <2>5, <3>1, IdleIdentity, ReadStep DEF Decide
    <3>2. CASE ~Answer(q)
      <4>1. /\ req'[q] = [req[q] EXCEPT !.at = "reclaimFailed"]
            /\ \A p \in Requests \ {q} : req'[p] = req[p]
        BY <2>5, <3>2 DEF Decide, Goto, TypeOK
      <4>2. CallIdentity(req'[q], row, lastId)
        BY <2>5, <4>1 DEF Decide, CallIdentity, Calls, Holding, Readers
      <4>. QED BY <2>5, <4>1, <4>2, ReadStep DEF Decide
    <3>. QED BY <3>1, <3>2
  <2>6. CASE ReclaimFailed(q)
    <3>1. CASE Reclaimable(q, "failed_retryable")
      BY <2>6, <3>1, ReclaimIdentity DEF ReclaimFailed, Readers
    <3>2. CASE ~Reclaimable(q, "failed_retryable")
      BY <2>6, <3>2, IdleIdentity, ReadStep DEF ReclaimFailed
    <3>. QED BY <3>1, <3>2
  <2>7. CASE ExecuteOk(q) \/ ExecuteError(q)
    <3>1. /\ \/ req'[q].at = "markSucceeded" /\ req'[q].body = req[q].fp
             \/ req'[q].at = "markFailed"
          /\ req'[q].id = req[q].id /\ req'[q].fp = req[q].fp
          /\ \A p \in Requests \ {q} : req'[p] = req[p]
      BY <2>7 DEF ExecuteOk, ExecuteError, TypeOK, Calls
    <3>2. CallIdentity(req'[q], row, lastId)
      BY <2>7, <3>1 DEF ExecuteOk, ExecuteError, CallIdentity, Holding, Readers
    <3>. QED BY <2>7, <3>1, <3>2, ReadStep DEF ExecuteOk, ExecuteError
  <2>8. CASE MarkSucceeded(q)
    <3>1. CASE row.id = req[q].id
      <4>1. /\ row'.id = row.id /\ row'.fp = row.fp /\ row'.body = req[q].body
            /\ lastId' = lastId
        BY <2>8, <3>1 DEF MarkSucceeded, Rows
      <4>2. RowIdentity(row', lastId)
        BY <2>8, <3>1, <4>1 DEF MarkSucceeded, RowIdentity, CallIdentity, Holding
      <4>. QED BY <2>8, <4>1, <4>2, IdleIdentity, WriteStep DEF MarkSucceeded
    <3>2. CASE row.id # req[q].id
      BY <2>8, <3>2, IdleIdentity, ReadStep DEF MarkSucceeded
    <3>. QED BY <3>1, <3>2
  <2>9. CASE MarkFailedRetryable(q)
    <3>1. CASE row.id = req[q].id
      <4>1. /\ row'.id = row.id /\ row'.fp = row.fp /\ row'.status = "failed_retryable"
            /\ lastId' = lastId
        BY <2>9, <3>1 DEF MarkFailedRetryable, Rows
      <4>2. RowIdentity(row', lastId)
        BY <2>9, <3>1, <4>1 DEF MarkFailedRetryable, RowIdentity, CallIdentity, Holding
      <4>. QED BY <2>9, <4>1, <4>2, IdleIdentity, WriteStep DEF MarkFailedRetryable
    <3>2. CASE row.id # req[q].id
      BY <2>9, <3>2, IdleIdentity, ReadStep DEF MarkFailedRetryable
    <3>. QED BY <3>1, <3>2
  <2>10. CASE Renew(q)
    <3>1. CASE Renewable(q)
      <4>1. /\ row'.id = row.id /\ row'.fp = row.fp /\ row'.status = row.status
            /\ row'.body = row.body /\ lastId' = lastId /\ req' = req
        BY <2>10, <3>1 DEF Renew, Rows
      <4>2. RowIdentity(row', lastId) /\ CallIdentity(req'[q], row', lastId)
        BY <4>1 DEF RowIdentity, CallIdentity
      <4>. QED BY <4>1, <4>2, WriteStep
    <3>2. CASE ~Renewable(q)
      <4>1. /\ req'[q] = [req[q] EXCEPT !.renewing = FALSE]
            /\ \A p \in Requests \ {q} : req'[p] = req[p]
        BY <2>10, <3>2 DEF Renew, TypeOK
      <4>2. CallIdentity(req'[q], row, lastId)
        BY <4>1 DEF CallIdentity, Calls
      <4>. QED BY <2>10, <3>2, <4>1, <4>2, ReadStep DEF Renew
    <3>. QED BY <3>1, <3>2
  <2>11. CASE Abandon(q)
    BY <2>11, IdleIdentity, ReadStep DEF Abandon
  <2>. QED BY <1>3, <2>1, <2>2, <2>3, <2>4, <2>5, <2>6, <2>7, <2>8, <2>9, <2>10,
              <2>11 DEF Step
<1>4. CASE UNCHANGED vars
  BY <1>4 DEF vars, Identity
<1>. QED BY <1>1, <1>2, <1>3, <1>4 DEF Next

\* A replayed response was given to a request with the same fingerprint, through
\* any number of expiries, deletions and takeovers, and without ~lapsed.
THEOREM GenuineReplay == Spec => []ReplayMatchesRequest
<1>1. Init => TypeOK /\ Identity
  <2>1. Init => Identity
    BY DEF Init, Identity, RowIdentity, CallIdentity, NoRow, Idle, Holding, Readers
  <2>. QED BY <2>1, InitType
<1>2. TypeOK /\ Identity /\ [Next]_vars => (TypeOK /\ Identity)'
  BY NextType, NextIdentity
<1>3. Identity => ReplayMatchesRequest
  BY DEF Identity, CallIdentity, Readers, ReplayMatchesRequest
<1>. QED BY <1>1, <1>2, <1>3, PTL DEF Spec

-----------------------------------------------------------------------------
(* The promise of a key *)

\* A request that is about to store a result has had its effect.
Effected == \A q \in Requests : req[q].at = "markSucceeded" => done

\* Every step keeps Effected: only ExecuteOk leads there, and `done` stays.
LEMMA NextEffected == TypeOK /\ Effected /\ [Next]_vars => Effected'
<1>. SUFFICES ASSUME TypeOK, Effected, [Next]_vars PROVE Effected'
  OBVIOUS
<1>1. CASE Tick
  BY <1>1 DEF Tick, Effected
<1>2. CASE DeleteExpired
  BY <1>2 DEF DeleteExpired, Effected
<1>3. ASSUME NEW q \in Requests, Step(q) PROVE Effected'
  <2>. req[q] \in Calls
    BY DEF TypeOK
  <2>1. CASE ExecuteOk(q)
    BY <2>1 DEF ExecuteOk, Effected
  <2>2. CASE ~ExecuteOk(q)
    <3>1. done' = done
      BY <1>3, <2>2 DEF Step, Begin, CreateProcessing, GetExisting, ReclaimExpired, Reread,
            Decide, ReclaimFailed, ExecuteError, MarkSucceeded, MarkFailedRetryable, Renew,
            Abandon
    <3>2. ASSUME NEW p \in Requests, req'[p].at = "markSucceeded"
          PROVE  req[p].at = "markSucceeded"
      <4>1. CASE Begin(q)
        BY <3>2, <4>1 DEF Begin, Idle, TypeOK
      <4>2. CASE CreateProcessing(q)
        BY <3>2, <4>2 DEF CreateProcessing, Goto, TypeOK, Calls
      <4>3. CASE GetExisting(q) \/ Reread(q) \/ Decide(q)
        BY <3>2, <4>3 DEF GetExisting, Reread, Decide, Goto, Answer, Idle, TypeOK, Calls
      <4>4. CASE ReclaimExpired(q) \/ ReclaimFailed(q)
        BY <3>2, <4>4 DEF ReclaimExpired, ReclaimFailed, Reclaim, Goto, Answer, Idle, TypeOK,
              Calls
      <4>5. CASE ExecuteError(q)
        BY <3>2, <4>5 DEF ExecuteError, TypeOK, Calls
      <4>6. CASE MarkSucceeded(q) \/ MarkFailedRetryable(q) \/ Abandon(q)
        BY <3>2, <4>6 DEF MarkSucceeded, MarkFailedRetryable, Abandon, Answer, Idle, TypeOK
      <4>7. CASE Renew(q)
        BY <3>2, <4>7 DEF Renew, TypeOK, Calls
      <4>. QED BY <1>3, <2>2, <4>1, <4>2, <4>3, <4>4, <4>5, <4>6, <4>7 DEF Step
    <3>. QED BY <3>1, <3>2 DEF Effected
  <2>. QED BY <2>1, <2>2
<1>4. CASE UNCHANGED vars
  BY <1>4 DEF vars, Effected
<1>. QED BY <1>1, <1>2, <1>3, <1>4 DEF Next

\* A record that is not there is empty, and a call that has begun asks something.
Asked ==
    /\ row.status = "none" => row = NoRow
    /\ \A q \in Requests : req[q].at # "idle" => req[q].fp \in Fingerprints

\* Every step keeps Asked: records only vanish by deletion, and a call's
\* fingerprint is fixed when it begins.
LEMMA NextAsked == TypeOK /\ Asked /\ [Next]_vars => Asked'
<1>. SUFFICES ASSUME TypeOK, Asked, [Next]_vars PROVE Asked'
  OBVIOUS
<1>1. CASE Tick
  BY <1>1 DEF Tick, Asked
<1>2. CASE DeleteExpired
  BY <1>2 DEF DeleteExpired, Asked
<1>3. ASSUME NEW q \in Requests, Step(q) PROVE Asked'
  <2>. req[q] \in Calls /\ row \in Rows
    BY DEF TypeOK
  <2>1. row'.status = "none" => row' = NoRow
    <3>1. CASE row' = row
      BY <3>1 DEF Asked
    <3>2. CASE CreateProcessing(q)
      BY <3>2 DEF CreateProcessing, Asked
    <3>3. CASE ReclaimExpired(q) \/ ReclaimFailed(q)
      BY <3>3 DEF ReclaimExpired, ReclaimFailed, Reclaim, Rows, Asked
    <3>4. CASE MarkSucceeded(q) \/ MarkFailedRetryable(q)
      BY <3>4 DEF MarkSucceeded, MarkFailedRetryable, Rows, Asked
    <3>5. CASE Renew(q)
      BY <3>5 DEF Renew, Renewable, Rows, Asked
    <3>. QED BY <1>3, <3>1, <3>2, <3>3, <3>4, <3>5
             DEF Step, Begin, GetExisting, Reread, Decide, ExecuteOk, ExecuteError, Abandon
  <2>2. ASSUME NEW p \in Requests, req'[p].at # "idle"
        PROVE  req'[p].fp \in Fingerprints
    <3>1. CASE Begin(q)
      BY <2>2, <3>1 DEF Begin, Idle, TypeOK, Asked
    <3>2. CASE CreateProcessing(q)
      BY <2>2, <3>2 DEF CreateProcessing, Goto, TypeOK, Calls, Asked
    <3>3. CASE GetExisting(q) \/ Reread(q) \/ Decide(q)
      BY <2>2, <3>3 DEF GetExisting, Reread, Decide, Goto, Answer, Idle, TypeOK, Calls, Asked
    <3>4. CASE ReclaimExpired(q) \/ ReclaimFailed(q)
      BY <2>2, <3>4 DEF ReclaimExpired, ReclaimFailed, Reclaim, Goto, Answer, Idle, TypeOK,
            Calls, Asked
    <3>5. CASE ExecuteOk(q) \/ ExecuteError(q)
      BY <2>2, <3>5 DEF ExecuteOk, ExecuteError, TypeOK, Calls, Asked
    <3>6. CASE MarkSucceeded(q) \/ MarkFailedRetryable(q) \/ Abandon(q)
      BY <2>2, <3>6 DEF MarkSucceeded, MarkFailedRetryable, Abandon, Answer, Idle, TypeOK,
            Asked
    <3>7. CASE Renew(q)
      BY <2>2, <3>7 DEF Renew, TypeOK, Calls, Asked
    <3>. QED BY <1>3, <3>1, <3>2, <3>3, <3>4, <3>5, <3>6, <3>7 DEF Step
  <2>. QED BY <2>1, <2>2 DEF Asked
<1>4. CASE UNCHANGED vars
  BY <1>4 DEF vars, Asked
<1>. QED BY <1>1, <1>2, <1>3, <1>4 DEF Next

\* What the phases are while the key is not over.
LEMMA PhaseValues ==
    ASSUME row \in Rows, ~lapsed
    PROVE  /\ row.status = "none" <=> Phase = "free"
           /\ row.status = "processing" /\ ~done <=> Phase = "claimed"
           /\ row.status = "processing" /\ done <=> Phase = "effected"
           /\ row.status = "failed_retryable" <=> Phase = "failed"
           /\ row.status = "succeeded" <=> Phase = "stored"
BY DEF Phase, Rows, Statuses

\* The steps before the first expiry, in terms of who holds the key.
KeyMoves ==
    \/ UNCHANGED <<row.status, row.fp, row.body, done, Holders>>
    \/ \E q \in Requests :
        \/ /\ Holders = {} /\ Holders' = {q} /\ row'.status = "processing"
           /\ ~done' /\ row'.body = row.body
           /\ \/ row.status = "none" /\ row'.fp \in Fingerprints
              \/ row.status = "failed_retryable" /\ row'.fp = row.fp
        \/ /\ Holders = {q} /\ Holders' = {q} /\ row.status = "processing"
           /\ ~done /\ done' /\ row' = row
        \/ /\ Holders = {q} /\ Holders' = {} /\ row.status = "processing"
           /\ row'.fp = row.fp /\ done' = done
           /\ \/ row'.status = "succeeded" /\ done /\ row'.body = row.fp
              \/ row'.status = "failed_retryable" /\ ~done /\ row'.body = row.body
              \/ row'.status = "processing" /\ row'.body = row.body

\* Such steps are steps of the promise.
LEMMA MovesKeepPromise ==
    ASSUME row \in Rows, row' \in Rows, ~lapsed, ~lapsed', KeyMoves
    PROVE  [Key!Next]_(Key!keyVars)
<1>. USE PhaseValues
<1>1. CASE UNCHANGED <<row.status, row.fp, row.body, done, Holders>>
  <2>1. row'.status = row.status /\ row'.fp = row.fp /\ row'.body = row.body
    BY <1>1
  <2>2. Phase' = Phase
    BY <1>1, <2>1 DEF Phase
  <2>. QED BY <1>1, <2>1, <2>2 DEF Key!keyVars
<1>2. ASSUME NEW q \in Requests, Holders = {}, Holders' = {q},
             row'.status = "processing", ~done', row'.body = row.body,
             \/ row.status = "none" /\ row'.fp \in Fingerprints
             \/ row.status = "failed_retryable" /\ row'.fp = row.fp
      PROVE  Key!Claim(q)
  BY <1>2 DEF Key!Claim, Phase
<1>3. ASSUME NEW q \in Requests, Holders = {q}, Holders' = {q},
             row.status = "processing", ~done, done', row' = row
      PROVE  Key!Take(q)
  BY <1>3 DEF Key!Take, Phase
<1>4. ASSUME NEW q \in Requests, Holders = {q}, Holders' = {}, row.status = "processing",
             row'.fp = row.fp, done' = done,
             row'.status = "succeeded", done, row'.body = row.fp
      PROVE  Key!Store(q)
  BY <1>4 DEF Key!Store, Phase
<1>5. ASSUME NEW q \in Requests, Holders = {q}, Holders' = {}, row.status = "processing",
             row'.fp = row.fp, done' = done,
             row'.status = "failed_retryable", ~done, row'.body = row.body
      PROVE  Key!Fail(q)
  BY <1>5 DEF Key!Fail, Phase
<1>6. ASSUME NEW q \in Requests, Holders = {q}, Holders' = {}, row.status = "processing",
             row'.fp = row.fp, done' = done,
             row'.status = "processing", row'.body = row.body
      PROVE  Key!Vanish(q)
  BY <1>6 DEF Key!Vanish, Phase
<1>. QED BY <1>1, <1>2, <1>3, <1>4, <1>5, <1>6 DEF KeyMoves, Key!Next

\* The holder of a key that has not expired is the only one.
LEMMA SoleHolder ==
    ASSUME Owned, ~lapsed, NEW q \in Requests, req[q].at \in Holding
    PROVE  Holders = {q} /\ row.status = "processing" /\ row.id = req[q].id
BY DEF Owned, Holders

\* A step of one request that is a holder before and after it, or neither.
LEMMA HoldersStay ==
    ASSUME NEW q \in Requests, \A p \in Requests \ {q} : req'[p] = req[p],
           req[q].at \in Holding <=> req'[q].at \in Holding
    PROVE  Holders' = Holders
BY DEF Holders

\* Ending a call that is not a holder's, or the holder's.
LEMMA HolderLeaves ==
    ASSUME TypeOK, Owned, ~lapsed, NEW q \in Requests, Answer(q)
    PROVE  /\ req[q].at \notin Holding => Holders' = Holders
           /\ req[q].at \in Holding => Holders' = {}
<1>1. req'[q].at = "idle" /\ \A p \in Requests \ {q} : req'[p] = req[p]
  BY DEF Answer, Idle, TypeOK
<1>2. CASE req[q].at \notin Holding
  BY <1>1, <1>2, HoldersStay DEF Holding
<1>3. CASE req[q].at \in Holding
  BY <1>1, <1>3, SoleHolder DEF Holders, Holding
<1>. QED BY <1>2, <1>3

\* A claim of a key nobody holds.
LEMMA HolderEnters ==
    ASSUME Owned, ~lapsed, row.status # "processing", NEW q \in Requests,
           req'[q].at = "execute", \A p \in Requests \ {q} : req'[p] = req[p]
    PROVE  Holders = {} /\ Holders' = {q}
BY DEF Owned, Holders, Holding

\* A take-over of a failed record.
LEMMA ReclaimMoves ==
    ASSUME TypeOK, Owned, ~lapsed, NEW q \in Requests,
           Reclaimable(q, "failed_retryable"), Reclaim(q), done' = done
    PROVE  KeyMoves
<1>1. row.status = "failed_retryable" /\ row \in Rows
  BY DEF Reclaimable, TypeOK
<1>2. row'.status = "processing" /\ row'.fp = row.fp /\ row'.body = row.body
  BY <1>1 DEF Reclaim, Rows
<1>3. req'[q].at = "execute" /\ \A p \in Requests \ {q} : req'[p] = req[p]
  BY DEF Reclaim, TypeOK, Calls
<1>4. ~done'
  BY <1>1 DEF Owned
<1>. QED BY <1>1, <1>2, <1>3, <1>4, HolderEnters DEF KeyMoves

\* A step that changes neither the row nor who holds it.
LEMMA QuietMoves ==
    ASSUME row' = row, done' = done, Holders' = Holders
    PROVE  KeyMoves
BY DEF KeyMoves

\* Before the first expiry every step is one of these.
LEMMA StepMoves ==
    ASSUME TypeOK, Owned, Identity, Effected, Asked, ~lapsed,
           NEW q \in Requests, Step(q)
    PROVE  KeyMoves
<1>. req[q] \in Calls /\ row \in Rows
  BY DEF TypeOK
<1>1. CASE Begin(q)
  <2>1. req'[q].at = "create" /\ \A p \in Requests \ {q} : req'[p] = req[p]
    BY <1>1 DEF Begin, TypeOK, Idle
  <2>2. Holders' = Holders
    BY <1>1, <2>1, HoldersStay DEF Begin, Holding
  <2>. QED BY <1>1, <2>2, QuietMoves DEF Begin
<1>2. CASE CreateProcessing(q) /\ row.status = "none"
  <2>1. row'.status = "processing" /\ row'.fp = req[q].fp /\ row'.body = "none"
    BY <1>2 DEF CreateProcessing
  <2>2. req'[q].at = "execute" /\ \A p \in Requests \ {q} : req'[p] = req[p]
    BY <1>2 DEF CreateProcessing, TypeOK, Calls
  <2>3. done' = done /\ ~done
    BY <1>2 DEF CreateProcessing, Owned
  <2>4. row.body = "none" /\ req[q].fp \in Fingerprints
    BY <1>2 DEF CreateProcessing, Asked, NoRow
  <2>. QED BY <1>2, <2>1, <2>2, <2>3, <2>4, HolderEnters DEF KeyMoves
<1>3. CASE CreateProcessing(q) /\ row.status # "none"
  <2>1. req'[q].at = "get" /\ \A p \in Requests \ {q} : req'[p] = req[p]
    BY <1>3 DEF CreateProcessing, Goto, TypeOK, Calls
  <2>2. Holders' = Holders
    BY <1>3, <2>1, HoldersStay DEF CreateProcessing, Holding
  <2>. QED BY <1>3, <2>2, QuietMoves DEF CreateProcessing
<1>4. CASE GetExisting(q) \/ Decide(q)
  <2>1. req[q].at \notin Holding /\ row' = row /\ done' = done
    BY <1>4 DEF GetExisting, Decide, Holding
  <2>2. req'[q].at \notin Holding /\ \A p \in Requests \ {q} : req'[p] = req[p]
    BY <1>4 DEF GetExisting, Decide, Goto, Answer, Idle, TypeOK, Calls, Holding
  <2>. QED BY <2>1, <2>2, HoldersStay, QuietMoves
<1>5. CASE ReclaimExpired(q) \/ Reread(q)
  BY <1>5 DEF ReclaimExpired, Reread, Owned
<1>6. CASE ReclaimFailed(q)
  <2>1. CASE Reclaimable(q, "failed_retryable")
    BY <1>6, <2>1, ReclaimMoves DEF ReclaimFailed
  <2>2. CASE ~Reclaimable(q, "failed_retryable")
    BY <1>6, <2>2, HolderLeaves, QuietMoves DEF ReclaimFailed, Holding
  <2>. QED BY <2>1, <2>2
<1>7. CASE ExecuteOk(q)
  <2>1. req[q].at \in Holding /\ req'[q].at \in Holding
        /\ \A p \in Requests \ {q} : req'[p] = req[p]
    BY <1>7 DEF ExecuteOk, Holding, TypeOK, Calls
  <2>2. ~done
    BY <1>7, <2>1 DEF ExecuteOk, Owned
  <2>. QED BY <1>7, <2>1, <2>2, SoleHolder, HoldersStay DEF ExecuteOk, KeyMoves
<1>8. CASE ExecuteError(q)
  <2>1. req[q].at \in Holding /\ req'[q].at \in Holding
        /\ \A p \in Requests \ {q} : req'[p] = req[p]
    BY <1>8 DEF ExecuteError, Holding, TypeOK, Calls
  <2>. QED BY <1>8, <2>1, HoldersStay, QuietMoves DEF ExecuteError
<1>9. CASE MarkSucceeded(q)
  <2>1. req[q].at \in Holding /\ done /\ req[q].body = req[q].fp
    BY <1>9 DEF MarkSucceeded, Holding, Effected, Identity, CallIdentity
  <2>2. row.id = req[q].id /\ row.fp = req[q].fp
    BY <2>1, SoleHolder DEF Identity, CallIdentity
  <2>3. row'.status = "succeeded" /\ row'.body = row.fp /\ row'.fp = row.fp
    BY <1>9, <2>1, <2>2 DEF MarkSucceeded, Rows
  <2>. QED BY <1>9, <2>1, <2>3, SoleHolder, HolderLeaves DEF MarkSucceeded, KeyMoves
<1>10. CASE MarkFailedRetryable(q)
  <2>1. req[q].at \in Holding /\ ~done
    BY <1>10 DEF MarkFailedRetryable, Holding, Owned
  <2>2. row.id = req[q].id
    BY <2>1, SoleHolder
  <2>3. row'.status = "failed_retryable" /\ row'.body = row.body /\ row'.fp = row.fp
    BY <1>10, <2>2 DEF MarkFailedRetryable, Rows
  <2>. QED BY <1>10, <2>1, <2>3, SoleHolder, HolderLeaves DEF MarkFailedRetryable, KeyMoves
<1>11. CASE Renew(q)
  <2>1. req'[q].at = req[q].at /\ \A p \in Requests \ {q} : req'[p] = req[p]
    BY <1>11 DEF Renew, TypeOK, Calls
  <2>2. row'.status = row.status /\ row'.fp = row.fp /\ row'.body = row.body
    BY <1>11 DEF Renew, Rows
  <2>3. Holders' = Holders
    BY <2>1, HoldersStay
  <2>. QED BY <1>11, <2>2, <2>3 DEF Renew, KeyMoves
<1>12. CASE Abandon(q)
  <2>1. CASE req[q].at \in Holding
    BY <1>12, <2>1, SoleHolder, HolderLeaves DEF Abandon, KeyMoves
  <2>2. CASE req[q].at \notin Holding
    BY <1>12, <2>2, HolderLeaves, QuietMoves DEF Abandon
  <2>. QED BY <2>1, <2>2
<1>. QED BY <1>1, <1>2, <1>3, <1>4, <1>5, <1>6, <1>7, <1>8, <1>9, <1>10, <1>11, <1>12
         DEF Step

\* The inductive invariant of the refinement.
KeyInv == TypeOK /\ Past /\ Owned /\ Identity /\ Effected /\ Asked

\* Every step is a step of the promise or none: the expiry ends it, and before
\* the expiry nothing else than the moves above happens.
LEMMA KeyStep ==
    ASSUME KeyInv, [Next]_vars PROVE [Key!Next]_(Key!keyVars)
<1>. USE DEF KeyInv
<1>1. row \in Rows /\ row' \in Rows
  BY NextType DEF TypeOK
<1>2. lapsed => lapsed'
  BY DEF Next, Tick, DeleteExpired, Step, Begin, CreateProcessing, GetExisting,
      ReclaimExpired, Reread, Decide, ReclaimFailed, ExecuteOk, ExecuteError, MarkSucceeded,
      MarkFailedRetryable, Renew, Abandon, Lapse, vars
<1>3. CASE lapsed
  BY <1>2, <1>3 DEF Key!keyVars, Phase
<1>4. CASE ~lapsed /\ lapsed'
  BY <1>4 DEF Key!Next, Key!Expire, Phase
<1>5. CASE ~lapsed /\ ~lapsed'
  <2>1. CASE Tick
    <3>1. Holders' = Holders
      BY <2>1 DEF Tick, Holders
    <3>. QED BY <1>1, <1>5, <2>1, <3>1, QuietMoves, MovesKeepPromise DEF Tick
  <2>2. CASE DeleteExpired
    BY <1>5, <2>2 DEF DeleteExpired, Owned
  <2>3. ASSUME NEW q \in Requests, Step(q) PROVE [Key!Next]_(Key!keyVars)
    BY <1>1, <1>5, <2>3, StepMoves, MovesKeepPromise
  <2>4. CASE UNCHANGED vars
    <3>1. Holders' = Holders
      BY <2>4 DEF vars, Holders
    <3>. QED BY <1>1, <1>5, <2>4, <3>1, QuietMoves, MovesKeepPromise DEF vars
  <2>. QED BY <2>1, <2>2, <2>3, <2>4 DEF Next
<1>. QED BY <1>3, <1>4, <1>5

\* Execute implements the promise of a key, for any number of requests, any TTL,
\* lock and backoff, and whatever statement fails or is never sent.
THEOREM ImplementsKeyPromise == Spec => KeepsKeyPromise
<1>1. Init => KeyInv
  <2>1. Init => Identity
    BY DEF Init, Identity, RowIdentity, CallIdentity, NoRow, Idle, Holding, Readers
  <2>2. Init => Effected /\ Asked
    BY DEF Init, Effected, Asked, Idle
  <2>. QED BY <2>1, <2>2, InitOwned DEF KeyInv
<1>2. KeyInv /\ [Next]_vars => KeyInv'
  BY NextType, NextPast, NextOwned, NextIdentity, NextEffected, NextAsked DEF KeyInv
<1>3. Init => Key!Init
  BY DEF Init, Key!Init, Phase, NoRow, Holders, Holding, Idle
<1>4. KeyInv /\ [Next]_vars => [Key!Next]_(Key!keyVars)
  BY KeyStep
<1>. QED BY <1>1, <1>2, <1>3, <1>4, PTL DEF Spec, KeepsKeyPromise, Key!Spec
=============================================================================
