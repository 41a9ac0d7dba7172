------------------------ MODULE BatchImageWorkerProofs ------------------------
(***************************************************************************)
(* Proofs about BatchImage, continued: every step of a worker keeps the    *)
(* invariant of the jobs and its own, and what a worker knows survives the *)
(* steps of the others.                                                    *)
(***************************************************************************)
EXTENDS BatchImageJobProofs

USE NoWorkerAssumption, CopiesAssumption, HoldAssumption, FundsAssumption,
    BoundsAssumption

-----------------------------------------------------------------------------
(* The steps of the workers *)

\* The other workers stay where they are and keep the locks they have.
Elsewhere(w) ==
    /\ \A v \in Workers \ {w} : wk'[v] = wk[v]
    /\ \A k \in Jobs : lock'[k] = lock[k] \/ lock[k] \in {NoWorker, w}

\* Only the holder of a job's lock does what is not quiet.
WorkerFine(w) ==
    /\ \A k \in Jobs : /\ JobInv(k)' /\ Stable(k) /\ Untouched(k)'
                       /\ Quiet(k) \/ (HoldsLock(w) /\ Job(w) = k)
    /\ WorkerInv(w)' /\ Elsewhere(w)

WorkTypes == wk \in [Workers -> [pc : WorkerPcs, job : Jobs, cost : 0..HoldAmount,
                                 seen : ProviderStates \cup {"check", "billing"}]]

LEMMA WGoEffect ==
    ASSUME WorkTypes, NEW w \in Workers
    PROVE  /\ \A p : WGo(w, p) =>
                 /\ \A v \in Workers \ {w} : wk'[v] = wk[v]
                 /\ wk'[w].job = wk[w].job /\ wk'[w].pc = p
           /\ CaptureFailed(w) =>
                 /\ \A v \in Workers \ {w} : wk'[v] = wk[v]
                 /\ wk'[w].job = wk[w].job /\ wk'[w].pc = "sfail"
<1>1. ASSUME NEW p, WGo(w, p)
      PROVE  /\ \A v \in Workers \ {w} : wk'[v] = wk[v]
             /\ wk'[w].job = wk[w].job /\ wk'[w].pc = p
  BY <1>1 DEF WorkTypes, WGo, Idle
<1>2. ASSUME CaptureFailed(w)
      PROVE  /\ \A v \in Workers \ {w} : wk'[v] = wk[v]
             /\ wk'[w].job = wk[w].job /\ wk'[w].pc = "sfail"
  BY <1>2 DEF WorkTypes, CaptureFailed, Idle
<1>. QED BY <1>1, <1>2

LEMMA PollEffect ==
    ASSUME WorkTypes, NEW w \in Workers, Poll(w)
    PROVE  /\ \A v \in Workers \ {w} : wk'[v] = wk[v]
           /\ wk'[w].job = Job(w) /\ wk'[w].pc = "apply" /\ wk'[w].seen = prov[Job(w)]
<1>1. /\ wk[w] \in [pc : WorkerPcs, job : Jobs, cost : 0..HoldAmount,
                    seen : ProviderStates \cup {"check", "billing"}]
      /\ DOMAIN wk = Workers
  BY DEF WorkTypes
<1>. DEFINE s == prov[Job(w)]
<1>2. wk' = [wk EXCEPT ![w].pc = "apply", ![w].seen = s]
  BY DEF Poll
<1>. HIDE DEF s
<1>3. wk'[w] = [wk[w] EXCEPT !.pc = "apply", !.seen = s]
  BY <1>1, <1>2
<1>4. wk'[w].job = wk[w].job /\ wk'[w].pc = "apply" /\ wk'[w].seen = s
  BY <1>1, <1>3
<1>5. \A v \in Workers \ {w} : wk'[v] = wk[v]
  BY <1>1, <1>2
<1>. QED BY <1>4, <1>5 DEF s, Job

LEMMA SettleReadEffect ==
    ASSUME WorkTypes, NEW w \in Workers, SettleRead(w)
    PROVE  LET r == job[Job(w)] IN
           /\ \A v \in Workers \ {w} : wk'[v] = wk[v]
           /\ wk'[w].job = Job(w) /\ wk'[w].cost = r.succ
           /\ wk'[w].pc = IF r.status = "completed" THEN "ack"
                          ELSE IF r.status # "settling" THEN "requeue"
                          ELSE IF r.retry >= MaxRetries /\ r.serr THEN "exrel"
                          ELSE IF ~r.valid THEN "sfail" ELSE "capture"
<1>1. /\ wk[w] \in [pc : WorkerPcs, job : Jobs, cost : 0..HoldAmount,
                    seen : ProviderStates \cup {"check", "billing"}]
      /\ DOMAIN wk = Workers
  BY DEF WorkTypes
<1>. DEFINE r == job[Job(w)]
            c == r.succ
            p == IF r.status = "completed" THEN "ack"
                 ELSE IF r.status # "settling" THEN "requeue"
                 ELSE IF r.retry >= MaxRetries /\ r.serr THEN "exrel"
                 ELSE IF ~r.valid THEN "sfail" ELSE "capture"
<1>2. wk' = [wk EXCEPT ![w].cost = c, ![w].seen = "check", ![w].pc = p]
  BY DEF SettleRead
<1>. HIDE DEF c, p
<1>3. wk'[w] = [wk[w] EXCEPT !.cost = c, !.seen = "check", !.pc = p]
  BY <1>1, <1>2
<1>4. wk'[w].job = wk[w].job /\ wk'[w].pc = p /\ wk'[w].cost = c
  BY <1>1, <1>3
<1>5. \A v \in Workers \ {w} : wk'[v] = wk[v]
  BY <1>1, <1>2
<1>. QED BY <1>4, <1>5 DEF c, p, Job

\* At these steps a worker knows nothing.
LEMMA Plain ==
    ASSUME NEW w \in Workers,
           wk'[w].pc \in {"idle", "lock", "conflict", "route", "settle", "requeue",
                          "unlock"}
    PROVE  Positions(w)' /\ Charging(w)' /\ Answered(w)'
BY DEF Positions, Charging, Answered, At

\* A job in the queue stays there until it is finished.
LEMMA TakenKeeps ==
    ASSUME NEW w \in Workers, wk'[w].job = Job(w), TakenIsQueued(w), Stable(Job(w)),
           ~At(w, "idle") \/ wk'[w].pc = "idle"
    PROVE  TakenIsQueued(w)'
BY DEF TakenIsQueued, Stable, LockLost, Job, Status, At, Terminal

\* A worker keeps what it knows of a job while somebody else works, unless it
\* lost its lock to him.
LEMMA Bystander ==
    ASSUME NEW v \in Workers, wk'[v] = wk[v], WorkerInv(v), Stable(Job(v)),
           HoldsLock(v) => Quiet(Job(v)) \/ LockLost(Job(v)),
           \/ lock'[Job(v)] = lock[Job(v)] \/ lock[Job(v)] # v
           \/ LockLost(Job(v))' \/ ~HoldsLock(v)
    PROVE  WorkerInv(v)'
<1>1. LockHeld(v)'
  BY DEF WorkerInv, LockHeld, HoldsLock, InProcess, Stable, LockLost, Job
<1>2. TakenIsQueued(v)'
  BY TakenKeeps DEF WorkerInv, At, Job
<1>3. CASE ~HoldsLock(v)
  <2>1. wk'[v].pc \in {"idle", "lock", "conflict"}
    BY <1>3 DEF HoldsLock, InProcess
  <2>. QED BY <1>1, <1>2, <2>1, Plain DEF WorkerInv
<1>4. CASE Quiet(Job(v))
  <2>1. Charging(v)' /\ Answered(v)'
    BY DEF WorkerInv, Charging, Answered, Stable, At, Job, Status, PostIndex,
        Terminal
  <2>2. Positions(v)'
    BY <1>4 DEF WorkerInv, Positions, Stable, Quiet, At, Job, Status, PostIndex,
        Terminal, LockLost, Excused, Noted, GivenUp
  <2>. QED BY <1>1, <1>2, <2>1, <2>2 DEF WorkerInv
<1>5. CASE LockLost(Job(v))
  <2>1. Charging(v)' /\ Answered(v)'
    BY DEF WorkerInv, Charging, Answered, Stable, At, Job, Status, PostIndex,
        Terminal
  <2>2. Positions(v)'
    BY <1>5 DEF WorkerInv, Positions, Stable, At, Job, Status, PostIndex,
        Terminal, LockLost, Excused, Noted
  <2>. QED BY <1>1, <1>2, <2>1, <2>2 DEF WorkerInv
<1>. QED BY <1>3, <1>4, <1>5

\* A worker's step is fine when it is for its own job.
LEMMA WorkerBy ==
    ASSUME IInv, NEW w \in Workers, NEW j \in Jobs, j = wk[w].job, sub[j] # "none",
           Others(j), sub'[j] = sub[j], wk'[w].job = j, Elsewhere(w),
           JobInv(j)', Stable(j), HoldsLock(w) \/ Quiet(j),
           ~At(w, "idle"),
           \/ HoldsLock(w) /\ lock'[j] = lock[j]
           \/ lock'[j] = w \/ wk'[w].pc \in {"idle", "conflict"},
           Positions(w)', Charging(w)', Answered(w)'
    PROVE  WorkerFine(w)
<1>1. ASSUME NEW k \in Jobs, k # j
      PROVE  JobInv(k)' /\ Stable(k) /\ Quiet(k) /\ Untouched(k)'
  <2>1. JobInv(k)' /\ Stable(k) /\ Quiet(k)
    BY <1>1, SameKeeps DEF IInv, Others
  <2>2. Untouched(k) /\ SameBut(k, {})
    BY <1>1 DEF IInv, Others
  <2>3. Untouched(k)'
    BY <1>1, <2>2 DEF Untouched, SameBut, HoldKept, QueueKept, Job, At, Elsewhere
  <2>. QED BY <2>1, <2>3
<1>2. Untouched(j)'
  BY DEF Untouched
<1>3. WorkerInv(w) /\ Job(w) = j
  BY DEF IInv, Job
<1>4. TakenIsQueued(w)'
  BY <1>3, TakenKeeps DEF WorkerInv
<1>5. LockHeld(w)'
  BY <1>3 DEF WorkerInv, LockHeld, HoldsLock, InProcess, LockLost, Job, Stable
<1>. QED BY <1>1, <1>2, <1>3, <1>4, <1>5 DEF WorkerFine, WorkerInv

LEMMA WorkStep ==
    ASSUME IInv, NEW w \in Workers, NEW j \in Jobs, j = Job(w),
           Worker(w) \/ WorkerDies(w) \/ ProcessErr(w),
           ~WorkerHeartbeat(w), \A k \in Jobs : ~TakeJob(w, k)
    PROVE  WorkerFine(w)
<1>0. JobTypes /\ WorkTypes /\ j = wk[w].job /\ wk[w].cost \in 0..HoldAmount
  BY TypeParts DEF IInv, TypeOK, WorkTypes, Job
<1>1. JobInv(j) /\ WorkerInv(w) /\ j = wk[w].job /\ w # NoWorker
  BY DEF IInv, Job
<1>2. wk[w].pc # "idle" => sub[j] # "none"
  BY DEF IInv, Untouched, At
<1>3. /\ Positions(w) /\ Charging(w) /\ Answered(w) /\ j = wk[w].job
      /\ Recorded(j) /\ Charged(j) /\ Provided(j) /\ Settled(j)
  BY <1>1 DEF WorkerInv, JobInv
<1>4. WorkerFine(w)
  <2>. USE DEF JobTypes, envVars, queueVars, Queues, Reads, Writes, Bills,
      WorkerFrame, WAnswer, NoFault, At, Job, Status, Others, Elsewhere, SameBut,
      RowBut, PostIndex, Terminal, GivenUp
  <2>1. CASE LockJob(w)
    <3>1. CASE TryAcquireJobLock(j, w)
      <4>1. /\ Others(j) /\ SameBut(j, {}) /\ Elsewhere(w)
           /\ wk[w].pc = "lock" /\ wk'[w].pc \in {"route", "conflict"}
           /\ wk'[w].job = j
           /\ lock'[j] = w
        BY <1>0, <2>1, <3>1, KeptEffect, WGoEffect, LockEffect DEF LockJob,
            TryAcquireJobLock, QueueTypeOK
      <4>2. JobInv(j)' /\ Stable(j) /\ (HoldsLock(w) \/ Quiet(j))
        BY <1>1, <4>1, SameKeeps
      <4>3. Positions(w)' /\ Charging(w)' /\ Answered(w)'
        BY <4>1, Plain
      <4>. QED BY <1>0, <1>2, <4>1, <4>2, <4>3, WorkerBy DEF HoldsLock, InProcess
    <3>2. CASE UNCHANGED queueVars /\ WGo(w, "conflict")
      <4>1. /\ Others(j) /\ SameBut(j, {}) /\ Elsewhere(w)
           /\ wk[w].pc = "lock" /\ wk'[w].pc = "conflict"
           /\ wk'[w].job = j
           /\ UNCHANGED lock
        BY <1>0, <2>1, <3>2, KeptEffect, WGoEffect DEF LockJob
      <4>2. JobInv(j)' /\ Stable(j) /\ (HoldsLock(w) \/ Quiet(j))
        BY <1>1, <4>1, SameKeeps
      <4>3. Positions(w)' /\ Charging(w)' /\ Answered(w)'
        BY <4>1, Plain
      <4>. QED BY <1>0, <1>2, <4>1, <4>2, <4>3, WorkerBy DEF HoldsLock, InProcess
    <3>. QED BY <1>0, <2>1, <3>1, <3>2 DEF LockJob, WAnswer
  <2>2. CASE LockConflict(w)
    <3>1. CASE RequeueAfter(j)
      <4>1. /\ Others(j) /\ SameBut(j, {"queue"}) /\ Elsewhere(w)
           /\ wk[w].pc = "conflict" /\ wk'[w].pc = "idle"
           /\ wk'[w].job = j
           /\ InQueue(j)' /\ (j \in queued' <=> j \in queued) /\ UNCHANGED lock
        BY <1>0, <2>2, <3>1, KeptEffect, WGoEffect, RequeueEffect DEF LockConflict
      <4>2. JobInv(j)' /\ Stable(j) /\ (HoldsLock(w) \/ Quiet(j))
        BY <1>1, <4>1 DEF HoldsLock, InProcess, WorkerInv, Positions, Charging,
            Answered, TakenIsQueued, JobInv, Recorded, Held, Charged, Provided,
            Released, Settled, Queued, FailedOwed, Owed, Excused, Noted, LockLost,
            Stable, Quiet, HoldKept, QueueKept, BeforeProvider, BeforeRecord, Early,
            Live, Unsubmitted, ProviderLive
      <4>3. Positions(w)' /\ Charging(w)' /\ Answered(w)'
        BY <4>1, Plain
      <4>. QED BY <1>0, <1>2, <4>1, <4>2, <4>3, WorkerBy DEF HoldsLock, InProcess
    <3>2. CASE UNCHANGED queueVars
      <4>1. /\ Others(j) /\ SameBut(j, {}) /\ Elsewhere(w)
           /\ wk[w].pc = "conflict" /\ wk'[w].pc = "idle"
           /\ wk'[w].job = j
           /\ UNCHANGED lock
        BY <1>0, <2>2, <3>2, KeptEffect, WGoEffect DEF LockConflict
      <4>2. JobInv(j)' /\ Stable(j) /\ (HoldsLock(w) \/ Quiet(j))
        BY <1>1, <4>1, SameKeeps
      <4>3. Positions(w)' /\ Charging(w)' /\ Answered(w)'
        BY <4>1, Plain
      <4>. QED BY <1>0, <1>2, <4>1, <4>2, <4>3, WorkerBy DEF HoldsLock, InProcess
    <3>. QED BY <1>0, <2>2, <3>1, <3>2 DEF LockConflict, WAnswer
  <2>3. CASE RequeueJob(w)
    <3>1. CASE RequeueAfter(j)
      <4>1. /\ Others(j) /\ SameBut(j, {"queue"}) /\ Elsewhere(w)
           /\ wk[w].pc = "requeue" /\ wk'[w].pc = "unlock"
           /\ wk'[w].job = j
           /\ InQueue(j)' /\ (j \in queued' <=> j \in queued) /\ UNCHANGED lock
        BY <1>0, <2>3, <3>1, KeptEffect, WGoEffect, RequeueEffect DEF RequeueJob
      <4>2. JobInv(j)' /\ Stable(j) /\ (HoldsLock(w) \/ Quiet(j))
        BY <1>1, <4>1 DEF HoldsLock, InProcess, WorkerInv, Positions, Charging,
            Answered, TakenIsQueued, JobInv, Recorded, Held, Charged, Provided,
            Released, Settled, Queued, FailedOwed, Owed, Excused, Noted, LockLost,
            Stable, Quiet, HoldKept, QueueKept, BeforeProvider, BeforeRecord, Early,
            Live, Unsubmitted, ProviderLive
      <4>3. Positions(w)' /\ Charging(w)' /\ Answered(w)'
        BY <4>1, Plain
      <4>. QED BY <1>0, <1>2, <4>1, <4>2, <4>3, WorkerBy DEF HoldsLock, InProcess
    <3>2. CASE UNCHANGED queueVars
      <4>1. /\ Others(j) /\ SameBut(j, {}) /\ Elsewhere(w)
           /\ wk[w].pc = "requeue" /\ wk'[w].pc = "unlock"
           /\ wk'[w].job = j
           /\ UNCHANGED lock
        BY <1>0, <2>3, <3>2, KeptEffect, WGoEffect DEF RequeueJob
      <4>2. JobInv(j)' /\ Stable(j) /\ (HoldsLock(w) \/ Quiet(j))
        BY <1>1, <4>1, SameKeeps
      <4>3. Positions(w)' /\ Charging(w)' /\ Answered(w)'
        BY <4>1, Plain
      <4>. QED BY <1>0, <1>2, <4>1, <4>2, <4>3, WorkerBy DEF HoldsLock, InProcess
    <3>. QED BY <1>0, <2>3, <3>1, <3>2 DEF RequeueJob, WAnswer
  <2>4. CASE Route(w)
    <3>1. /\ Others(j) /\ SameBut(j, {}) /\ Elsewhere(w)
         /\ wk[w].pc = "route" /\ wk'[w].pc \in {"settle", "proc"}
         /\ wk'[w].job = j /\ UNCHANGED lock
         /\ (wk'[w].pc = "proc" => job[j].status # "settling")
      BY <1>0, <2>4, KeptEffect, WGoEffect DEF Route
    <3>2. JobInv(j)' /\ Stable(j) /\ (HoldsLock(w) \/ Quiet(j))
      BY <1>1, <3>1, SameKeeps
    <3>3. Positions(w)' /\ Charging(w)' /\ Answered(w)'
      BY <1>3, <3>1 DEF Positions, Charging, Answered, Excused, Noted, LockLost,
          HoldKept
    <3>. QED BY <1>0, <1>2, <3>1, <3>2, <3>3, WorkerBy DEF HoldsLock, InProcess
  <2>5. CASE SettleRead(w)
    <3>a. wk[w].pc = "settle" /\ Reads
      BY <2>5 DEF SettleRead
    <3>b. /\ \A v \in Workers \ {w} : wk'[v] = wk[v]
         /\ wk'[w].job = j /\ wk'[w].cost = job[j].succ
         /\ wk'[w].pc = IF job[j].status = "completed" THEN "ack"
                        ELSE IF job[j].status # "settling" THEN "requeue"
                        ELSE IF job[j].retry >= MaxRetries /\ job[j].serr THEN "exrel"
                        ELSE IF ~job[j].valid THEN "sfail" ELSE "capture"
      BY <1>0, <2>5, SettleReadEffect
    <3>1. /\ Others(j) /\ SameBut(j, {}) /\ Elsewhere(w)
         /\ wk[w].pc = "settle"
         /\ wk'[w].pc \in {"ack", "requeue", "exrel", "sfail", "capture"}
         /\ wk'[w].job = j /\ UNCHANGED lock
         /\ wk'[w].cost = job[j].succ
         /\ (wk'[w].pc = "ack" => job[j].status = "completed")
         /\ (wk'[w].pc \in {"exrel", "sfail", "capture"} => job[j].status = "settling")
         /\ (wk'[w].pc = "exrel" => GivenUp(j))
         /\ (wk'[w].pc = "sfail" => ~job[j].valid)
         /\ (wk'[w].pc = "capture" => job[j].valid /\ ~GivenUp(j))
      BY <1>0, <3>a, <3>b, KeptEffect, WGoEffect
    <3>2. JobInv(j)' /\ Stable(j) /\ (HoldsLock(w) \/ Quiet(j))
      BY <1>1, <3>1, SameKeeps
    <3>3. Positions(w)' /\ Charging(w)' /\ Answered(w)'
      BY <1>3, <3>1 DEF Positions, Charging, Answered, Excused, Noted, LockLost,
          HoldKept, Recorded, Settled, Live
    <3>. QED BY <1>0, <1>2, <3>1, <3>2, <3>3, WorkerBy DEF HoldsLock, InProcess
  <2>6. CASE Capture(w)
    <3>1. CASE CaptureHold(j, wk[w].cost) /\ WGo(w, "mark") /\ UNCHANGED lost
      <4>1. /\ Others(j) /\ SameBut(j, {"hold"}) /\ Elsewhere(w)
           /\ wk[w].pc = "capture" /\ wk'[w].pc = "mark"
           /\ wk'[w].job = j /\ UNCHANGED lock
           /\ "capture" \in claims'[j]
           /\ ("capture" \in claims[j] => charge'[j] = charge[j])
           /\ ("capture" \notin claims[j] => charge'[j] = wk[w].cost)
           /\ net'[j] <= net[j]
           /\ ("hold" \in claims'[j] <=> "hold" \in claims[j])
           /\ ("release" \in claims'[j] <=> "release" \in claims[j])
        BY <1>0, <2>6, <3>1, KeptEffect, WGoEffect, CaptureEffect DEF Capture
      <4>2. JobInv(j)' /\ Stable(j) /\ (HoldsLock(w) \/ Quiet(j))
        BY <1>1, <4>1 DEF HoldsLock, InProcess, WorkerInv, Positions, Charging,
            Answered, TakenIsQueued, JobInv, Recorded, Held, Charged, Provided,
            Released, Settled, Queued, FailedOwed, Owed, Excused, Noted, LockLost,
            Stable, Quiet, HoldKept, QueueKept, BeforeProvider, BeforeRecord, Early,
            Live, Unsubmitted, ProviderLive
      <4>3. Positions(w)' /\ Charging(w)' /\ Answered(w)'
        BY <1>3, <4>1 DEF Positions, Charging, Answered, Excused, Noted, LockLost,
            HoldKept
      <4>. QED BY <1>0, <1>2, <4>1, <4>2, <4>3, WorkerBy DEF HoldsLock, InProcess
    <3>2. CASE CaptureHold(j, wk[w].cost) /\ CaptureFailed(w) /\ Broken(j,
        "capture")
      <4>1. /\ Others(j) /\ SameBut(j, {"hold", "lost"}) /\ Elsewhere(w)
           /\ wk[w].pc = "capture" /\ wk'[w].pc = "sfail"
           /\ wk'[w].job = j /\ UNCHANGED lock
           /\ "capture" \in claims'[j]
           /\ ("capture" \in claims[j] => charge'[j] = charge[j])
           /\ ("capture" \notin claims[j] => charge'[j] = wk[w].cost)
           /\ net'[j] <= net[j]
           /\ ("hold" \in claims'[j] <=> "hold" \in claims[j])
           /\ ("release" \in claims'[j] <=> "release" \in claims[j])
           /\ lost'[j] = lost[j] \cup {"capture"}
        BY <1>0, <2>6, <3>2, KeptEffect, WGoEffect, CaptureEffect, BrokenEffect DEF
            Capture
      <4>2. JobInv(j)' /\ Stable(j) /\ (HoldsLock(w) \/ Quiet(j))
        BY <1>1, <4>1 DEF HoldsLock, InProcess, WorkerInv, Positions, Charging,
            Answered, TakenIsQueued, JobInv, Recorded, Held, Charged, Provided,
            Released, Settled, Queued, FailedOwed, Owed, Excused, Noted, LockLost,
            Stable, Quiet, HoldKept, QueueKept, BeforeProvider, BeforeRecord, Early,
            Live, Unsubmitted, ProviderLive
      <4>3. Positions(w)' /\ Charging(w)' /\ Answered(w)'
        BY <1>3, <4>1 DEF Positions, Charging, Answered, Excused, Noted, LockLost,
            HoldKept
      <4>. QED BY <1>0, <1>2, <4>1, <4>2, <4>3, WorkerBy DEF HoldsLock, InProcess
    <3>3. CASE CaptureFailed(w) /\ "capture" \notin claims[j] /\ UNCHANGED
        <<holdVars, lost>>
      <4>1. /\ Others(j) /\ SameBut(j, {}) /\ Elsewhere(w)
           /\ wk[w].pc = "capture" /\ wk'[w].pc = "sfail"
           /\ wk'[w].job = j /\ UNCHANGED lock
           /\ "capture" \notin claims[j]
        BY <1>0, <2>6, <3>3, KeptEffect, WGoEffect DEF Capture
      <4>2. JobInv(j)' /\ Stable(j) /\ (HoldsLock(w) \/ Quiet(j))
        BY <1>1, <4>1, SameKeeps
      <4>3. Positions(w)' /\ Charging(w)' /\ Answered(w)'
        BY <1>3, <4>1 DEF Positions, Charging, Answered, Excused, Noted, LockLost,
            HoldKept
      <4>. QED BY <1>0, <1>2, <4>1, <4>2, <4>3, WorkerBy DEF HoldsLock, InProcess
    <3>4. CASE CaptureFailed(w) /\ Broken(j, "capture") /\ UNCHANGED holdVars
      <4>1. /\ Others(j) /\ SameBut(j, {"lost"}) /\ Elsewhere(w)
           /\ wk[w].pc = "capture" /\ wk'[w].pc = "sfail"
           /\ wk'[w].job = j /\ UNCHANGED lock
           /\ lost'[j] = lost[j] \cup {"capture"}
        BY <1>0, <2>6, <3>4, KeptEffect, WGoEffect, BrokenEffect DEF Capture
      <4>2. JobInv(j)' /\ Stable(j) /\ (HoldsLock(w) \/ Quiet(j))
        BY <1>1, <4>1 DEF HoldsLock, InProcess, WorkerInv, Positions, Charging,
            Answered, TakenIsQueued, JobInv, Recorded, Held, Charged, Provided,
            Released, Settled, Queued, FailedOwed, Owed, Excused, Noted, LockLost,
            Stable, Quiet, HoldKept, QueueKept, BeforeProvider, BeforeRecord, Early,
            Live, Unsubmitted, ProviderLive
      <4>3. Positions(w)' /\ Charging(w)' /\ Answered(w)'
        BY <1>3, <4>1 DEF Positions, Charging, Answered, Excused, Noted, LockLost,
            HoldKept
      <4>. QED BY <1>0, <1>2, <4>1, <4>2, <4>3, WorkerBy DEF HoldsLock, InProcess
    <3>. QED BY <1>0, <2>6, <3>1, <3>2, <3>3, <3>4 DEF Capture, WAnswer, CanCapture
  <2>7. CASE MarkSettled(w)
    <3>1. CASE SetStatus(j, "completed") /\ job[j].status = "settling"
      <4>1. /\ Others(j) /\ SameBut(j, {"job"}) /\ Elsewhere(w)
           /\ wk[w].pc = "mark" /\ wk'[w].pc \in {"ack", "requeue"}
           /\ wk'[w].job = j /\ UNCHANGED lock
           /\ job[j].status = "settling" /\ job'[j].status = "completed"
           /\ RowBut(j, {"status"})
        BY <1>0, <2>7, <3>1, KeptEffect, WGoEffect, SetStatusEffect DEF MarkSettled
      <4>2. JobInv(j)' /\ Stable(j) /\ (HoldsLock(w) \/ Quiet(j))
        BY <1>1, <4>1 DEF HoldsLock, InProcess, WorkerInv, Positions, Charging,
            Answered, TakenIsQueued, JobInv, Recorded, Held, Charged, Provided,
            Released, Settled, Queued, FailedOwed, Owed, Excused, Noted, LockLost,
            Stable, Quiet, HoldKept, QueueKept, BeforeProvider, BeforeRecord, Early,
            Live, Unsubmitted, ProviderLive
      <4>3. Positions(w)' /\ Charging(w)' /\ Answered(w)'
        BY <1>3, <4>1 DEF Positions, Charging, Answered, Excused, Noted, LockLost,
            HoldKept
      <4>. QED BY <1>0, <1>2, <4>1, <4>2, <4>3, WorkerBy DEF HoldsLock, InProcess
    <3>2. CASE UNCHANGED job /\ WGo(w, "requeue")
      <4>1. /\ Others(j) /\ SameBut(j, {}) /\ Elsewhere(w)
           /\ wk[w].pc = "mark" /\ wk'[w].pc = "requeue"
           /\ wk'[w].job = j /\ UNCHANGED lock
        BY <1>0, <2>7, <3>2, KeptEffect, WGoEffect DEF MarkSettled
      <4>2. JobInv(j)' /\ Stable(j) /\ (HoldsLock(w) \/ Quiet(j))
        BY <1>1, <4>1, SameKeeps
      <4>3. Positions(w)' /\ Charging(w)' /\ Answered(w)'
        BY <4>1, Plain
      <4>. QED BY <1>0, <1>2, <4>1, <4>2, <4>3, WorkerBy DEF HoldsLock, InProcess
    <3>. QED BY <1>0, <2>7, <3>1, <3>2 DEF MarkSettled, WAnswer
  <2>8. CASE SettleFails(w)
    <3>1. CASE SettlementFailed(j)
      <4>1. /\ Others(j) /\ SameBut(j, {"job"}) /\ Elsewhere(w)
           /\ wk[w].pc = "sfail" /\ wk'[w].pc \in {"exrel", "reread", "requeue"}
           /\ wk'[w].job = j /\ UNCHANGED lock
           /\ job'[j].retry = job[j].retry + 1 /\ job'[j].serr
           /\ RowBut(j, {"retry", "serr"}) /\ job[j].retry \in Nat
           /\ (wk'[w].pc = "exrel" => job[j].retry + 1 >= MaxRetries)
        BY <1>0, <2>8, <3>1, KeptEffect, WGoEffect, SettlementFailedEffect DEF
            SettleFails, Rows
      <4>2. JobInv(j)' /\ Stable(j) /\ (HoldsLock(w) \/ Quiet(j))
        BY <1>1, <4>1 DEF HoldsLock, InProcess, WorkerInv, Positions, Charging,
            Answered, TakenIsQueued, JobInv, Recorded, Held, Charged, Provided,
            Released, Settled, Queued, FailedOwed, Owed, Excused, Noted, LockLost,
            Stable, Quiet, HoldKept, QueueKept, BeforeProvider, BeforeRecord, Early,
            Live, Unsubmitted, ProviderLive
      <4>3. Positions(w)' /\ Charging(w)' /\ Answered(w)'
        BY <1>3, <4>1 DEF Positions, Charging, Answered, Excused, Noted, LockLost,
            HoldKept
      <4>. QED BY <1>0, <1>2, <4>1, <4>2, <4>3, WorkerBy DEF HoldsLock, InProcess
    <3>2. CASE UNCHANGED job /\ (WGo(w, "reread") \/ WGo(w, "requeue"))
      <4>1. /\ Others(j) /\ SameBut(j, {}) /\ Elsewhere(w)
           /\ wk[w].pc = "sfail" /\ wk'[w].pc \in {"reread", "requeue"}
           /\ wk'[w].job = j /\ UNCHANGED lock
        BY <1>0, <2>8, <3>2, KeptEffect, WGoEffect DEF SettleFails
      <4>2. JobInv(j)' /\ Stable(j) /\ (HoldsLock(w) \/ Quiet(j))
        BY <1>1, <4>1, SameKeeps
      <4>3. Positions(w)' /\ Charging(w)' /\ Answered(w)'
        BY <1>3, <4>1 DEF Positions, Charging, Answered, Excused, Noted, LockLost,
            HoldKept
      <4>. QED BY <1>0, <1>2, <4>1, <4>2, <4>3, WorkerBy DEF HoldsLock, InProcess
    <3>. QED BY <1>0, <2>8, <3>1, <3>2 DEF SettleFails, WAnswer
  <2>9. CASE ExhaustRelease(w)
    <3>1. CASE ReleaseHold(j)
      <4>1. /\ Others(j) /\ SameBut(j, {"hold"}) /\ Elsewhere(w)
           /\ wk[w].pc = "exrel" /\ wk'[w].pc \in {"exfail", "exnote"}
           /\ wk'[w].job = j /\ UNCHANGED lock
           /\ "release" \in claims'[j]
           /\ ("hold" \in claims'[j] <=> "hold" \in claims[j])
           /\ ("capture" \in claims'[j] <=> "capture" \in claims[j])
           /\ charge'[j] = charge[j] /\ net'[j] <= net[j]
        BY <1>0, <2>9, <3>1, KeptEffect, WGoEffect, ReleaseEffect DEF ExhaustRelease
      <4>2. JobInv(j)' /\ Stable(j) /\ (HoldsLock(w) \/ Quiet(j))
        BY <1>1, <4>1 DEF HoldsLock, InProcess, WorkerInv, Positions, Charging,
            Answered, TakenIsQueued, JobInv, Recorded, Held, Charged, Provided,
            Released, Settled, Queued, FailedOwed, Owed, Excused, Noted, LockLost,
            Stable, Quiet, HoldKept, QueueKept, BeforeProvider, BeforeRecord, Early,
            Live, Unsubmitted, ProviderLive
      <4>3. Positions(w)' /\ Charging(w)' /\ Answered(w)'
        BY <1>3, <4>1 DEF Positions, Charging, Answered, Excused, Noted, LockLost,
            HoldKept
      <4>. QED BY <1>0, <1>2, <4>1, <4>2, <4>3, WorkerBy DEF HoldsLock, InProcess
    <3>2. CASE UNCHANGED holdVars /\ WGo(w, "exnote")
      <4>1. /\ Others(j) /\ SameBut(j, {}) /\ Elsewhere(w)
           /\ wk[w].pc = "exrel" /\ wk'[w].pc = "exnote"
           /\ wk'[w].job = j /\ UNCHANGED lock
        BY <1>0, <2>9, <3>2, KeptEffect, WGoEffect DEF ExhaustRelease
      <4>2. JobInv(j)' /\ Stable(j) /\ (HoldsLock(w) \/ Quiet(j))
        BY <1>1, <4>1, SameKeeps
      <4>3. Positions(w)' /\ Charging(w)' /\ Answered(w)'
        BY <1>3, <4>1 DEF Positions, Charging, Answered, Excused, Noted, LockLost,
            HoldKept
      <4>. QED BY <1>0, <1>2, <4>1, <4>2, <4>3, WorkerBy DEF HoldsLock, InProcess
    <3>. QED BY <1>0, <2>9, <3>1, <3>2 DEF ExhaustRelease, WAnswer
  <2>10. CASE ExhaustNote(w)
    <3>1. CASE SettlementFailed(j)
      <4>1. /\ Others(j) /\ SameBut(j, {"job"}) /\ Elsewhere(w)
           /\ wk[w].pc = "exnote" /\ wk'[w].pc = "reread"
           /\ wk'[w].job = j /\ UNCHANGED lock
           /\ job'[j].retry = job[j].retry + 1 /\ job'[j].serr
           /\ RowBut(j, {"retry", "serr"}) /\ job[j].retry \in Nat
        BY <1>0, <2>10, <3>1, KeptEffect, WGoEffect, SettlementFailedEffect DEF
            ExhaustNote, Rows
      <4>2. JobInv(j)' /\ Stable(j) /\ (HoldsLock(w) \/ Quiet(j))
        BY <1>1, <4>1 DEF HoldsLock, InProcess, WorkerInv, Positions, Charging,
            Answered, TakenIsQueued, JobInv, Recorded, Held, Charged, Provided,
            Released, Settled, Queued, FailedOwed, Owed, Excused, Noted, LockLost,
            Stable, Quiet, HoldKept, QueueKept, BeforeProvider, BeforeRecord, Early,
            Live, Unsubmitted, ProviderLive
      <4>3. Positions(w)' /\ Charging(w)' /\ Answered(w)'
        BY <1>3, <4>1 DEF Positions, Charging, Answered, Excused, Noted, LockLost,
            HoldKept
      <4>. QED BY <1>0, <1>2, <4>1, <4>2, <4>3, WorkerBy DEF HoldsLock, InProcess
    <3>2. CASE UNCHANGED job
      <4>1. /\ Others(j) /\ SameBut(j, {}) /\ Elsewhere(w)
           /\ wk[w].pc = "exnote" /\ wk'[w].pc = "reread"
           /\ wk'[w].job = j /\ UNCHANGED lock
        BY <1>0, <2>10, <3>2, KeptEffect, WGoEffect DEF ExhaustNote
      <4>2. JobInv(j)' /\ Stable(j) /\ (HoldsLock(w) \/ Quiet(j))
        BY <1>1, <4>1, SameKeeps
      <4>3. Positions(w)' /\ Charging(w)' /\ Answered(w)'
        BY <1>3, <4>1 DEF Positions, Charging, Answered, Excused, Noted, LockLost,
            HoldKept
      <4>. QED BY <1>0, <1>2, <4>1, <4>2, <4>3, WorkerBy DEF HoldsLock, InProcess
    <3>. QED BY <1>0, <2>10, <3>1, <3>2 DEF ExhaustNote, WAnswer
  <2>11. CASE ExhaustFail(w)
    <3>1. CASE Transition(j, "failed")
      <4>1. /\ Others(j) /\ SameBut(j, {"job"}) /\ Elsewhere(w)
           /\ wk[w].pc = "exfail" /\ wk'[w].pc \in {"reread", "requeue"}
           /\ wk'[w].job = j /\ UNCHANGED lock
           /\ job'[j].status = "failed" /\ RowBut(j, {"status"})
           /\ job[j].status \notin Terminal
        BY <1>0, <2>11, <3>1, KeptEffect, WGoEffect, SetStatusEffect DEF
            ExhaustFail, Transition, CanTransition
      <4>2. JobInv(j)' /\ Stable(j) /\ (HoldsLock(w) \/ Quiet(j))
        BY <1>1, <4>1 DEF HoldsLock, InProcess, WorkerInv, Positions, Charging,
            Answered, TakenIsQueued, JobInv, Recorded, Held, Charged, Provided,
            Released, Settled, Queued, FailedOwed, Owed, Excused, Noted, LockLost,
            Stable, Quiet, HoldKept, QueueKept, BeforeProvider, BeforeRecord, Early,
            Live, Unsubmitted, ProviderLive
      <4>3. Positions(w)' /\ Charging(w)' /\ Answered(w)'
        BY <1>3, <4>1 DEF Positions, Charging, Answered, Excused, Noted, LockLost,
            HoldKept
      <4>. QED BY <1>0, <1>2, <4>1, <4>2, <4>3, WorkerBy DEF HoldsLock, InProcess
    <3>2. CASE UNCHANGED job /\ WGo(w, "requeue")
      <4>1. /\ Others(j) /\ SameBut(j, {}) /\ Elsewhere(w)
           /\ wk[w].pc = "exfail" /\ wk'[w].pc = "requeue"
           /\ wk'[w].job = j /\ UNCHANGED lock
        BY <1>0, <2>11, <3>2, KeptEffect, WGoEffect DEF ExhaustFail
      <4>2. JobInv(j)' /\ Stable(j) /\ (HoldsLock(w) \/ Quiet(j))
        BY <1>1, <4>1, SameKeeps
      <4>3. Positions(w)' /\ Charging(w)' /\ Answered(w)'
        BY <4>1, Plain
      <4>. QED BY <1>0, <1>2, <4>1, <4>2, <4>3, WorkerBy DEF HoldsLock, InProcess
    <3>. QED BY <1>0, <2>11, <3>1, <3>2 DEF ExhaustFail, WAnswer
  <2>12. CASE Reread(w)
    <3>1. /\ Others(j) /\ SameBut(j, {}) /\ Elsewhere(w)
         /\ wk[w].pc = "reread" /\ wk'[w].pc \in {"ack", "requeue"}
         /\ wk'[w].job = j /\ UNCHANGED lock
         /\ (wk'[w].pc = "ack" => job[j].status \in Terminal)
      BY <1>0, <2>12, KeptEffect, WGoEffect DEF Reread
    <3>2. JobInv(j)' /\ Stable(j) /\ (HoldsLock(w) \/ Quiet(j))
      BY <1>1, <3>1, SameKeeps
    <3>3. Positions(w)' /\ Charging(w)' /\ Answered(w)'
      BY <1>3, <3>1 DEF Positions, Charging, Answered, Excused, Noted, LockLost,
          HoldKept
    <3>. QED BY <1>0, <1>2, <3>1, <3>2, <3>3, WorkerBy DEF HoldsLock, InProcess
  <2>13. CASE Proc(w)
    <3>1. /\ Others(j) /\ SameBut(j, {}) /\ Elsewhere(w)
         /\ wk[w].pc = "proc"
         /\ wk'[w].pc \in {"trel", "ack", "requeue", "index", "poll"}
         /\ wk'[w].job = j /\ UNCHANGED lock
         /\ (wk'[w].pc = "trel" => job[j].status \in {"failed", "cancelled"})
         /\ (wk'[w].pc = "ack" =>
       job[j].status \in {"settling", "completed", "output_deleted"})
         /\ (wk'[w].pc \in {"index", "poll"} => job[j].status \notin PostIndex)
         /\ (wk'[w].pc = "index" => job[j].status = "indexing")
      BY <1>0, <2>13, KeptEffect, WGoEffect DEF Proc
    <3>2. JobInv(j)' /\ Stable(j) /\ (HoldsLock(w) \/ Quiet(j))
      BY <1>1, <3>1, SameKeeps
    <3>3. Positions(w)' /\ Charging(w)' /\ Answered(w)'
      BY <1>3, <3>1 DEF Positions, Charging, Answered, Excused, Noted, LockLost,
          HoldKept, Charged, Provided
    <3>. QED BY <1>0, <1>2, <3>1, <3>2, <3>3, WorkerBy DEF HoldsLock, InProcess
  <2>14. CASE Poll(w)
    <3>a. wk[w].pc = "poll" /\ Reads
      BY <2>14 DEF Poll
    <3>b. /\ \A v \in Workers \ {w} : wk'[v] = wk[v]
         /\ wk'[w].job = j /\ wk'[w].pc = "apply" /\ wk'[w].seen = prov[j]
      BY <1>0, <2>14, PollEffect
    <3>1. /\ Others(j) /\ SameBut(j, {}) /\ Elsewhere(w)
         /\ wk[w].pc = "poll" /\ wk'[w].pc = "apply"
         /\ wk'[w].job = j /\ UNCHANGED lock
         /\ wk'[w].seen = prov[j]
      BY <1>0, <3>a, <3>b, KeptEffect, WGoEffect
    <3>2. JobInv(j)' /\ Stable(j) /\ (HoldsLock(w) \/ Quiet(j))
      BY <1>1, <3>1, SameKeeps
    <3>3. Positions(w)' /\ Charging(w)' /\ Answered(w)'
      BY <1>3, <3>1 DEF Positions, Charging, Answered, Excused, Noted, LockLost,
          HoldKept
    <3>. QED BY <1>0, <1>2, <3>1, <3>2, <3>3, WorkerBy DEF HoldsLock, InProcess
  <2>15. CASE Apply(w)
    <3>1. CASE UNCHANGED job /\ WGo(w, "requeue")
      <4>1. /\ Others(j) /\ SameBut(j, {}) /\ Elsewhere(w)
           /\ wk[w].pc = "apply" /\ wk'[w].pc = "requeue"
           /\ wk'[w].job = j /\ UNCHANGED lock
        BY <1>0, <2>15, <3>1, KeptEffect, WGoEffect DEF Apply
      <4>2. JobInv(j)' /\ Stable(j) /\ (HoldsLock(w) \/ Quiet(j))
        BY <1>1, <4>1, SameKeeps
      <4>3. Positions(w)' /\ Charging(w)' /\ Answered(w)'
        BY <4>1, Plain
      <4>. QED BY <1>0, <1>2, <4>1, <4>2, <4>3, WorkerBy DEF HoldsLock, InProcess
    <3>2. CASE wk[w].seen = "succeeded" /\ Transition(j, "indexing") /\ (WGo(w,
        "index") \/ WGo(w, "requeue"))
      <4>a. wk[w].pc = "apply" /\ Writes
        BY <2>15 DEF Apply
      <4>1. /\ Others(j) /\ SameBut(j, {"job"}) /\ Elsewhere(w)
           /\ wk[w].pc = "apply" /\ wk'[w].pc \in {"index", "requeue"}
           /\ wk'[w].job = j /\ UNCHANGED lock
           /\ wk[w].seen = "succeeded"
           /\ job'[j].status = "indexing" /\ RowBut(j, {"status"})
           /\ job[j].status \in {"submitted", "running"}
        BY <1>0, <3>2, <4>a, KeptEffect, WGoEffect, SetStatusEffect DEF Transition,
            CanTransition
      <4>2. JobInv(j)' /\ Stable(j) /\ (HoldsLock(w) \/ Quiet(j))
        BY <1>1, <4>1 DEF HoldsLock, InProcess, WorkerInv, Positions, Charging,
            Answered, TakenIsQueued, JobInv, Recorded, Held, Charged, Provided,
            Released, Settled, Queued, FailedOwed, Owed, Excused, Noted, LockLost,
            Stable, Quiet, HoldKept, QueueKept, BeforeProvider, BeforeRecord, Early,
            Live, Unsubmitted, ProviderLive
      <4>3. Positions(w)' /\ Charging(w)' /\ Answered(w)'
        BY <1>3, <4>1 DEF Positions, Charging, Answered, Excused, Noted, LockLost,
            HoldKept
      <4>. QED BY <1>0, <1>2, <4>1, <4>2, <4>3, WorkerBy DEF HoldsLock, InProcess
    <3>3. CASE wk[w].seen = "failed" /\ Transition(j, "failed") /\ (WGo(w, "trel")
        \/ WGo(w, "requeue"))
      <4>a. wk[w].pc = "apply" /\ Writes
        BY <2>15 DEF Apply
      <4>1. /\ Others(j) /\ SameBut(j, {"job"}) /\ Elsewhere(w)
           /\ wk[w].pc = "apply" /\ wk'[w].pc \in {"trel", "requeue"}
           /\ wk'[w].job = j /\ UNCHANGED lock
           /\ wk[w].seen = "failed"
           /\ job'[j].status = "failed" /\ RowBut(j, {"status"})
           /\ job[j].status \notin Terminal
        BY <1>0, <3>3, <4>a, KeptEffect, WGoEffect, SetStatusEffect DEF Transition,
            CanTransition
      <4>2. JobInv(j)' /\ Stable(j) /\ (HoldsLock(w) \/ Quiet(j))
        BY <1>1, <4>1 DEF HoldsLock, InProcess, WorkerInv, Positions, Charging,
            Answered, TakenIsQueued, JobInv, Recorded, Held, Charged, Provided,
            Released, Settled, Queued, FailedOwed, Owed, Excused, Noted, LockLost,
            Stable, Quiet, HoldKept, QueueKept, BeforeProvider, BeforeRecord, Early,
            Live, Unsubmitted, ProviderLive
      <4>3. Positions(w)' /\ Charging(w)' /\ Answered(w)'
        BY <1>3, <4>1 DEF Positions, Charging, Answered, Excused, Noted, LockLost,
            HoldKept
      <4>. QED BY <1>0, <1>2, <4>1, <4>2, <4>3, WorkerBy DEF HoldsLock, InProcess
    <3>4. CASE wk[w].seen = "cancelled" /\ Transition(j, "cancelled") /\ (WGo(w,
        "trel") \/ WGo(w, "requeue"))
      <4>a. wk[w].pc = "apply" /\ Writes
        BY <2>15 DEF Apply
      <4>1. /\ Others(j) /\ SameBut(j, {"job"}) /\ Elsewhere(w)
           /\ wk[w].pc = "apply" /\ wk'[w].pc \in {"trel", "requeue"}
           /\ wk'[w].job = j /\ UNCHANGED lock
           /\ wk[w].seen = "cancelled"
           /\ job'[j].status = "cancelled" /\ RowBut(j, {"status"})
           /\ job[j].status \in {"created", "uploading", "submitted", "running"}
        BY <1>0, <3>4, <4>a, KeptEffect, WGoEffect, SetStatusEffect DEF Transition,
            CanTransition
      <4>2. JobInv(j)' /\ Stable(j) /\ (HoldsLock(w) \/ Quiet(j))
        BY <1>1, <4>1 DEF HoldsLock, InProcess, WorkerInv, Positions, Charging,
            Answered, TakenIsQueued, JobInv, Recorded, Held, Charged, Provided,
            Released, Settled, Queued, FailedOwed, Owed, Excused, Noted, LockLost,
            Stable, Quiet, HoldKept, QueueKept, BeforeProvider, BeforeRecord, Early,
            Live, Unsubmitted, ProviderLive
      <4>3. Positions(w)' /\ Charging(w)' /\ Answered(w)'
        BY <1>3, <4>1 DEF Positions, Charging, Answered, Excused, Noted, LockLost,
            HoldKept
      <4>. QED BY <1>0, <1>2, <4>1, <4>2, <4>3, WorkerBy DEF HoldsLock, InProcess
    <3>5. CASE wk[w].seen = "running" /\ Transition(j, "running") /\ WGo(w,
        "requeue")
      <4>a. wk[w].pc = "apply" /\ Writes
        BY <2>15 DEF Apply
      <4>1. /\ Others(j) /\ SameBut(j, {"job"}) /\ Elsewhere(w)
           /\ wk[w].pc = "apply" /\ wk'[w].pc = "requeue"
           /\ wk'[w].job = j /\ UNCHANGED lock
           /\ wk[w].seen = "running"
           /\ job'[j].status = "running" /\ RowBut(j, {"status"})
           /\ job[j].status \in {"submitted", "running"}
        BY <1>0, <3>5, <4>a, KeptEffect, WGoEffect, SetStatusEffect DEF Transition,
            CanTransition
      <4>2. JobInv(j)' /\ Stable(j) /\ (HoldsLock(w) \/ Quiet(j))
        BY <1>1, <4>1 DEF HoldsLock, InProcess, WorkerInv, Positions, Charging,
            Answered, TakenIsQueued, JobInv, Recorded, Held, Charged, Provided,
            Released, Settled, Queued, FailedOwed, Owed, Excused, Noted, LockLost,
            Stable, Quiet, HoldKept, QueueKept, BeforeProvider, BeforeRecord, Early,
            Live, Unsubmitted, ProviderLive
      <4>3. Positions(w)' /\ Charging(w)' /\ Answered(w)'
        BY <4>1, Plain
      <4>. QED BY <1>0, <1>2, <4>1, <4>2, <4>3, WorkerBy DEF HoldsLock, InProcess
    <3>. QED BY <1>0, <2>15, <3>1, <3>2, <3>3, <3>4, <3>5 DEF Apply, WAnswer,
        Verdict
  <2>16. CASE Index(w)
    <3>1. CASE UNCHANGED job /\ (WGo(w, "requeue") \/ WGo(w, "ixfail"))
      <4>1. /\ Others(j) /\ SameBut(j, {}) /\ Elsewhere(w)
           /\ wk[w].pc = "index" /\ wk'[w].pc \in {"requeue", "ixfail"}
           /\ wk'[w].job = j /\ UNCHANGED lock
        BY <1>0, <2>16, <3>1, KeptEffect, WGoEffect DEF Index
      <4>2. JobInv(j)' /\ Stable(j) /\ (HoldsLock(w) \/ Quiet(j))
        BY <1>1, <4>1, SameKeeps
      <4>3. Positions(w)' /\ Charging(w)' /\ Answered(w)'
        BY <1>3, <4>1 DEF Positions, Charging, Answered, Excused, Noted, LockLost,
            HoldKept
      <4>. QED BY <1>0, <1>2, <4>1, <4>2, <4>3, WorkerBy DEF HoldsLock, InProcess
    <3>2. CASE /\ job[j].status = "indexing"
               /\ \E s \in 0..HoldAmount, v \in BOOLEAN :
                     job' = [job EXCEPT ![j].succ = s, ![j].valid = v]
               /\ WGo(w, "tosettle") \/ WGo(w, "ixfail")
      <4>a. wk[w].pc = "index" /\ Writes
        BY <2>16 DEF Index
      <4>b. PICK s \in 0..HoldAmount, v \in BOOLEAN :
               job' = [job EXCEPT ![j].succ = s, ![j].valid = v]
        BY <3>2
      <4>c. (\A k \in Jobs \ {j} : job'[k] = job[k]) /\ RowBut(j, {"succ", "valid"})
        BY <1>0, <4>b DEF Rows
      <4>1. /\ Others(j) /\ SameBut(j, {"job"}) /\ Elsewhere(w)
           /\ wk[w].pc = "index" /\ wk'[w].pc \in {"tosettle", "ixfail"}
           /\ wk'[w].job = j /\ UNCHANGED lock
           /\ job[j].status = "indexing" /\ RowBut(j, {"succ", "valid"})
        BY <1>0, <3>2, <4>a, <4>c, KeptEffect, WGoEffect DEF Rows
      <4>2. JobInv(j)' /\ Stable(j) /\ (HoldsLock(w) \/ Quiet(j))
        BY <1>1, <4>1 DEF HoldsLock, InProcess, WorkerInv, Positions, Charging,
            Answered, TakenIsQueued, JobInv, Recorded, Held, Charged, Provided,
            Released, Settled, Queued, FailedOwed, Owed, Excused, Noted, LockLost,
            Stable, Quiet, HoldKept, QueueKept, BeforeProvider, BeforeRecord, Early,
            Live, Unsubmitted, ProviderLive
      <4>3. Positions(w)' /\ Charging(w)' /\ Answered(w)'
        BY <1>3, <4>1 DEF Positions, Charging, Answered, Excused, Noted, LockLost,
            HoldKept
      <4>. QED BY <1>0, <1>2, <4>1, <4>2, <4>3, WorkerBy DEF HoldsLock, InProcess
    <3>. QED BY <1>0, <2>16, <3>1, <3>2 DEF Index, WAnswer
  <2>17. CASE IndexFails(w)
    <3>1. CASE Transition(j, "failed")
      <4>1. /\ Others(j) /\ SameBut(j, {"job"}) /\ Elsewhere(w)
           /\ wk[w].pc = "ixfail" /\ wk'[w].pc \in {"trel", "requeue"}
           /\ wk'[w].job = j /\ UNCHANGED lock
           /\ job'[j].status = "failed" /\ RowBut(j, {"status"})
           /\ job[j].status \notin Terminal
        BY <1>0, <2>17, <3>1, KeptEffect, WGoEffect, SetStatusEffect DEF IndexFails,
            Transition, CanTransition
      <4>2. JobInv(j)' /\ Stable(j) /\ (HoldsLock(w) \/ Quiet(j))
        BY <1>1, <4>1 DEF HoldsLock, InProcess, WorkerInv, Positions, Charging,
            Answered, TakenIsQueued, JobInv, Recorded, Held, Charged, Provided,
            Released, Settled, Queued, FailedOwed, Owed, Excused, Noted, LockLost,
            Stable, Quiet, HoldKept, QueueKept, BeforeProvider, BeforeRecord, Early,
            Live, Unsubmitted, ProviderLive
      <4>3. Positions(w)' /\ Charging(w)' /\ Answered(w)'
        BY <1>3, <4>1 DEF Positions, Charging, Answered, Excused, Noted, LockLost,
            HoldKept
      <4>. QED BY <1>0, <1>2, <4>1, <4>2, <4>3, WorkerBy DEF HoldsLock, InProcess
    <3>2. CASE UNCHANGED job /\ WGo(w, "requeue")
      <4>1. /\ Others(j) /\ SameBut(j, {}) /\ Elsewhere(w)
           /\ wk[w].pc = "ixfail" /\ wk'[w].pc = "requeue"
           /\ wk'[w].job = j /\ UNCHANGED lock
        BY <1>0, <2>17, <3>2, KeptEffect, WGoEffect DEF IndexFails
      <4>2. JobInv(j)' /\ Stable(j) /\ (HoldsLock(w) \/ Quiet(j))
        BY <1>1, <4>1, SameKeeps
      <4>3. Positions(w)' /\ Charging(w)' /\ Answered(w)'
        BY <4>1, Plain
      <4>. QED BY <1>0, <1>2, <4>1, <4>2, <4>3, WorkerBy DEF HoldsLock, InProcess
    <3>. QED BY <1>0, <2>17, <3>1, <3>2 DEF IndexFails, WAnswer
  <2>18. CASE ToSettling(w)
    <3>1. CASE Transition(j, "settling")
      <4>1. /\ Others(j) /\ SameBut(j, {"job"}) /\ Elsewhere(w)
           /\ wk[w].pc = "tosettle" /\ wk'[w].pc = "requeue"
           /\ wk'[w].job = j /\ UNCHANGED lock
           /\ job'[j].status = "settling" /\ RowBut(j, {"status"})
           /\ job[j].status = "indexing"
        BY <1>0, <2>18, <3>1, KeptEffect, WGoEffect, SetStatusEffect DEF ToSettling,
            Transition, CanTransition
      <4>2. JobInv(j)' /\ Stable(j) /\ (HoldsLock(w) \/ Quiet(j))
        BY <1>1, <4>1 DEF HoldsLock, InProcess, WorkerInv, Positions, Charging,
            Answered, TakenIsQueued, JobInv, Recorded, Held, Charged, Provided,
            Released, Settled, Queued, FailedOwed, Owed, Excused, Noted, LockLost,
            Stable, Quiet, HoldKept, QueueKept, BeforeProvider, BeforeRecord, Early,
            Live, Unsubmitted, ProviderLive
      <4>3. Positions(w)' /\ Charging(w)' /\ Answered(w)'
        BY <4>1, Plain
      <4>. QED BY <1>0, <1>2, <4>1, <4>2, <4>3, WorkerBy DEF HoldsLock, InProcess
    <3>2. CASE UNCHANGED job
      <4>1. /\ Others(j) /\ SameBut(j, {}) /\ Elsewhere(w)
           /\ wk[w].pc = "tosettle" /\ wk'[w].pc = "requeue"
           /\ wk'[w].job = j /\ UNCHANGED lock
        BY <1>0, <2>18, <3>2, KeptEffect, WGoEffect DEF ToSettling
      <4>2. JobInv(j)' /\ Stable(j) /\ (HoldsLock(w) \/ Quiet(j))
        BY <1>1, <4>1, SameKeeps
      <4>3. Positions(w)' /\ Charging(w)' /\ Answered(w)'
        BY <4>1, Plain
      <4>. QED BY <1>0, <1>2, <4>1, <4>2, <4>3, WorkerBy DEF HoldsLock, InProcess
    <3>. QED BY <1>0, <2>18, <3>1, <3>2 DEF ToSettling, WAnswer
  <2>19. CASE TerminalRelease(w)
    <3>1. CASE ReleaseHold(j)
      <4>1. /\ Others(j) /\ SameBut(j, {"hold"}) /\ Elsewhere(w)
           /\ wk[w].pc = "trel" /\ wk'[w].pc \in {"ack", "requeue"}
           /\ wk'[w].job = j /\ UNCHANGED lock
           /\ "release" \in claims'[j]
           /\ ("hold" \in claims'[j] <=> "hold" \in claims[j])
           /\ ("capture" \in claims'[j] <=> "capture" \in claims[j])
           /\ charge'[j] = charge[j] /\ net'[j] <= net[j]
        BY <1>0, <2>19, <3>1, KeptEffect, WGoEffect, ReleaseEffect DEF
            TerminalRelease
      <4>2. JobInv(j)' /\ Stable(j) /\ (HoldsLock(w) \/ Quiet(j))
        BY <1>1, <4>1 DEF HoldsLock, InProcess, WorkerInv, Positions, Charging,
            Answered, TakenIsQueued, JobInv, Recorded, Held, Charged, Provided,
            Released, Settled, Queued, FailedOwed, Owed, Excused, Noted, LockLost,
            Stable, Quiet, HoldKept, QueueKept, BeforeProvider, BeforeRecord, Early,
            Live, Unsubmitted, ProviderLive
      <4>3. Positions(w)' /\ Charging(w)' /\ Answered(w)'
        BY <1>3, <4>1 DEF Positions, Charging, Answered, Excused, Noted, LockLost,
            HoldKept
      <4>. QED BY <1>0, <1>2, <4>1, <4>2, <4>3, WorkerBy DEF HoldsLock, InProcess
    <3>2. CASE UNCHANGED holdVars /\ WGo(w, "requeue")
      <4>1. /\ Others(j) /\ SameBut(j, {}) /\ Elsewhere(w)
           /\ wk[w].pc = "trel" /\ wk'[w].pc = "requeue"
           /\ wk'[w].job = j /\ UNCHANGED lock
        BY <1>0, <2>19, <3>2, KeptEffect, WGoEffect DEF TerminalRelease
      <4>2. JobInv(j)' /\ Stable(j) /\ (HoldsLock(w) \/ Quiet(j))
        BY <1>1, <4>1, SameKeeps
      <4>3. Positions(w)' /\ Charging(w)' /\ Answered(w)'
        BY <4>1, Plain
      <4>. QED BY <1>0, <1>2, <4>1, <4>2, <4>3, WorkerBy DEF HoldsLock, InProcess
    <3>. QED BY <1>0, <2>19, <3>1, <3>2 DEF TerminalRelease, WAnswer
  <2>20. CASE AckJob(w)
    <3>1. CASE Ack(j)
      <4>1. /\ Others(j) /\ SameBut(j, {"queue"}) /\ Elsewhere(w)
           /\ wk[w].pc = "ack" /\ wk'[w].pc = "unlock"
           /\ wk'[w].job = j
           /\ j \notin inflight' /\ (j \in queued' <=> j \in queued)
           /\ UNCHANGED lock
        BY <1>0, <2>20, <3>1, KeptEffect, WGoEffect, AckEffect DEF AckJob
      <4>2. JobInv(j)' /\ Stable(j) /\ (HoldsLock(w) \/ Quiet(j))
        BY <1>1, <4>1 DEF HoldsLock, InProcess, WorkerInv, Positions, Charging,
            Answered, TakenIsQueued, JobInv, Recorded, Held, Charged, Provided,
            Released, Settled, Queued, FailedOwed, Owed, Excused, Noted, LockLost,
            Stable, Quiet, HoldKept, QueueKept, BeforeProvider, BeforeRecord, Early,
            Live, Unsubmitted, ProviderLive
      <4>3. Positions(w)' /\ Charging(w)' /\ Answered(w)'
        BY <4>1, Plain
      <4>. QED BY <1>0, <1>2, <4>1, <4>2, <4>3, WorkerBy DEF HoldsLock, InProcess
    <3>2. CASE UNCHANGED queueVars
      <4>1. /\ Others(j) /\ SameBut(j, {}) /\ Elsewhere(w)
           /\ wk[w].pc = "ack" /\ wk'[w].pc = "unlock"
           /\ wk'[w].job = j
           /\ UNCHANGED lock
        BY <1>0, <2>20, <3>2, KeptEffect, WGoEffect DEF AckJob
      <4>2. JobInv(j)' /\ Stable(j) /\ (HoldsLock(w) \/ Quiet(j))
        BY <1>1, <4>1, SameKeeps
      <4>3. Positions(w)' /\ Charging(w)' /\ Answered(w)'
        BY <4>1, Plain
      <4>. QED BY <1>0, <1>2, <4>1, <4>2, <4>3, WorkerBy DEF HoldsLock, InProcess
    <3>. QED BY <1>0, <2>20, <3>1, <3>2 DEF AckJob, WAnswer
  <2>21. CASE Unlock(w)
    <3>1. /\ Others(j) /\ SameBut(j, {}) /\ Elsewhere(w)
         /\ wk[w].pc = "unlock" /\ wk'[w].pc = "idle"
         /\ wk'[w].job = j
         /\ (\A k \in Jobs : lock'[k] = lock[k] \/ lock[k] = w)
      BY <1>0, <2>21, KeptEffect, WGoEffect, LockEffect DEF Unlock, ReleaseJobLock
    <3>2. JobInv(j)' /\ Stable(j) /\ (HoldsLock(w) \/ Quiet(j))
      BY <1>1, <3>1, SameKeeps
    <3>3. Positions(w)' /\ Charging(w)' /\ Answered(w)'
      BY <3>1, Plain
    <3>. QED BY <1>0, <1>2, <3>1, <3>2, <3>3, WorkerBy DEF HoldsLock, InProcess
  <2>22. CASE WorkerDies(w)
    <3>1. /\ Others(j) /\ SameBut(j, {}) /\ Elsewhere(w)
         /\ wk'[w].pc = "idle"
         /\ wk'[w].job = j
         /\ ~At(w, "idle") /\ UNCHANGED lock
      BY <1>0, <2>22, KeptEffect, WGoEffect DEF WorkerDies
    <3>2. JobInv(j)' /\ Stable(j) /\ (HoldsLock(w) \/ Quiet(j))
      BY <1>1, <3>1, SameKeeps
    <3>3. Positions(w)' /\ Charging(w)' /\ Answered(w)'
      BY <3>1, Plain
    <3>. QED BY <1>0, <1>2, <3>1, <3>2, <3>3, WorkerBy DEF HoldsLock, InProcess
  <2>23. CASE ProcessErr(w)
    <3>1. /\ Others(j) /\ SameBut(j, {}) /\ Elsewhere(w)
         /\ wk'[w].pc = "requeue"
         /\ wk'[w].job = j /\ UNCHANGED lock
         /\ HoldsLock(w)
      BY <1>0, <2>23, KeptEffect, WGoEffect DEF ProcessErr, HoldsLock, InProcess
    <3>2. JobInv(j)' /\ Stable(j) /\ (HoldsLock(w) \/ Quiet(j))
      BY <1>1, <3>1, SameKeeps
    <3>3. Positions(w)' /\ Charging(w)' /\ Answered(w)'
      BY <3>1, Plain
    <3>. QED BY <1>0, <1>2, <3>1, <3>2, <3>3, WorkerBy DEF HoldsLock, InProcess
  <2>. QED BY <2>1, <2>2, <2>3, <2>4, <2>5, <2>6, <2>7, <2>8, <2>9, <2>10, <2>11,
      <2>12, <2>13, <2>14, <2>15, <2>16, <2>17, <2>18, <2>19, <2>20, <2>21, <2>22,
      <2>23 DEF Worker
<1>. QED BY <1>4

LEMMA WorkerStep ==
    ASSUME IInv, NEW w \in Workers, Worker(w) \/ WorkerDies(w) \/ ProcessErr(w)
    PROVE  WorkerFine(w)
<1>0. JobTypes /\ WorkTypes /\ Job(w) \in Jobs /\ WorkerInv(w)
  BY TypeParts DEF IInv, TypeOK, WorkTypes, Job
<1>1. ASSUME \A k \in Jobs : SameBut(k, {})
      PROVE  \A k \in Jobs : JobInv(k)' /\ Stable(k) /\ Quiet(k)
  BY <1>1, SameKeeps DEF IInv
<1>2. CASE WorkerHeartbeat(w)
  <2>1. Heartbeat(Job(w)) /\ UNCHANGED wk /\ Queues
    BY <1>2 DEF WorkerHeartbeat
  <2>2. lock' = lock /\ \A k \in Jobs : QueueKept(k)
    BY <1>0, <2>1, MoveEffect DEF JobTypes
  <2>3. \A k \in Jobs : SameBut(k, {})
    BY <2>1, <2>2, KeptEffect DEF SameBut, Queues, WorkerFrame, envVars
  <2>4. \A k \in Jobs : JobInv(k)' /\ Stable(k) /\ Quiet(k) /\ Untouched(k)'
    BY <1>1, <2>1, <2>3, UntouchedKeeps DEF IInv
  <2>5. WorkerInv(w)'
    BY <1>0, <2>1, <2>2, <2>4, Bystander
  <2>. QED BY <2>1, <2>2, <2>4, <2>5 DEF WorkerFine, Elsewhere
<1>3. ASSUME NEW j \in Jobs, TakeJob(w, j) PROVE WorkerFine(w)
  <2>1. /\ At(w, "idle") /\ Reserve(j) /\ Queues
        /\ wk' = [wk EXCEPT ![w] = [Idle(j) EXCEPT !.pc = "lock"]]
    BY <1>3 DEF TakeJob
  <2>2. lock' = lock /\ InQueue(j) /\ \A k \in Jobs : QueueKept(k)
    BY <1>0, <2>1, MoveEffect DEF JobTypes
  <2>3. \A k \in Jobs : SameBut(k, {})
    BY <2>1, <2>2, KeptEffect DEF SameBut, Queues, WorkerFrame, envVars
  <2>4. \A k \in Jobs : JobInv(k)' /\ Stable(k) /\ Quiet(k)
    BY <1>1, <2>3
  <2>5. /\ \A v \in Workers \ {w} : wk'[v] = wk[v]
        /\ wk'[w].job = j /\ wk'[w].pc = "lock"
    BY <1>0, <2>1 DEF WorkTypes, Idle
  <2>6. ASSUME NEW k \in Jobs PROVE Untouched(k)'
    <3>1. Untouched(k) /\ SameBut(k, {}) /\ (k = j => sub[k] # "none")
      BY <2>2, <2>3 DEF IInv, Untouched
    <3>2. \A v \in Workers : wk'[v].job = k => v # w \/ k = j
      BY <2>5
    <3>. QED BY <2>5, <3>1, <3>2 DEF Untouched, SameBut, HoldKept, QueueKept, Job,
        At
  <2>7. LockHeld(w)' /\ TakenIsQueued(w)'
    BY <2>2, <2>5 DEF LockHeld, TakenIsQueued, HoldsLock, InProcess, At, Job,
        QueueKept
  <2>8. Positions(w)' /\ Charging(w)' /\ Answered(w)'
    BY <2>5, Plain
  <2>. QED BY <2>2, <2>4, <2>5, <2>6, <2>7, <2>8 DEF WorkerFine, WorkerInv,
      Elsewhere
<1>4. CASE ~WorkerHeartbeat(w) /\ \A k \in Jobs : ~TakeJob(w, k)
  BY <1>0, <1>4, WorkStep
<1>. QED BY <1>2, <1>3, <1>4
=============================================================================
