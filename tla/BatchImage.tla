------------------------------ MODULE BatchImage ------------------------------
(***************************************************************************)
(* Batch image jobs: from submission over the provider's run to settlement.*)
(*                                                                         *)
(* Five kinds of processes meet on a job's row, its balance hold           *)
(* (BatchImageHold) and its queue entry (BatchImageQueue):                 *)
(*   - the request that submits the job (`sub`);                           *)
(*   - a request that cancels it or repeats the submission (`can`);        *)
(*   - the scan that fails jobs stuck before the provider (`rec`);         *)
(*   - the worker loops (`wk`), which take the job's lock, ask the         *)
(*     provider, index its output and settle the job;                      *)
(*   - the cleanup loop and the user, who delete output and records.       *)
(*                                                                         *)
(* An action is one call to the database, to Redis or to the provider, so  *)
(* the processes interleave between any two calls.  A call can fail, and a *)
(* call that changes something can succeed while its answer is lost; a     *)
(* process can die between calls; a worker can stall until its lock is     *)
(* gone; a key or a credit can expire.  One budget, `faults`, bounds all.  *)
(*                                                                         *)
(* A row's `old` says that updated_at is before the recovery's cutoff.     *)
(* `valid` says that the checks before the capture (counts, manifest,      *)
(* price, cost within the hold) pass for the row.                          *)
(***************************************************************************)
EXTENDS BatchImageQueue, BatchImageHold

CONSTANTS
    MaxRetries,  \* batchImageSettlementMaxRetries
    MaxFaults,   \* bound: failing calls, lost answers, deaths, stalls, expiries
    MaxCalls     \* bound: cancel and repeated submit requests

ASSUME BoundsAssumption ==
    MaxRetries \in Nat \ {0} /\ MaxFaults \in Nat /\ MaxCalls \in Nat

VARIABLES
    job,      \* rows of batch_image_jobs
    prov,     \* the provider's batch
    sub,      \* where the submitting request is
    can,      \* where a cancel or repeated submit request is
    rec,      \* where the stale-submission recovery is
    wk,       \* the worker loops
    faults, calls,
    queued,   \* history: jobs that were put into the queue after submission
    lost      \* history: what a fault broke for a job that nothing repairs

procVars == <<sub, can, rec, wk>>
envVars == <<prov, calls, queued>>
vars == <<job, procVars, envVars, faults, lost, queueVars, holdVars>>

ProviderLive == {"queued", "running"}
ProviderStates == {"none", "succeeded", "failed", "cancelled"} \cup ProviderLive

Rows == [status : {"absent"} \cup Unsubmitted \cup Live \cup Terminal,
         named : BOOLEAN, retry : Nat, serr : BOOLEAN, hidden : BOOLEAN,
         old : BOOLEAN, succ : 0..HoldAmount, valid : BOOLEAN]

WorkerPcs == {"idle", "lock", "conflict", "route", "settle", "capture", "mark",
              "sfail", "exrel", "exnote", "exfail", "reread", "proc", "poll",
              "apply", "index", "ixfail", "tosettle", "trel", "ack", "requeue",
              "unlock"}

\* Type invariant.
TypeOK ==
    /\ QueueTypeOK /\ HoldTypeOK
    /\ job \in [Jobs -> Rows]
    /\ prov \in [Jobs -> ProviderStates]
    /\ sub \in [Jobs -> {"none", "reserve", "items", "upload", "submit",
                         "record", "abort", "enqueue", "note", "release",
                         "return", "fail", "hide", "relfail", "retryq", "done"}]
    /\ can \in [Jobs -> {"idle", "rel", "trans", "pcancel", "enq", "reenq",
                         "note", "retryq"}]
    /\ rec \in [Jobs -> {"idle", "rel", "retryq"}]
    /\ wk \in [Workers -> [pc : WorkerPcs, job : Jobs, cost : 0..HoldAmount,
                           seen : ProviderStates \cup {"check", "billing"}]]
    /\ faults \in 0..MaxFaults /\ calls \in 0..MaxCalls
    /\ queued \in SUBSET Jobs
    /\ lost \in [Jobs -> SUBSET {"lock", "capture", "handler", "note"}]

Idle(j) == [pc |-> "idle", job |-> j, seen |-> "none", cost |-> 0]

Init ==
    /\ QueueInit /\ HoldInit
    /\ job = [j \in Jobs |-> [status |-> "absent", named |-> FALSE, retry |-> 0,
                              serr |-> FALSE, hidden |-> FALSE, old |-> FALSE,
                              succ |-> 0, valid |-> TRUE]]
    /\ prov = [j \in Jobs |-> "none"]
    /\ sub = [j \in Jobs |-> "none"] /\ can = [j \in Jobs |-> "idle"]
    /\ rec = [j \in Jobs |-> "idle"]
    /\ wk \in [Workers -> {Idle(j) : j \in Jobs}]
    /\ faults = 0 /\ calls = 0 /\ queued = {}
    /\ lost = [j \in Jobs |-> {}]

UseFault == faults < MaxFaults /\ faults' = faults + 1
NoFault == UNCHANGED faults

Broken(j, what) == lost' = [lost EXCEPT ![j] = @ \cup {what}]

-----------------------------------------------------------------------------
(* The rows *)

SetStatus(j, s) == job' = [job EXCEPT ![j].status = s, ![j].old = FALSE]

Transition(j, s) == CanTransition(job[j].status, s) /\ SetStatus(j, s)

\* SetBatchImageJobSettlementFailed
SettlementFailed(j) ==
    job' = [job EXCEPT ![j].retry = @ + 1, ![j].serr = TRUE]

\* RecordBatchImageJobSubmitFailure without markFailed.  It may come so late
\* that it replaces the error of a settlement.
NoteQueueFailure(j) ==
    /\ job' = [job EXCEPT ![j].serr = FALSE, ![j].old = FALSE]
    /\ \/ job[j].status = "settling" /\ Broken(j, "note")
       \/ job[j].status # "settling" /\ UNCHANGED lost

-----------------------------------------------------------------------------
(* Submit *)

SubGo(j, p) == sub' = [sub EXCEPT ![j] = p]

\* The call was made; its answer arrives or is lost.
SubAnswer(j, ok, err) ==
    \/ SubGo(j, ok) /\ NoFault
    \/ SubGo(j, err) /\ UseFault

\* The call was not made.
SubError(j, err) == SubGo(j, err) /\ UseFault

CreateJob(j) ==
    /\ sub[j] = "none" /\ SetStatus(j, "created") /\ SubGo(j, "reserve")
    /\ UNCHANGED <<can, rec, wk, envVars, faults, lost, queueVars, holdVars>>

\* A reservation whose answer is lost is treated as one that failed.
SubmitReserve(j) ==
    /\ sub[j] = "reserve"
    /\ \/ ReserveHold(j) /\ SubGo(j, "items") /\ NoFault /\ UNCHANGED lost
       \/ ReserveHold(j) /\ SubError(j, "fail") /\ Broken(j, "handler")
       \/ ~CanReserve /\ SubGo(j, "fail") /\ NoFault
          /\ UNCHANGED <<holdVars, lost>>
       \/ SubError(j, "fail") /\ UNCHANGED <<holdVars, lost>>
    /\ UNCHANGED <<job, can, rec, wk, envVars, queueVars>>

SubmitItems(j) ==
    /\ sub[j] = "items" /\ SubAnswer(j, "upload", "release")
    /\ UNCHANGED <<job, can, rec, wk, envVars, lost, queueVars, holdVars>>

\* A row that a concurrent call finished is not overwritten: "return" releases
\* the hold and stops.
SubmitUpload(j) ==
    /\ sub[j] = "upload"
    /\ \/ Transition(j, "uploading") /\ SubAnswer(j, "submit", "release")
       \/ ~CanTransition(job[j].status, "uploading") /\ SubGo(j, "return")
          /\ NoFault /\ UNCHANGED job
       \/ SubError(j, "release") /\ UNCHANGED job
    /\ UNCHANGED <<can, rec, wk, envVars, lost, queueVars, holdVars>>

SubmitProvider(j) ==
    /\ sub[j] = "submit"
    /\ \/ prov' = [prov EXCEPT ![j] = "queued"] /\ SubAnswer(j, "record", "release")
       \/ SubError(j, "release") /\ UNCHANGED prov
    /\ UNCHANGED <<job, can, rec, wk, calls, queued, lost, queueVars, holdVars>>

\* The heartbeat during provider.Submit, TouchBatchImageJobSubmitting.
SubmitHeartbeat(j) ==
    /\ sub[j] = "submit" /\ job[j].status \in Unsubmitted /\ job[j].old
    /\ job' = [job EXCEPT ![j].old = FALSE]
    /\ UNCHANGED <<procVars, envVars, faults, lost, queueVars, holdVars>>

SubmitRecord(j) ==
    /\ sub[j] = "record"
    /\ \/ /\ CanTransition(job[j].status, "submitted")
          /\ job' = [job EXCEPT ![j].status = "submitted", ![j].named = TRUE,
                                ![j].old = FALSE]
          /\ SubAnswer(j, "enqueue", "abort")
       \/ ~CanTransition(job[j].status, "submitted") /\ SubGo(j, "abort")
          /\ NoFault /\ UNCHANGED job
       \/ SubError(j, "abort") /\ UNCHANGED job
    /\ UNCHANGED <<can, rec, wk, envVars, lost, queueVars, holdVars>>

\* provider.Cancel: the batch stops, or has finished by the time.
ProviderCancel(j) ==
    \/ prov[j] \in ProviderLive /\ prov' = [prov EXCEPT ![j] = "cancelled"]
    \/ UNCHANGED prov

\* abortOrphanProviderJob ignores the outcome.
SubmitAbort(j) ==
    /\ sub[j] = "abort" /\ SubGo(j, "done") /\ ProviderCancel(j)
    /\ UNCHANGED <<job, can, rec, wk, calls, queued, faults, lost, queueVars,
                   holdVars>>

\* The submission is over only when a job that runs is in the queue.
SubmitEnqueue(j) ==
    /\ sub[j] = "enqueue"
    /\ \/ Enqueue(j) /\ queued' = queued \cup {j} /\ SubAnswer(j, "done", "note")
       \/ SubError(j, "note") /\ UNCHANGED <<queueVars, queued>>
    /\ UNCHANGED <<job, can, rec, wk, prov, calls, lost, holdVars>>

SubmitNote(j) ==
    /\ sub[j] = "note"
    /\ \/ NoteQueueFailure(j) /\ NoFault
       \/ UNCHANGED <<job, lost>> /\ UseFault
    /\ SubGo(j, "done")
    /\ UNCHANGED <<can, rec, wk, envVars, queueVars, holdVars>>

\* releaseFailedSubmitHold; "return" is the caller that does not touch the row.
SubmitRelease(j) ==
    /\ sub[j] \in {"release", "return"}
    /\ LET ok == IF sub[j] = "release" THEN "fail" ELSE "done" IN
       \/ ReleaseHold(j) /\ SubAnswer(j, ok, "relfail")
       \/ ~CanRelease(j) /\ SubGo(j, "relfail") /\ NoFault /\ UNCHANGED holdVars
       \/ SubError(j, "relfail") /\ UNCHANGED holdVars
    /\ UNCHANGED <<job, can, rec, wk, envVars, lost, queueVars>>

\* RecordBatchImageJobSubmitFailure writes `failed` over whatever is there; its
\* error is ignored.
SubmitFail(j) ==
    /\ sub[j] \in {"fail", "relfail"}
    /\ SubGo(j, IF sub[j] = "fail" THEN "hide" ELSE "retryq")
    /\ \/ SetStatus(j, "failed") /\ NoFault
       \/ UNCHANGED job /\ UseFault
    /\ UNCHANGED <<can, rec, wk, envVars, lost, queueVars, holdVars>>

\* hidePreUpstreamSubmitFailure
SubmitHide(j) ==
    /\ sub[j] = "hide" /\ SubGo(j, "done")
    /\ \/ job[j].status \in Terminal /\ job' = [job EXCEPT ![j].hidden = TRUE]
          /\ NoFault
       \/ job[j].status \notin Terminal /\ UNCHANGED job /\ NoFault
       \/ UNCHANGED job /\ UseFault
    /\ UNCHANGED <<can, rec, wk, envVars, lost, queueVars, holdVars>>

\* enqueueBillingRetry: the error is only logged.
RetryQueue(j) ==
    \/ Enqueue(j) /\ NoFault /\ UNCHANGED lost
    \/ UNCHANGED queueVars /\ UseFault /\ Broken(j, "handler")

SubmitRetry(j) ==
    /\ sub[j] = "retryq" /\ SubGo(j, "done") /\ RetryQueue(j)
    /\ UNCHANGED <<job, can, rec, wk, envVars, holdVars>>

\* The request's process dies or its context is cancelled.
SubmitDies(j) ==
    /\ sub[j] \notin {"none", "done"} /\ SubGo(j, "done") /\ UseFault
    /\ Broken(j, "handler")
    /\ UNCHANGED <<job, can, rec, wk, envVars, queueVars, holdVars>>

Submit(j) ==
    \/ CreateJob(j) \/ SubmitReserve(j) \/ SubmitItems(j) \/ SubmitUpload(j)
    \/ SubmitProvider(j) \/ SubmitHeartbeat(j) \/ SubmitRecord(j)
    \/ SubmitAbort(j) \/ SubmitEnqueue(j) \/ SubmitNote(j) \/ SubmitRelease(j)
    \/ SubmitFail(j) \/ SubmitHide(j) \/ SubmitRetry(j)

-----------------------------------------------------------------------------
(* Cancel, repeated submission, deletion *)

CanGo(j, p) == can' = [can EXCEPT ![j] = p]

CanAnswer(j, ok, err) ==
    \/ CanGo(j, ok) /\ NoFault
    \/ CanGo(j, err) /\ UseFault

Call(j, p) ==
    /\ can[j] = "idle" /\ CanGo(j, p) /\ calls < MaxCalls /\ calls' = calls + 1
    /\ UNCHANGED <<job, sub, rec, wk, prov, queued, faults, lost, queueVars,
                   holdVars>>

\* What Cancel does next depends on the row it reads here.
Cancel(j) ==
    /\ job[j].status \notin {"absent", "settling", "completed", "output_deleted"}
    /\ ~job[j].hidden
    /\ Call(j, IF job[j].status \in {"failed", "cancelled"} THEN "rel"
               ELSE IF job[j].named THEN "pcancel" ELSE "trans")

\* The same idempotency key again.
Resubmit(j) == job[j].status = "submitted" /\ Call(j, "reenq")

CancelProvider(j) ==
    /\ can[j] = "pcancel"
    /\ \/ ProviderCancel(j) /\ CanAnswer(j, "enq", "idle")
       \/ UNCHANGED prov /\ CanGo(j, "idle") /\ UseFault
    /\ UNCHANGED <<job, sub, rec, wk, calls, queued, lost, queueVars, holdVars>>

CallEnqueue(j) ==
    /\ can[j] \in {"enq", "reenq"}
    /\ LET err == IF can[j] = "enq" THEN "idle" ELSE "note" IN
       \/ Enqueue(j) /\ queued' = queued \cup {j} /\ CanAnswer(j, "idle", err)
       \/ UNCHANGED <<queueVars, queued>> /\ CanGo(j, err) /\ UseFault
    /\ UNCHANGED <<job, sub, rec, wk, prov, calls, lost, holdVars>>

CallNote(j) ==
    /\ can[j] = "note" /\ CanGo(j, "idle")
    /\ \/ NoteQueueFailure(j) /\ NoFault
       \/ UNCHANGED <<job, lost>> /\ UseFault
    /\ UNCHANGED <<sub, rec, wk, envVars, queueVars, holdVars>>

\* The cancellation that landed and lost its answer ends without a release.
CancelTransition(j) ==
    /\ can[j] = "trans"
    /\ \/ Transition(j, "cancelled") /\ CanGo(j, "rel") /\ NoFault
          /\ UNCHANGED lost
       \/ Transition(j, "cancelled") /\ CanGo(j, "idle") /\ UseFault
          /\ Broken(j, "handler")
       \/ ~CanTransition(job[j].status, "cancelled") /\ CanGo(j, "idle")
          /\ NoFault /\ UNCHANGED <<job, lost>>
       \/ CanGo(j, "idle") /\ UseFault /\ UNCHANGED <<job, lost>>
    /\ UNCHANGED <<sub, rec, wk, envVars, queueVars, holdVars>>

CancelRelease(j) ==
    /\ can[j] = "rel"
    /\ \/ ReleaseHold(j) /\ CanAnswer(j, "idle", "retryq")
       \/ ~CanRelease(j) /\ CanGo(j, "retryq") /\ NoFault /\ UNCHANGED holdVars
       \/ CanGo(j, "retryq") /\ UseFault /\ UNCHANGED holdVars
    /\ UNCHANGED <<job, sub, rec, wk, envVars, lost, queueVars>>

CancelRetry(j) ==
    /\ can[j] = "retryq" /\ CanGo(j, "idle") /\ RetryQueue(j)
    /\ UNCHANGED <<job, sub, rec, wk, envVars, holdVars>>

CallDies(j) ==
    /\ can[j] # "idle" /\ CanGo(j, "idle") /\ UseFault /\ Broken(j, "handler")
    /\ UNCHANGED <<job, sub, rec, wk, envVars, queueVars, holdVars>>

\* DeleteRecord
HideRecord(j) ==
    /\ job[j].status \in Terminal /\ ~job[j].hidden
    /\ job' = [job EXCEPT ![j].hidden = TRUE]
    /\ UNCHANGED <<procVars, envVars, faults, lost, queueVars, holdVars>>

\* cleanupJob and MarkBatchImageOutputDeleted
CleanupOutput(j) ==
    /\ job[j].status = "completed" /\ SetStatus(j, "output_deleted")
    /\ UNCHANGED <<procVars, envVars, faults, lost, queueVars, holdVars>>

Client(j) ==
    \/ Cancel(j) \/ Resubmit(j) \/ CancelProvider(j) \/ CallEnqueue(j)
    \/ CallNote(j) \/ CancelTransition(j) \/ CancelRelease(j) \/ CancelRetry(j)
    \/ HideRecord(j) \/ CleanupOutput(j)

-----------------------------------------------------------------------------
(* Recovery of submissions that never reached the provider *)

RecGo(j, p) == rec' = [rec EXCEPT ![j] = p]

\* Mutant: only the list read before is trusted.
FailStaleUnchecked(j) ==
    /\ rec[j] = "idle" /\ job[j].status \in Unsubmitted \cup {"submitted"}
    /\ SetStatus(j, "failed") /\ RecGo(j, "rel") /\ NoFault /\ UNCHANGED lost
    /\ UNCHANGED <<sub, can, wk, envVars, queueVars, holdVars>>

\* FailStaleUnsubmittedBatchImageJob: the conditions of the list are asked again
\* in the update, and an update keeps `updated_at` from being old.
FailStale(j) ==
    /\ rec[j] = "idle"
    /\ job[j].status \in Unsubmitted /\ ~job[j].named /\ job[j].old
    /\ SetStatus(j, "failed")
    /\ \/ RecGo(j, "rel") /\ NoFault /\ UNCHANGED lost
       \/ UNCHANGED rec /\ UseFault /\ Broken(j, "handler")
    /\ UNCHANGED <<sub, can, wk, envVars, queueVars, holdVars>>

RecoveryRelease(j) ==
    /\ rec[j] = "rel"
    /\ \/ ReleaseHold(j) /\ RecGo(j, "idle") /\ NoFault
       \/ ReleaseHold(j) /\ RecGo(j, "retryq") /\ UseFault
       \/ ~CanRelease(j) /\ RecGo(j, "retryq") /\ NoFault /\ UNCHANGED holdVars
       \/ RecGo(j, "retryq") /\ UseFault /\ UNCHANGED holdVars
    /\ UNCHANGED <<job, sub, can, wk, envVars, lost, queueVars>>

RecoveryRetry(j) ==
    /\ rec[j] = "retryq" /\ RecGo(j, "idle") /\ RetryQueue(j)
    /\ UNCHANGED <<job, sub, can, wk, envVars, holdVars>>

RecoveryDies(j) ==
    /\ rec[j] # "idle" /\ RecGo(j, "idle") /\ UseFault /\ Broken(j, "handler")
    /\ UNCHANGED <<job, sub, can, wk, envVars, queueVars, holdVars>>

\* updated_at falls behind the cutoff; the row matters only before submission.
RowAges(j) ==
    /\ job[j].status \in Unsubmitted /\ ~job[j].old
    /\ job' = [job EXCEPT ![j].old = TRUE]
    /\ UNCHANGED <<procVars, envVars, faults, lost, queueVars, holdVars>>

Recovery(j) == FailStale(j) \/ RecoveryRelease(j) \/ RecoveryRetry(j)

-----------------------------------------------------------------------------
(* Workers *)

\* What a worker read is used in its next step, if at all.
WGo(w, p) == wk' = [wk EXCEPT ![w] = [Idle(@.job) EXCEPT !.pc = p]]
At(w, p) == wk[w].pc = p
Job(w) == wk[w].job
Status(w) == job[Job(w)].status

WorkerFrame == UNCHANGED <<sub, can, rec, envVars>>

WAnswer(w, ok, err) ==
    \/ WGo(w, ok) /\ NoFault
    \/ WGo(w, err) /\ UseFault

\* A step of Process that only reads or talks to the provider.
Reads == UNCHANGED <<job, lost, queueVars, holdVars>> /\ WorkerFrame
\* A step that updates the row.
Writes == UNCHANGED <<lost, queueVars, holdVars>> /\ WorkerFrame
\* A step that works on the hold.
Bills == UNCHANGED <<job, queueVars>> /\ WorkerFrame
\* A step that works on the queue.
Queues == UNCHANGED <<job, lost, holdVars>> /\ WorkerFrame

TakeJob(w, j) ==
    /\ At(w, "idle") /\ Reserve(j)
    /\ wk' = [wk EXCEPT ![w] = [Idle(j) EXCEPT !.pc = "lock"]]
    /\ NoFault /\ Queues

\* Mutant: the worker goes on when the lock is taken.
LockIgnored(w) ==
    /\ At(w, "lock") /\ WGo(w, "route") /\ NoFault /\ UNCHANGED queueVars
    /\ Queues

LockJob(w) ==
    /\ At(w, "lock")
    /\ \/ TryAcquireJobLock(Job(w), w) /\ WAnswer(w, "route", "conflict")
       \/ lock[Job(w)] # NoWorker /\ WGo(w, "conflict") /\ NoFault
          /\ UNCHANGED queueVars
       \/ WGo(w, "conflict") /\ UseFault /\ UNCHANGED queueVars
    /\ Queues

\* RequeueAfter without having held the lock.
LockConflict(w) ==
    /\ At(w, "conflict") /\ WGo(w, "idle")
    /\ \/ RequeueAfter(Job(w)) /\ NoFault
       \/ UNCHANGED queueVars /\ UseFault
    /\ Queues

\* BatchImagePipelineProcessor.Process
Route(w) ==
    /\ At(w, "route") /\ WGo(w, IF Status(w) = "settling" THEN "settle" ELSE "proc")
    /\ NoFault /\ Reads

\* Settle reads the row again and works with what it read.
SettleRead(w) ==
    LET r == job[Job(w)] IN
    /\ At(w, "settle")
    /\ wk' = [wk EXCEPT ![w].cost = r.succ, ![w].seen = "check",
         ![w].pc =
           IF r.status = "completed" THEN "ack"
           ELSE IF r.status # "settling" THEN "requeue"
           ELSE IF r.retry >= MaxRetries /\ r.serr THEN "exrel"
           ELSE IF ~r.valid THEN "sfail" ELSE "capture"]
    /\ NoFault /\ Reads

CaptureFailed(w) ==
    wk' = [wk EXCEPT ![w] = [Idle(@.job) EXCEPT !.pc = "sfail", !.seen = "billing"]]

Capture(w) ==
    /\ At(w, "capture")
    /\ \/ CaptureHold(Job(w), wk[w].cost) /\ WGo(w, "mark") /\ NoFault
          /\ UNCHANGED lost
       \/ CaptureHold(Job(w), wk[w].cost) /\ CaptureFailed(w) /\ UseFault
          /\ Broken(Job(w), "capture")
       \/ ~CanCapture(Job(w), wk[w].cost) /\ CaptureFailed(w) /\ NoFault
          /\ UNCHANGED <<holdVars, lost>>
       \/ CaptureFailed(w) /\ UseFault /\ UNCHANGED holdVars
          /\ \/ "capture" \in claims[Job(w)] /\ Broken(Job(w), "capture")
             \/ "capture" \notin claims[Job(w)] /\ UNCHANGED lost
    /\ Bills

\* MarkBatchImageJobSettled
MarkSettled(w) ==
    /\ At(w, "mark")
    /\ \/ Status(w) = "settling" /\ SetStatus(Job(w), "completed")
          /\ WAnswer(w, "ack", "requeue")
       \/ Status(w) # "settling" /\ WGo(w, "requeue") /\ NoFault /\ UNCHANGED job
    /\ Writes

\* recordSettlementFailure: a failure that cannot be recorded is passed over.
SettleFails(w) ==
    LET again == IF wk[w].seen = "billing" THEN "reread" ELSE "requeue" IN
    /\ At(w, "sfail")
    /\ \/ SettlementFailed(Job(w)) /\ NoFault
          /\ WGo(w, IF job[Job(w)].retry + 1 >= MaxRetries THEN "exrel" ELSE again)
       \/ SettlementFailed(Job(w)) /\ WGo(w, again) /\ UseFault
       \/ UNCHANGED job /\ WGo(w, again) /\ UseFault
    /\ Writes

\* failExhaustedSettlement
ExhaustRelease(w) ==
    /\ At(w, "exrel")
    /\ \/ ReleaseHold(Job(w)) /\ WAnswer(w, "exfail", "exnote")
       \/ ~CanRelease(Job(w)) /\ WGo(w, "exnote") /\ NoFault /\ UNCHANGED holdVars
       \/ WGo(w, "exnote") /\ UseFault /\ UNCHANGED holdVars
    /\ UNCHANGED lost /\ Bills

ExhaustNote(w) ==
    /\ At(w, "exnote") /\ WGo(w, "reread")
    /\ \/ SettlementFailed(Job(w)) /\ NoFault
       \/ UNCHANGED job /\ UseFault
    /\ Writes

ExhaustFail(w) ==
    /\ At(w, "exfail")
    /\ \/ Transition(Job(w), "failed") /\ WAnswer(w, "reread", "requeue")
       \/ ~CanTransition(Status(w), "failed") /\ WGo(w, "requeue") /\ NoFault
          /\ UNCHANGED job
    /\ Writes

\* A failed settlement is over when the row is.
Reread(w) ==
    /\ At(w, "reread") /\ WGo(w, IF Status(w) \in Terminal THEN "ack" ELSE "requeue")
    /\ NoFault /\ Reads

\* BatchImageProviderProcessor.Process reads the row again.
Proc(w) ==
    LET r == job[Job(w)] IN
    /\ At(w, "proc")
    /\ WGo(w, IF r.status \in {"failed", "cancelled"} THEN "trel"
              ELSE IF r.status \in Terminal \cup {"settling"} THEN "ack"
              ELSE IF ~r.named THEN "requeue"
              ELSE IF r.status = "indexing" THEN "index" ELSE "poll")
    /\ NoFault /\ Reads

\* provider.Get
Poll(w) ==
    /\ At(w, "poll")
    /\ wk' = [wk EXCEPT ![w].pc = "apply", ![w].seen = prov[Job(w)]]
    /\ NoFault /\ Reads

\* What a provider state means for the row, and what follows.
Verdict == [succeeded |-> [status |-> "indexing", next |-> "index"],
            failed    |-> [status |-> "failed", next |-> "trel"],
            cancelled |-> [status |-> "cancelled", next |-> "trel"],
            running   |-> [status |-> "running", next |-> "requeue"]]

\* The provider's answer may be older than what another process did since.
Apply(w) ==
    /\ At(w, "apply")
    /\ \/ wk[w].seen \notin DOMAIN Verdict /\ WGo(w, "requeue") /\ NoFault
          /\ UNCHANGED job
       \/ /\ wk[w].seen \in DOMAIN Verdict
          /\ LET v == Verdict[wk[w].seen] IN
             \/ Transition(Job(w), v.status) /\ WAnswer(w, v.next, "requeue")
             \/ ~CanTransition(Status(w), v.status) /\ WGo(w, "requeue")
                /\ NoFault /\ UNCHANGED job
    /\ Writes

\* Mutant: an item table is rebuilt whatever the row's status is.
IndexAnyway(w) ==
    /\ At(w, "index")
    /\ \E s \in 0..HoldAmount, v \in BOOLEAN :
          job' = [job EXCEPT ![Job(w)].succ = s, ![Job(w)].valid = v]
    /\ WAnswer(w, "tosettle", "ixfail") /\ Writes

\* BatchImageResultIndexer.Index and ReplaceBatchImageItemsForJob: the output is
\* missing, cannot be used, or replaces the items of a row still being indexed.
Index(w) ==
    /\ At(w, "index")
    /\ \/ WGo(w, "requeue") /\ NoFault /\ UNCHANGED job
       \/ WGo(w, "ixfail") /\ NoFault /\ UNCHANGED job
       \/ Status(w) # "indexing" /\ WGo(w, "requeue") /\ NoFault /\ UNCHANGED job
       \/ /\ Status(w) = "indexing"
          /\ \E s \in 0..HoldAmount, v \in BOOLEAN :
                job' = [job EXCEPT ![Job(w)].succ = s, ![Job(w)].valid = v]
          /\ WAnswer(w, "tosettle", "ixfail")
    /\ Writes

IndexFails(w) ==
    /\ At(w, "ixfail")
    /\ \/ Transition(Job(w), "failed") /\ WAnswer(w, "trel", "requeue")
       \/ ~CanTransition(Status(w), "failed") /\ WGo(w, "requeue") /\ NoFault
          /\ UNCHANGED job
    /\ Writes

\* Mutant: an indexed job is reported as finished.
SettlingAcked(w) ==
    /\ At(w, "tosettle") /\ WAnswer(w, "ack", "requeue")
    /\ Transition(Job(w), "settling") /\ Writes

ToSettling(w) ==
    /\ At(w, "tosettle") /\ WAnswer(w, "requeue", "requeue")
    /\ \/ Transition(Job(w), "settling")
       \/ ~CanTransition(Status(w), "settling") /\ UNCHANGED job
    /\ Writes

\* Mutant: the release is tried once.
ReleaseOnce(w) ==
    /\ At(w, "trel") /\ WGo(w, "ack") /\ UNCHANGED lost
    /\ \/ ReleaseHold(Job(w)) /\ NoFault
       \/ UNCHANGED holdVars /\ UseFault
    /\ Bills

\* releaseTerminalHold
TerminalRelease(w) ==
    /\ At(w, "trel")
    /\ \/ ReleaseHold(Job(w)) /\ WAnswer(w, "ack", "requeue")
       \/ ~CanRelease(Job(w)) /\ WGo(w, "requeue") /\ NoFault /\ UNCHANGED holdVars
    /\ UNCHANGED lost /\ Bills

\* A call of Process fails and Process returns the error.
ProcessErr(w) ==
    /\ wk[w].pc \in {"route", "settle", "mark", "exfail", "reread", "proc",
                     "poll", "apply", "ixfail", "tosettle", "trel"}
    /\ WGo(w, "requeue") /\ UseFault /\ Reads

AckJob(w) ==
    /\ At(w, "ack") /\ WGo(w, "unlock")
    /\ \/ Ack(Job(w)) /\ NoFault
       \/ UNCHANGED queueVars /\ UseFault
    /\ Queues

RequeueJob(w) ==
    /\ At(w, "requeue") /\ WGo(w, "unlock")
    /\ \/ RequeueAfter(Job(w)) /\ NoFault
       \/ UNCHANGED queueVars /\ UseFault
    /\ Queues

Unlock(w) ==
    /\ At(w, "unlock") /\ WGo(w, "idle") /\ ReleaseJobLock(Job(w), w)
    /\ NoFault /\ Queues

WorkerDies(w) ==
    /\ ~At(w, "idle") /\ WGo(w, "idle") /\ UseFault /\ Reads

\* runJobHeartbeat, while Process runs.
InProcess(w) == wk[w].pc \notin {"idle", "lock", "conflict", "ack", "requeue", "unlock"}

WorkerHeartbeat(w) ==
    /\ InProcess(w) /\ Heartbeat(Job(w)) /\ UNCHANGED wk /\ NoFault /\ Queues

HoldsLock(w) == InProcess(w) \/ wk[w].pc \in {"ack", "requeue", "unlock"}

Worker(w) ==
    \/ \E j \in Jobs : TakeJob(w, j)
    \/ LockJob(w) \/ LockConflict(w) \/ Route(w) \/ SettleRead(w) \/ Capture(w)
    \/ MarkSettled(w) \/ SettleFails(w) \/ ExhaustRelease(w) \/ ExhaustNote(w)
    \/ ExhaustFail(w) \/ Reread(w) \/ Proc(w) \/ Poll(w) \/ Apply(w) \/ Index(w)
    \/ IndexFails(w) \/ ToSettling(w) \/ TerminalRelease(w) \/ AckJob(w)
    \/ RequeueJob(w) \/ Unlock(w) \/ WorkerHeartbeat(w)

-----------------------------------------------------------------------------
(* Time, the provider and the background loops *)

\* A worker in Process on the job, whose heartbeats keep the lock and the active
\* entry fresh.
Tended(j) == \E w \in Workers : InProcess(w) /\ Job(w) = j

\* The lock of a worker that is gone, or of one that stalled for the whole TTL.
LockExpires(j) ==
    /\ LockTTL(j)
    /\ LET w == lock[j] IN
       \/ ~(HoldsLock(w) /\ Job(w) = j) /\ NoFault /\ UNCHANGED lost
       \/ HoldsLock(w) /\ Job(w) = j /\ UseFault /\ Broken(j, "lock")
    /\ UNCHANGED <<job, procVars, envVars, holdVars>>

EntryAges(j) ==
    /\ ActiveAges(j) /\ (Tended(j) => "lock" \in lost[j])
    /\ UNCHANGED <<job, procVars, envVars, faults, lost, holdVars>>

\* The two expiries below are counted with the faults, as a bound.
InflightExpires(j) ==
    /\ InflightTTL(j) /\ UseFault
    /\ UNCHANGED <<job, procVars, envVars, lost, holdVars>>

QueueLoops(j) ==
    /\ MoveDueDelayedToReady(j) \/ RecoverStaleActive(j)
    /\ UNCHANGED <<job, procVars, envVars, faults, lost, holdVars>>

ProviderRuns(j) ==
    /\ \/ prov[j] = "queued" /\ prov' = [prov EXCEPT ![j] = "running"]
       \/ prov[j] = "running"
          /\ \E s \in {"succeeded", "failed"} : prov' = [prov EXCEPT ![j] = s]
    /\ UNCHANGED <<job, procVars, calls, queued, faults, lost, queueVars, holdVars>>

CreditExpires ==
    /\ CreditLapses /\ UseFault
    /\ UNCHANGED <<job, procVars, envVars, lost, queueVars>>

Faults ==
    \/ \E j \in Jobs : SubmitDies(j) \/ CallDies(j) \/ RecoveryDies(j)
    \/ \E w \in Workers : WorkerDies(w) \/ ProcessErr(w)

Next ==
    \/ \E j \in Jobs : \/ Submit(j) \/ Client(j) \/ Recovery(j) \/ RowAges(j)
                       \/ LockExpires(j) \/ EntryAges(j) \/ InflightExpires(j)
                       \/ QueueLoops(j) \/ ProviderRuns(j)
    \/ \E w \in Workers : Worker(w)
    \/ CreditExpires \/ Faults

Spec == Init /\ [][Next]_vars

-----------------------------------------------------------------------------
(* Properties *)

\* A job is charged for its successful images and for nothing else: a completed
\* row has one capture, of the count it shows, also when several workers got to
\* settle it (Settle, ReplaceBatchImageItemsForJob).
CompletedIsCharged ==
    \A j \in Jobs : job[j].status \in {"completed", "output_deleted"} =>
        "capture" \in claims[j] /\ charge[j] = job[j].succ

\* What a job takes out of the frozen balance is at most what it put in; more
\* would come from the holds of other jobs.  The claims do not know of each
\* other, so this rests on the job lock and on the settlement being repeated
\* until it is known to have happened: it fails only where a stalled worker lost
\* its lock, where a call of a capture that is already committed failed or lost
\* its answer, which counts as a failed settlement and leads to the release, or
\* where a late note of a queue failure hid that a settlement was given up.  Even
\* then it takes one hold of the others and never a second one.
HoldTakenOnce ==
    \A j \in Jobs :
        \/ net[j] >= 0
        \/ lost[j] \cap {"lock", "capture", "note"} # {} /\ net[j] + HoldAmount >= 0

\* Capturing or releasing a hold never fails for want of frozen balance or
\* reserved credit, although the frozen balance is one number for all jobs: what
\* is outstanding can be taken out in full, whatever the other jobs did.  Only a
\* job with one of the same exceptions can take what belongs to another.  It is
\* about many jobs, and proved (HoldsFunded).
HoldsAreFunded ==
    (\A j \in Jobs : lost[j] \cap {"lock", "capture", "note"} = {}) =>
        \A j \in Jobs : net[j] > 0 => CanSettle(j, HoldAmount)

\* A failed or cancelled job is not charged, with the first two exceptions.
FailedIsFree ==
    \A j \in Jobs : job[j].status \in {"failed", "cancelled"} =>
        "capture" \notin claims[j] \/ lost[j] \cap {"lock", "capture"} # {}

\* While the in-flight key exists, Enqueue does nothing: then the job must be
\* where a worker finds it, whatever dies between the queue's operations.
InflightIsQueued == \A j \in inflight : InQueue(j)

\* A job that runs and was queued once stays queued until a worker finished it,
\* unless a stalled worker acknowledged it.
LiveIsQueued ==
    \A j \in queued : job[j].status \in Live => InQueue(j) \/ "lock" \in lost[j]

ReleaseIsDue(j) ==
    \/ InQueue(j)
    \/ sub[j] \in {"release", "return", "relfail", "retryq", "items", "upload",
                   "submit", "record"}
    \/ can[j] \in {"rel", "retryq"} \/ rec[j] # "idle"

\* The hold of a failed or cancelled job is on its way back: a handler is about
\* to release it or a worker will.  Not where a stalled worker failed the job while
\* another acknowledged it, and not where the release was claimed before the hold
\* was reserved.  A handler that dies owing the release leaves the hold only of a
\* job that was never queued to be run: after that the workers see to it, whatever
\* happens to the requests.
HoldOfFailedReturns ==
    \A j \in Jobs : job[j].status \in {"failed", "cancelled"} /\ net[j] > 0 =>
        \/ ReleaseIsDue(j) \/ "release" \in claims[j]
        \/ "lock" \in lost[j] \/ ("handler" \in lost[j] /\ j \notin queued)

\* The balance covers what is left of the reward credit, so that the credit's
\* expiry never takes money of the user's own.
BalanceCoversCredit == balance >= lot.remaining

\* While the provider works on a job whose batch is recorded, the hold stays,
\* unless the user cancelled (FailStaleUnsubmittedBatchImageJob and
\* UpdateBatchImageJobProviderSubmit ask the status again for that).
HoldStaysWhileRunning ==
    \A j \in Jobs :
        job[j].named /\ prov[j] \in ProviderLive /\ job[j].status # "cancelled"
            => net[j] = HoldAmount

\* A finished job stays finished: only the output of a completed one is deleted,
\* and a submission that fails late may write `failed` over `cancelled`.
FinishedIsFinal ==
    [][\A j \in Jobs :
        /\ (job[j].status = "completed") =>
              job'[j].status \in {"completed", "output_deleted"}
        /\ (job[j].status = "cancelled") =>
              job'[j].status \in {"cancelled", "failed"}
        /\ (job[j].status \in {"failed", "output_deleted"}) =>
              job'[j].status = job[j].status]_vars
=============================================================================
