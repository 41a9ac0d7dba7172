--------------------------- MODULE BatchImageProofs ---------------------------
(***************************************************************************)
(* Proofs about BatchImage, concluded: types, the induction over all steps *)
(* and the theorems.  The invariant and the steps outside the workers are  *)
(* in BatchImageJobProofs, the steps of the workers in                     *)
(* BatchImageWorkerProofs.                                                 *)
(***************************************************************************)
EXTENDS BatchImageWorkerProofs

USE NoWorkerAssumption, CopiesAssumption, HoldAssumption, FundsAssumption,
    BoundsAssumption


-----------------------------------------------------------------------------
(* Types *)

Types ==
    /\ job \in [Jobs -> Rows] /\ prov \in [Jobs -> ProviderStates]
    /\ sub \in [Jobs -> {"none", "reserve", "items", "upload", "submit",
                         "record", "abort", "enqueue", "note", "release",
                         "return", "fail", "hide", "relfail", "retryq", "done"}]
    /\ can \in [Jobs -> {"idle", "rel", "trans", "pcancel", "enq", "reenq",
                         "note", "retryq"}]
    /\ rec \in [Jobs -> {"idle", "rel", "retryq"}]
    /\ faults \in 0..MaxFaults /\ calls \in 0..MaxCalls
    /\ queued \in SUBSET Jobs
    /\ lost \in [Jobs -> SUBSET {"lock", "capture", "handler", "note"}]
    /\ QueueTypeOK /\ WorkTypes

LEMMA RowTypes ==
    ASSUME job \in [Jobs -> Rows], NEW j \in Jobs
    PROVE  /\ \A s \in Unsubmitted \cup Live \cup Terminal :
                  SetStatus(j, s) => job' \in [Jobs -> Rows]
           /\ SettlementFailed(j) => job' \in [Jobs -> Rows]
           /\ NoteQueueFailure(j) => job' \in [Jobs -> Rows]
<1>1. ASSUME NEW s \in Unsubmitted \cup Live \cup Terminal, SetStatus(j, s)
      PROVE  job' \in [Jobs -> Rows]
  BY <1>1 DEF SetStatus, Rows
<1>2. ASSUME SettlementFailed(j) PROVE job' \in [Jobs -> Rows]
  <2>1. job[j].retry + 1 \in Nat
    BY DEF Rows
  <2>. DEFINE n == job[j].retry + 1
  <2>2. job' = [job EXCEPT ![j].retry = n, ![j].serr = TRUE]
    BY <1>2 DEF SettlementFailed
  <2>. HIDE DEF n
  <2>3. n \in Nat
    BY <2>1 DEF n
  <2>. QED BY <2>2, <2>3 DEF Rows
<1>3. ASSUME NoteQueueFailure(j) PROVE job' \in [Jobs -> Rows]
  BY <1>3 DEF NoteQueueFailure, Rows
<1>. QED BY <1>1, <1>2, <1>3

LEMMA RowStepTypes ==
    ASSUME job \in [Jobs -> Rows], NEW j \in Jobs
    PROVE  /\ SubmitHeartbeat(j) => job' \in [Jobs -> Rows]
           /\ SubmitRecord(j) => job' \in [Jobs -> Rows]
           /\ SubmitHide(j) \/ HideRecord(j) => job' \in [Jobs -> Rows]
           /\ RowAges(j) => job' \in [Jobs -> Rows]
           /\ \A w \in Workers : Index(w) /\ j = Job(w) => job' \in [Jobs -> Rows]
<1>1. ASSUME SubmitHeartbeat(j) PROVE job' \in [Jobs -> Rows]
  BY <1>1 DEF SubmitHeartbeat, Rows
<1>2. ASSUME SubmitRecord(j) PROVE job' \in [Jobs -> Rows]
  <2>1. CASE job' = [job EXCEPT ![j].status = "submitted", ![j].named = TRUE,
                                ![j].old = FALSE]
    <3>. DEFINE r == [job[j] EXCEPT !.status = "submitted", !.named = TRUE,
                                    !.old = FALSE]
    <3>1. r \in Rows
      BY DEF Rows, Live
    <3>2. job' = [job EXCEPT ![j] = r]
      BY <2>1
    <3>. HIDE DEF r
    <3>. QED BY <3>1, <3>2
  <2>. QED BY <1>2, <2>1 DEF SubmitRecord
<1>3. ASSUME SubmitHide(j) \/ HideRecord(j) PROVE job' \in [Jobs -> Rows]
  <2>1. CASE job' = [job EXCEPT ![j].hidden = TRUE]
    BY <2>1 DEF Rows
  <2>. QED BY <1>3, <2>1 DEF SubmitHide, HideRecord
<1>4. ASSUME RowAges(j) PROVE job' \in [Jobs -> Rows]
  BY <1>4 DEF RowAges, Rows
<1>5. ASSUME NEW w \in Workers, Index(w), j = Job(w) PROVE job' \in [Jobs -> Rows]
  <2>1. ASSUME NEW s \in 0..HoldAmount, NEW v \in BOOLEAN,
               job' = [job EXCEPT ![j].succ = s, ![j].valid = v]
        PROVE  job' \in [Jobs -> Rows]
    <3>. DEFINE r == [job[j] EXCEPT !.succ = s, !.valid = v]
    <3>1. r \in Rows
      BY DEF Rows
    <3>2. job' = [job EXCEPT ![j] = r]
      BY <2>1
    <3>. HIDE DEF r
    <3>. QED BY <3>1, <3>2
  <2>. QED BY <1>5, <2>1 DEF Index
<1>. QED BY <1>1, <1>2, <1>3, <1>4, <1>5

LEMMA LostTypes ==
    ASSUME lost \in [Jobs -> SUBSET {"lock", "capture", "handler", "note"}],
           NEW j \in Jobs
    PROVE  /\ \A x \in {"lock", "capture", "handler", "note"} : Broken(j, x) =>
                  lost' \in [Jobs -> SUBSET {"lock", "capture", "handler", "note"}]
           /\ NoteQueueFailure(j) =>
                  lost' \in [Jobs -> SUBSET {"lock", "capture", "handler", "note"}]
BY DEF Broken, NoteQueueFailure

LEMMA QueueTypes ==
    ASSUME QueueTypeOK, NEW j \in Jobs
    PROVE  /\ UNCHANGED queueVars => QueueTypeOK'
           /\ Enqueue(j) => QueueTypeOK'
           /\ Reserve(j) \/ RequeueAfter(j) \/ Ack(j) \/ Heartbeat(j) => QueueTypeOK'
           /\ MoveDueDelayedToReady(j) \/ RecoverStaleActive(j) => QueueTypeOK'
           /\ \A w \in Workers : TryAcquireJobLock(j, w) => QueueTypeOK'
           /\ \A w \in Workers : ReleaseJobLock(j, w) => QueueTypeOK'
           /\ LockTTL(j) \/ InflightTTL(j) \/ ActiveAges(j) => QueueTypeOK'
<1>. USE DEF QueueTypeOK, Push
<1>1. UNCHANGED queueVars => QueueTypeOK'
  BY DEF queueVars
<1>2. Enqueue(j) => QueueTypeOK'
  BY DEF Enqueue
<1>3. Reserve(j) \/ RequeueAfter(j) \/ Ack(j) \/ Heartbeat(j) => QueueTypeOK'
  BY DEF Reserve, RequeueAfter, Ack, Heartbeat
<1>4. MoveDueDelayedToReady(j) \/ RecoverStaleActive(j) => QueueTypeOK'
  BY DEF MoveDueDelayedToReady, RecoverStaleActive
<1>5. \A w \in Workers : TryAcquireJobLock(j, w) => QueueTypeOK'
  BY DEF TryAcquireJobLock
<1>6. \A w \in Workers : ReleaseJobLock(j, w) => QueueTypeOK'
  BY DEF ReleaseJobLock
<1>7. LockTTL(j) \/ InflightTTL(j) \/ ActiveAges(j) => QueueTypeOK'
  BY DEF LockTTL, InflightTTL, ActiveAges
<1>. QED BY <1>1, <1>2, <1>3, <1>4, <1>5, <1>6, <1>7

LEMMA GoTypes ==
    ASSUME WorkTypes, NEW w \in Workers
    PROVE  /\ \A p \in WorkerPcs : WGo(w, p) => WorkTypes'
           /\ CaptureFailed(w) => WorkTypes'
<1>1. ASSUME NEW p \in WorkerPcs, WGo(w, p) PROVE WorkTypes'
  BY <1>1 DEF WorkTypes, WGo, Idle, ProviderStates
<1>2. ASSUME CaptureFailed(w) PROVE WorkTypes'
  <2>1. /\ wk[w].job \in Jobs /\ "sfail" \in WorkerPcs /\ 0 \in 0..HoldAmount
    BY DEF WorkTypes, WorkerPcs
  <2>. DEFINE r == [Idle(wk[w].job) EXCEPT !.pc = "sfail", !.seen = "billing"]
  <2>2. r \in [pc : WorkerPcs, job : Jobs, cost : 0..HoldAmount,
               seen : ProviderStates \cup {"check", "billing"}]
    BY <2>1 DEF Idle
  <2>3. wk' = [wk EXCEPT ![w] = r]
    BY <1>2 DEF CaptureFailed
  <2>. HIDE DEF r
  <2>. QED BY <2>2, <2>3 DEF WorkTypes
<1>. QED BY <1>1, <1>2

LEMMA ReadTypes ==
    ASSUME Types, NEW w \in Workers, SettleRead(w) \/ Poll(w) PROVE WorkTypes'
<1>1. WorkTypes /\ Job(w) \in Jobs
  BY DEF Types, WorkTypes, Job
<1>2. CASE SettleRead(w)
  <2>. DEFINE r == job[Job(w)]
              c == r.succ
              p == IF r.status = "completed" THEN "ack"
                   ELSE IF r.status # "settling" THEN "requeue"
                   ELSE IF r.retry >= MaxRetries /\ r.serr THEN "exrel"
                   ELSE IF ~r.valid THEN "sfail" ELSE "capture"
  <2>1. wk' = [wk EXCEPT ![w].cost = c, ![w].seen = "check", ![w].pc = p]
    BY <1>2 DEF SettleRead
  <2>2. c \in 0..HoldAmount
    BY <1>1 DEF Types, Rows
  <2>3. p \in WorkerPcs
    BY DEF WorkerPcs
  <2>. HIDE DEF c, p
  <2>. QED BY <1>1, <2>1, <2>2, <2>3 DEF WorkTypes
<1>3. CASE Poll(w)
  <2>. DEFINE s == prov[Job(w)]
  <2>1. wk' = [wk EXCEPT ![w].pc = "apply", ![w].seen = s]
    BY <1>3 DEF Poll
  <2>2. s \in ProviderStates /\ "apply" \in WorkerPcs
    BY <1>1 DEF Types, WorkerPcs
  <2>. HIDE DEF s
  <2>. QED BY <1>1, <2>1, <2>2 DEF WorkTypes
<1>. QED BY <1>2, <1>3

LEMMA OutsideTypes ==
    ASSUME Types, NEW j \in Jobs, Outside(j), UNCHANGED wk PROVE Types'
<1>. USE DEF procVars, envVars, SubGo, SubAnswer, SubError, CanGo, CanAnswer, RecGo,
    UseFault, NoFault, Live, Terminal, Unsubmitted, ProviderLive, ProviderStates,
    WorkTypes
<1>0. Types
  OBVIOUS
<1>. USE DEF Types
<1>1. CASE CreateJob(j)
  BY <1>0, <1>1, RowTypes, LostTypes, QueueTypes DEF CreateJob
<1>2. CASE SubmitReserve(j)
  BY <1>0, <1>2, RowTypes, LostTypes, QueueTypes DEF SubmitReserve
<1>3. CASE SubmitItems(j)
  BY <1>0, <1>3, RowTypes, LostTypes, QueueTypes DEF SubmitItems
<1>4. CASE SubmitUpload(j)
  BY <1>0, <1>4, RowTypes, LostTypes, QueueTypes DEF SubmitUpload, Transition
<1>5. CASE SubmitProvider(j)
  BY <1>0, <1>5, RowTypes, LostTypes, QueueTypes DEF SubmitProvider
<1>6. CASE SubmitHeartbeat(j)
  <2>1. job' \in [Jobs -> Rows]
    BY <1>0, <1>6, RowStepTypes
  <2>. QED BY <1>0, <1>6, <2>1, QueueTypes DEF SubmitHeartbeat
<1>7. CASE SubmitRecord(j)
  <2>1. job' \in [Jobs -> Rows]
    BY <1>0, <1>7, RowStepTypes
  <2>. QED BY <1>0, <1>7, <2>1, QueueTypes DEF SubmitRecord
<1>8. CASE SubmitAbort(j)
  BY <1>0, <1>8, RowTypes, LostTypes, QueueTypes DEF SubmitAbort, ProviderCancel
<1>9. CASE SubmitEnqueue(j)
  BY <1>0, <1>9, RowTypes, LostTypes, QueueTypes DEF SubmitEnqueue
<1>10. CASE SubmitNote(j)
  BY <1>0, <1>10, RowTypes, LostTypes, QueueTypes DEF SubmitNote
<1>11. CASE SubmitRelease(j)
  BY <1>0, <1>11, RowTypes, LostTypes, QueueTypes DEF SubmitRelease
<1>12. CASE SubmitFail(j)
  BY <1>0, <1>12, RowTypes, LostTypes, QueueTypes DEF SubmitFail
<1>13. CASE SubmitHide(j)
  <2>1. job' \in [Jobs -> Rows]
    BY <1>0, <1>13, RowStepTypes
  <2>2. /\ SubGo(j, "done") /\ (NoFault \/ UseFault)
        /\ UNCHANGED <<can, rec, wk, envVars, lost, queueVars>>
    BY <1>13 DEF SubmitHide
  <2>. QED BY <1>0, <2>1, <2>2, QueueTypes
<1>14. CASE SubmitRetry(j)
  BY <1>0, <1>14, RowTypes, LostTypes, QueueTypes DEF SubmitRetry, RetryQueue
<1>15. CASE Cancel(j)
  BY <1>0, <1>15, RowTypes, LostTypes, QueueTypes DEF Cancel, Call
<1>16. CASE Resubmit(j)
  BY <1>0, <1>16, RowTypes, LostTypes, QueueTypes DEF Resubmit, Call
<1>17. CASE CancelProvider(j)
  BY <1>0, <1>17, RowTypes, LostTypes, QueueTypes DEF CancelProvider, ProviderCancel
<1>18. CASE CallEnqueue(j)
  BY <1>0, <1>18, RowTypes, LostTypes, QueueTypes DEF CallEnqueue
<1>19. CASE CallNote(j)
  BY <1>0, <1>19, RowTypes, LostTypes, QueueTypes DEF CallNote
<1>20. CASE CancelTransition(j)
  BY <1>0, <1>20, RowTypes, LostTypes, QueueTypes DEF CancelTransition, Transition
<1>21. CASE CancelRelease(j)
  BY <1>0, <1>21, RowTypes, LostTypes, QueueTypes DEF CancelRelease
<1>22. CASE CancelRetry(j)
  BY <1>0, <1>22, RowTypes, LostTypes, QueueTypes DEF CancelRetry, RetryQueue
<1>23. CASE HideRecord(j)
  <2>1. job' \in [Jobs -> Rows]
    BY <1>0, <1>23, RowStepTypes
  <2>. QED BY <1>0, <1>23, <2>1, QueueTypes DEF HideRecord
<1>24. CASE CleanupOutput(j)
  BY <1>0, <1>24, RowTypes, LostTypes, QueueTypes DEF CleanupOutput
<1>25. CASE FailStale(j)
  BY <1>0, <1>25, RowTypes, LostTypes, QueueTypes DEF FailStale
<1>26. CASE RecoveryRelease(j)
  BY <1>0, <1>26, RowTypes, LostTypes, QueueTypes DEF RecoveryRelease
<1>27. CASE RecoveryRetry(j)
  BY <1>0, <1>27, RowTypes, LostTypes, QueueTypes DEF RecoveryRetry, RetryQueue
<1>28. CASE RowAges(j)
  <2>1. job' \in [Jobs -> Rows]
    BY <1>0, <1>28, RowStepTypes
  <2>. QED BY <1>0, <1>28, <2>1, QueueTypes DEF RowAges
<1>29. CASE LockExpires(j)
  BY <1>0, <1>29, RowTypes, LostTypes, QueueTypes DEF LockExpires
<1>30. CASE EntryAges(j)
  BY <1>0, <1>30, RowTypes, LostTypes, QueueTypes DEF EntryAges
<1>31. CASE InflightExpires(j)
  BY <1>0, <1>31, RowTypes, LostTypes, QueueTypes DEF InflightExpires
<1>32. CASE QueueLoops(j)
  BY <1>0, <1>32, RowTypes, LostTypes, QueueTypes DEF QueueLoops
<1>33. CASE ProviderRuns(j)
  BY <1>0, <1>33, RowTypes, LostTypes, QueueTypes DEF ProviderRuns
<1>34. CASE SubmitDies(j)
  BY <1>0, <1>34, RowTypes, LostTypes, QueueTypes DEF SubmitDies
<1>35. CASE CallDies(j)
  BY <1>0, <1>35, RowTypes, LostTypes, QueueTypes DEF CallDies
<1>36. CASE RecoveryDies(j)
  BY <1>0, <1>36, RowTypes, LostTypes, QueueTypes DEF RecoveryDies
<1>. QED BY <1>1, <1>2, <1>3, <1>4, <1>5, <1>6, <1>7, <1>8, <1>9, <1>10, <1>11,
    <1>12, <1>13, <1>14, <1>15, <1>16, <1>17, <1>18, <1>19, <1>20, <1>21, <1>22,
    <1>23, <1>24, <1>25, <1>26, <1>27, <1>28, <1>29, <1>30, <1>31, <1>32, <1>33,
    <1>34, <1>35, <1>36 DEF Outside, Submit, Client, Recovery

LEMMA WorkerTypes ==
    ASSUME Types, NEW w \in Workers, Worker(w) \/ WorkerDies(w) \/ ProcessErr(w)
    PROVE  Types'
<1>. USE DEF envVars, Queues, Reads, Writes, Bills, WorkerFrame, WAnswer, UseFault,
    NoFault, Live, Terminal, Unsubmitted, WorkerPcs
<1>0. Types /\ Job(w) \in Jobs
  BY DEF Types, WorkTypes, Job
<1>. USE DEF Types
<1>1. CASE LockJob(w)
  BY <1>0, <1>1, RowTypes, LostTypes, QueueTypes, GoTypes DEF LockJob
<1>2. CASE LockConflict(w)
  BY <1>0, <1>2, RowTypes, LostTypes, QueueTypes, GoTypes DEF LockConflict
<1>3. CASE RequeueJob(w)
  BY <1>0, <1>3, RowTypes, LostTypes, QueueTypes, GoTypes DEF RequeueJob
<1>4. CASE Route(w)
  BY <1>0, <1>4, RowTypes, LostTypes, QueueTypes, GoTypes DEF Route
<1>5. CASE SettleRead(w)
  <2>1. WorkTypes'
    BY <1>0, <1>5, ReadTypes
  <2>. QED BY <1>0, <1>5, <2>1, QueueTypes DEF SettleRead
<1>6. CASE Capture(w)
  BY <1>0, <1>6, RowTypes, LostTypes, QueueTypes, GoTypes DEF Capture
<1>7. CASE MarkSettled(w)
  BY <1>0, <1>7, RowTypes, LostTypes, QueueTypes, GoTypes DEF MarkSettled
<1>8. CASE SettleFails(w)
  BY <1>0, <1>8, RowTypes, LostTypes, QueueTypes, GoTypes DEF SettleFails
<1>9. CASE ExhaustRelease(w)
  BY <1>0, <1>9, RowTypes, LostTypes, QueueTypes, GoTypes DEF ExhaustRelease
<1>10. CASE ExhaustNote(w)
  BY <1>0, <1>10, RowTypes, LostTypes, QueueTypes, GoTypes DEF ExhaustNote
<1>11. CASE ExhaustFail(w)
  BY <1>0, <1>11, RowTypes, LostTypes, QueueTypes, GoTypes DEF ExhaustFail,
      Transition
<1>12. CASE Reread(w)
  BY <1>0, <1>12, RowTypes, LostTypes, QueueTypes, GoTypes DEF Reread
<1>13. CASE Proc(w)
  BY <1>0, <1>13, RowTypes, LostTypes, QueueTypes, GoTypes DEF Proc
<1>14. CASE Poll(w)
  <2>1. WorkTypes'
    BY <1>0, <1>14, ReadTypes
  <2>. QED BY <1>0, <1>14, <2>1, QueueTypes DEF Poll
<1>15. CASE Apply(w)
  <2>1. CASE WGo(w, "requeue") /\ NoFault /\ UNCHANGED job /\ Writes
    BY <1>0, <2>1, QueueTypes, GoTypes
  <2>2. CASE /\ wk[w].seen \in DOMAIN Verdict /\ Writes
             /\ Transition(Job(w), Verdict[wk[w].seen].status)
             /\ WAnswer(w, Verdict[wk[w].seen].next, "requeue")
    <3>1. /\ Verdict[wk[w].seen].status \in Live \cup Terminal
          /\ Verdict[wk[w].seen].next \in WorkerPcs
      BY <2>2 DEF Verdict
    <3>2. job' \in [Jobs -> Rows]
      BY <1>0, <2>2, <3>1, RowTypes DEF Transition
    <3>3. WorkTypes' /\ faults' \in 0..MaxFaults
      BY <1>0, <2>2, <3>1, GoTypes
    <3>. QED BY <1>0, <2>2, <3>2, <3>3, QueueTypes
  <2>. QED BY <1>15, <2>1, <2>2 DEF Apply
<1>16. CASE Index(w)
  <2>1. job' \in [Jobs -> Rows]
    BY <1>0, <1>16, RowStepTypes
  <2>2. WorkTypes' /\ faults' \in 0..MaxFaults /\ Writes
    BY <1>0, <1>16, GoTypes DEF Index
  <2>. QED BY <1>0, <2>1, <2>2, QueueTypes
<1>17. CASE IndexFails(w)
  BY <1>0, <1>17, RowTypes, LostTypes, QueueTypes, GoTypes DEF IndexFails,
      Transition
<1>18. CASE ToSettling(w)
  BY <1>0, <1>18, RowTypes, LostTypes, QueueTypes, GoTypes DEF ToSettling,
      Transition
<1>19. CASE TerminalRelease(w)
  BY <1>0, <1>19, RowTypes, LostTypes, QueueTypes, GoTypes DEF TerminalRelease
<1>20. CASE AckJob(w)
  BY <1>0, <1>20, RowTypes, LostTypes, QueueTypes, GoTypes DEF AckJob
<1>21. CASE Unlock(w)
  BY <1>0, <1>21, RowTypes, LostTypes, QueueTypes, GoTypes DEF Unlock
<1>22. CASE WorkerDies(w)
  BY <1>0, <1>22, RowTypes, LostTypes, QueueTypes, GoTypes DEF WorkerDies
<1>23. CASE ProcessErr(w)
  BY <1>0, <1>23, RowTypes, LostTypes, QueueTypes, GoTypes DEF ProcessErr
<1>24. CASE WorkerHeartbeat(w)
  <2>1. Heartbeat(Job(w)) /\ UNCHANGED wk /\ Queues /\ UNCHANGED faults
    BY <1>24 DEF WorkerHeartbeat
  <2>. QED BY <1>0, <2>1, QueueTypes DEF WorkTypes
<1>99. CASE \E j \in Jobs : TakeJob(w, j)
  BY <1>0, <1>99, QueueTypes DEF TakeJob, WorkTypes, Idle, ProviderStates
<1>. QED BY <1>99, <1>1, <1>2, <1>3, <1>4, <1>5, <1>6, <1>7, <1>8, <1>9, <1>10,
    <1>11, <1>12, <1>13, <1>14, <1>15, <1>16, <1>17, <1>18, <1>19, <1>20, <1>21,
    <1>22, <1>23, <1>24 DEF Worker

-----------------------------------------------------------------------------
(* What a step does to the holds and to the locks *)

LEMMA OutsideHold == ASSUME NEW j \in Jobs, Outside(j) PROVE HoldMove
<1>. USE DEF HoldMove
<1>1. CASE Submit(j)
  BY <1>1 DEF Submit, CreateJob, SubmitReserve, SubmitItems, SubmitUpload,
      SubmitProvider, SubmitHeartbeat, SubmitRecord, SubmitAbort, SubmitEnqueue,
      SubmitNote, SubmitRelease, SubmitFail, SubmitHide, SubmitRetry
<1>2. CASE Client(j)
  BY <1>2 DEF Client, Cancel, Resubmit, Call, CancelProvider, CallEnqueue,
      CallNote, CancelTransition, CancelRelease, CancelRetry, HideRecord,
      CleanupOutput
<1>. QED BY <1>1, <1>2 DEF Outside, Recovery, FailStale, RecoveryRelease,
    RecoveryRetry, RowAges, LockExpires, EntryAges, InflightExpires, QueueLoops,
    ProviderRuns, SubmitDies, CallDies, RecoveryDies

\* A worker captures only what was held.
LEMMA WorkerHold ==
    ASSUME IInv, NEW w \in Workers, Worker(w) \/ WorkerDies(w) \/ ProcessErr(w)
    PROVE  HoldMove
<1>0. Job(w) \in Jobs /\ wk[w].cost \in 0..HoldAmount
  BY DEF IInv, TypeOK, Job
<1>1. CASE Capture(w)
  <2>1. "hold" \in claims[Job(w)]
    BY <1>0, <1>1 DEF Capture, IInv, WorkerInv, Charging, JobInv, Held, At
  <2>2. CASE CaptureHold(Job(w), wk[w].cost)
    BY <1>0, <2>1, <2>2 DEF HoldMove
  <2>3. CASE UNCHANGED holdVars
    BY <2>3 DEF HoldMove
  <2>. QED BY <1>1, <2>2, <2>3 DEF Capture
<1>2. CASE ExhaustRelease(w) \/ TerminalRelease(w)
  BY <1>0, <1>2 DEF HoldMove, ExhaustRelease, TerminalRelease
<1>3. CASE Queues \/ Reads \/ Writes
  BY <1>3 DEF HoldMove, Queues, Reads, Writes
<1>4. Capture(w) \/ ExhaustRelease(w) \/ TerminalRelease(w) \/ Queues \/ Reads \/ Writes
  BY DEF Worker, TakeJob, LockJob, LockConflict, Route, SettleRead, MarkSettled,
      SettleFails, ExhaustNote, ExhaustFail, Reread, Proc, Poll, Apply, Index,
      IndexFails, ToSettling, AckJob, RequeueJob, Unlock, WorkerHeartbeat,
      WorkerDies, ProcessErr
<1>. QED BY <1>1, <1>2, <1>3, <1>4

\* Outside the workers, a lock only expires, and the fault is remembered when its
\* holder is at work.
LEMMA OutsideLocks ==
    ASSUME IInv, NEW j \in Jobs, Outside(j), NEW v \in Workers
    PROVE  \/ lock'[Job(v)] = lock[Job(v)] \/ lock[Job(v)] # v
           \/ LockLost(Job(v))' \/ ~HoldsLock(v)
<1>0. QueueTypeOK /\ Queued(j) /\ JobTypes
  BY TypeParts DEF IInv, TypeOK, JobInv
<1>1. CASE LockExpires(j)
  <2>1. LockTTL(j)
    BY <1>1 DEF LockExpires
  <2>2. CASE Job(v) = j /\ lock[j] = v /\ HoldsLock(v)
    <3>1. Broken(j, "lock")
      BY <1>1, <2>2 DEF LockExpires
    <3>. QED BY <1>0, <1>1, <2>2, <3>1, BrokenEffect DEF LockLost, LockExpires, Job,
        procVars
  <2>3. Job(v) \in Jobs
    BY DEF IInv, TypeOK, Job
  <2>. QED BY <1>0, <2>1, <2>2, <2>3 DEF LockTTL, QueueTypeOK
<1>2. CASE UNCHANGED queueVars
  BY <1>2 DEF queueVars
<1>3. CASE Enqueue(j)
  BY <1>0, <1>3, EnqueueEffect
<1>4. CASE EntryAges(j) \/ QueueLoops(j)
  BY <1>0, <1>4, MoveEffect DEF EntryAges, QueueLoops
<1>5. CASE InflightExpires(j)
  BY <1>5 DEF InflightExpires, InflightTTL
<1>6. \/ LockExpires(j) \/ EntryAges(j) \/ QueueLoops(j) \/ InflightExpires(j)
      \/ Enqueue(j) \/ UNCHANGED queueVars
  <2>1. CASE Submit(j)
    BY <2>1 DEF Submit, CreateJob, SubmitReserve, SubmitItems, SubmitUpload,
        SubmitProvider, SubmitHeartbeat, SubmitRecord, SubmitAbort, SubmitEnqueue,
        SubmitNote, SubmitRelease, SubmitFail, SubmitHide, SubmitRetry, RetryQueue
  <2>2. CASE Client(j)
    BY <2>2 DEF Client, Cancel, Resubmit, Call, CancelProvider, CallEnqueue,
        CallNote, CancelTransition, CancelRelease, CancelRetry, HideRecord,
        CleanupOutput, RetryQueue
  <2>. QED BY <2>1, <2>2 DEF Outside, Recovery, FailStale, RecoveryRelease,
      RecoveryRetry, RowAges, ProviderRuns, SubmitDies, CallDies, RecoveryDies,
      RetryQueue
<1>. QED BY <1>1, <1>2, <1>3, <1>4, <1>5, <1>6

-----------------------------------------------------------------------------
(* The invariant is inductive *)

\* Nothing happens to any job.
Still == (\A k \in Jobs : SameBut(k, {})) /\ UNCHANGED <<wk, lock>>

LEMMA StillStep ==
    ASSUME IInv, Still
    PROVE  /\ \A k \in Jobs : JobInv(k)' /\ Stable(k) /\ Untouched(k)'
           /\ \A v \in Workers : WorkerInv(v)'
<1>1. \A k \in Jobs : JobInv(k)' /\ Stable(k) /\ Quiet(k) /\ Untouched(k)'
  BY SameKeeps, UntouchedKeeps DEF IInv, Still
<1>2. ASSUME NEW v \in Workers PROVE WorkerInv(v)'
  <2>1. Job(v) \in Jobs
    BY DEF IInv, TypeOK, Job
  <2>. QED BY <1>1, <2>1, Bystander DEF IInv, Still
<1>. QED BY <1>1, <1>2

LEMMA NextStep ==
    ASSUME IInv, Next
    PROVE  /\ \A k \in Jobs : JobInv(k)' /\ Stable(k) /\ Untouched(k)'
           /\ \A v \in Workers : WorkerInv(v)'
           /\ HoldMove
           /\ Types'
<1>0. Types /\ \A v \in Workers : Job(v) \in Jobs
  BY DEF IInv, TypeOK, Types, WorkTypes, Job
<1>1. ASSUME NEW j \in Jobs, Outside(j)
      PROVE  /\ \A k \in Jobs : JobInv(k)' /\ Stable(k) /\ Untouched(k)'
             /\ \A v \in Workers : WorkerInv(v)'
             /\ HoldMove
             /\ Types'
  <2>1. \A k \in Jobs : JobInv(k)' /\ Stable(k) /\ Quiet(k) /\ Untouched(k)'
    BY <1>1, OutsideStep DEF Fine
  <2>2. UNCHANGED wk
    BY <1>1, OutsideIdle
  <2>3. ASSUME NEW v \in Workers PROVE WorkerInv(v)'
    <3>1. \/ lock'[Job(v)] = lock[Job(v)] \/ lock[Job(v)] # v
          \/ LockLost(Job(v))' \/ ~HoldsLock(v)
      BY <1>1, OutsideLocks
    <3>. QED BY <1>0, <2>1, <2>2, <3>1, Bystander DEF IInv
  <2>4. HoldMove
    BY <1>1, OutsideHold
  <2>5. Types'
    BY <1>0, <1>1, <2>2, OutsideTypes
  <2>. QED BY <2>1, <2>3, <2>4, <2>5
<1>2. ASSUME NEW w \in Workers, Worker(w) \/ WorkerDies(w) \/ ProcessErr(w)
      PROVE  /\ \A k \in Jobs : JobInv(k)' /\ Stable(k) /\ Untouched(k)'
             /\ \A v \in Workers : WorkerInv(v)'
             /\ HoldMove
             /\ Types'
  <2>1. WorkerFine(w)
    BY <1>2, WorkerStep
  <2>2. ASSUME NEW v \in Workers, v # w PROVE WorkerInv(v)'
    <3>1. wk'[v] = wk[v] /\ WorkerInv(v) /\ WorkerInv(w) /\ Stable(Job(v))
      BY <1>0, <2>1, <2>2 DEF WorkerFine, Elsewhere, IInv
    <3>2. lock'[Job(v)] = lock[Job(v)] \/ lock[Job(v)] # v
      BY <1>0, <2>1, <2>2 DEF WorkerFine, Elsewhere
    <3>3. HoldsLock(v) => Quiet(Job(v)) \/ LockLost(Job(v))
      BY <1>0, <2>1, <2>2, <3>1 DEF WorkerFine, WorkerInv, LockHeld
    <3>. QED BY <3>1, <3>2, <3>3, Bystander
  <2>3. HoldMove
    BY <1>2, WorkerHold
  <2>4. Types'
    BY <1>0, <1>2, WorkerTypes
  <2>. QED BY <2>1, <2>2, <2>3, <2>4 DEF WorkerFine
<1>3. CASE CreditExpires
  <2>1. HoldMove
    BY <1>3 DEF CreditExpires, HoldMove
  <2>2. Still
    BY <1>3 DEF CreditExpires, CreditLapses, Still, SameBut, HoldKept, QueueKept,
        InQueue, procVars, envVars, queueVars
  <2>3. Types'
    BY <1>0, <1>3 DEF CreditExpires, Types, WorkTypes, QueueTypeOK, UseFault,
        procVars, envVars, queueVars
  <2>. QED BY <2>1, <2>2, <2>3, StillStep
<1>. QED BY <1>1, <1>2, <1>3 DEF Next, Outside, Faults

LEMMA Inductive == IInv /\ [Next]_vars => IInv'
<1>. SUFFICES ASSUME IInv, [Next]_vars PROVE IInv'
  OBVIOUS
<1>1. HoldBooks
  BY DEF IInv, TypeOK, HoldBooks
<1>2. CASE Next
  <2>1. HoldBooks'
    BY <1>1, <1>2, NextStep, HoldStep
  <2>2. /\ \A k \in Jobs : JobInv(k)' /\ Untouched(k)'
        /\ \A v \in Workers : WorkerInv(v)'
        /\ Types'
    BY <1>2, NextStep
  <2>3. TypeOK'
    BY <2>1, <2>2 DEF HoldBooks, Types, WorkTypes, TypeOK
  <2>. QED BY <2>1, <2>2, <2>3 DEF IInv, HoldBooks
<1>3. CASE UNCHANGED vars
  <2>1. Still
    BY <1>3 DEF vars, Still, SameBut, HoldKept, QueueKept, InQueue, procVars, envVars,
        queueVars, holdVars
  <2>2. /\ \A k \in Jobs : JobInv(k)' /\ Untouched(k)'
        /\ \A v \in Workers : WorkerInv(v)'
    BY <2>1, StillStep
  <2>3. HoldBooks'
    BY <1>1, <1>3, HoldStep DEF HoldMove, vars
  <2>4. TypeOK'
    BY <1>3, <2>3 DEF IInv, TypeOK, HoldBooks, QueueTypeOK, vars, procVars, envVars,
        queueVars
  <2>. QED BY <2>2, <2>3, <2>4 DEF IInv, HoldBooks
<1>. QED BY <1>2, <1>3

LEMMA Initially == Init => IInv
<1>. SUFFICES ASSUME Init PROVE IInv
  OBVIOUS
<1>. USE DEF Init, QueueInit, HoldInit
<1>1. HoldTypeOK /\ BalanceCoversCredit
  <2>1. PICK f \in Funds :
            /\ balance = f[1] + f[2]
            /\ lot = [remaining |-> f[2], reserved |-> 0, expired |-> FALSE]
    OBVIOUS
  <2>2. f[1] \in Nat /\ f[2] \in Nat
    BY <2>1
  <2>3. lot \in Lots /\ balance \in Int /\ balance >= lot.remaining
    BY <2>1, <2>2 DEF Lots
  <2>4. lapsed \in BOOLEAN
    OBVIOUS
  <2>5. /\ claims \in [Jobs -> SUBSET {"hold", "capture", "release"}]
        /\ alloc \in [Jobs -> 0..HoldAmount] /\ net \in [Jobs -> Int]
        /\ charge \in [Jobs -> 0..HoldAmount] /\ frozen \in Nat
    OBVIOUS
  <2>. QED BY <2>3, <2>4, <2>5 DEF HoldTypeOK, BalanceCoversCredit
<1>2. TypeOK
  <2>1. wk \in [Workers -> [pc : WorkerPcs, job : Jobs, cost : 0..HoldAmount,
                            seen : ProviderStates \cup {"check", "billing"}]]
    BY DEF Idle, WorkerPcs, ProviderStates
  <2>2. job \in [Jobs -> Rows]
    BY DEF Rows
  <2>. QED BY <1>1, <2>1, <2>2 DEF TypeOK, QueueTypeOK, ProviderStates
<1>3. LotBooks
  <2>1. Allotted = {}
    BY DEF Allotted
  <2>2. lot.reserved = 0 /\ lot.expired = FALSE
    OBVIOUS
  <2>. QED BY <2>1, <2>2, FS_EmptySet DEF LotBooks
<1>4. ASSUME NEW j \in Jobs PROVE Untouched(j) /\ Books(j)
  BY DEF Untouched, Books, InQueue, Job, At, Idle
<1>5. ASSUME NEW j \in Jobs PROVE JobInv(j)
  <2>1. /\ job[j].status = "absent" /\ ~job[j].named /\ claims[j] = {} /\ net[j] = 0
        /\ sub[j] = "none" /\ can[j] = "idle" /\ rec[j] = "idle" /\ prov[j] = "none"
        /\ queued = {} /\ inflight = {}
    OBVIOUS
  <2>. QED BY <2>1 DEF JobInv, Recorded, Held, Charged, Provided, Released, Settled,
      Queued, FailedOwed, BeforeRecord, BeforeProvider, Early, Live, Unsubmitted
<1>6. ASSUME NEW w \in Workers PROVE WorkerInv(w)
  <2>1. wk[w].pc = "idle"
    BY DEF Idle
  <2>. QED BY <2>1 DEF WorkerInv, LockHeld, Positions, Charging, Answered,
      TakenIsQueued, HoldsLock, InProcess, At
<1>. QED BY <1>1, <1>2, <1>3, <1>4, <1>5, <1>6 DEF IInv

\* Every state of the specification satisfies the inductive invariant.
LEMMA Invariant == Spec => []IInv
BY Initially, Inductive, PTL DEF Spec

-----------------------------------------------------------------------------
(* The frozen balance *)

Holders == {j \in Jobs : net[j] > 0}
Overdrawn == {j \in Jobs : net[j] < 0}

\* A job has its hold in the frozen balance, has nothing in it, or took out a
\* second one.  It does the last only when it captured and released.
Position(j) ==
    /\ net[j] \in {-HoldAmount, 0, HoldAmount}
    /\ "capture" \in claims[j] => "hold" \in claims[j] /\ net[j] <= 0
    /\ "capture" \in claims[j] /\ "release" \notin claims[j] => net[j] = 0

\* The frozen balance is what the holders put in, less what was overdrawn.
FrozenBooks ==
    /\ IsFiniteSet(Holders) /\ IsFiniteSet(Overdrawn)
    /\ frozen + HoldAmount * Cardinality(Overdrawn) =
           OtherFrozen + HoldAmount * Cardinality(Holders)

\* Multiples of the hold.
LEMMA Multiples ==
    \A c \in Nat : /\ HoldAmount * (c + 1) = HoldAmount * c + HoldAmount
                   /\ HoldAmount * c \in Nat
OBVIOUS

\* One element more in a finite set, and one less.
LEMMA OneMore ==
    ASSUME NEW S, NEW T, NEW x, IsFiniteSet(S), x \notin S, T = S \cup {x}
    PROVE  IsFiniteSet(T) /\ Cardinality(S) \in Nat
           /\ HoldAmount * Cardinality(T) = HoldAmount * Cardinality(S) + HoldAmount
<1>1. IsFiniteSet(T) /\ Cardinality(T) = Cardinality(S) + 1
  BY FS_AddElement
<1>2. Cardinality(S) \in Nat
  BY FS_CardinalityType
<1>. QED BY <1>1, <1>2, Multiples

LEMMA OneLess ==
    ASSUME NEW S, NEW T, NEW x, IsFiniteSet(S), x \in S, T = S \ {x}
    PROVE  IsFiniteSet(T) /\ Cardinality(T) \in Nat
           /\ HoldAmount * Cardinality(S) = HoldAmount * Cardinality(T) + HoldAmount
<1>1. IsFiniteSet(T)
  BY FS_RemoveElement
<1>2. x \notin T /\ S = T \cup {x}
  OBVIOUS
<1>. QED BY <1>1, <1>2, OneMore

\* A hold is put in.
LEMMA PutIn ==
    ASSUME FrozenBooks, HoldTypeOK, NEW j \in Jobs, net[j] = 0,
           net' = [net EXCEPT ![j] = HoldAmount], frozen' = frozen + HoldAmount
    PROVE  FrozenBooks'
<1>1. net \in [Jobs -> Int] /\ frozen \in Nat
  BY DEF HoldTypeOK
<1>2. Holders' = Holders \cup {j} /\ j \notin Holders /\ Overdrawn' = Overdrawn
  BY <1>1 DEF Holders, Overdrawn
<1>3. /\ IsFiniteSet(Holders')
      /\ HoldAmount * Cardinality(Holders') = HoldAmount * Cardinality(Holders) + HoldAmount
      /\ Cardinality(Holders) \in Nat
  BY <1>2, OneMore DEF FrozenBooks
<1>4. Cardinality(Overdrawn) \in Nat
  BY FS_CardinalityType DEF FrozenBooks
<1>5. /\ HoldAmount * Cardinality(Overdrawn) \in Nat
      /\ HoldAmount * Cardinality(Holders) \in Nat
  BY <1>3, <1>4, Multiples
<1>. QED BY <1>1, <1>2, <1>3, <1>5 DEF FrozenBooks

\* A hold is taken out, by its holder or by a job that has none.
LEMMA TakeOut ==
    ASSUME FrozenBooks, HoldTypeOK, NEW j \in Jobs, net[j] \in {0, HoldAmount},
           net' = [net EXCEPT ![j] = @ - HoldAmount], frozen' = frozen - HoldAmount
    PROVE  FrozenBooks'
<1>1. net \in [Jobs -> Int] /\ frozen \in Nat
  BY DEF HoldTypeOK
<1>2. Cardinality(Holders) \in Nat /\ Cardinality(Overdrawn) \in Nat
  BY FS_CardinalityType DEF FrozenBooks
<1>3. /\ HoldAmount * Cardinality(Overdrawn) \in Nat
      /\ HoldAmount * Cardinality(Holders) \in Nat
  BY <1>2, Multiples
<1>4. CASE net[j] = HoldAmount
  <2>1. Holders' = Holders \ {j} /\ j \in Holders /\ Overdrawn' = Overdrawn
    BY <1>1, <1>4 DEF Holders, Overdrawn
  <2>2. /\ IsFiniteSet(Holders') /\ Cardinality(Holders') \in Nat
        /\ HoldAmount * Cardinality(Holders) = HoldAmount * Cardinality(Holders') + HoldAmount
    BY <2>1, OneLess DEF FrozenBooks
  <2>3. HoldAmount * Cardinality(Holders') \in Nat
    BY <2>2, Multiples
  <2>4. frozen + HoldAmount * Cardinality(Overdrawn) =
            OtherFrozen + (HoldAmount * Cardinality(Holders') + HoldAmount)
    BY <2>2 DEF FrozenBooks
  <2>5. frozen' + HoldAmount * Cardinality(Overdrawn) =
            OtherFrozen + HoldAmount * Cardinality(Holders')
    BY <1>1, <1>3, <2>3, <2>4
  <2>. QED BY <2>1, <2>2, <2>5 DEF FrozenBooks
<1>5. CASE net[j] = 0
  <2>1. Overdrawn' = Overdrawn \cup {j} /\ j \notin Overdrawn /\ Holders' = Holders
    BY <1>1, <1>5 DEF Holders, Overdrawn
  <2>2. /\ IsFiniteSet(Overdrawn')
        /\ HoldAmount * Cardinality(Overdrawn') =
               HoldAmount * Cardinality(Overdrawn) + HoldAmount
    BY <2>1, OneMore DEF FrozenBooks
  <2>. QED BY <1>1, <1>3, <2>1, <2>2 DEF FrozenBooks
<1>. QED BY <1>4, <1>5

\* Settling takes the hold of its job out, or nothing when the job's credit
\* allocation is spent.
LEMMA SettleMove ==
    ASSUME HoldBooks, FrozenBooks, NEW j \in Jobs, NEW c \in 0..HoldAmount,
           net[j] \in {0, HoldAmount}, Settle(j, c)
    PROVE  /\ FrozenBooks'
           /\ net' = [net EXCEPT ![j] = net'[j]]
           /\ j \in rewarded => net'[j] = 0
           /\ j \notin rewarded => net'[j] = net[j] - HoldAmount
<1>1. HoldTypeOK /\ net \in [Jobs -> Int] /\ frozen \in Nat /\ Books(j)
  BY DEF HoldBooks, HoldTypeOK
<1>2. CASE j \notin rewarded
  <2>1. /\ net' = [net EXCEPT ![j] = @ - HoldAmount]
        /\ frozen' = frozen - HoldAmount
    BY <1>2 DEF Settle, SettleAccount
  <2>2. FrozenBooks'
    BY <1>1, <2>1, TakeOut
  <2>. QED BY <1>1, <1>2, <2>1, <2>2
<1>3. CASE j \in rewarded
  <2>1. alloc[j] = net[j]
    BY <1>1, <1>3 DEF Books
  <2>2. net' = [net EXCEPT ![j] = @ - alloc[j]] /\ frozen' = frozen - alloc[j]
    BY <1>3 DEF Settle, SettleReward
  <2>3. CASE net[j] = HoldAmount
    <3>1. FrozenBooks'
      BY <1>1, <2>1, <2>2, <2>3, TakeOut
    <3>. QED BY <1>1, <1>3, <2>1, <2>2, <2>3, <3>1
  <2>4. CASE net[j] = 0
    <3>1. net' = net /\ frozen' = frozen
      BY <1>1, <2>1, <2>2, <2>4
    <3>2. FrozenBooks'
      BY <3>1 DEF FrozenBooks, Holders, Overdrawn
    <3>. QED BY <1>1, <1>3, <2>4, <3>1, <3>2
  <2>. QED BY <2>3, <2>4
<1>. QED BY <1>2, <1>3

\* Every step of the holds keeps the account of the frozen balance.
LEMMA FrozenStep ==
    ASSUME HoldBooks, FrozenBooks, \A j \in Jobs : Position(j), HoldMove
    PROVE  FrozenBooks' /\ \A j \in Jobs : Position(j)'
<1>0. /\ HoldTypeOK /\ net \in [Jobs -> Int] /\ frozen \in Nat
      /\ claims \in [Jobs -> SUBSET {"hold", "capture", "release"}]
  BY DEF HoldBooks, HoldTypeOK
<1>1. CASE UNCHANGED holdVars \/ CreditLapses
  BY <1>1 DEF holdVars, CreditLapses, FrozenBooks, Holders, Overdrawn, Position
<1>2. ASSUME NEW j \in Jobs, ReserveHold(j)
      PROVE  FrozenBooks' /\ \A k \in Jobs : Position(k)'
  <2>1. "hold" \notin claims[j] /\ net[j] = 0 /\ "capture" \notin claims[j]
    BY <1>2 DEF ReserveHold, HoldBooks, Books, Position
  <2>2. /\ claims' = [claims EXCEPT ![j] = @ \cup {"hold"}]
        /\ net' = [net EXCEPT ![j] = HoldAmount] /\ frozen' = frozen + HoldAmount
    <3>1. /\ claims' = [claims EXCEPT ![j] = @ \cup {"hold"}]
          /\ net' = [net EXCEPT ![j] = net[j] + HoldAmount]
          /\ frozen' = frozen + HoldAmount
      BY <1>2 DEF ReserveHold, Claim
    <3>2. net[j] + HoldAmount = HoldAmount
      BY <2>1
    <3>. QED BY <3>1, <3>2
  <2>3. FrozenBooks'
    BY <1>0, <2>1, <2>2, PutIn
  <2>4. ASSUME NEW k \in Jobs PROVE Position(k)'
    BY <1>0, <2>1, <2>2 DEF Position
  <2>. QED BY <2>3, <2>4
<1>3. ASSUME NEW j \in Jobs, ReleaseHold(j)
      PROVE  FrozenBooks' /\ \A k \in Jobs : Position(k)'
  <2>1. CASE UNCHANGED holdVars
    BY <1>1, <2>1
  <2>2. CASE /\ claims[j] \cap {"hold", "release"} = {} /\ Claim(j, "release")
             /\ UNCHANGED <<net, frozen>>
    <3>1. FrozenBooks'
      BY <2>2 DEF FrozenBooks, Holders, Overdrawn
    <3>2. ASSUME NEW k \in Jobs PROVE Position(k)'
      BY <1>0, <2>2 DEF Position, Claim
    <3>. QED BY <3>1, <3>2
  <2>3. CASE /\ claims[j] \cap {"hold", "release"} = {"hold"} /\ Settle(j, 0)
             /\ Claim(j, "release")
    <3>1. "hold" \in claims[j] /\ "release" \notin claims[j]
      BY <2>3
    <3>2. CASE "capture" \in claims[j]
      <4>1. net[j] = 0
        BY <3>1, <3>2 DEF Position
      <4>2. FrozenBooks' /\ net' = [net EXCEPT ![j] = net'[j]]
            /\ net'[j] \in {-HoldAmount, 0}
        BY <1>0, <2>3, <4>1, SettleMove
      <4>3. claims' = [claims EXCEPT ![j] = @ \cup {"release"}]
        BY <2>3 DEF Claim
      <4>4. ASSUME NEW k \in Jobs PROVE Position(k)'
        <5>1. CASE k = j
          BY <1>0, <3>1, <4>2, <4>3, <5>1 DEF Position
        <5>2. CASE k # j
          <6>1. net'[k] = net[k] /\ claims'[k] = claims[k]
            BY <1>0, <4>2, <4>3, <5>2
          <6>. QED BY <6>1 DEF Position
        <5>. QED BY <5>1, <5>2
      <4>. QED BY <4>2, <4>4
    <3>3. CASE "capture" \notin claims[j]
      <4>1. claims[j] = {"hold"}
        BY <1>0, <3>1, <3>3
      <4>2. net[j] = HoldAmount
        BY <4>1 DEF HoldBooks, Books
      <4>3. FrozenBooks' /\ net' = [net EXCEPT ![j] = net'[j]] /\ net'[j] = 0
        BY <1>0, <2>3, <4>2, SettleMove
      <4>4. claims' = [claims EXCEPT ![j] = @ \cup {"release"}]
        BY <2>3 DEF Claim
      <4>5. ASSUME NEW k \in Jobs PROVE Position(k)'
        <5>1. CASE k = j
          BY <1>0, <4>1, <4>3, <4>4, <5>1 DEF Position
        <5>2. CASE k # j
          <6>1. net'[k] = net[k] /\ claims'[k] = claims[k]
            BY <1>0, <4>3, <4>4, <5>2
          <6>. QED BY <6>1 DEF Position
        <5>. QED BY <5>1, <5>2
      <4>. QED BY <4>3, <4>5
    <3>. QED BY <3>2, <3>3
  <2>. QED BY <1>3, <2>1, <2>2, <2>3 DEF ReleaseHold
<1>4. ASSUME NEW j \in Jobs, "hold" \in claims[j], NEW c \in 0..HoldAmount,
             CaptureHold(j, c)
      PROVE  FrozenBooks' /\ \A k \in Jobs : Position(k)'
  <2>1. CASE UNCHANGED holdVars
    BY <1>1, <2>1
  <2>2. CASE /\ "capture" \notin claims[j] /\ Settle(j, c) /\ Claim(j, "capture")
    <3>1. net[j] \in {0, HoldAmount}
      BY <2>2 DEF Position, HoldBooks, Books
    <3>2. "release" \notin claims[j] => net[j] = HoldAmount
      <4>1. "release" \notin claims[j] => claims[j] = {"hold"}
        BY <1>0, <1>4, <2>2
      <4>. QED BY <4>1 DEF HoldBooks, Books
    <3>3. /\ FrozenBooks' /\ net' = [net EXCEPT ![j] = net'[j]]
          /\ net'[j] \in {-HoldAmount, 0}
          /\ "release" \notin claims[j] => net'[j] = 0
      BY <1>0, <2>2, <3>1, <3>2, SettleMove
    <3>4. claims' = [claims EXCEPT ![j] = @ \cup {"capture"}]
      BY <2>2 DEF Claim
    <3>5. ASSUME NEW k \in Jobs PROVE Position(k)'
      <4>1. CASE k = j
        BY <1>0, <1>4, <3>3, <3>4, <4>1 DEF Position
      <4>2. CASE k # j
        <5>1. net'[k] = net[k] /\ claims'[k] = claims[k]
          BY <1>0, <3>3, <3>4, <4>2
        <5>. QED BY <5>1 DEF Position
      <4>. QED BY <4>1, <4>2
    <3>. QED BY <3>3, <3>5
  <2>. QED BY <1>4, <2>1, <2>2 DEF CaptureHold
<1>. QED BY <1>1, <1>2, <1>3, <1>4 DEF HoldMove

\* The frozen balance is accounted for in every state.
LEMMA FrozenInvariant == Spec => [](FrozenBooks /\ \A j \in Jobs : Position(j))
<1>1. Init => FrozenBooks /\ \A j \in Jobs : Position(j)
  <2>. SUFFICES ASSUME Init PROVE FrozenBooks /\ \A j \in Jobs : Position(j)
    OBVIOUS
  <2>1. /\ net = [j \in Jobs |-> 0] /\ claims = [j \in Jobs |-> {}]
        /\ frozen = OtherFrozen
    BY DEF Init, HoldInit
  <2>2. Holders = {} /\ Overdrawn = {}
    BY <2>1 DEF Holders, Overdrawn
  <2>. QED BY <2>1, <2>2, FS_EmptySet DEF FrozenBooks, Position
<1>2. IInv /\ FrozenBooks /\ (\A j \in Jobs : Position(j)) /\ [Next]_vars
        => (FrozenBooks /\ \A j \in Jobs : Position(j))'
  <2>. SUFFICES ASSUME IInv, FrozenBooks, \A j \in Jobs : Position(j), [Next]_vars
                PROVE  FrozenBooks' /\ \A j \in Jobs : Position(j)'
    OBVIOUS
  <2>1. HoldBooks
    BY DEF IInv, TypeOK, HoldBooks
  <2>2. HoldMove
    BY NextStep DEF HoldMove, vars
  <2>. QED BY <2>1, <2>2, FrozenStep
<1>. QED BY <1>1, <1>2, Invariant, PTL DEF Spec

-----------------------------------------------------------------------------
(* Theorems *)

\* The types of TypeOK hold throughout.
THEOREM BatchTypes == Spec => []TypeOK
<1>1. IInv => TypeOK
  BY DEF IInv
<1>. QED BY <1>1, Invariant, PTL

\* A completed job is charged once, the price of the images it shows, whichever
\* of several workers settled it (Settle, ReplaceBatchImageItemsForJob).
THEOREM CompletedCharged == Spec => []CompletedIsCharged
<1>1. IInv => CompletedIsCharged
  BY DEF IInv, JobInv, Charged, CompletedIsCharged
<1>. QED BY <1>1, Invariant, PTL

\* A job takes out of the frozen balance at most what it put in, as long as no
\* stalled worker lost its lock, no committed capture was called again in vain
\* and no late note hid that the settlement was given up; and never more than one
\* hold on top.
THEOREM TakenOnce == Spec => []HoldTakenOnce
<1>1. IInv /\ (\A j \in Jobs : Position(j)) => HoldTakenOnce
  <2>. SUFFICES ASSUME IInv, NEW j \in Jobs, Position(j)
                PROVE  \/ net[j] >= 0
                       \/ /\ lost[j] \cap {"lock", "capture", "note"} # {}
                          /\ net[j] + HoldAmount >= 0
    BY DEF HoldTakenOnce
  <2>1. net[j] >= 0 \/ lost[j] \cap {"lock", "capture", "note"} # {}
    BY DEF IInv, JobInv, Settled, Noted, Excused, Books
  <2>2. net[j] \in Int /\ net[j] + HoldAmount >= 0
    BY DEF Position
  <2>. QED BY <2>1, <2>2
<1>. QED BY <1>1, Invariant, FrozenInvariant, PTL

\* A hold that is outstanding can be captured or released in full, whatever the
\* user's other jobs did: as long as no job took twice, the frozen balance holds
\* every outstanding amount, and the credit what was reserved of it.
THEOREM HoldsFunded == Spec => []HoldsAreFunded
<1>1. IInv /\ FrozenBooks /\ (\A j \in Jobs : Position(j)) => HoldsAreFunded
  <2>. SUFFICES ASSUME IInv, FrozenBooks, \A j \in Jobs : Position(j),
                       \A j \in Jobs : lost[j] \cap {"lock", "capture", "note"} = {},
                       NEW j \in Jobs, net[j] > 0
                PROVE  CanSettle(j, HoldAmount)
    BY DEF HoldsAreFunded
  <2>0. frozen \in Nat /\ net \in [Jobs -> Int] /\ Books(j)
    BY DEF IInv, TypeOK, HoldTypeOK
  <2>1. net[j] = HoldAmount
    BY <2>0 DEF Position
  <2>2. \A k \in Jobs : net[k] >= 0
    BY DEF IInv, Books, JobInv, Settled, Noted, Excused
  <2>3. Overdrawn = {}
    BY <2>0, <2>2 DEF Overdrawn
  <2>4. HoldAmount * Cardinality(Overdrawn) = 0
    BY <2>3, FS_EmptySet
  <2>5. j \in Holders
    BY DEF Holders
  <2>6. /\ Cardinality(Holders \ {j}) \in Nat
        /\ HoldAmount * Cardinality(Holders) =
               HoldAmount * Cardinality(Holders \ {j}) + HoldAmount
    BY <2>5, OneLess DEF FrozenBooks
  <2>7. HoldAmount * Cardinality(Holders \ {j}) \in Nat
    BY <2>6, Multiples
  <2>8. frozen >= HoldAmount
    BY <2>0, <2>4, <2>6, <2>7 DEF FrozenBooks
  <2>9. j \in rewarded => alloc[j] = HoldAmount
    BY <2>0, <2>1 DEF Books
  <2>. QED BY <2>8, <2>9 DEF CanSettle
<1>. QED BY <1>1, Invariant, FrozenInvariant, PTL

\* A failed or cancelled job is not charged, with the first two exceptions.
THEOREM FailedFree == Spec => []FailedIsFree
<1>1. IInv => FailedIsFree
  BY DEF IInv, JobInv, Settled, Excused, FailedIsFree
<1>. QED BY <1>1, Invariant, PTL

\* Whatever dies between the queue's operations, a job whose in-flight key keeps
\* it from being pushed again is where a worker finds it (Enqueue).
THEOREM InflightQueued == Spec => []InflightIsQueued
<1>1. IInv => InflightIsQueued
  <2>. SUFFICES ASSUME IInv, NEW j \in inflight PROVE InQueue(j)
    BY DEF InflightIsQueued
  <2>1. j \in Jobs
    BY DEF IInv, TypeOK, QueueTypeOK
  <2>. QED BY <2>1 DEF IInv, JobInv, Queued
<1>. QED BY <1>1, Invariant, PTL

\* A job that was queued once stays queued while it runs, unless a stalled worker
\* acknowledged it.
THEOREM LiveQueued == Spec => []LiveIsQueued
<1>1. IInv => LiveIsQueued
  <2>. SUFFICES ASSUME IInv, NEW j \in queued, job[j].status \in Live
                PROVE  InQueue(j) \/ "lock" \in lost[j]
    BY DEF LiveIsQueued
  <2>1. j \in Jobs
    BY DEF IInv, TypeOK
  <2>. QED BY <2>1 DEF IInv, JobInv, Queued, LockLost
<1>. QED BY <1>1, Invariant, PTL

\* The hold of a failed or cancelled job is on its way back or was given back,
\* unless a stalled worker interfered or, for a job that was never queued to be run,
\* a handler died owing it.
THEOREM FailedReturns == Spec => []HoldOfFailedReturns
<1>1. IInv => HoldOfFailedReturns
  BY DEF IInv, JobInv, FailedOwed, Owed, LockLost, ReleaseIsDue, HoldOfFailedReturns
<1>. QED BY <1>1, Invariant, PTL

\* The balance covers what is left of the reward credit, through any sequence of
\* holds, captures, releases and expiries (settleBatchImageRewardAllocations).
THEOREM CreditCovered == Spec => []BalanceCoversCredit
<1>1. IInv => BalanceCoversCredit
  BY DEF IInv
<1>. QED BY <1>1, Invariant, PTL

\* While the provider works on a recorded batch, its hold stays, unless the user
\* cancelled.
THEOREM HoldStays == Spec => []HoldStaysWhileRunning
<1>1. IInv => HoldStaysWhileRunning
  <2>. SUFFICES ASSUME IInv, NEW j \in Jobs, job[j].named,
                       prov[j] \in ProviderLive, job[j].status # "cancelled"
                PROVE  net[j] = HoldAmount
    BY DEF HoldStaysWhileRunning
  <2>1. JobInv(j) /\ Books(j) /\ job[j] \in Rows
        /\ claims[j] \subseteq {"hold", "capture", "release"}
    BY DEF IInv, TypeOK, HoldTypeOK
  <2>2. job[j].status \notin {"failed", "indexing", "settling", "completed",
                             "output_deleted"}
    BY <2>1 DEF JobInv, Provided, ProviderLive
  <2>3. job[j].status \in {"absent", "created", "uploading", "submitted", "running"}
    BY <2>1, <2>2 DEF Rows, Unsubmitted, Live, Terminal
  <2>4. "hold" \in claims[j] /\ "capture" \notin claims[j]
    BY <2>1, <2>3 DEF JobInv, Held, Charged, PostIndex, Terminal
  <2>5. "release" \notin claims[j]
    BY <2>1, <2>3 DEF JobInv, Released, Live, Terminal, Recorded
  <2>6. claims[j] = {"hold"}
    BY <2>1, <2>4, <2>5
  <2>. QED BY <2>1, <2>6 DEF Books
<1>. QED BY <1>1, Invariant, PTL

\* No step takes a finished job back: only the output of a completed one is
\* deleted, and a submission that fails late may write `failed` over `cancelled`.
THEOREM FinishedFinal == Spec => FinishedIsFinal
<1>1. IInv /\ [Next]_vars =>
        [\A j \in Jobs :
            /\ (job[j].status = "completed") =>
                  job'[j].status \in {"completed", "output_deleted"}
            /\ (job[j].status = "cancelled") =>
                  job'[j].status \in {"cancelled", "failed"}
            /\ (job[j].status \in {"failed", "output_deleted"}) =>
                  job'[j].status = job[j].status]_vars
  <2>1. ASSUME IInv, Next PROVE \A j \in Jobs : Stable(j)
    BY <2>1, NextStep
  <2>. QED BY <2>1 DEF Stable
<1>. QED BY <1>1, Invariant, PTL DEF Spec, FinishedIsFinal
=============================================================================
