--------------------------- MODULE BatchImageQueue ---------------------------
(***************************************************************************)
(* The Redis work queue of batch image jobs and the per-job worker lock.   *)
(*                                                                         *)
(* An id is pushed on the ready list once while its in-flight key exists,  *)
(* popped into the active zset by a worker, and either acknowledged or put *)
(* into the delayed zset.  Two background loops feed the ready list: the   *)
(* mover, from due delayed ids, and the recovery, from active ids whose    *)
(* last heartbeat is too old.  Each operation is one Redis script or       *)
(* transaction, so one action.                                             *)
(*                                                                         *)
(* Times are abstracted: a delayed id may be due at any moment, an active  *)
(* entry grows old at any moment and a heartbeat makes it fresh again, and *)
(* the ready list keeps how many copies of an id it holds, not the order.  *)
(***************************************************************************)
EXTENDS Naturals, BatchImageJobs

CONSTANTS
    Workers,     \* worker loops, one per application instance
    NoWorker,    \* nobody holds the lock
    MaxCopies    \* bound: copies of an id the loops push on the ready list

ASSUME NoWorkerAssumption == NoWorker \notin Workers
ASSUME CopiesAssumption == MaxCopies \in Nat

VARIABLES
    ready,       \* list: how often each id is on it
    delayed,     \* zset of ids with a due time
    active,      \* zset of ids with the time of the last heartbeat
    inflight,    \* ids whose in-flight key exists
    lock         \* owner token of each job lock

queueVars == <<ready, delayed, active, inflight, lock>>

QueueTypeOK ==
    /\ ready \in [Jobs -> Nat]
    /\ delayed \in SUBSET Jobs
    /\ active \in [Jobs -> {"out", "fresh", "old"}]
    /\ inflight \in SUBSET Jobs
    /\ lock \in [Jobs -> Workers \cup {NoWorker}]

QueueInit ==
    /\ ready = [j \in Jobs |-> 0] /\ delayed = {}
    /\ active = [j \in Jobs |-> "out"] /\ inflight = {}
    /\ lock = [j \in Jobs |-> NoWorker]

\* The id is in one of the three structures a worker is fed from.
InQueue(j) == ready[j] > 0 \/ j \in delayed \/ active[j] # "out"

Push(j) == ready' = [ready EXCEPT ![j] = @ + 1]

\* SET NX of the in-flight key and LPUSH, in one script.
Enqueue(j) ==
    /\ \/ j \in inflight /\ UNCHANGED <<ready, inflight>>
       \/ j \notin inflight /\ inflight' = inflight \cup {j} /\ Push(j)
    /\ UNCHANGED <<delayed, active, lock>>

\* Mutant: the id is popped and a crash comes before ZADD.
ReserveTwoSteps(j) ==
    /\ ready[j] > 0 /\ ready' = [ready EXCEPT ![j] = @ - 1]
    /\ UNCHANGED <<delayed, active, inflight, lock>>

\* RPOP and ZADD, in one script.
Reserve(j) ==
    /\ ready[j] > 0 /\ ready' = [ready EXCEPT ![j] = @ - 1]
    /\ active' = [active EXCEPT ![j] = "fresh"]
    /\ UNCHANGED <<delayed, inflight, lock>>

RequeueAfter(j) ==
    /\ active' = [active EXCEPT ![j] = "out"] /\ delayed' = delayed \cup {j}
    /\ UNCHANGED <<ready, inflight, lock>>

\* The ready list is left alone.
Ack(j) ==
    /\ active' = [active EXCEPT ![j] = "out"] /\ delayed' = delayed \ {j}
    /\ inflight' = inflight \ {j}
    /\ UNCHANGED <<ready, lock>>

\* ZADD XX: only an entry that is there is refreshed.
Heartbeat(j) ==
    /\ active[j] = "old" /\ active' = [active EXCEPT ![j] = "fresh"]
    /\ UNCHANGED <<ready, delayed, inflight, lock>>

MoveDueDelayedToReady(j) ==
    /\ j \in delayed /\ ready[j] < MaxCopies
    /\ delayed' = delayed \ {j} /\ Push(j)
    /\ UNCHANGED <<active, inflight, lock>>

RecoverStaleActive(j) ==
    /\ active[j] = "old" /\ ready[j] < MaxCopies
    /\ active' = [active EXCEPT ![j] = "out"] /\ Push(j)
    /\ UNCHANGED <<delayed, inflight, lock>>

\* SET NX with a fresh token; the worker stands for the token.
TryAcquireJobLock(j, w) ==
    /\ lock[j] = NoWorker /\ lock' = [lock EXCEPT ![j] = w]
    /\ UNCHANGED <<ready, delayed, active, inflight>>

\* Deletes the lock only when the token is the caller's.
ReleaseJobLock(j, w) ==
    /\ lock' = IF lock[j] = w THEN [lock EXCEPT ![j] = NoWorker] ELSE lock
    /\ UNCHANGED <<ready, delayed, active, inflight>>

\* The lock's TTL passes without a refresh.
LockTTL(j) ==
    /\ lock[j] # NoWorker /\ lock' = [lock EXCEPT ![j] = NoWorker]
    /\ UNCHANGED <<ready, delayed, active, inflight>>

\* The in-flight key's TTL passes.
InflightTTL(j) ==
    /\ j \in inflight /\ inflight' = inflight \ {j}
    /\ UNCHANGED <<ready, delayed, active, lock>>

ActiveAges(j) ==
    /\ active[j] = "fresh" /\ active' = [active EXCEPT ![j] = "old"]
    /\ UNCHANGED <<ready, delayed, inflight, lock>>
=============================================================================
