-------------------------- MODULE ConcurrencySlots --------------------------
(***************************************************************************)
(* The concurrency limit of one account or user, shared by all application *)
(* instances through Redis.                                                *)
(*                                                                         *)
(* A request takes a slot in a sorted set, waits in a counted queue when   *)
(* there is none, and gives the slot back when it is done.  A live session *)
(* swaps its slot for a lease in a second set, which it must refresh; both *)
(* sets count against the limit.  An index lists the accounts and users    *)
(* that have slots or waiters: the cleanup worker and the cleanup at the   *)
(* start of an instance look only at what is listed.                       *)
(*                                                                         *)
(* Each script is one action; the index is kept by separate commands after *)
(* it.  A member's age is abstracted to fresh or old, that is, past its    *)
(* TTL; old members are removed by the next script or read that touches    *)
(* the set.  Errors, lost answers, crashes, requests that outlive their    *)
(* TTL and stalled sessions share one budget, `faults`.                    *)
(***************************************************************************)
EXTENDS Naturals, FiniteSets

CONSTANTS
    Requests,
    Instances,
    Owner,       \* the instance that serves each request
    Max,         \* maxConcurrency
    MaxWait,     \* the length of the queue at which each request is refused
    MaxFaults    \* bound

ASSUME RequestsAssumption == IsFiniteSet(Requests)
ASSUME OwnerAssumption == Owner \in [Requests -> Instances]
ASSUME LimitsAssumption ==
    /\ Max \in Nat \ {0} /\ MaxFaults \in Nat
    /\ MaxWait \in [Requests -> Nat \ {0}]

VARIABLES
    slots, live,  \* the two sorted sets: "none", "fresh" or "old" members
    wait,         \* the queue counter
    index,        \* the id in the active index: "out", "in", "due"
    req,          \* where each request is
    inst,         \* each instance: "up", "down" or how far its start is
    janitor,      \* the cleanup worker: what it decided on what it read
    marker,       \* the key that says the old wait counters were swept
    faults,
    over,         \* history: requests that go on without the slot they took
    skew          \* history: by how much the counter may be too low or too high

redisVars == <<slots, live, wait, index, marker>>
vars == <<redisVars, req, inst, janitor, faults, over, skew>>

Ages == {"none", "fresh", "old"}
Pcs == {"idle", "count", "waiting", "running", "create", "refused", "live",
        "liveend", "touch", "read", "index", "uncountRun", "uncountEnd"}

\* Type invariant.
TypeOK ==
    /\ slots \in [Requests -> Ages] /\ live \in [Requests -> Ages]
    /\ wait \in Nat /\ (wait > 0 => \E r \in Requests : wait <= MaxWait[r])
    /\ index \in {"out", "in", "due"} /\ marker \in BOOLEAN
    /\ req \in [Requests -> [pc : Pcs, then : Pcs, load : BOOLEAN]]
    /\ inst \in [Instances -> {"up", "down", "sweep", "delwait", "unindex"}]
    /\ janitor \in {"idle", "keep", "drop"}
    /\ faults \in 0..MaxFaults
    /\ over \in SUBSET Requests /\ skew \in [low : Nat, high : Nat]

At(p) == [pc |-> p, then |-> "idle", load |-> FALSE]

\* Some instances are still to be started, with or without old wait counters.
Init ==
    /\ slots = [r \in Requests |-> "none"] /\ live = [r \in Requests |-> "none"]
    /\ wait = 0 /\ index = "out" /\ req = [r \in Requests |-> At("idle")]
    /\ inst \in [Instances -> {"up", "down"}] /\ janitor = "idle" /\ faults = 0
    /\ over = {} /\ skew = [low |-> 0, high |-> 0] /\ marker \in BOOLEAN

Members(set) == {r \in Requests : set[r] # "none"}

\* ZREMRANGEBYSCORE of what is past its TTL.
Purged(set) == [r \in Requests |-> IF set[r] = "old" THEN "none" ELSE set[r]]

\* What the index is kept for: live leases are not part of it.
HasLoad(set) == Members(set) # {} \/ wait > 0

UseFault == faults < MaxFaults /\ faults' = faults + 1
NoFault == UNCHANGED faults

-----------------------------------------------------------------------------
(* The steps of a request *)

Pc(r) == req[r].pc
Go(r, p) == req' = [req EXCEPT ![r] = At(p)]
Via(r, step, p) == req' = [req EXCEPT ![r] = [At(step) EXCEPT !.then = p]]

\* The request believes that it is counted in the queue.
Counted(r) ==
    \/ Pc(r) \in {"waiting", "uncountRun", "uncountEnd"}
    \/ Pc(r) = "touch" /\ req[r].then \in {"waiting", "uncountRun"}

\* The requests that still believe to be counted, without `gone`.
StillCounted(gone) == {r \in Requests \ gone : Counted(r)}

\* The counter is gone, and with it whoever is counted in it.
CounterLost ==
    /\ wait' = 0
    /\ skew' = [low |-> Cardinality(StillCounted({})), high |-> 0]

\* The request is being served, or goes on to it, on a slot of the first set.
OnSlot(r) ==
    \/ Pc(r) \in {"running", "create", "refused", "uncountRun"}
    \/ Pc(r) \in {"touch", "read", "index"}
       /\ req[r].then \in {"running", "uncountRun"}

\* A live session, from the swap on.
OnLease(r) ==
    \/ Pc(r) \in {"create", "live", "liveend"}
    \/ Pc(r) \in {"read", "index"} /\ req[r].then \in {"live", "liveend"}

Used == Cardinality(Members(Purged(slots))) + Cardinality(Members(Purged(live)))

\* Mutant: live leases are not counted.
AcquireSlotAlone(r) ==
    /\ Cardinality(Members(Purged(slots))) < Max
    /\ slots' = [Purged(slots) EXCEPT ![r] = "fresh"] /\ live' = Purged(live)

\* acquireScript, when there is room.
AcquireSlot(r) ==
    /\ Used < Max
    /\ slots' = [Purged(slots) EXCEPT ![r] = "fresh"] /\ live' = Purged(live)

AcquireRefused == Used >= Max /\ slots' = Purged(slots) /\ live' = Purged(live)

\* The first attempt.  After an error, whether or not the slot was taken, the
\* request gives up.
Arrive(r) ==
    /\ Pc(r) = "idle" /\ inst[Owner[r]] = "up"
    /\ slots[r] = "none" /\ live[r] = "none"
    /\ \/ AcquireSlot(r) /\ Via(r, "touch", "running") /\ NoFault
       \/ AcquireRefused /\ Go(r, "count") /\ NoFault
       \/ AcquireSlot(r) /\ Go(r, "idle") /\ UseFault
    /\ UNCHANGED <<wait, index, inst, janitor, marker, over, skew>>

\* waitForSlotWithPingTimeout: another attempt, until the timeout.
Retry(r) ==
    /\ Pc(r) = "waiting"
    /\ \/ AcquireSlot(r) /\ Via(r, "touch", "uncountRun") /\ NoFault
       \/ AcquireRefused /\ UNCHANGED req /\ NoFault
       \/ AcquireSlot(r) /\ Go(r, "uncountEnd") /\ UseFault
    /\ UNCHANGED <<wait, index, inst, janitor, marker, over, skew>>

\* Mutant: the deferred decrement is forgotten.
GiveUpQuietly(r) ==
    /\ Pc(r) = "waiting" /\ Go(r, "idle")
    /\ UNCHANGED <<redisVars, inst, janitor, faults, over, skew>>

\* Timeout, a client that left, or an error of the attempt.
GiveUp(r) ==
    /\ Pc(r) = "waiting" /\ Go(r, "uncountEnd")
    /\ UNCHANGED <<redisVars, inst, janitor, faults, over, skew>>

\* Mutant: the counter is compared one too late.
IncrementPastLimit(r) ==
    /\ Pc(r) = "count" /\ Via(r, "touch", "waiting")
    /\ wait <= MaxWait[r] /\ wait' = wait + 1
    /\ UNCHANGED <<slots, live, index, inst, janitor, marker, faults, over, skew>>

\* Mutant: a full queue refuses nobody.
IncrementWhenFull(r) ==
    /\ Pc(r) = "count" /\ Via(r, "touch", "waiting")
    /\ wait' = (IF wait < MaxWait[r] THEN wait + 1 ELSE wait)
    /\ UNCHANGED <<slots, live, index, inst, janitor, marker, faults, over, skew>>

\* incrementWaitScript.  An error lets the request wait uncounted.
IncrementWaitCount(r) ==
    /\ Pc(r) = "count"
    /\ \/ wait < MaxWait[r] /\ wait' = wait + 1 /\ Via(r, "touch", "waiting")
          /\ NoFault /\ UNCHANGED skew
       \/ wait < MaxWait[r] /\ wait' = wait + 1 /\ Go(r, "waiting")
          /\ UseFault /\ UNCHANGED skew
       \/ wait >= MaxWait[r] /\ Go(r, "idle") /\ NoFault /\ UNCHANGED <<wait, skew>>
       \/ Go(r, "waiting") /\ UseFault /\ UNCHANGED wait
          /\ skew' = [skew EXCEPT !.low = @ + 1]
    /\ UNCHANGED <<slots, live, index, inst, janitor, marker, over>>

\* decrementWaitScript, never below zero; its error is only logged.
DecrementWaitCount(r) ==
    /\ Pc(r) \in {"uncountRun", "uncountEnd"}
    /\ LET next == IF Pc(r) = "uncountRun" THEN "running" ELSE "idle"
           down == IF wait > 0 THEN wait - 1 ELSE 0
           rest == [low  |-> IF StillCounted({r}) = {} THEN 0 ELSE skew.low,
                    high |-> IF down = 0 THEN 0 ELSE skew.high]
       IN \/ wait' = down /\ skew' = rest /\ Via(r, "read", next) /\ NoFault
          \/ wait' = down /\ skew' = rest /\ Go(r, next) /\ UseFault
          \/ UNCHANGED wait /\ Go(r, next) /\ UseFault
             /\ skew' = [skew EXCEPT !.high = @ + 1]
    /\ UNCHANGED <<slots, live, index, inst, janitor, marker, over>>

\* ReleaseFunc: ZREM; its error is only logged, and leaves the slot to its TTL.
ReleaseSlot(r) ==
    /\ Pc(r) \in {"running", "refused", "create"}
    /\ \E next \in IF Pc(r) = "create" THEN {"live", "liveend"} ELSE {"idle"} :
          \/ slots' = [slots EXCEPT ![r] = "none"] /\ Via(r, "read", next) /\ NoFault
          \/ slots' = [slots EXCEPT ![r] = "none"] /\ Go(r, next) /\ UseFault
          \/ UNCHANGED slots /\ Go(r, next) /\ UseFault
    /\ over' = IF Pc(r) = "create" THEN over ELSE over \ {r}
    /\ UNCHANGED <<live, wait, index, inst, janitor, marker, skew>>

-----------------------------------------------------------------------------
(* The active index *)

\* touchActiveIndexAt; its error is only logged.
TouchIndex(r) ==
    /\ Pc(r) = "touch" /\ Go(r, req[r].then)
    /\ \/ index' = "in" /\ NoFault
       \/ UNCHANGED index /\ UseFault
    /\ UNCHANGED <<slots, live, wait, inst, janitor, marker, over, skew>>

\* refreshActiveIndex: reads the load, ...
ReadLoad(r) ==
    /\ Pc(r) = "read"
    /\ \/ /\ slots' = Purged(slots) /\ NoFault
          /\ req' = [req EXCEPT ![r].pc = "index",
                                ![r].load = HasLoad(Purged(slots))]
       \/ Go(r, req[r].then) /\ UseFault /\ UNCHANGED slots
    /\ UNCHANGED <<live, wait, index, inst, janitor, marker, over, skew>>

\* ... and writes what it read.
WriteIndex(r) ==
    /\ Pc(r) = "index" /\ Go(r, req[r].then)
    /\ \/ index' = (IF req[r].load THEN "in" ELSE "out") /\ NoFault
       \/ UNCHANGED index /\ UseFault
    /\ UNCHANGED <<slots, live, wait, inst, janitor, marker, over, skew>>

\* The member's score, a time in the future, passes.
IndexDue ==
    /\ index = "in" /\ index' = "due"
    /\ UNCHANGED <<slots, live, wait, req, inst, janitor, marker, faults, over, skew>>

\* reconcileExpiredIndexCandidates, in two steps like refreshActiveIndex.
JanitorRead ==
    /\ janitor = "idle" /\ index = "due"
    /\ janitor' = IF HasLoad(Purged(slots)) THEN "keep" ELSE "drop"
    /\ slots' = Purged(slots)
    /\ UNCHANGED <<live, wait, index, req, inst, marker, faults, over, skew>>

JanitorWrite ==
    /\ janitor # "idle" /\ janitor' = "idle"
    /\ \/ index' = (IF janitor = "keep" THEN "in" ELSE "out") /\ NoFault
       \/ UNCHANGED index /\ UseFault
    /\ UNCHANGED <<slots, live, wait, req, inst, marker, over, skew>>

-----------------------------------------------------------------------------
(* Live sessions *)

\* acquireLiveLeaseScript, when there is room, with an allowance of one for the
\* slot that the lease replaces.  Old members of the first set are not purged here.
GrantLease(r) ==
    /\ Cardinality(Members(slots)) + Cardinality(Members(Purged(live))) < Max + 1
    /\ live' = [Purged(live) EXCEPT ![r] = "fresh"]

\* The script checks the account's and the user's sets: the other one may refuse
\* what this one allows.  A request that got no answer gives its slot back, too.
AcquireLiveLease(r) ==
    /\ Pc(r) = "running"
    /\ \/ GrantLease(r) /\ Go(r, "create") /\ NoFault
       \/ GrantLease(r) /\ Go(r, "refused") /\ UseFault
       \/ live' = Purged(live) /\ Go(r, "refused") /\ NoFault
    /\ UNCHANGED <<slots, wait, index, inst, janitor, marker, over, skew>>

\* The upstream refuses the call.  The user's slot is kept over the failover to
\* another account, so the lease goes first and the next attempt takes another;
\* an account's slot goes before its lease (ReleaseSlot).
CreateFails(r) ==
    /\ Pc(r) = "create" /\ Go(r, "running")
    /\ \/ live' = [live EXCEPT ![r] = "none"] /\ NoFault
       \/ UNCHANGED live /\ UseFault
    /\ UNCHANGED <<slots, wait, index, inst, janitor, marker, over, skew>>

\* refreshLiveLeaseScript does not bring a lease back: the session ends.  A
\* refresh that fails ends it, too.
RefreshLiveLease(r) ==
    /\ Pc(r) = "live"
    /\ \/ live[r] = "fresh" /\ UNCHANGED req /\ NoFault
       \/ live[r] # "fresh" /\ Go(r, "liveend") /\ NoFault
       \/ Go(r, "liveend") /\ UseFault
    /\ live' = Purged(live)
    /\ UNCHANGED <<slots, wait, index, inst, janitor, marker, over, skew>>

\* The session closes.
LiveEnds(r) ==
    /\ Pc(r) = "live" /\ Go(r, "liveend")
    /\ UNCHANGED <<redisVars, inst, janitor, faults, over, skew>>

\* releaseLiveLease; its error is ignored.
ReleaseLiveLease(r) ==
    /\ Pc(r) = "liveend" /\ Go(r, "idle") /\ over' = over \ {r}
    /\ \/ live' = [live EXCEPT ![r] = "none"] /\ NoFault
       \/ UNCHANGED live /\ UseFault
    /\ UNCHANGED <<slots, wait, index, inst, janitor, marker, skew>>

-----------------------------------------------------------------------------
(* Time *)

\* A slot has no refresh: a request that runs longer than the TTL loses it.
SlotAges(r) ==
    /\ slots[r] = "fresh" /\ slots' = [slots EXCEPT ![r] = "old"]
    /\ \/ ~OnSlot(r) /\ NoFault /\ UNCHANGED over
       \/ OnSlot(r) /\ UseFault /\ over' = over \cup {r}
    /\ UNCHANGED <<live, wait, index, req, inst, janitor, marker, skew>>

\* A session that stalls for the lease's TTL.
LeaseAges(r) ==
    /\ live[r] = "fresh" /\ live' = [live EXCEPT ![r] = "old"]
    /\ \/ ~OnLease(r) /\ NoFault /\ UNCHANGED over
       \/ OnLease(r) /\ UseFault /\ over' = over \cup {r}
    /\ UNCHANGED <<slots, wait, index, req, inst, janitor, marker, skew>>

\* getCountScript: reading the count, for the scheduler or an operator, purges.
GetConcurrency ==
    /\ slots' = Purged(slots) /\ live' = Purged(live)
    /\ UNCHANGED <<wait, index, req, inst, janitor, marker, faults, over, skew>>

\* The key's own TTL, which every new member starts again.
SlotKeyExpires ==
    /\ Members(slots) # {} /\ \A r \in Members(slots) : slots[r] = "old"
    /\ slots' = Purged(slots)
    /\ UNCHANGED <<live, wait, index, req, inst, janitor, marker, faults, over, skew>>

LeaseKeyExpires ==
    /\ Members(live) # {} /\ \A r \in Members(live) : live[r] = "old"
    /\ live' = Purged(live)
    /\ UNCHANGED <<slots, wait, index, req, inst, janitor, marker, faults, over, skew>>

\* The counter's TTL, the longer of two configured wait times, which every
\* increment starts again.  It may run out under requests that are counted: the
\* wait of an account's request starts after its increment, and the wait for a
\* user's slot has a length of its own.
WaitKeyExpires ==
    /\ wait > 0 /\ CounterLost
    /\ UNCHANGED <<slots, live, index, req, inst, janitor, marker, faults, over>>

-----------------------------------------------------------------------------
(* Instances *)

Own(i) == {r \in Requests : Owner[r] = i}

Crash(i) ==
    /\ inst[i] = "up" /\ inst' = [inst EXCEPT ![i] = "down"] /\ UseFault
    /\ req' = [r \in Requests |-> IF r \in Own(i) THEN At("idle") ELSE req[r]]
    /\ over' = over \ Own(i)
    /\ skew' = [skew EXCEPT !.high = @ + Cardinality(StillCounted({}) \cap Own(i))]
    /\ UNCHANGED <<redisVars, janitor>>

BootGo(i, s) == inst' = [inst EXCEPT ![i] = s]

\* sweepLegacyWaitKeysOnce, the head of CleanupStaleProcessSlots: the first start
\* deletes every wait counter, also one that the index does not list.
BootLegacy(i) ==
    /\ inst[i] = "down" /\ ~marker /\ CounterLost
    /\ \/ marker' = TRUE /\ UNCHANGED inst /\ NoFault
       \/ BootGo(i, "up") /\ UseFault /\ UNCHANGED marker
    /\ UNCHANGED <<slots, live, index, req, janitor, over>>

\* CleanupStaleProcessSlots reads the index, ...
BootRead(i) ==
    /\ inst[i] = "down" /\ marker /\ BootGo(i, IF index = "out" THEN "up" ELSE "sweep")
    /\ UNCHANGED <<redisVars, req, janitor, faults, over, skew>>

\* ... removes every slot that is not its own, of which it has none yet, ...
BootSweep(i) ==
    /\ inst[i] = "sweep" /\ BootGo(i, "delwait")
    /\ slots' = [r \in Requests |-> "none"]
    /\ over' = over \cup {r \in Requests : OnSlot(r)}
    /\ UNCHANGED <<live, wait, index, req, janitor, marker, faults, skew>>

\* ... deletes the counter, ...
BootDelWait(i) ==
    /\ inst[i] = "delwait" /\ BootGo(i, "unindex") /\ CounterLost
    /\ UNCHANGED <<slots, live, index, req, janitor, marker, faults, over>>

\* ... and takes the id out of the index.
BootUnindex(i) ==
    /\ inst[i] = "unindex" /\ BootGo(i, "up") /\ index' = "out"
    /\ UNCHANGED <<slots, live, wait, req, janitor, marker, faults, over, skew>>

\* The start goes on after an error of its cleanup.
BootError(i) ==
    /\ inst[i] \in {"down", "sweep", "delwait", "unindex"} /\ BootGo(i, "up")
    /\ UseFault /\ UNCHANGED <<redisVars, req, janitor, over, skew>>

-----------------------------------------------------------------------------
Serve(r) ==
    \/ GiveUp(r) \/ IncrementWaitCount(r) \/ DecrementWaitCount(r)
    \/ ReleaseSlot(r) \/ TouchIndex(r) \/ ReadLoad(r) \/ WriteIndex(r)
    \/ CreateFails(r) \/ RefreshLiveLease(r) \/ LiveEnds(r) \/ ReleaseLiveLease(r)

Boot(i) ==
    \/ BootLegacy(i) \/ BootRead(i) \/ BootSweep(i) \/ BootDelWait(i)
    \/ BootUnindex(i) \/ BootError(i)

Next ==
    \/ \E r \in Requests : \/ Arrive(r) \/ Retry(r) \/ AcquireLiveLease(r)
                           \/ Serve(r) \/ SlotAges(r) \/ LeaseAges(r)
    \/ \E i \in Instances : Crash(i) \/ Boot(i)
    \/ IndexDue \/ JanitorRead \/ JanitorWrite
    \/ GetConcurrency \/ SlotKeyExpires \/ LeaseKeyExpires \/ WaitKeyExpires

Spec == Init /\ [][Next]_vars

-----------------------------------------------------------------------------
(* Properties *)

Served == {r \in Requests : OnSlot(r) \/ OnLease(r)}

\* The limit holds for what is really being served, over all instances and for
\* requests and live sessions together, also while sessions swap their slots for
\* leases; only a request that outlived its slot, stalled, or was swept by the
\* start of another instance, is served beyond it.
ServedWithinLimit == Cardinality(Served \ over) <= Max

\* No more requests wait than the counter says, which refuses at a limit, and as
\* many as it missed: one for an increment that failed, and those that waited
\* when it expired or was deleted by a start.  Who leaves uncounted may take the
\* count of somebody who came later, but the error does not grow from that, and
\* is gone when the queue runs empty.
WaitersWithinLimit == Cardinality(StillCounted({})) <= wait + skew.low

\* The counter counts nobody who does not wait, but for one per decrement that
\* failed and one per request that died in the queue, until it is back at zero.
NoPhantomWaiters == wait <= Cardinality(StillCounted({})) + skew.high
=============================================================================
