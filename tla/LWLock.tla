------------------------------- MODULE LWLock -------------------------------
(***************************************************************************)
(* One lightweight lock of storage/lmgr/lwlock.c.  A process tries the     *)
(* lock with an atomic operation, queues itself, tries again, and sleeps   *)
(* on its semaphore; the process that frees the lock moves waiters off the *)
(* queue and posts their semaphores.  Every atomic access to lock->state   *)
(* is a step.  The wait list is touched only under LW_FLAG_LOCKED, so the  *)
(* body of such a section and the atomic operation that ends it are one    *)
(* step.                                                                   *)
(***************************************************************************)
EXTENDS Naturals, Sequences, FiniteSets

CONSTANTS Procs,
          Checkpointer,       \* the process that takes WALWriteLock shared
          LW_VAL_EXCLUSIVE,
          MaxVal,             \* bound: the largest value of the variable
          MaxStray            \* bound: posts from outside lwlock.c, to one semaphore

ASSUME ExclusiveAssumption ==
    /\ IsFiniteSet(Procs)
    /\ LW_VAL_EXCLUSIVE \in Nat
    /\ LW_VAL_EXCLUSIVE > Cardinality(Procs)
    /\ MaxVal \in Nat
    /\ MaxStray \in Nat

VARIABLES
    usage,       \* which lock of the server this is
    lockcount,   \* lock->state & LW_LOCK_MASK
    hasWaiters,  \* LW_FLAG_HAS_WAITERS
    releaseOk,   \* LW_FLAG_RELEASE_OK
    locked,      \* LW_FLAG_LOCKED
    waiters,     \* lock->waiters
    val,         \* *valptr (insertingAt of a WAL insertion lock)
    lwWaiting,   \* PGPROC.lwWaiting
    sem,         \* PGPROC.sem
    strays,      \* strays[p]: posts of sem[p] that lwlock.c did not make
    pc,          \* where each process is
    call,        \* the operation each process is executing
    holds,       \* held_lwlocks: the mode in which each process holds the lock
    extraWaits,  \* wakeups absorbed and not yet given back
    wakeup       \* processes taken off the queue and not yet awakened

lock == <<lockcount, hasWaiters, releaseOk, locked, waiters, val>>
procs == <<lwWaiting, sem, strays, pc, call, holds, extraWaits, wakeup>>
vars == <<usage, lock, procs>>

Vals == 0 .. MaxVal
Modes == {"shared", "exclusive"}
Usages == {"content", "walwrite", "walinsert"}
NoCall == [op |-> "none", mode |-> "none", old |-> 0]
Calls == [op : {"acquire", "conditional", "orwait"}, mode : Modes, old : {0}]
         \cup [op : {"waitvar"}, mode : {"none"}, old : Vals]
PCs == {"idle", "attempt", "conflict", "conflictvar", "queue", "enqueue",
        "releaseok", "attempt2", "conflict2", "conflictvar2", "dequeue",
        "undequeue", "absorbed", "absorb", "sleep", "awake", "held", "update",
        "updatewake", "clear", "check", "collect", "awaken", "post"}

\* The operations the server applies to each kind of lock: buffer content
\* locks and most others, WALWriteLock, a WAL insertion lock.
Offered(p) ==
    {c \in Calls :
       CASE usage = "content"   -> c.op \in {"acquire", "conditional"}
         [] usage = "walwrite"  -> c.op \in {"acquire", "orwait"}
                                   /\ (c.mode = "shared" => c.op = "acquire" /\ p = Checkpointer)
         [] usage = "walinsert" -> (c.op = "acquire" /\ c.mode = "exclusive") \/ c.op = "waitvar"}

\* The members of S in list s, in their order: what is left of a wait list, or
\* moved from it, as proclist_delete and proclist_push_tail do it.
Nth(at, k) == CHOOSE i \in at : Cardinality({j \in at : j <= i}) = k
Only(s, S) ==
    LET at == {i \in DOMAIN s : s[i] \in S}
    IN  [k \in 1 .. Cardinality(at) |-> s[Nth(at, k)]]

\* lwWaitMode: what a process that queued itself waits for.
WaitsUntilFree(p) == call[p].op \in {"orwait", "waitvar"}
WaitsExclusive(p) == call[p].op = "acquire" /\ call[p].mode = "exclusive"

-----------------------------------------------------------------------------
\* LWLockInitialize, and processes that hold nothing.
Init ==
    /\ usage \in Usages
    /\ lockcount = 0
    /\ hasWaiters = FALSE
    /\ releaseOk = TRUE
    /\ locked = FALSE
    /\ waiters = <<>>
    /\ val = 0
    /\ lwWaiting = [p \in Procs |-> "not waiting"]
    /\ sem = [p \in Procs |-> 0]
    /\ strays = [p \in Procs |-> 0]
    /\ pc = [p \in Procs |-> "idle"]
    /\ call = [p \in Procs |-> NoCall]
    /\ holds = [p \in Procs |-> "none"]
    /\ extraWaits = [p \in Procs |-> 0]
    /\ wakeup = [p \in Procs |-> <<>>]

Goto(p, label) == pc' = [pc EXCEPT ![p] = label]

\* The return of an operation: the semaphore gets back the absorbed wakeups.
Return(p, label) ==
    /\ Goto(p, label)
    /\ call' = [call EXCEPT ![p] = NoCall]
    /\ sem' = [sem EXCEPT ![p] = @ + extraWaits[p]]
    /\ extraWaits' = [extraWaits EXCEPT ![p] = 0]

\* A process calls LWLockAcquire, LWLockConditionalAcquire,
\* LWLockAcquireOrWait or LWLockWaitForVar.
Call(p) ==
    /\ pc[p] = "idle"
    /\ \E c \in Offered(p) :
          /\ call' = [call EXCEPT ![p] = c]
          /\ Goto(p, IF c.op = "waitvar" THEN "conflict" ELSE "attempt")
    /\ UNCHANGED <<usage, lock, lwWaiting, sem, strays, holds, extraWaits, wakeup>>

\* Mutant: an exclusive locker looks at the exclusive bit only.
FreeForNoReaders(mode) == (lockcount \div LW_VAL_EXCLUSIVE) % 2 = 0

\* LWLockAttemptLock: is the lock free for this mode, and what is added to it.
FreeFor(mode) ==
    IF mode = "exclusive" THEN lockcount = 0
                          ELSE (lockcount \div LW_VAL_EXCLUSIVE) % 2 = 0
Weight(mode) == IF mode = "exclusive" THEN LW_VAL_EXCLUSIVE ELSE 1

AttemptLock(p) ==
    /\ FreeFor(call[p].mode)
    /\ lockcount' = lockcount + Weight(call[p].mode)
    /\ holds' = [holds EXCEPT ![p] = call[p].mode]

\* First attempt, by a process that is not in the queue.
FirstAttempt(p) ==
    /\ pc[p] = "attempt"
    /\ \/ /\ AttemptLock(p)
          /\ Return(p, "held")
       \/ /\ ~FreeFor(call[p].mode)
          /\ IF call[p].op = "conditional"
             THEN Return(p, "idle")
             ELSE Goto(p, "queue") /\ UNCHANGED <<call, sem, extraWaits>>
          /\ UNCHANGED <<lockcount, holds>>
    /\ UNCHANGED <<usage, hasWaiters, releaseOk, locked, waiters, val,
                   lwWaiting, strays, wakeup>>

\* LWLockWaitListLock: spin until LW_FLAG_LOCKED is ours.
WaitListLock(p, here, there) ==
    /\ pc[p] = here
    /\ ~locked
    /\ locked' = TRUE
    /\ Goto(p, there)
    /\ UNCHANGED <<usage, lockcount, hasWaiters, releaseOk, waiters, val,
                   lwWaiting, sem, strays, call, holds, extraWaits, wakeup>>

\* Mutant: every waiter queues at the end.
QueueSelfAtEnd(p) ==
    /\ pc[p] = "enqueue"
    /\ hasWaiters' = TRUE
    /\ lwWaiting' = [lwWaiting EXCEPT ![p] = "waiting"]
    /\ waiters' = Append(waiters, p)
    /\ locked' = FALSE
    /\ Goto(p, IF call[p].op = "waitvar" THEN "releaseok" ELSE "attempt2")
    /\ UNCHANGED <<usage, lockcount, releaseOk, val, sem, strays, call, holds,
                   extraWaits, wakeup>>

\* LWLockQueueSelf.
QueueSelf(p) ==
    /\ pc[p] = "enqueue"
    /\ hasWaiters' = TRUE
    /\ lwWaiting' = [lwWaiting EXCEPT ![p] = "waiting"]
    /\ waiters' = IF WaitsUntilFree(p) THEN <<p>> \o waiters ELSE Append(waiters, p)
    /\ locked' = FALSE
    /\ Goto(p, IF call[p].op = "waitvar" THEN "releaseok" ELSE "attempt2")
    /\ UNCHANGED <<usage, lockcount, releaseOk, val, sem, strays, call, holds,
                   extraWaits, wakeup>>

\* LWLockWaitForVar: make sure the next release wakes somebody.
SetReleaseOk(p) ==
    /\ pc[p] = "releaseok"
    /\ releaseOk' = TRUE
    /\ Goto(p, "conflict2")
    /\ UNCHANGED <<usage, lockcount, hasWaiters, locked, waiters, val,
                   lwWaiting, sem, strays, call, holds, extraWaits, wakeup>>

\* Second attempt, by a process that is in the queue.
SecondAttempt(p) ==
    /\ pc[p] = "attempt2"
    /\ \/ AttemptLock(p) /\ Goto(p, "dequeue")
       \/ ~FreeFor(call[p].mode) /\ Goto(p, "sleep") /\ UNCHANGED <<lockcount, holds>>
    /\ UNCHANGED <<usage, hasWaiters, releaseOk, locked, waiters, val,
                   lwWaiting, sem, strays, call, extraWaits, wakeup>>

\* LWLockConflictsWithVar: two reads, the state word and then the variable.
ConflictsWithVar(p, here, readvar, done) ==
    /\ pc[p] = here
    /\ IF FreeFor("shared") THEN done ELSE Goto(p, readvar) /\ UNCHANGED <<call, sem, extraWaits>>
    /\ UNCHANGED <<usage, lock, lwWaiting, strays, holds, wakeup>>

ReadVar(p, here, wait, done) ==
    /\ pc[p] = here
    /\ IF val # call[p].old THEN done ELSE Goto(p, wait) /\ UNCHANGED <<call, sem, extraWaits>>
    /\ UNCHANGED <<usage, lock, lwWaiting, strays, holds, wakeup>>

WaitForVar(p) ==
    \/ ConflictsWithVar(p, "conflict", "conflictvar", Return(p, "idle"))
    \/ ReadVar(p, "conflictvar", "queue", Return(p, "idle"))

RecheckVar(p) ==
    LET undo == Goto(p, "dequeue") /\ UNCHANGED <<call, sem, extraWaits>>
    IN \/ ConflictsWithVar(p, "conflict2", "conflictvar2", undo)
       \/ ReadVar(p, "conflictvar2", "sleep", undo)

\* LWLockDequeueSelf, under the wait list lock ...
Acquired(p) == IF call[p].op = "waitvar" THEN "idle" ELSE "held"

DequeueSelf(p) ==
    /\ pc[p] = "undequeue"
    /\ waiters' = Only(waiters, Procs \ {p})
    /\ hasWaiters' = (hasWaiters /\ waiters' # <<>>)
    /\ locked' = FALSE
    /\ IF lwWaiting[p] = "waiting"
       THEN Return(p, Acquired(p)) /\ lwWaiting' = [lwWaiting EXCEPT ![p] = "not waiting"]
       ELSE Goto(p, "absorbed") /\ UNCHANGED <<lwWaiting, call, sem, extraWaits>>
    /\ UNCHANGED <<usage, lockcount, releaseOk, val, strays, holds, wakeup>>

\* ... and when another process took us off the queue first: its wakeup is
\* on the way and has to be absorbed.
ResetReleaseOk(p) ==
    /\ pc[p] = "absorbed"
    /\ releaseOk' = TRUE
    /\ Goto(p, "absorb")
    /\ UNCHANGED <<usage, lockcount, hasWaiters, locked, waiters, val,
                   lwWaiting, sem, strays, call, holds, extraWaits, wakeup>>

\* Mutant: PGSemaphoreTryLock, its result ignored.
SemaphoreTryLock(p, woken) ==
    /\ IF lwWaiting[p] = "not waiting"
       THEN woken
       ELSE /\ sem' = [sem EXCEPT ![p] = @ - 1]
            /\ extraWaits' = [extraWaits EXCEPT ![p] = @ + 1]
            /\ UNCHANGED <<pc, call>>
    /\ UNCHANGED <<usage, lock, lwWaiting, strays, holds, wakeup>>

\* One PGSemaphoreLock: a wakeup that is not ours is counted in extraWaits.
SemaphoreLock(p, woken) ==
    /\ sem[p] > 0
    /\ IF lwWaiting[p] = "not waiting"
       THEN woken
       ELSE /\ sem' = [sem EXCEPT ![p] = @ - 1]
            /\ extraWaits' = [extraWaits EXCEPT ![p] = @ + 1]
            /\ UNCHANGED <<pc, call>>
    /\ UNCHANGED <<usage, lock, lwWaiting, strays, holds, wakeup>>

\* Mutant: absorbed wakeups are not given back.
ReturnKeepingWakeups(p, label) ==
    /\ Goto(p, label)
    /\ call' = [call EXCEPT ![p] = NoCall]
    /\ sem' = [sem EXCEPT ![p] = @ - 1]
    /\ extraWaits' = [extraWaits EXCEPT ![p] = 0]

ReturnAwakened(p, label) ==
    /\ Goto(p, label)
    /\ call' = [call EXCEPT ![p] = NoCall]
    /\ sem' = [sem EXCEPT ![p] = @ - 1 + extraWaits[p]]
    /\ extraWaits' = [extraWaits EXCEPT ![p] = 0]

AbsorbWakeup(p) ==
    /\ pc[p] = "absorb"
    /\ SemaphoreLock(p, ReturnAwakened(p, Acquired(p)))

\* The sleep of LWLockAcquire, LWLockAcquireOrWait and LWLockWaitForVar.
Awakened(p) ==
    IF call[p].op = "orwait"
    THEN ReturnAwakened(p, "idle")
    ELSE /\ Goto(p, IF call[p].op = "waitvar" THEN "conflict" ELSE "awake")
         /\ sem' = [sem EXCEPT ![p] = @ - 1]
         /\ UNCHANGED <<call, extraWaits>>

Sleep(p) ==
    /\ pc[p] = "sleep"
    /\ SemaphoreLock(p, Awakened(p))

\* Mutant: the retry does not allow releases to wake waiters again.
RetryQuietly(p) ==
    /\ pc[p] = "awake"
    /\ Goto(p, "attempt")
    /\ UNCHANGED <<usage, lock, lwWaiting, sem, strays, call, holds, extraWaits, wakeup>>

\* LWLockAcquire, retrying: releases may wake waiters again.
Retry(p) ==
    /\ pc[p] = "awake"
    /\ releaseOk' = TRUE
    /\ Goto(p, "attempt")
    /\ UNCHANGED <<usage, lockcount, hasWaiters, locked, waiters, val,
                   lwWaiting, sem, strays, call, holds, extraWaits, wakeup>>

-----------------------------------------------------------------------------
\* Take the processes of `woken' off the queue; they are awakened later.
TakeOff(p, woken) ==
    /\ waiters' = Only(waiters, Procs \ woken)
    /\ wakeup' = [wakeup EXCEPT ![p] = Only(waiters, woken)]
    /\ lwWaiting' = [q \in Procs |-> IF q \in woken THEN "pending wakeup" ELSE lwWaiting[q]]

\* Mutant: the caller need not hold the lock.
UpdateVarUnlocked(p) ==
    /\ pc[p] \in {"held", "idle"}
    /\ usage = "walinsert"
    /\ \E v \in Vals \ {0} : val' = v
    /\ Goto(p, "update")
    /\ UNCHANGED <<usage, lockcount, hasWaiters, releaseOk, locked, waiters,
                   lwWaiting, sem, strays, call, holds, extraWaits, wakeup>>

\* LWLockUpdateVar: set the variable, then wake whoever waits for it.  These
\* waiters are at the front of the queue.
UpdateVar(p) ==
    /\ pc[p] = "held"
    /\ usage = "walinsert"
    /\ \E v \in Vals \ {0} : val' = v
    /\ Goto(p, "update")
    /\ UNCHANGED <<usage, lockcount, hasWaiters, releaseOk, locked, waiters,
                   lwWaiting, sem, strays, call, holds, extraWaits, wakeup>>

FrontWaiters ==
    {waiters[i] : i \in {k \in 1 .. Len(waiters) : \A j \in 1 .. k : WaitsUntilFree(waiters[j])}}

WakeForVar(p) ==
    /\ pc[p] = "updatewake"
    /\ TakeOff(p, FrontWaiters)
    /\ locked' = FALSE
    /\ Goto(p, "awaken")
    /\ UNCHANGED <<usage, lockcount, hasWaiters, releaseOk, val, sem, strays,
                   call, holds, extraWaits>>

\* LWLockReleaseClearVar resets the variable before it releases the lock.
ClearVar(p) ==
    /\ pc[p] = "held"
    /\ usage = "walinsert"
    /\ val' = 0
    /\ Goto(p, "clear")
    /\ UNCHANGED <<usage, lockcount, hasWaiters, releaseOk, locked, waiters,
                   lwWaiting, sem, strays, call, holds, extraWaits, wakeup>>

\* LWLockRelease (LWLockReleaseAll after an error): waiters are looked at only
\* when the lock is now free, somebody waits and no wakeup is under way.
CheckWaiters == hasWaiters /\ releaseOk /\ lockcount' = 0

Release(p) ==
    /\ pc[p] = IF usage = "walinsert" THEN "clear" ELSE "held"
    /\ lockcount' = lockcount - Weight(holds[p])
    /\ holds' = [holds EXCEPT ![p] = "none"]
    /\ Goto(p, IF CheckWaiters THEN "check" ELSE "idle")
    /\ UNCHANGED <<usage, hasWaiters, releaseOk, locked, waiters, val,
                   lwWaiting, sem, strays, call, extraWaits, wakeup>>

\* LWLockWakeup: everybody up to the first exclusive waiter, if that is the
\* first to retry; otherwise everybody but the exclusive waiters.
FirstToRetry(i) ==
    /\ ~WaitsUntilFree(waiters[i])
    /\ \A j \in 1 .. i - 1 : WaitsUntilFree(waiters[j])

Awakens ==
    {waiters[i] : i \in {k \in 1 .. Len(waiters) :
        IF WaitsExclusive(waiters[k])
        THEN FirstToRetry(k)
        ELSE \A j \in 1 .. k - 1 : ~(WaitsExclusive(waiters[j]) /\ FirstToRetry(j))}}

Wakeup(p) ==
    /\ pc[p] = "collect"
    /\ TakeOff(p, Awakens)
    /\ releaseOk' = (\A q \in Awakens : WaitsUntilFree(q))
    /\ hasWaiters' = (hasWaiters /\ waiters' # <<>>)
    /\ locked' = FALSE
    /\ Goto(p, "awaken")
    /\ UNCHANGED <<usage, lockcount, val, sem, strays, call, holds, extraWaits>>

\* Awaken those taken off the queue, one after the other: first the flag ...
Awaken(p) ==
    /\ pc[p] = "awaken"
    /\ IF wakeup[p] = <<>>
       THEN /\ Goto(p, IF holds[p] = "none" THEN "idle" ELSE "held")
            /\ UNCHANGED lwWaiting
       ELSE /\ lwWaiting' = [lwWaiting EXCEPT ![Head(wakeup[p])] = "not waiting"]
            /\ Goto(p, "post")
    /\ UNCHANGED <<usage, lock, sem, strays, call, holds, extraWaits, wakeup>>

\* ... then the semaphore.
Post(p) ==
    /\ pc[p] = "post"
    /\ sem' = [sem EXCEPT ![Head(wakeup[p])] = @ + 1]
    /\ wakeup' = [wakeup EXCEPT ![p] = Tail(@)]
    /\ Goto(p, "awaken")
    /\ UNCHANGED <<usage, lock, lwWaiting, strays, call, holds, extraWaits>>

\* Other users of the semaphore may post it at any time.  (Bound: the posts
\* of one behaviour go to one process.)
StrayPost(p) ==
    /\ strays[p] < MaxStray /\ \A q \in Procs \ {p} : strays[q] = 0
    /\ strays' = [strays EXCEPT ![p] = @ + 1]
    /\ sem' = [sem EXCEPT ![p] = @ + 1]
    /\ UNCHANGED <<usage, lock, lwWaiting, pc, call, holds, extraWaits, wakeup>>

-----------------------------------------------------------------------------
Acquire(p) ==
    \/ FirstAttempt(p)
    \/ WaitListLock(p, "queue", "enqueue")
    \/ QueueSelf(p)
    \/ SecondAttempt(p)
    \/ WaitListLock(p, "dequeue", "undequeue")
    \/ DequeueSelf(p)
    \/ ResetReleaseOk(p)
    \/ AbsorbWakeup(p)
    \/ Sleep(p)
    \/ Retry(p)

WatchVar(p) ==
    \/ WaitForVar(p)
    \/ SetReleaseOk(p)
    \/ RecheckVar(p)

WakeOthers(p) ==
    \/ WaitListLock(p, "update", "updatewake")
    \/ WakeForVar(p)
    \/ WaitListLock(p, "check", "collect")
    \/ Wakeup(p)
    \/ Awaken(p)
    \/ Post(p)

Leave(p) == ClearVar(p) \/ Release(p)

\* What a process does once it has called into lwlock.c.
Step(p) == Acquire(p) \/ WatchVar(p) \/ WakeOthers(p)

Next == \E p \in Procs :
    \/ Call(p)
    \/ Step(p)
    \/ UpdateVar(p)
    \/ Leave(p)
    \/ StrayPost(p)

Spec == Init /\ [][Next]_vars

-----------------------------------------------------------------------------
\* Type invariant.
TypeOK ==
    /\ usage \in Usages
    /\ lockcount \in Nat
    /\ hasWaiters \in BOOLEAN
    /\ releaseOk \in BOOLEAN
    /\ locked \in BOOLEAN
    /\ waiters \in Seq(Procs)
    /\ val \in Vals
    /\ lwWaiting \in [Procs -> {"not waiting", "waiting", "pending wakeup"}]
    /\ sem \in [Procs -> Nat]
    /\ strays \in [Procs -> 0 .. MaxStray]
    /\ pc \in [Procs -> PCs]
    /\ call \in [Procs -> Calls \cup {NoCall}]
    /\ holds \in [Procs -> Modes \cup {"none"}]
    /\ extraWaits \in [Procs -> Nat]
    /\ wakeup \in [Procs -> Seq(Procs)]

\* LWLockAttemptLock: while a process holds the lock exclusively nobody else
\* holds it, whatever was released, queued or retried in between.
MutualExclusion ==
    \A p, q \in Procs : p # q /\ holds[p] = "exclusive" => holds[q] = "none"

\* A process taken off the queue that has not yet noticed.
WakeupDue(p) ==
    /\ pc[p] \in {"releaseok", "attempt2", "conflict2", "conflictvar2", "dequeue",
                  "undequeue", "absorbed", "absorb", "sleep"}
    /\ lwWaiting[p] # "waiting"

\* LWLockQueueSelf before the second attempt, LW_FLAG_RELEASE_OK restored by
\* whoever was woken: while a process sleeps in the queue, the release that
\* frees the lock will look at the queue, or a woken process has yet to retry
\* and will make it so; and somebody holds the lock, is waking the queue or is
\* about to try the lock.
NoLostWakeup ==
    LET Retrying(q) == WakeupDue(q) \/ pc[q] = "awake"
    IN (\E p \in Procs : pc[p] = "sleep" /\ lwWaiting[p] = "waiting") =>
         /\ hasWaiters
         /\ releaseOk \/ \E q \in Procs : Retrying(q)
         /\ \E q \in Procs : \/ holds[q] # "none"
                             \/ pc[q] \in {"check", "collect", "attempt"}
                             \/ Retrying(q)

\* LWLockUpdateVar: a process asleep in LWLockWaitForVar on a value the
\* exclusive holder has replaced is about to be woken, by that update or by
\* the release that follows.
NoLostUpdate ==
    \A p \in Procs :
        pc[p] = "sleep" /\ call[p].op = "waitvar" /\ lwWaiting[p] = "waiting" /\ val # call[p].old
        => \E q \in Procs : pc[q] \in {"update", "updatewake", "clear", "check", "collect"}

\* extraWaits: wakeups meant for something else that a process absorbed while
\* it slept are given back, and those meant for it are consumed once, so that
\* the semaphore counts exactly the foreign posts and the wakeup under way.
WakeupsConserved ==
    \A p \in Procs :
        sem[p] + extraWaits[p] + Cardinality({q \in Procs : \E i \in DOMAIN wakeup[q] : wakeup[q][i] = p})
        = strays[p] + (IF WakeupDue(p) THEN 1 ELSE 0)

\* lwlock.c as a whole implements a shared/exclusive lock whose variable only
\* the exclusive holder changes.
RW == INSTANCE RWLock
ImplementsRWLock == RW!Spec
=============================================================================
