---------------------------- MODULE WalSigning ----------------------------
(***************************************************************************)
(* Deferred signing of completed WAL segments: the per-process queue of    *)
(* src/backend/access/transam/xlog.c, filled by XLogWrite under            *)
(* WALWriteLock and emptied by XLogFlush and XLogBackgroundFlush after     *)
(* their critical section.  wal_pqc_signing is on.                         *)
(*                                                                         *)
(* WAL positions are counted in whole segments: a write that ends inside a *)
(* segment finishes none.  What the key material does to a signature is    *)
(* the business of WalKeys; here signing a segment succeeds, warns or      *)
(* raises an error.                                                        *)
(***************************************************************************)
EXTENDS Naturals, Sequences, FiniteSets

CONSTANTS
    Procs,            \* backends, the WAL writer and the checkpointer
    NoProc,           \* WALWriteLock is free
    QueueSize,        \* PQC_SIGN_QUEUE_SIZE (8)
    WalBuffers,       \* wal_buffers, in segments
    MaxSeg            \* bound: segments filled in a behaviour

ASSUME SigningAssumption ==
    /\ NoProc \notin Procs
    /\ QueueSize \in Nat \ {0}
    /\ WalBuffers \in Nat \ {0}
    /\ MaxSeg \in Nat

VARIABLES
    inserted,         \* segments filled by WAL insertions
    written,          \* segments written and fsynced (LogwrtResult)
    WALWriteLock,     \* the process that holds it
    pc,               \* "idle", "write" (in XLogWrite) or "sign", per process
    caller,           \* what the process is in XLogWrite for
    queue,            \* pqc_sign_queue of each process
    todo,             \* the entries a running ProcessDeferredSigning has left
    present,          \* segments whose file has not been removed
    sig,              \* the .sig file of each segment
    dropped           \* history: segments nobody will sign any more

walVars == <<inserted, written, WALWriteLock>>
procVars == <<pc, caller, queue, todo>>
vars == <<walVars, procVars, present, sig, dropped>>

Segs == 1 .. MaxSeg

\* AdvanceXLInsertBuffer; XLogFlush from RecordTransactionCommit, inside its
\* critical section; any other XLogFlush, and XLogBackgroundFlush.
Callers == {"insert", "commit", "flush"}

Entries(q) == {q[i] : i \in DOMAIN q}

Init ==
    /\ inserted = 0 /\ written = 0
    /\ WALWriteLock = NoProc
    /\ pc = [p \in Procs |-> "idle"]
    /\ caller = [p \in Procs |-> "flush"]
    /\ queue = [p \in Procs |-> <<>>]
    /\ todo = [p \in Procs |-> <<>>]
    /\ present = {}
    /\ sig = [s \in Segs |-> "none"]
    /\ dropped = {}

-----------------------------------------------------------------------------
\* Insertions fill a segment in the WAL buffers, as far as there is room.
FillSegment ==
    /\ inserted < MaxSeg /\ inserted - written < WalBuffers
    /\ inserted' = inserted + 1
    /\ UNCHANGED <<written, WALWriteLock, procVars, present, sig, dropped>>

\* A process gets WALWriteLock and calls XLogWrite.
BeginWrite(p, c) ==
    /\ pc[p] = "idle" /\ WALWriteLock = NoProc
    /\ WALWriteLock' = p
    /\ pc' = [pc EXCEPT ![p] = "write"]
    /\ caller' = [caller EXCEPT ![p] = c]
    /\ UNCHANGED <<inserted, written, queue, todo, present, sig, dropped>>

\* Mutant: the bound test is missing.
EnqueueSignUnbounded(p, s) ==
    /\ queue' = [queue EXCEPT ![p] = Append(@, s)]
    /\ UNCHANGED dropped

\* XLogPqcEnqueueSign: past the end of the queue the segment is forgotten.
EnqueueSign(p, s) ==
    \/ /\ Len(queue[p]) < QueueSize
       /\ queue' = [queue EXCEPT ![p] = Append(@, s)]
       /\ UNCHANGED dropped
    \/ /\ Len(queue[p]) >= QueueSize
       /\ dropped' = dropped \cup {s}
       /\ UNCHANGED queue

\* XLogWrite writes the last page of a segment (finishing_seg).
FinishSegment(p) ==
    /\ WALWriteLock = p /\ written < inserted
    /\ written' = written + 1
    /\ present' = present \cup {written + 1}
    /\ EnqueueSign(p, written + 1)
    /\ UNCHANGED <<inserted, WALWriteLock, pc, caller, todo, sig>>

\* Mutant: the count is reset before it is read.
DeferSigningResetFirst(p) ==
    /\ queue' = [queue EXCEPT ![p] = <<>>]
    /\ todo' = [todo EXCEPT ![p] = <<>>]

\* Mutant: the count is not reset.
DeferSigningNoReset(p) ==
    /\ todo' = [todo EXCEPT ![p] = queue[p]]
    /\ UNCHANGED queue

\* XLogPqcProcessDeferredSigning takes the entries over and resets the count.
DeferSigning(p) ==
    /\ todo' = [todo EXCEPT ![p] = queue[p]]
    /\ queue' = [queue EXCEPT ![p] = <<>>]

\* XLogWrite returns and the lock is released.  AdvanceXLInsertBuffer goes on
\* inserting, the flush routines turn to the queue.
EndWrite(p) ==
    /\ WALWriteLock = p
    /\ WALWriteLock' = NoProc
    /\ \/ /\ caller[p] = "insert"
          /\ pc' = [pc EXCEPT ![p] = "idle"]
          /\ UNCHANGED <<queue, todo>>
       \/ /\ caller[p] # "insert"
          /\ pc' = [pc EXCEPT ![p] = "sign"]
          /\ DeferSigning(p)
    /\ UNCHANGED <<inserted, written, caller, present, sig, dropped>>

\* XLogFlush waited for the lock and finds its record flushed by another
\* process: no XLogWrite, but the queue is processed.  (A record known to be
\* flushed already makes XLogFlush return at once, with nothing done.)
FlushedByOther(p, c) ==
    /\ pc[p] = "idle" /\ c # "insert"
    /\ pc' = [pc EXCEPT ![p] = "sign"]
    /\ caller' = [caller EXCEPT ![p] = c]
    /\ DeferSigning(p)
    /\ UNCHANGED <<walVars, present, sig, dropped>>
-----------------------------------------------------------------------------
\* The process dies, or all do: what its queue and its loop hold is forgotten.
Forgotten(p) == Entries(queue[p]) \cup Entries(todo[p])

\* An immediate shutdown, a PANIC or a power failure, and the restart.  WAL
\* that was not written is gone, and so may be the contents of .sig files,
\* which are not fsynced.
Crash ==
    /\ inserted' = written
    /\ WALWriteLock' = NoProc
    /\ pc' = [p \in Procs |-> "idle"]
    /\ queue' = [p \in Procs |-> <<>>]
    /\ todo' = [p \in Procs |-> <<>>]
    /\ dropped' = dropped \cup UNION {Forgotten(p) : p \in Procs}
    /\ \E L \in SUBSET {s \in Segs : sig[s] = "good"} :
        sig' = [s \in Segs |-> IF s \in L THEN "torn" ELSE sig[s]]
    /\ UNCHANGED <<written, caller, present>>

\* Mutant: a failed attempt is repeated.
SignWarningRetry(p) == UNCHANGED <<todo, dropped>>

\* XLogPqcSignSegment fails with a WARNING and leaves no .sig file: the segment
\* is gone, pqc_wal_sign_data failed, or the file cannot be created.
SignWarning(p) ==
    /\ todo' = [todo EXCEPT ![p] = Tail(@)]
    /\ dropped' = dropped \cup {Head(todo[p])}

\* The signature is written, wholly or (a WARNING) in part.
SignWritten(p) ==
    /\ Head(todo[p]) \in present
    /\ \E r \in {"good", "torn"} : sig' = [sig EXCEPT ![Head(todo[p])] = r]
    /\ todo' = [todo EXCEPT ![p] = Tail(@)]
    /\ UNCHANGED dropped

SignSegment(p) ==
    /\ pc[p] = "sign" /\ todo[p] # <<>>
    /\ \/ SignWritten(p)
       \/ SignWarning(p) /\ UNCHANGED sig
    /\ UNCHANGED <<walVars, pc, caller, queue, present>>

\* pqc_sig_new, pqc_sig_sign, palloc or AllocateFile raises an error.  In the
\* critical section of a commit that is a PANIC; elsewhere the transaction
\* aborts and the rest of the loop is abandoned.
SignError(p) ==
    /\ pc[p] = "sign" /\ todo[p] # <<>>
    /\ \/ caller[p] = "commit" /\ Crash
       \/ /\ caller[p] # "commit"
          /\ dropped' = dropped \cup Entries(todo[p])
          /\ todo' = [todo EXCEPT ![p] = <<>>]
          /\ pc' = [pc EXCEPT ![p] = "idle"]
          /\ UNCHANGED <<walVars, caller, queue, present, sig>>

\* The flush routine returns to its caller.
Return(p) ==
    /\ pc[p] = "sign" /\ todo[p] = <<>>
    /\ pc' = [pc EXCEPT ![p] = "idle"]
    /\ UNCHANGED <<walVars, caller, queue, todo, present, sig, dropped>>

\* A process ends, its queue with it; another takes its place.
Exit(p) ==
    /\ pc[p] = "idle"
    /\ dropped' = dropped \cup Forgotten(p)
    /\ queue' = [queue EXCEPT ![p] = <<>>]
    /\ UNCHANGED <<walVars, pc, caller, todo, present, sig>>

\* A checkpoint removes or recycles a segment that is no longer needed.
RemoveSegment(s) ==
    /\ present' = present \ {s}
    /\ UNCHANGED <<walVars, procVars, sig, dropped>>

\* Writing, and returning from a flush.
Work ==
    \/ FillSegment
    \/ \E p \in Procs, c \in Callers : BeginWrite(p, c) \/ FlushedByOther(p, c)
    \/ \E p \in Procs : FinishSegment(p) \/ EndWrite(p) \/ Return(p)

Next ==
    \/ Work
    \/ \E p \in Procs : SignSegment(p) \/ SignError(p) \/ Exit(p)
    \/ \E s \in present : RemoveSegment(s)
    \/ Crash

\* A process that has begun a write or is in the signing loop keeps running.
Fairness ==
    \A p \in Procs :
        /\ WF_vars(EndWrite(p))
        /\ WF_vars(SignSegment(p))
        /\ WF_vars(Return(p))

Spec == Init /\ [][Next]_vars /\ Fairness

-----------------------------------------------------------------------------
\* Type invariant.
TypeOK ==
    /\ inserted \in 0 .. MaxSeg /\ written \in 0 .. inserted
    /\ WALWriteLock \in Procs \cup {NoProc}
    /\ pc \in [Procs -> {"idle", "write", "sign"}]
    /\ caller \in [Procs -> Callers]
    /\ queue \in [Procs -> Seq(Segs)] /\ todo \in [Procs -> Seq(Segs)]
    /\ \A p \in Procs : Len(queue[p]) <= QueueSize
    /\ present \subseteq Segs /\ dropped \subseteq Segs
    /\ sig \in [Segs -> {"none", "torn", "good"}]

\* No completed segment vanishes between XLogWrite, the queue and the signing
\* loop: it has a .sig file, some process still holds it, or it is one of those
\* a full queue, an error or the end of its process dropped.
EverySegmentAccounted ==
    \A s \in 1 .. written :
        sig[s] # "none" \/ s \in dropped \/ \E p \in Procs : s \in Forgotten(p)

\* No segment is signed twice or queued in two processes, and none is queued
\* before it is complete: a .sig file, once written, is never reopened.
SignedAtMostOnce ==
    \A p \in Procs :
        LET mine == queue[p] \o todo[p] IN
        /\ \A i \in DOMAIN mine :
            /\ mine[i] <= written /\ sig[mine[i]] = "none"
            /\ \A j \in DOMAIN mine : i # j => mine[i] # mine[j]
            /\ \A q \in Procs \ {p} : mine[i] \notin Forgotten(q)

\* Trouble with signatures never holds up a flush, so neither a commit: a
\* process that enters XLogPqcProcessDeferredSigning leaves it.  And a flush
\* settles what its process has queued, however many segments others complete
\* meanwhile: a segment waits in a queue no longer than until its own process
\* next writes WAL in XLogFlush or XLogBackgroundFlush.
FlushSettles ==
    \A p \in Procs :
        /\ pc[p] = "sign" ~> pc[p] # "sign"
        /\ \A s \in Segs :
            pc[p] = "write" /\ caller[p] # "insert" /\ s \in Entries(queue[p])
            ~> s \notin Forgotten(p)
=============================================================================
