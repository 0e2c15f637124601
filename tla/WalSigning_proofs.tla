------------------------- MODULE WalSigning_proofs -------------------------
(***************************************************************************)
(* Proofs about WalSigning, for any number of processes and segments and   *)
(* any size of queue: types, no completed segment lost, none signed twice. *)
(***************************************************************************)
EXTENDS WalSigning, TLAPS

\* Where a process is decides what it holds: WALWriteLock in XLogWrite, entries
\* of its own in the signing loop only.
Control ==
    \A p \in Procs :
        /\ pc[p] = "write" <=> WALWriteLock = p
        /\ pc[p] # "sign" => todo[p] = <<>>

\* No entry occurs twice in a queue.
Once(q) == \A i, j \in DOMAIN q : q[i] = q[j] => i = j

\* An entry waits in one place, its segment is complete and has no .sig file.
Waiting ==
    /\ \A s \in Segs : sig[s] # "none" => s <= written
    /\ \A p \in Procs :
        /\ \A s \in Forgotten(p) : s <= written /\ sig[s] = "none"
        /\ Once(queue[p]) /\ Once(todo[p])
        /\ Entries(queue[p]) \cap Entries(todo[p]) = {}
        /\ \A q \in Procs : q # p => Forgotten(p) \cap Forgotten(q) = {}

Inv == TypeOK /\ Control /\ Waiting /\ EverySegmentAccounted

-----------------------------------------------------------------------------
\* What appending, emptying and taking the first entry do to the entries.
LEMMA EntriesOfEmpty == Entries(<<>>) = {} /\ Once(<<>>)
  BY DEF Entries, Once

\* Appending a segment to a queue adds one entry of that segment.
LEMMA EntriesOfAppend ==
    ASSUME NEW q \in Seq(Segs), NEW s \in Segs
    PROVE  /\ Append(q, s) \in Seq(Segs)
           /\ Entries(Append(q, s)) = Entries(q) \cup {s}
           /\ Once(q) /\ s \notin Entries(q) => Once(Append(q, s))
  <1>1. /\ Len(Append(q, s)) = Len(q) + 1 /\ Append(q, s)[Len(q) + 1] = s
        /\ \A i \in 1 .. Len(q) : Append(q, s)[i] = q[i]
        /\ DOMAIN Append(q, s) = 1 .. Len(q) + 1 /\ DOMAIN q = 1 .. Len(q)
        /\ Len(q) \in Nat
    OBVIOUS
  <1>2. Entries(Append(q, s)) = Entries(q) \cup {s}
    BY <1>1 DEF Entries
  <1>3. Once(q) /\ s \notin Entries(q) => Once(Append(q, s))
    BY <1>1 DEF Entries, Once
  <1> QED BY <1>2, <1>3

\* Taking the first segment off a queue removes one entry of it.
LEMMA EntriesOfTail ==
    ASSUME NEW q \in Seq(Segs), q # <<>>
    PROVE  /\ Tail(q) \in Seq(Segs) /\ Head(q) \in Segs
           /\ Entries(q) = Entries(Tail(q)) \cup {Head(q)}
           /\ Once(q) => Once(Tail(q)) /\ Head(q) \notin Entries(Tail(q))
  <1>1. /\ Len(q) \in Nat /\ Len(q) >= 1
        /\ Head(q) = q[1] /\ Len(Tail(q)) = Len(q) - 1
        /\ DOMAIN q = 1 .. Len(q) /\ DOMAIN Tail(q) = 1 .. Len(q) - 1
        /\ \A i \in 1 .. Len(q) - 1 : Tail(q)[i] = q[i + 1]
        /\ Tail(q) \in Seq(Segs) /\ Head(q) \in Segs
    OBVIOUS
  <1>2. Entries(q) = Entries(Tail(q)) \cup {Head(q)}
    <2>1. ASSUME NEW x \in Entries(q) PROVE x \in Entries(Tail(q)) \cup {Head(q)}
      <3>1. PICK i \in 1 .. Len(q) : x = q[i] BY <1>1 DEF Entries
      <3>2. CASE i = 1 BY <3>1, <3>2, <1>1
      <3>3. CASE i # 1
        <4>1. i - 1 \in DOMAIN Tail(q) /\ Tail(q)[i - 1] = x BY <3>1, <3>3, <1>1
        <4> QED BY <4>1, Zenon DEF Entries
      <3> QED BY <3>2, <3>3
    <2>2. ASSUME NEW x \in Entries(Tail(q)) \cup {Head(q)} PROVE x \in Entries(q)
      BY <1>1 DEF Entries
    <2> QED BY <2>1, <2>2
  <1>3. Once(q) => Once(Tail(q))
    BY <1>1 DEF Once
  <1>4. Once(q) => Head(q) \notin Entries(Tail(q))
    BY <1>1 DEF Once, Entries
  <1> QED BY <1>1, <1>2, <1>3, <1>4

-----------------------------------------------------------------------------
\* The state a process's part of an action leaves behind: the other processes'
\* queues and loops are what they were.
LEMMA OthersKeep ==
    ASSUME TypeOK, NEW p \in Procs, NEW x, NEW y,
           queue' = [queue EXCEPT ![p] = x], todo' = [todo EXCEPT ![p] = y]
    PROVE  /\ queue'[p] = x /\ todo'[p] = y
           /\ Forgotten(p)' = Entries(x) \cup Entries(y)
           /\ \A q \in Procs : q # p =>
                /\ queue'[q] = queue[q] /\ todo'[q] = todo[q]
                /\ Forgotten(q)' = Forgotten(q)
  BY DEF TypeOK, Forgotten

\* What waits are segments.
LEMMA HeldTypes ==
    ASSUME TypeOK, NEW q \in Procs
    PROVE  Forgotten(q) \subseteq Segs
  <1>1. queue[q] \in Seq(Segs) /\ todo[q] \in Seq(Segs)
    BY DEF TypeOK
  <1>2. ASSUME NEW z \in Seq(Segs) PROVE Entries(z) \subseteq Segs
    BY DEF Entries
  <1> QED BY <1>1, <1>2 DEF Forgotten

\* An action that leaves queues, loops, signatures and progress alone.
LEMMA StutterQueues ==
    ASSUME Inv, UNCHANGED <<written, queue, todo, sig, dropped>>
    PROVE  Waiting' /\ EverySegmentAccounted'
  <1>1. \A p \in Procs : Forgotten(p)' = Forgotten(p)
    BY DEF Forgotten
  <1> QED BY <1>1 DEF Inv, Waiting, EverySegmentAccounted

\* Filling a segment preserves the invariant.
LEMMA StepFill ==
    ASSUME Inv, FillSegment
    PROVE  Inv'
  <1>1. TypeOK'
    BY SigningAssumption DEF Inv, TypeOK, FillSegment, procVars
  <1>2. Control'
    BY DEF Inv, Control, FillSegment, procVars
  <1> QED BY <1>1, <1>2, StutterQueues DEF Inv, FillSegment, procVars

\* The beginning of a flush does too.
LEMMA StepBegin ==
    ASSUME Inv, NEW p \in Procs, NEW c \in Callers, BeginWrite(p, c)
    PROVE  Inv'
  <1>1. TypeOK'
    BY DEF Inv, TypeOK, BeginWrite
  <1>2. Control'
    BY SigningAssumption DEF Inv, Control, BeginWrite, TypeOK
  <1> QED BY <1>1, <1>2, StutterQueues DEF Inv, BeginWrite

\* The return from a flush does too.
LEMMA StepReturn ==
    ASSUME Inv, NEW p \in Procs, Return(p)
    PROVE  Inv'
  <1>1. TypeOK'
    BY DEF Inv, TypeOK, Return, walVars
  <1>2. Control'
    BY DEF Inv, Control, Return, TypeOK, walVars
  <1> QED BY <1>1, <1>2, StutterQueues DEF Inv, Return, walVars

\* Recycling a segment does too.
LEMMA StepRemove ==
    ASSUME Inv, NEW s \in present, RemoveSegment(s)
    PROVE  Inv'
  <1>1. TypeOK'
    BY DEF Inv, TypeOK, RemoveSegment, walVars, procVars
  <1>2. Control'
    BY DEF Inv, Control, RemoveSegment, walVars, procVars
  <1> QED BY <1>1, <1>2, StutterQueues DEF Inv, RemoveSegment, walVars, procVars

\* XLogWrite completes a segment: it is new to every queue.
LEMMA StepFinish ==
    ASSUME Inv, NEW p \in Procs, FinishSegment(p)
    PROVE  Inv'
  <1> DEFINE s == written + 1
  <1>1. /\ s \in Segs /\ written \in Nat /\ sig[s] = "none"
        /\ written' = s /\ UNCHANGED <<inserted, WALWriteLock, pc, caller, todo, sig>>
        /\ present' = present \cup {s} /\ inserted \in 0 .. MaxSeg /\ s <= inserted
    BY SigningAssumption DEF Inv, TypeOK, Waiting, FinishSegment, Segs
  <1>2. \A q \in Procs : s \notin Forgotten(q) /\ \A t \in Forgotten(q) : t \in Segs
    <2>1. ASSUME NEW q \in Procs, NEW t \in Forgotten(q) PROVE t \in Segs /\ t <= written
      BY HeldTypes DEF Inv, Waiting
    <2> QED BY <1>1, <2>1 DEF Segs
  <1>3. Control'
    BY <1>1, EntriesOfEmpty DEF Inv, Control
  <1>4. CASE Len(queue[p]) < QueueSize /\ queue' = [queue EXCEPT ![p] = Append(@, s)]
              /\ UNCHANGED dropped
    <2> DEFINE x == Append(queue[p], s)
    <2>1. queue[p] \in Seq(Segs) /\ todo' = [todo EXCEPT ![p] = todo[p]]
          /\ queue' = [queue EXCEPT ![p] = x]
      BY <1>1, <1>4 DEF Inv, TypeOK
    <2>2. /\ x \in Seq(Segs) /\ Entries(x) = Entries(queue[p]) \cup {s}
          /\ Once(x) /\ Len(x) = Len(queue[p]) + 1
      BY <2>1, <1>1, <1>2, EntriesOfAppend DEF Inv, Waiting, Forgotten
    <2>3. /\ queue'[p] = x /\ todo'[p] = todo[p]
          /\ Forgotten(p)' = Forgotten(p) \cup {s}
          /\ \A q \in Procs : q # p =>
               /\ queue'[q] = queue[q] /\ todo'[q] = todo[q]
               /\ Forgotten(q)' = Forgotten(q)
      <3> HIDE DEF x, s
      <3> QED BY <2>1, <2>2, OthersKeep, Zenon DEF Inv, Forgotten
    <2>4. TypeOK'
      <3>1. queue' \in [Procs -> Seq(Segs)] /\ \A q \in Procs : Len(queue'[q]) <= QueueSize
        BY <1>4, <2>1, <2>2, <2>3, SigningAssumption DEF Inv, TypeOK
      <3> QED BY <1>1, <1>4, <3>1 DEF Inv, TypeOK
    <2>5. Waiting'
      <3> HIDE DEF x
      <3>1. \A t \in Segs : sig'[t] # "none" => t <= written'
        BY <1>1 DEF Inv, Waiting, Segs
      <3>2. ASSUME NEW q \in Procs
            PROVE  /\ \A t \in Forgotten(q)' : t <= written' /\ sig'[t] = "none"
                   /\ Once(queue'[q]) /\ Once(todo'[q])
                   /\ Entries(queue'[q]) \cap Entries(todo'[q]) = {}
        <4>1. CASE q = p
          <5>1. \A t \in Forgotten(q)' : t <= written' /\ sig'[t] = "none"
            <6>1. \A t \in Forgotten(p) : t \in Segs /\ t <= written /\ sig[t] = "none"
              BY <1>2 DEF Inv, Waiting
            <6> QED BY <6>1, <4>1, <1>1, <2>3 DEF Segs
          <5>2. Once(queue'[q]) /\ Once(todo'[q])
            BY <4>1, <2>2, <2>3 DEF Inv, Waiting
          <5>3. Entries(queue'[q]) \cap Entries(todo'[q]) = {}
            BY <4>1, <1>2, <2>2, <2>3 DEF Inv, Waiting, Forgotten
          <5> QED BY <5>1, <5>2, <5>3
        <4>2. CASE q # p
          BY <4>2, <1>1, <1>2, <2>3 DEF Inv, Waiting, Segs
        <4> QED BY <4>1, <4>2
      <3>3. \A q, r \in Procs : r # q => Forgotten(q)' \cap Forgotten(r)' = {}
        BY <1>2, <2>3 DEF Inv, Waiting
      <3> QED BY <3>1, <3>2, <3>3 DEF Waiting
    <2>6. EverySegmentAccounted'
      <3> HIDE DEF x
      <3> QED BY <1>1, <1>4, <2>3 DEF Inv, EverySegmentAccounted
    <2> QED BY <1>3, <2>4, <2>5, <2>6 DEF Inv
  <1>5. CASE dropped' = dropped \cup {s} /\ UNCHANGED queue
    <2>1. TypeOK'
      BY <1>1, <1>5 DEF Inv, TypeOK
    <2>2. \A q \in Procs : Forgotten(q)' = Forgotten(q)
      BY <1>1, <1>5 DEF Forgotten
    <2>3. Waiting'
      BY <1>1, <1>2, <1>5, <2>2 DEF Inv, Waiting, Segs
    <2>4. EverySegmentAccounted'
      BY <1>1, <1>5, <2>2 DEF Inv, EverySegmentAccounted
    <2> QED BY <1>3, <2>1, <2>3, <2>4 DEF Inv
  <1> QED BY <1>4, <1>5 DEF FinishSegment, EnqueueSign

\* XLogPqcProcessDeferredSigning moves the entries from the queue to the loop.
LEMMA MoveQueue ==
    ASSUME Inv, NEW p \in Procs, pc[p] # "sign", DeferSigning(p),
           UNCHANGED <<written, sig, dropped>>
    PROVE  /\ queue' \in [Procs -> Seq(Segs)] /\ todo' \in [Procs -> Seq(Segs)]
           /\ \A q \in Procs : Len(queue'[q]) <= QueueSize
           /\ \A q \in Procs : q # p => todo'[q] = todo[q]
           /\ Waiting' /\ EverySegmentAccounted'
  <1>1. /\ queue' = [queue EXCEPT ![p] = <<>>] /\ todo' = [todo EXCEPT ![p] = queue[p]]
        /\ todo[p] = <<>>
    BY DEF DeferSigning, Inv, Control
  <1>2. /\ queue'[p] = <<>> /\ todo'[p] = queue[p]
        /\ Forgotten(p)' = Entries(<<>>) \cup Entries(queue[p])
        /\ \A q \in Procs : q # p =>
             /\ queue'[q] = queue[q] /\ todo'[q] = todo[q]
             /\ Forgotten(q)' = Forgotten(q)
    BY <1>1, OthersKeep, Zenon DEF Inv
  <1>3. \A q \in Procs : Forgotten(q)' = Forgotten(q)
    BY <1>1, <1>2, EntriesOfEmpty DEF Forgotten
  <1>4. Waiting'
    <2>1. \A q \in Procs : /\ Once(queue'[q]) /\ Once(todo'[q])
                           /\ Entries(queue'[q]) \cap Entries(todo'[q]) = {}
      BY <1>2, EntriesOfEmpty DEF Inv, Waiting
    <2> QED BY <1>3, <2>1 DEF Inv, Waiting
  <1>5. EverySegmentAccounted'
    BY <1>3 DEF Inv, EverySegmentAccounted
  <1>6. /\ queue' \in [Procs -> Seq(Segs)] /\ todo' \in [Procs -> Seq(Segs)]
        /\ \A q \in Procs : Len(queue'[q]) <= QueueSize
    BY <1>1, <1>2, SigningAssumption DEF Inv, TypeOK
  <1> QED BY <1>2, <1>4, <1>5, <1>6

\* The end of XLogWrite, where the segments still to sign are known, does too.
LEMMA StepEndWrite ==
    ASSUME Inv, NEW p \in Procs, EndWrite(p)
    PROVE  Inv'
  <1>1. /\ WALWriteLock = p /\ WALWriteLock' = NoProc /\ pc[p] = "write"
        /\ UNCHANGED <<inserted, written, caller, present, sig, dropped>>
    BY DEF EndWrite, Inv, Control
  <1>2. CASE pc' = [pc EXCEPT ![p] = "idle"] /\ UNCHANGED <<queue, todo>>
    <2>1. TypeOK' BY <1>1, <1>2 DEF Inv, TypeOK
    <2>2. Control' BY <1>1, <1>2, SigningAssumption DEF Inv, Control, TypeOK
    <2> QED BY <1>1, <1>2, <2>1, <2>2, StutterQueues DEF Inv
  <1>3. CASE pc' = [pc EXCEPT ![p] = "sign"] /\ DeferSigning(p)
    <2>1. /\ queue' \in [Procs -> Seq(Segs)] /\ todo' \in [Procs -> Seq(Segs)]
          /\ \A q \in Procs : Len(queue'[q]) <= QueueSize
          /\ \A q \in Procs : q # p => todo'[q] = todo[q]
          /\ Waiting' /\ EverySegmentAccounted'
      BY <1>1, <1>3, MoveQueue
    <2>2. TypeOK' BY <1>1, <1>3, <2>1, Zenon DEF Inv, TypeOK
    <2>3. Control' BY <1>1, <1>3, <2>1, SigningAssumption DEF Inv, Control, TypeOK
    <2> QED BY <2>1, <2>2, <2>3 DEF Inv
  <1> QED BY <1>2, <1>3 DEF EndWrite

\* A flush another process has done already does too.
LEMMA StepFlushedByOther ==
    ASSUME Inv, NEW p \in Procs, NEW c \in Callers, FlushedByOther(p, c)
    PROVE  Inv'
  <1>1. /\ pc[p] = "idle" /\ pc' = [pc EXCEPT ![p] = "sign"] /\ DeferSigning(p)
        /\ caller' = [caller EXCEPT ![p] = c]
        /\ UNCHANGED <<inserted, written, WALWriteLock, present, sig, dropped>>
    BY DEF FlushedByOther, walVars
  <1>2. /\ queue' \in [Procs -> Seq(Segs)] /\ todo' \in [Procs -> Seq(Segs)]
        /\ \A q \in Procs : Len(queue'[q]) <= QueueSize
        /\ \A q \in Procs : q # p => todo'[q] = todo[q]
        /\ Waiting' /\ EverySegmentAccounted'
    BY <1>1, MoveQueue
  <1>3. TypeOK' BY <1>1, <1>2, Zenon DEF Inv, TypeOK
  <1>4. Control' BY <1>1, <1>2, Zenon DEF Inv, Control, TypeOK
  <1> QED BY <1>2, <1>3, <1>4 DEF Inv

\* One round of the loop: the first entry gets its signature, or is given up.
LEMMA StepSign ==
    ASSUME Inv, NEW p \in Procs, SignSegment(p)
    PROVE  Inv'
  <1> DEFINE h == Head(todo[p])
             r == Tail(todo[p])
  <1>1. /\ pc[p] = "sign" /\ todo[p] # <<>> /\ todo[p] \in Seq(Segs)
        /\ todo' = [todo EXCEPT ![p] = r] /\ queue' = [queue EXCEPT ![p] = queue[p]]
        /\ UNCHANGED <<inserted, written, WALWriteLock, pc, caller, queue, present>>
    BY Zenon DEF SignSegment, SignWritten, SignWarning, walVars, Inv, TypeOK
  <1>2. /\ r \in Seq(Segs) /\ h \in Segs /\ Once(r) /\ h \notin Entries(r)
        /\ Entries(todo[p]) = Entries(r) \cup {h}
    BY <1>1, EntriesOfTail DEF Inv, Waiting
  <1> HIDE DEF r, h
  <1>3. /\ queue'[p] = queue[p] /\ todo'[p] = r
        /\ Forgotten(p)' = Entries(queue[p]) \cup Entries(r)
        /\ \A q \in Procs : q # p =>
             /\ queue'[q] = queue[q] /\ todo'[q] = todo[q]
             /\ Forgotten(q)' = Forgotten(q)
    BY <1>1, OthersKeep, Zenon DEF Inv
  <1>4. /\ Forgotten(p) = Forgotten(p)' \cup {h} /\ h \notin Forgotten(p)'
        /\ h <= written
        /\ \A q \in Procs : q # p => h \notin Forgotten(q)
    BY <1>2, <1>3, Zenon DEF Inv, Waiting, Forgotten
  <1>5. /\ sig' \in [Segs -> {"none", "torn", "good"}] /\ dropped' \subseteq Segs
        /\ \A s \in Segs : s # h => sig'[s] = sig[s]
        /\ dropped \subseteq dropped' /\ (sig'[h] # "none" \/ h \in dropped')
    <2>1. CASE SignWritten(p)
      BY <2>1, <1>2 DEF SignWritten, Inv, TypeOK, h
    <2>2. CASE SignWarning(p) /\ UNCHANGED sig
      BY <2>2, <1>2 DEF SignWarning, Inv, TypeOK, h
    <2> QED BY <2>1, <2>2 DEF SignSegment
  <1>6. TypeOK'
    <2>1. todo' \in [Procs -> Seq(Segs)] BY <1>1, <1>2 DEF Inv, TypeOK
    <2> QED BY <1>1, <1>5, <2>1 DEF Inv, TypeOK
  <1>7. Control'
    BY <1>1, <1>3 DEF Inv, Control
  <1>8. Waiting'
    <2>1. \A s \in Segs : sig'[s] # "none" => s <= written'
      BY <1>1, <1>4, <1>5 DEF Inv, Waiting
    <2>2. ASSUME NEW q \in Procs, NEW t \in Forgotten(q)'
          PROVE  t <= written' /\ sig'[t] = "none"
      <3>1. t \in Forgotten(q) /\ t # h /\ t \in Segs
        <4>1. t \in Forgotten(q) /\ t # h BY <1>3, <1>4, Zenon
        <4> QED BY <4>1, HeldTypes DEF Inv
      <3> QED BY <3>1, <1>1, <1>5 DEF Inv, Waiting
    <2>3. \A q \in Procs : /\ Once(queue'[q]) /\ Once(todo'[q])
                           /\ Entries(queue'[q]) \cap Entries(todo'[q]) = {}
      BY <1>2, <1>3, Zenon DEF Inv, Waiting
    <2>4. \A q, s \in Procs : s # q => Forgotten(q)' \cap Forgotten(s)' = {}
      BY <1>3, <1>4 DEF Inv, Waiting
    <2> QED BY <2>1, <2>2, <2>3, <2>4 DEF Waiting
  <1>9. EverySegmentAccounted'
    <2> SUFFICES ASSUME NEW s \in 1 .. written'
                 PROVE  \/ sig'[s] # "none" \/ s \in dropped'
                        \/ \E q \in Procs : s \in Forgotten(q)'
      BY DEF EverySegmentAccounted
    <2>1. s \in 1 .. written /\ s \in Segs
      BY <1>1, SigningAssumption DEF Inv, TypeOK, Segs
    <2>2. sig[s] # "none" \/ s \in dropped \/ \E q \in Procs : s \in Forgotten(q)
      BY <2>1 DEF Inv, EverySegmentAccounted
    <2> QED BY <2>1, <2>2, <1>3, <1>4, <1>5
  <1> QED BY <1>6, <1>7, <1>8, <1>9 DEF Inv

\* A process gives up entries it holds: those it no longer holds are dropped.
LEMMA GiveUp ==
    ASSUME Inv, NEW p \in Procs, UNCHANGED <<written, sig>>,
           NEW x \in {queue[p], <<>>}, NEW y \in {todo[p], <<>>},
           queue' = [queue EXCEPT ![p] = x], todo' = [todo EXCEPT ![p] = y],
           dropped \subseteq dropped',
           Forgotten(p) \subseteq dropped' \cup Entries(x) \cup Entries(y)
    PROVE  Waiting' /\ EverySegmentAccounted'
  <1>1. /\ queue'[p] = x /\ todo'[p] = y
        /\ Forgotten(p)' = Entries(x) \cup Entries(y)
        /\ \A q \in Procs : q # p =>
             /\ queue'[q] = queue[q] /\ todo'[q] = todo[q]
             /\ Forgotten(q)' = Forgotten(q)
    BY OthersKeep, Zenon DEF Inv
  <1>2. /\ Forgotten(p)' \subseteq Forgotten(p) /\ Once(x) /\ Once(y)
        /\ Entries(x) \cap Entries(y) = {}
    BY <1>1, EntriesOfEmpty DEF Inv, Waiting, Forgotten
  <1>3. Waiting'
    <2>1. \A q \in Procs : Forgotten(q)' \subseteq Forgotten(q)
      BY <1>1, <1>2
    <2>2. \A q \in Procs : /\ Once(queue'[q]) /\ Once(todo'[q])
                           /\ Entries(queue'[q]) \cap Entries(todo'[q]) = {}
      BY <1>1, <1>2 DEF Inv, Waiting
    <2> QED BY <2>1, <2>2 DEF Inv, Waiting
  <1>4. EverySegmentAccounted'
    BY <1>1 DEF Inv, EverySegmentAccounted
  <1> QED BY <1>3, <1>4

\* A crash of the server preserves the invariant.
LEMMA StepCrash ==
    ASSUME Inv, Crash
    PROVE  Inv'
  <1>1. /\ inserted' = written /\ WALWriteLock' = NoProc
        /\ pc' = [p \in Procs |-> "idle"]
        /\ queue' = [p \in Procs |-> <<>>] /\ todo' = [p \in Procs |-> <<>>]
        /\ dropped' = dropped \cup UNION {Forgotten(p) : p \in Procs}
        /\ UNCHANGED <<written, caller, present>>
    BY DEF Crash
  <1>2. PICK L \in SUBSET {s \in Segs : sig[s] = "good"} :
            sig' = [s \in Segs |-> IF s \in L THEN "torn" ELSE sig[s]]
    BY DEF Crash
  <1>3. /\ sig' \in [Segs -> {"none", "torn", "good"}]
        /\ \A s \in Segs : sig'[s] = "none" <=> sig[s] = "none"
    BY <1>2 DEF Inv, TypeOK
  <1>4. \A p \in Procs : queue'[p] = <<>> /\ todo'[p] = <<>> /\ Forgotten(p)' = {}
    BY <1>1, EntriesOfEmpty DEF Forgotten
  <1>5. \A p \in Procs : Forgotten(p) \subseteq Segs
    BY HeldTypes DEF Inv
  <1>6. TypeOK'
    BY <1>1, <1>3, <1>4, <1>5, SigningAssumption DEF Inv, TypeOK
  <1>7. Control'
    BY <1>1, <1>4, SigningAssumption, Zenon DEF Control
  <1>8. Waiting'
    BY <1>1, <1>3, <1>4, EntriesOfEmpty DEF Inv, Waiting
  <1>9. EverySegmentAccounted'
    <2> SUFFICES ASSUME NEW s \in 1 .. written' PROVE sig'[s] # "none" \/ s \in dropped'
      BY DEF EverySegmentAccounted
    <2>1. s \in 1 .. written /\ s \in Segs
      BY <1>1, SigningAssumption DEF Inv, TypeOK, Segs
    <2>2. sig[s] # "none" \/ s \in dropped \/ \E q \in Procs : s \in Forgotten(q)
      BY <2>1 DEF Inv, EverySegmentAccounted
    <2> QED BY <2>1, <2>2, <1>1, <1>3
  <1> QED BY <1>6, <1>7, <1>8, <1>9 DEF Inv

\* An error while signing does too, as a PANIC or as an abort.
LEMMA StepSignError ==
    ASSUME Inv, NEW p \in Procs, SignError(p)
    PROVE  Inv'
  <1>1. CASE Crash BY <1>1, StepCrash
  <1>2. CASE /\ dropped' = dropped \cup Entries(todo[p])
             /\ todo' = [todo EXCEPT ![p] = <<>>]
             /\ pc' = [pc EXCEPT ![p] = "idle"]
             /\ UNCHANGED <<walVars, caller, queue, present, sig>>
    <2>1. queue' = [queue EXCEPT ![p] = queue[p]] /\ pc[p] = "sign"
      BY <1>2 DEF Inv, TypeOK, SignError
    <2>2. Waiting' /\ EverySegmentAccounted'
      BY <1>2, <2>1, GiveUp, Zenon DEF Forgotten, walVars
    <2>3. Entries(todo[p]) \subseteq Segs
      BY HeldTypes DEF Inv, Forgotten
    <2>4. TypeOK'
      BY <1>2, <2>3 DEF Inv, TypeOK, walVars
    <2>5. Control'
      BY <1>2, <2>1 DEF Inv, Control, TypeOK, walVars
    <2> QED BY <2>2, <2>4, <2>5 DEF Inv
  <1> QED BY <1>1, <1>2 DEF SignError

\* The exit of a process does too.
LEMMA StepExit ==
    ASSUME Inv, NEW p \in Procs, Exit(p)
    PROVE  Inv'
  <1>1. todo' = [todo EXCEPT ![p] = todo[p]]
    BY DEF Exit, Inv, TypeOK
  <1>2. Waiting' /\ EverySegmentAccounted'
    BY <1>1, GiveUp, Zenon DEF Exit, walVars
  <1>3. Forgotten(p) \subseteq Segs
    BY HeldTypes DEF Inv
  <1>4. TypeOK'
    BY <1>3, SigningAssumption DEF Inv, TypeOK, Exit, walVars
  <1>5. Control'
    BY DEF Inv, Control, Exit, walVars
  <1> QED BY <1>2, <1>4, <1>5 DEF Inv

-----------------------------------------------------------------------------
\* A server without WAL satisfies the invariant.
LEMMA InvInit == Init => Inv
  <1> SUFFICES ASSUME Init PROVE Inv OBVIOUS
  <1>1. \A p \in Procs : queue[p] = <<>> /\ todo[p] = <<>> /\ Forgotten(p) = {}
    BY EntriesOfEmpty DEF Init, Forgotten
  <1>2. TypeOK
    BY <1>1, SigningAssumption DEF Init, TypeOK, Callers
  <1>3. Control
    BY <1>1, SigningAssumption DEF Init, Control
  <1>4. Waiting
    BY <1>1, EntriesOfEmpty DEF Init, Waiting
  <1>5. EverySegmentAccounted
    BY DEF Init, EverySegmentAccounted
  <1> QED BY <1>2, <1>3, <1>4, <1>5 DEF Inv

\* Every step preserves the invariant.
LEMMA InvStep == Inv /\ [Next]_vars => Inv'
  <1> SUFFICES ASSUME Inv, [Next]_vars PROVE Inv' OBVIOUS
  <1>1. CASE UNCHANGED vars
    <2>1. TypeOK' BY <1>1, Zenon DEF Inv, TypeOK, vars, walVars, procVars
    <2>2. Control' BY <1>1 DEF Inv, Control, vars, walVars, procVars
    <2> QED BY <1>1, <2>1, <2>2, StutterQueues DEF Inv, vars, walVars, procVars
  <1>2. CASE Work
    BY <1>2, StepFill, StepBegin, StepFlushedByOther, StepFinish, StepEndWrite, StepReturn
       DEF Work
  <1>3. CASE \E p \in Procs : SignSegment(p) \/ SignError(p) \/ Exit(p)
    BY <1>3, StepSign, StepSignError, StepExit
  <1>4. CASE \E s \in present : RemoveSegment(s)
    BY <1>4, StepRemove
  <1>5. CASE Crash
    BY <1>5, StepCrash
  <1> QED BY <1>1, <1>2, <1>3, <1>4, <1>5 DEF Next

\* Types hold, a queue never outgrows PQC_SIGN_QUEUE_SIZE, and nothing waits twice.
THEOREM SigningInvariant == Spec => []Inv
  BY InvInit, InvStep, PTL DEF Spec

\* The queues keep their types and their bound, PQC_SIGN_QUEUE_SIZE.
THEOREM SigningTypes == Spec => []TypeOK
  <1>1. Inv => TypeOK BY DEF Inv
  <1> QED BY <1>1, SigningInvariant, PTL

\* Every completed segment is signed, waits in a queue or a signing loop, or was
\* dropped for a reason, for any number of processes.
THEOREM AllSegmentsAccounted == Spec => []EverySegmentAccounted
  <1>1. Inv => EverySegmentAccounted BY DEF Inv
  <1> QED BY <1>1, SigningInvariant, PTL

\* No segment is queued twice, in one process or in two, and none that waits
\* already has a signature.
THEOREM NeverSignedTwice == Spec => []SignedAtMostOnce
  <1>1. ASSUME Inv PROVE SignedAtMostOnce
    <2> SUFFICES ASSUME NEW p \in Procs
                 PROVE  LET mine == queue[p] \o todo[p] IN
                        \A i \in DOMAIN mine :
                          /\ mine[i] <= written /\ sig[mine[i]] = "none"
                          /\ \A j \in DOMAIN mine : i # j => mine[i] # mine[j]
                          /\ \A q \in Procs \ {p} : mine[i] \notin Forgotten(q)
      BY Zenon DEF SignedAtMostOnce
    <2> DEFINE a == queue[p]
               b == todo[p]
    <2>1. a \in Seq(Segs) /\ b \in Seq(Segs)
      BY <1>1 DEF Inv, TypeOK
    <2>2. /\ Forgotten(p) = Entries(a) \cup Entries(b)
          /\ \A s \in Forgotten(p) : s <= written /\ sig[s] = "none"
          /\ Once(a) /\ Once(b) /\ Entries(a) \cap Entries(b) = {}
          /\ \A q \in Procs : q # p => Forgotten(p) \cap Forgotten(q) = {}
      BY <1>1 DEF Inv, Waiting, Forgotten
    <2> HIDE DEF a, b
    <2>3. /\ DOMAIN (a \o b) = 1 .. Len(a) + Len(b) /\ Len(a) \in Nat /\ Len(b) \in Nat
          /\ \A i \in 1 .. Len(a) : (a \o b)[i] = a[i]
          /\ \A i \in Len(a) + 1 .. Len(a) + Len(b) : (a \o b)[i] = b[i - Len(a)]
          /\ DOMAIN a = 1 .. Len(a) /\ DOMAIN b = 1 .. Len(b)
      BY <2>1
    <2>4. /\ \A i \in 1 .. Len(a) : (a \o b)[i] \in Entries(a)
          /\ \A i \in Len(a) + 1 .. Len(a) + Len(b) : (a \o b)[i] \in Entries(b)
      <3>1. ASSUME NEW i \in Len(a) + 1 .. Len(a) + Len(b) PROVE (a \o b)[i] \in Entries(b)
        <4>1. i - Len(a) \in DOMAIN b /\ (a \o b)[i] = b[i - Len(a)] BY <2>3
        <4> QED BY <4>1 DEF Entries
      <3>2. ASSUME NEW i \in 1 .. Len(a) PROVE (a \o b)[i] \in Entries(a)
        <4>1. i \in DOMAIN a /\ (a \o b)[i] = a[i] BY <2>3, SMTT(30), Z3T(30)
        <4> QED BY <4>1 DEF Entries
      <3> QED BY <3>1, <3>2
    <2>5. ASSUME NEW i \in DOMAIN (a \o b), NEW j \in DOMAIN (a \o b), i # j
          PROVE  (a \o b)[i] # (a \o b)[j]
      <3>1. CASE i <= Len(a) /\ j <= Len(a)
        BY <3>1, <2>2, <2>3, <2>5 DEF Once
      <3>2. CASE i > Len(a) /\ j > Len(a)
        <4>1. /\ i - Len(a) \in DOMAIN b /\ j - Len(a) \in DOMAIN b
              /\ i - Len(a) # j - Len(a)
              /\ (a \o b)[i] = b[i - Len(a)] /\ (a \o b)[j] = b[j - Len(a)]
          BY <3>2, <2>3, <2>5
        <4> QED BY <4>1, <2>2 DEF Once
      <3>3. CASE i <= Len(a) /\ j > Len(a)
        BY <3>3, <2>2, <2>3, <2>4
      <3>4. CASE i > Len(a) /\ j <= Len(a)
        BY <3>4, <2>2, <2>3, <2>4
      <3> QED BY <3>1, <3>2, <3>3, <3>4, <2>3, SMTT(30), Z3T(30)
    <2>6. \A i \in DOMAIN (a \o b) : (a \o b)[i] \in Forgotten(p)
      BY <2>2, <2>3, <2>4
    <2> QED BY <2>2, <2>5, <2>6, Zenon DEF a, b
  <1> QED BY <1>1, SigningInvariant, PTL
=============================================================================
