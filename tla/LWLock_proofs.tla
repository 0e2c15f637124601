--------------------------- MODULE LWLock_proofs ---------------------------
(***************************************************************************)
(* For every set of processes: the atomic operations on lock->state keep   *)
(* exclusive holders alone, lwlock.c implements RWLock, and no wakeup of a *)
(* waiter is lost.  The first part needs only the state word (Inv), the    *)
(* rest the wait list and the lists of processes to awaken (QueueInv) and  *)
(* who is bound to look at them (FullInv).                                 *)
(***************************************************************************)
EXTENDS LWLock, TLAPS

\* What the proofs use of the library's theorems on finite sets: the number of
\* readers, of queued processes and of those that will post is counted.  It is
\* an assumption of the lemmas that count, discharged by the theorems at the
\* end, so that the library stays out of the way of the lemmas that do not.
CountIsNat == \A S : IsFiniteSet(S) => Cardinality(S) \in Nat
CountOfNone ==
    /\ IsFiniteSet({}) /\ Cardinality({}) = 0
    /\ \A S : IsFiniteSet(S) => (Cardinality(S) = 0 <=> S = {})
CountAfterAdding ==
    \A S, x : IsFiniteSet(S) =>
        /\ IsFiniteSet(S \cup {x})
        /\ Cardinality(S \cup {x}) = IF x \in S THEN Cardinality(S) ELSE Cardinality(S) + 1
CountAfterRemoving ==
    \A S, x : IsFiniteSet(S) =>
        /\ IsFiniteSet(S \ {x})
        /\ Cardinality(S \ {x}) = IF x \in S THEN Cardinality(S) - 1 ELSE Cardinality(S)
CountOfPart ==
    \A S : IsFiniteSet(S) => \A T \in SUBSET S :
        /\ IsFiniteSet(T) /\ Cardinality(T) <= Cardinality(S)
        /\ Cardinality(S) = Cardinality(T) => S = T
CountOfInterval ==
    \A n \in Nat : IsFiniteSet(1 .. n) /\ Cardinality(1 .. n) = n
OneToOne(f, S, T) == f \in [S -> T] /\ \A a, b \in S : f[a] = f[b] => a = b
Onto(f, S, T) == \A y \in T : \E x \in S : f[x] = y
CountOneToOne ==
    \A S, T, f : IsFiniteSet(T) /\ Cardinality(S) = Cardinality(T) /\ OneToOne(f, S, T)
                 => Onto(f, S, T)
Counting ==
    /\ CountIsNat /\ CountOfNone /\ CountAfterAdding /\ CountAfterRemoving
    /\ CountOfPart /\ CountOfInterval /\ CountOneToOne

Readers == {p \in Procs : holds[p] = "shared"}

\* The part of the state that decides who holds the lock.
TypeInv ==
    /\ usage \in Usages
    /\ lockcount \in Nat
    /\ val \in Vals
    /\ pc \in [Procs -> PCs]
    /\ call \in [Procs -> Calls \cup {NoCall}]
    /\ holds \in [Procs -> Modes \cup {"none"}]

\* The lock bits of the state word count the holders.
CountInv ==
    lockcount = IF \E p \in Procs : holds[p] = "exclusive"
                THEN LW_VAL_EXCLUSIVE ELSE Cardinality(Readers)

\* A process holds the lock exactly where the code believes it does.
HoldsAt(p) ==
    /\ pc[p] \in {"attempt", "attempt2", "awake"} =>
          holds[p] = "none" /\ call[p] \in Calls /\ call[p].op # "waitvar"
    /\ pc[p] \in {"conflict", "conflictvar", "releaseok", "conflict2", "conflictvar2"} =>
          holds[p] = "none" /\ call[p] \in Calls /\ call[p].op = "waitvar"
    /\ pc[p] \in {"queue", "enqueue", "sleep"} => holds[p] = "none" /\ call[p] \in Calls
    /\ pc[p] \in {"dequeue", "undequeue", "absorbed", "absorb"} =>
          /\ call[p] \in Calls
          /\ IF call[p].op = "waitvar" THEN holds[p] = "none" ELSE holds[p] # "none"
    /\ pc[p] \in {"idle", "check", "collect"} => holds[p] = "none"
    /\ pc[p] = "held" => holds[p] # "none"
    /\ pc[p] \in {"clear", "update", "updatewake"} => holds[p] # "none" /\ usage = "walinsert"
    /\ usage = "walinsert" =>
          /\ holds[p] # "shared"
          /\ call[p] \in Calls /\ call[p].op # "waitvar" => call[p].mode = "exclusive"

Inv == TypeInv /\ CountInv /\ MutualExclusion /\ \A p \in Procs : HoldsAt(p)

\* LWLockAttemptLock reads the state word: a process that finds it free for
\* its mode conflicts with no holder.
LEMMA FreeMeansCompatible ==
    ASSUME Counting, Inv, NEW mode \in Modes, FreeFor(mode)
    PROVE  \A q \in Procs : holds[q] = "none" \/ (mode = "shared" /\ holds[q] = "shared")
<1>1. LW_VAL_EXCLUSIVE \in Nat /\ LW_VAL_EXCLUSIVE > 0
  BY ExclusiveAssumption DEF Counting, CountIsNat
<1>2. LW_VAL_EXCLUSIVE \div LW_VAL_EXCLUSIVE = 1
  BY <1>1
<1>3. \A q \in Procs : holds[q] # "exclusive"
  <2>1. CASE mode = "exclusive"
    BY <2>1, <1>1 DEF Inv, CountInv, FreeFor
  <2>2. CASE mode = "shared"
    BY <2>2, <1>1, <1>2 DEF Inv, CountInv, FreeFor
  <2> QED BY <2>1, <2>2 DEF Modes
<1>4. ASSUME mode = "exclusive" PROVE \A q \in Procs : holds[q] # "shared"
  <2>1. IsFiniteSet(Readers)
    BY ExclusiveAssumption DEF Readers, Counting, CountOfPart
  <2>2. Cardinality(Readers) = 0
    BY <1>3, <1>4 DEF Inv, CountInv, FreeFor
  <2>3. Readers = {}
    BY <2>1, <2>2 DEF Counting, CountOfNone
  <2> QED BY <2>3 DEF Readers
<1> QED BY <1>3, <1>4 DEF Inv, TypeInv, Modes

\* A successful LWLockAttemptLock keeps the count and takes the lock as the
\* abstract lock does.
LEMMA AttemptTakes ==
    ASSUME Counting, Inv, NEW p \in Procs, holds[p] = "none", call[p].mode \in Modes, AttemptLock(p)
    PROVE  /\ lockcount' \in Nat
           /\ holds' \in [Procs -> Modes \cup {"none"}]
           /\ CountInv' /\ MutualExclusion'
           /\ val' = val => RW!Take(p, call[p].mode)
<1> DEFINE mode == call[p].mode
<1>1. \A q \in Procs : holds[q] = "none" \/ (mode = "shared" /\ holds[q] = "shared")
  BY FreeMeansCompatible DEF AttemptLock
<1>2. /\ holds \in [Procs -> Modes \cup {"none"}]
      /\ holds' = [holds EXCEPT ![p] = mode]
      /\ lockcount' = lockcount + Weight(mode)
      /\ lockcount \in Nat
  BY DEF AttemptLock, Inv, TypeInv
<1>3. LW_VAL_EXCLUSIVE \in Nat
  BY ExclusiveAssumption
<1>4. lockcount' \in Nat
  BY <1>2, <1>3 DEF Weight
<1>5. holds' \in [Procs -> Modes \cup {"none"}]
  BY <1>2
<1>6. MutualExclusion'
  BY <1>1, <1>2 DEF MutualExclusion, Modes
<1>7. lockcount = Cardinality(Readers) /\ IsFiniteSet(Readers)
  <2>1. IsFiniteSet(Readers)
    BY ExclusiveAssumption DEF Readers, Counting, CountOfPart
  <2> QED BY <1>1, <2>1 DEF Inv, CountInv
<1>8. CASE mode = "exclusive"
  <2>1. Readers = {}
    BY <1>1, <1>8 DEF Readers
  <2>2. lockcount = 0
    BY <1>7, <2>1 DEF Counting, CountOfNone
  <2>3. lockcount' = LW_VAL_EXCLUSIVE
    BY <1>2, <1>3, <1>8, <2>2 DEF Weight
  <2>4. CountInv'
    BY <1>2, <1>8, <2>3 DEF CountInv
  <2> QED BY <1>1, <1>2, <1>4, <1>5, <1>6, <2>4 DEF RW!Take
<1>9. CASE mode = "shared"
  <2>1. Readers' = Readers \cup {p} /\ p \notin Readers
    BY <1>2, <1>9 DEF Readers
  <2>2. Cardinality(Readers') = Cardinality(Readers) + 1
    BY <1>7, <2>1, Zenon DEF Counting, CountAfterAdding
  <2>3. \A q \in Procs : holds'[q] # "exclusive"
    BY <1>1, <1>2, <1>9
  <2>4. lockcount' = lockcount + 1
    BY <1>2, <1>9 DEF Weight
  <2>5. CountInv'
    BY <1>7, <2>2, <2>3, <2>4 DEF CountInv
  <2> QED BY <1>1, <1>2, <1>4, <1>5, <1>6, <2>5 DEF RW!Take
<1> QED BY <1>8, <1>9 DEF Modes

\* LWLockRelease takes back exactly what the holder had added.
LEMMA ReleaseDrops ==
    ASSUME Counting, Inv, NEW p \in Procs, holds[p] # "none",
           lockcount' = lockcount - Weight(holds[p]),
           holds' = [holds EXCEPT ![p] = "none"]
    PROVE  /\ lockcount' \in Nat
           /\ holds' \in [Procs -> Modes \cup {"none"}]
           /\ CountInv' /\ MutualExclusion'
<1>1. holds \in [Procs -> Modes \cup {"none"}] /\ lockcount \in Nat /\ LW_VAL_EXCLUSIVE \in Nat
  BY ExclusiveAssumption DEF Inv, TypeInv
<1>2. holds' \in [Procs -> Modes \cup {"none"}]
  BY <1>1
<1>3. MutualExclusion'
  BY <1>1 DEF Inv, MutualExclusion
<1>4. IsFiniteSet(Readers)
  BY ExclusiveAssumption DEF Readers, Counting, CountOfPart
<1>5. CASE holds[p] = "exclusive"
  <2>1. lockcount = LW_VAL_EXCLUSIVE
    BY <1>5 DEF Inv, CountInv
  <2>2. lockcount' = 0
    BY <1>1, <1>5, <2>1 DEF Weight
  <2>3. \A q \in Procs : holds'[q] = "none"
    BY <1>1, <1>5 DEF Inv, MutualExclusion
  <2>4. Readers' = {}
    BY <2>3 DEF Readers
  <2>5. Cardinality(Readers') = 0
    BY <2>4 DEF Counting, CountOfNone
  <2> QED BY <1>2, <1>3, <2>2, <2>3, <2>5 DEF CountInv
<1>6. CASE holds[p] = "shared"
  <2>1. \A q \in Procs : holds[q] # "exclusive"
    BY <1>6 DEF Inv, MutualExclusion
  <2>2. lockcount = Cardinality(Readers)
    BY <2>1 DEF Inv, CountInv
  <2>3. Readers' = Readers \ {p} /\ p \in Readers
    BY <1>1, <1>6 DEF Readers
  <2>4. Cardinality(Readers') = Cardinality(Readers) - 1
    BY <1>4, <2>3, Zenon DEF Counting, CountAfterRemoving
  <2>5. Cardinality(Readers') \in Nat
    BY <1>4, <2>3 DEF Counting, CountAfterRemoving, CountIsNat
  <2>6. lockcount' = Cardinality(Readers')
    BY <1>1, <1>6, <2>2, <2>4 DEF Weight
  <2>7. \A q \in Procs : holds'[q] # "exclusive"
    BY <1>1, <2>1
  <2> QED BY <1>2, <1>3, <2>5, <2>6, <2>7 DEF CountInv
<1> QED BY <1>1, <1>5, <1>6 DEF Modes

\* What a step of p has to establish.
Others(p) == /\ usage' = usage
             /\ \A q \in Procs \ {p} : pc'[q] = pc[q] /\ call'[q] = call[q] /\ holds'[q] = holds[q]

\* A step of one process leaves what holds of the others alone.
LEMMA StepOfOne ==
    ASSUME Inv, NEW p \in Procs, Others(p), TypeInv', CountInv', MutualExclusion', HoldsAt(p)'
    PROVE  Inv'
<1>1. ASSUME NEW q \in Procs, q # p PROVE HoldsAt(q)'
  BY <1>1 DEF Inv, Others, HoldsAt
<1> QED BY <1>1, Zenon DEF Inv

\* A step that neither takes nor drops the lock preserves the invariant.
LEMMA QuietStep ==
    ASSUME Inv, NEW p \in Procs, Others(p), holds' = holds, lockcount' = lockcount,
           val' \in Vals, pc' \in [Procs -> PCs], call' \in [Procs -> Calls \cup {NoCall}],
           HoldsAt(p)'
    PROVE  Inv'
<1>1. TypeInv'
  BY DEF Inv, TypeInv, Others
<1>2. CountInv'
  BY DEF Inv, CountInv, Readers
<1>3. MutualExclusion'
  BY Zenon DEF Inv, MutualExclusion
<1> QED BY <1>1, <1>2, <1>3, StepOfOne

\* The steps of a process that change neither the count nor the variable.
LEMMA QuietActions ==
    ASSUME Inv, NEW p \in Procs,
           \/ Call(p)
           \/ WaitListLock(p, "queue", "enqueue") \/ WaitListLock(p, "dequeue", "undequeue")
           \/ WaitListLock(p, "update", "updatewake") \/ WaitListLock(p, "check", "collect")
           \/ QueueSelf(p) \/ SetReleaseOk(p) \/ WatchVar(p)
           \/ DequeueSelf(p) \/ ResetReleaseOk(p) \/ AbsorbWakeup(p) \/ Sleep(p) \/ Retry(p)
           \/ WakeForVar(p) \/ Wakeup(p) \/ Awaken(p) \/ Post(p) \/ StrayPost(p)
    PROVE  Inv' /\ holds' = holds /\ val' = val
<1> USE DEF Inv, TypeInv
<1>1. NoCall \notin Calls /\ \A c \in Calls : c.op \in {"acquire", "conditional", "orwait", "waitvar"}
  BY Zenon DEF NoCall, Calls
<1>2. CASE Call(p)
  <2>1. PICK c \in Offered(p) : /\ call' = [call EXCEPT ![p] = c]
                               /\ pc' = [pc EXCEPT ![p] = IF c.op = "waitvar" THEN "conflict" ELSE "attempt"]
    BY <1>2, Zenon DEF Call, Goto
  <2>2. c \in Calls /\ (usage = "walinsert" /\ c.op # "waitvar" => c.mode = "exclusive")
    BY Zenon DEF Offered
  <2>3. /\ pc[p] = "idle" /\ usage' = usage /\ lockcount' = lockcount /\ val' = val /\ holds' = holds
    BY <1>2, Zenon DEF Call, lock
  <2>4. HoldsAt(p)'
    BY <2>1, <2>2, <2>3, Zenon DEF HoldsAt
  <2>5. pc' \in [Procs -> PCs] /\ call' \in [Procs -> Calls \cup {NoCall}] /\ Others(p)
    BY <2>1, <2>2, <2>3, Zenon DEF PCs, Others
  <2> QED BY <2>3, <2>4, <2>5, QuietStep
<1>3. ASSUME NEW here, NEW there \in PCs, WaitListLock(p, here, there),
             <<here, there>> \in {<<"queue", "enqueue">>, <<"dequeue", "undequeue">>,
                                 <<"update", "updatewake">>, <<"check", "collect">>}
      PROVE  Inv' /\ holds' = holds /\ val' = val
  <2>1. /\ pc[p] = here /\ pc' = [pc EXCEPT ![p] = there] /\ usage' = usage
        /\ lockcount' = lockcount /\ val' = val /\ holds' = holds /\ call' = call
    BY <1>3, Zenon DEF WaitListLock, Goto
  <2>2. HoldsAt(p)'
    BY <1>3, <2>1, SMTT(30), Z3T(30) DEF HoldsAt
  <2>3. pc' \in [Procs -> PCs] /\ Others(p)
    BY <2>1, Zenon DEF Others
  <2> QED BY <2>1, <2>2, <2>3, QuietStep, Zenon
<1>4. CASE QueueSelf(p)
  <2>1. /\ pc[p] = "enqueue" /\ usage' = usage /\ lockcount' = lockcount /\ val' = val
        /\ holds' = holds /\ call' = call
        /\ pc' = [pc EXCEPT ![p] = IF call[p].op = "waitvar" THEN "releaseok" ELSE "attempt2"]
    BY <1>4, Zenon DEF QueueSelf, Goto
  <2>2. HoldsAt(p)'
    BY <2>1 DEF HoldsAt
  <2>3. pc' \in [Procs -> PCs] /\ Others(p)
    BY <2>1, Zenon DEF Others, PCs
  <2> QED BY <2>1, <2>2, <2>3, QuietStep, Zenon
<1>5. CASE SetReleaseOk(p) \/ ResetReleaseOk(p) \/ Retry(p)
  <2>1. /\ usage' = usage /\ lockcount' = lockcount /\ val' = val /\ holds' = holds /\ call' = call
        /\ \/ pc[p] = "releaseok" /\ pc' = [pc EXCEPT ![p] = "conflict2"]
           \/ pc[p] = "absorbed" /\ pc' = [pc EXCEPT ![p] = "absorb"]
           \/ pc[p] = "awake" /\ pc' = [pc EXCEPT ![p] = "attempt"]
    BY <1>5, Zenon DEF SetReleaseOk, ResetReleaseOk, Retry, Goto
  <2>2. HoldsAt(p)'
    BY <2>1 DEF HoldsAt
  <2>3. pc' \in [Procs -> PCs] /\ Others(p)
    BY <2>1, Zenon DEF Others, PCs
  <2> QED BY <2>1, <2>2, <2>3, QuietStep, Zenon
<1>6. CASE WaitForVar(p) \/ RecheckVar(p)
  <2>1. /\ usage' = usage /\ lockcount' = lockcount /\ val' = val /\ holds' = holds
        /\ \/ pc[p] = "conflict" /\ pc' = [pc EXCEPT ![p] = "conflictvar"] /\ call' = call
           \/ pc[p] = "conflictvar" /\ pc' = [pc EXCEPT ![p] = "queue"] /\ call' = call
           \/ pc[p] = "conflict2" /\ pc' = [pc EXCEPT ![p] = "conflictvar2"] /\ call' = call
           \/ pc[p] = "conflictvar2" /\ pc' = [pc EXCEPT ![p] = "sleep"] /\ call' = call
           \/ /\ pc[p] \in {"conflict", "conflictvar"}
              /\ pc' = [pc EXCEPT ![p] = "idle"] /\ call' = [call EXCEPT ![p] = NoCall]
           \/ /\ pc[p] \in {"conflict2", "conflictvar2"}
              /\ pc' = [pc EXCEPT ![p] = "dequeue"] /\ call' = call
    BY <1>6, Zenon DEF WaitForVar, RecheckVar, ConflictsWithVar, ReadVar, Return, Goto, lock
  <2>2. HoldsAt(p)'
    BY <1>1, <2>1 DEF HoldsAt
  <2>3. pc' \in [Procs -> PCs] /\ call' \in [Procs -> Calls \cup {NoCall}] /\ Others(p)
    BY <2>1, ZenonT(40) DEF Others, PCs
  <2> QED BY <2>1, <2>2, <2>3, QuietStep, Zenon
<1>7. CASE DequeueSelf(p) \/ AbsorbWakeup(p)
  <2>1. /\ usage' = usage /\ lockcount' = lockcount /\ val' = val /\ holds' = holds
        /\ pc[p] \in {"undequeue", "absorb"}
        /\ \/ pc' = [pc EXCEPT ![p] = Acquired(p)] /\ call' = [call EXCEPT ![p] = NoCall]
           \/ pc' = [pc EXCEPT ![p] = "absorbed"] /\ call' = call
           \/ pc' = pc /\ call' = call
    BY <1>7, Zenon DEF DequeueSelf, AbsorbWakeup, SemaphoreLock, ReturnAwakened, Return, Goto, lock
  <2>2. HoldsAt(p)'
    BY <1>1, <2>1 DEF HoldsAt, Acquired
  <2>3. pc' \in [Procs -> PCs] /\ call' \in [Procs -> Calls \cup {NoCall}] /\ Others(p)
    BY <2>1, Zenon DEF Others, PCs, Acquired
  <2> QED BY <2>1, <2>2, <2>3, QuietStep
<1>8. CASE Sleep(p)
  <2>1. /\ usage' = usage /\ lockcount' = lockcount /\ val' = val /\ holds' = holds
        /\ pc[p] = "sleep"
        /\ \/ pc' = [pc EXCEPT ![p] = "idle"] /\ call' = [call EXCEPT ![p] = NoCall]
           \/ /\ pc' = [pc EXCEPT ![p] = IF call[p].op = "waitvar" THEN "conflict" ELSE "awake"]
              /\ call' = call
           \/ pc' = pc /\ call' = call
    BY <1>8, Zenon DEF Sleep, SemaphoreLock, Awakened, ReturnAwakened, Goto, lock
  <2>2. HoldsAt(p)'
    BY <1>1, <2>1 DEF HoldsAt
  <2>3. pc' \in [Procs -> PCs] /\ call' \in [Procs -> Calls \cup {NoCall}] /\ Others(p)
    BY <2>1, Zenon DEF Others, PCs
  <2> QED BY <2>1, <2>2, <2>3, QuietStep
<1>9. CASE WakeForVar(p) \/ Wakeup(p) \/ Awaken(p) \/ Post(p) \/ StrayPost(p)
  <2>1. /\ usage' = usage /\ lockcount' = lockcount /\ val' = val /\ holds' = holds /\ call' = call
        /\ \/ pc' = [pc EXCEPT ![p] = "awaken"]
           \/ pc' = [pc EXCEPT ![p] = "post"]
           \/ pc' = [pc EXCEPT ![p] = IF holds[p] = "none" THEN "idle" ELSE "held"]
           \/ pc' = pc
    BY <1>9, Zenon DEF WakeForVar, Wakeup, Awaken, Post, StrayPost, Goto, lock
  <2>2. HoldsAt(p)'
    BY <2>1, ZenonT(40) DEF HoldsAt
  <2>3. pc' \in [Procs -> PCs] /\ Others(p)
    BY <2>1 DEF Others, PCs
  <2> QED BY <2>1, <2>2, <2>3, QuietStep, SMTT(30), Z3T(30)
<1>10. {"enqueue", "undequeue", "updatewake", "collect"} \subseteq PCs
  BY Zenon DEF PCs
<1> QED BY <1>2, <1>3, <1>4, <1>5, <1>6, <1>7, <1>8, <1>9, <1>10, Zenon DEF WatchVar

\* A step that takes the lock, and the same step of the abstract lock.
LEMMA TakingActions ==
    ASSUME Counting, Inv, NEW p \in Procs, FirstAttempt(p) \/ SecondAttempt(p)
    PROVE  Inv' /\ [RW!Next]_(RW!vars)
<1> USE DEF Inv, TypeInv
<1>1. /\ holds[p] = "none" /\ call[p] \in Calls /\ call[p].op # "waitvar"
      /\ usage' = usage /\ val' = val
  BY Zenon DEF FirstAttempt, SecondAttempt, HoldsAt
<1>2. /\ call[p].mode \in Modes
      /\ usage = "walinsert" => call[p].mode = "exclusive"
  BY <1>1 DEF Calls, HoldsAt
<1>3. NoCall \notin Calls
  BY Zenon DEF NoCall, Calls
<1>4. \/ /\ AttemptLock(p)
         /\ \/ pc' = [pc EXCEPT ![p] = "held"] /\ call' = [call EXCEPT ![p] = NoCall]
            \/ pc' = [pc EXCEPT ![p] = "dequeue"] /\ call' = call
      \/ /\ lockcount' = lockcount /\ holds' = holds
         /\ \/ pc' = [pc EXCEPT ![p] = "idle"] /\ call' = [call EXCEPT ![p] = NoCall]
            \/ pc' = [pc EXCEPT ![p] = "queue"] /\ call' = call
            \/ pc' = [pc EXCEPT ![p] = "sleep"] /\ call' = call
  BY Zenon DEF FirstAttempt, SecondAttempt, Return, Goto
<1>5. pc' \in [Procs -> PCs] /\ call' \in [Procs -> Calls \cup {NoCall}]
  BY <1>4, Zenon DEF PCs
<1>6. CASE AttemptLock(p)
  <2>1. holds' = [holds EXCEPT ![p] = call[p].mode]
    BY <1>6, Zenon DEF AttemptLock
  <2>2. /\ lockcount' \in Nat /\ holds' \in [Procs -> Modes \cup {"none"}]
        /\ CountInv' /\ MutualExclusion' /\ RW!Take(p, call[p].mode)
    BY <1>1, <1>2, <1>6, AttemptTakes, Zenon
  <2>3. \/ pc' = [pc EXCEPT ![p] = "held"] /\ call' = [call EXCEPT ![p] = NoCall]
        \/ pc' = [pc EXCEPT ![p] = "dequeue"] /\ call' = call
        \/ holds' = holds
    BY <1>4
  <2>4. holds' # holds
    BY <1>1, <1>2, <2>1, Zenon DEF Modes
  <2>5. HoldsAt(p)'
    BY <1>1, <1>2, <1>3, <2>1, <2>3, <2>4, Zenon DEF HoldsAt, Modes
  <2>6. TypeInv' /\ Others(p)
    BY <1>1, <1>5, <2>1, <2>2, <2>3, <2>4, Zenon DEF Others
  <2>7. Inv'
    BY <2>2, <2>5, <2>6, StepOfOne
  <2>8. RW!Next
    BY <1>2, <2>2, Zenon DEF RW!Next, Modes
  <2> QED BY <2>7, <2>8
<1>7. CASE /\ lockcount' = lockcount /\ holds' = holds
           /\ \/ pc' = [pc EXCEPT ![p] = "idle"] /\ call' = [call EXCEPT ![p] = NoCall]
              \/ pc' = [pc EXCEPT ![p] = "queue"] /\ call' = call
              \/ pc' = [pc EXCEPT ![p] = "sleep"] /\ call' = call
  <2>1. HoldsAt(p)'
    BY <1>1, <1>2, <1>3, <1>7, Zenon DEF HoldsAt
  <2>2. Others(p)
    BY <1>1, <1>7, Zenon DEF Others
  <2>3. Inv'
    BY <1>1, <1>5, <1>7, <2>1, <2>2, QuietStep, Zenon
  <2> QED BY <1>1, <1>7, <2>3, Zenon DEF RW!vars
<1> QED BY <1>4, <1>6, <1>7, Zenon

\* A holder sets, clears and releases, and so does the abstract lock.
LEMMA HoldingActions ==
    ASSUME Counting, Inv, NEW p \in Procs, UpdateVar(p) \/ ClearVar(p) \/ Release(p)
    PROVE  Inv' /\ [RW!Next]_(RW!vars)
<1> USE DEF Inv, TypeInv
<1>1. CASE UpdateVar(p) \/ ClearVar(p)
  <2>1. /\ pc[p] = "held" /\ usage = "walinsert" /\ usage' = usage /\ lockcount' = lockcount
        /\ holds' = holds /\ call' = call /\ val' \in Vals
        /\ pc' = [pc EXCEPT ![p] = "update"] \/ pc' = [pc EXCEPT ![p] = "clear"]
    <3>1. 0 \in Vals
      BY ExclusiveAssumption DEF Vals
    <3> QED BY <1>1, <3>1 DEF UpdateVar, ClearVar, Goto
  <2>2. holds[p] = "exclusive"
    BY <2>1, Zenon DEF HoldsAt, Modes
  <2>3. HoldsAt(p)'
    BY <2>1, <2>2 DEF HoldsAt
  <2>4. pc' \in [Procs -> PCs] /\ Others(p)
    BY <2>1, Zenon DEF Others, PCs
  <2>5. Inv'
    BY <2>1, <2>3, <2>4, QuietStep, Zenon
  <2>6. RW!Advertise(p, val')
    BY <2>1, <2>2, Zenon DEF RW!Advertise
  <2> QED BY <2>1, <2>5, <2>6, Zenon DEF RW!Next
<1>2. CASE Release(p)
  <2>1. /\ pc[p] \in {"held", "clear"} /\ usage' = usage /\ val' = val /\ call' = call
        /\ lockcount' = lockcount - Weight(holds[p])
        /\ holds' = [holds EXCEPT ![p] = "none"]
        /\ pc' = [pc EXCEPT ![p] = "check"] \/ pc' = [pc EXCEPT ![p] = "idle"]
    BY <1>2, Zenon DEF Release, Goto
  <2>2. holds[p] # "none"
    BY <2>1 DEF HoldsAt
  <2>3. /\ lockcount' \in Nat /\ holds' \in [Procs -> Modes \cup {"none"}]
        /\ CountInv' /\ MutualExclusion'
    BY <2>1, <2>2, ReleaseDrops, Zenon
  <2>4. HoldsAt(p)'
    BY <2>1, Zenon DEF HoldsAt
  <2>5. TypeInv' /\ Others(p)
    BY <2>1, <2>3, Zenon DEF Others, PCs
  <2>6. Inv'
    BY <2>3, <2>4, <2>5, StepOfOne, Zenon
  <2>7. RW!Drop(p)
    BY <2>1, <2>2 DEF RW!Drop
  <2> QED BY <2>6, <2>7 DEF RW!Next
<1> QED BY <1>1, <1>2, Zenon

\* The invariant holds initially, and every step keeps it and is a step of
\* the abstract lock or none.
LEMMA InitInv == Counting /\ Init => Inv /\ RW!Init
<1> SUFFICES ASSUME Counting, Init PROVE Inv /\ RW!Init
  OBVIOUS
<1>1. 0 \in Vals
  BY ExclusiveAssumption DEF Vals
<1>2. Readers = {} /\ \A p \in Procs : holds[p] = "none"
  BY Zenon DEF Init, Readers
<1>3. CountInv
  BY <1>2, Zenon DEF Init, CountInv, Counting, CountOfNone
<1>4. TypeInv
  BY <1>1, Zenon DEF Init, TypeInv, PCs
<1>5. MutualExclusion
  BY <1>2 DEF MutualExclusion
<1>6. \A p \in Procs : HoldsAt(p)
  <2>1. NoCall \notin Calls
    BY DEF NoCall, Calls
  <2> QED BY <2>1, Zenon DEF Init, HoldsAt
<1>7. RW!Init
  BY <1>1, Zenon DEF Init, RW!Init
<1> QED BY <1>3, <1>4, <1>5, <1>6, <1>7 DEF Inv

\* Every step preserves the invariant and is a step of the abstract lock.
LEMMA NextInv == Counting /\ Inv /\ [Next]_vars => Inv' /\ [RW!Next]_(RW!vars)
<1> SUFFICES ASSUME Counting, Inv, [Next]_vars PROVE Inv' /\ [RW!Next]_(RW!vars)
  OBVIOUS
<1>1. CASE UNCHANGED vars
  <2>1. /\ usage' = usage /\ lockcount' = lockcount /\ val' = val
        /\ pc' = pc /\ call' = call /\ holds' = holds
    BY <1>1, Zenon DEF vars, lock, procs
  <2>2. Inv'
    BY <2>1, Zenon DEF Inv, TypeInv, CountInv, Readers, MutualExclusion, HoldsAt
  <2> QED BY <2>1, <2>2 DEF RW!vars
<1>2. CASE Next
  <2>1. PICK p \in Procs : Call(p) \/ Step(p) \/ UpdateVar(p) \/ Leave(p) \/ StrayPost(p)
    BY <1>2 DEF Next
  <2>2. CASE FirstAttempt(p) \/ SecondAttempt(p)
    BY <2>2, TakingActions
  <2>3. CASE UpdateVar(p) \/ Leave(p)
    BY <2>3, HoldingActions DEF Leave
  <2>4. ASSUME Inv' /\ holds' = holds /\ val' = val PROVE Inv' /\ [RW!Next]_(RW!vars)
    BY <2>4 DEF RW!vars
  <2> QED BY <2>1, <2>2, <2>3, <2>4, QuietActions DEF Step, Acquire, WakeOthers
<1> QED BY <1>1, <1>2

-----------------------------------------------------------------------------
\* The k-th index: increasing in k, and every index is one.
LEMMA NthIndex ==
    ASSUME Counting, NEW at \in SUBSET Nat, IsFiniteSet(at)
    PROVE  /\ Cardinality(at) \in Nat
           /\ \A k \in 1 .. Cardinality(at) : Nth(at, k) \in at
           /\ \A k, l \in 1 .. Cardinality(at) : k < l => Nth(at, k) < Nth(at, l)
           /\ \A i \in at : \E k \in 1 .. Cardinality(at) : Nth(at, k) = i
<1> DEFINE n == Cardinality(at)
           Upto(i) == {m \in at : m <= i}
           rank == [i \in at |-> Cardinality(Upto(i))]
<1>1. \A i \in at : i \in Nat
  OBVIOUS
<1>2. n \in Nat
  BY DEF Counting, CountIsNat
<1>3. ASSUME NEW i \in at
      PROVE  /\ IsFiniteSet(Upto(i)) /\ rank[i] = Cardinality(Upto(i))
             /\ rank[i] \in Nat /\ rank[i] <= n /\ rank[i] # 0
  <2>1. IsFiniteSet(Upto(i)) /\ Cardinality(Upto(i)) <= n
    BY DEF Counting, CountOfPart
  <2>2. Cardinality(Upto(i)) \in Nat
    BY <2>1 DEF Counting, CountIsNat
  <2>3. i \in Upto(i)
    BY <1>1
  <2>4. Cardinality(Upto(i)) # 0
    BY <2>1, <2>3 DEF Counting, CountOfNone
  <2> QED BY <2>1, <2>2, <2>4
<1>4. ASSUME NEW i \in at, NEW j \in at, i < j PROVE rank[i] < rank[j]
  <2>1. j \notin Upto(i)
    BY <1>1, <1>4
  <2>2. \A m \in Upto(i) \cup {j} : m \in Upto(j)
    BY <1>1, <1>4
  <2>3. Cardinality(Upto(i) \cup {j}) = rank[i] + 1
    BY <1>3, <2>1, Zenon DEF Counting, CountAfterAdding
  <2>4. Cardinality(Upto(i) \cup {j}) <= rank[j]
    BY <1>3, <2>2, Zenon DEF Counting, CountOfPart
  <2>5. rank[i] \in Nat /\ rank[j] \in Nat
    BY <1>3
  <2> HIDE DEF rank
  <2> QED BY <2>3, <2>4, <2>5
<1>5. \A k \in at : Cardinality({m \in at : m <= k}) = rank[k]
  OBVIOUS
<1> HIDE DEF rank, n
<1>6. \A i \in at : rank[i] \in 1 .. n
  <2>1. \A i \in at : rank[i] \in Nat /\ rank[i] <= n /\ rank[i] # 0
    BY <1>3, Zenon
  <2> QED BY <1>2, <2>1
<1>7. \A i, j \in at : rank[i] = rank[j] => i = j
  <2> SUFFICES ASSUME NEW i \in at, NEW j \in at, i # j PROVE rank[i] # rank[j]
    OBVIOUS
  <2>1. i < j \/ j < i
    BY <1>1
  <2>2. rank[i] < rank[j] \/ rank[j] < rank[i]
    BY <1>4, <2>1
  <2> QED BY <1>6, <2>2
<1>8. \A k \in 1 .. n : \E i \in at : rank[i] = k
  <2>0. rank \in [at -> 1 .. n]
    <3>1. rank = [i \in at |-> rank[i]]
      BY DEF rank
    <3> QED BY <1>6, <3>1
  <2>1. IsFiniteSet(1 .. n) /\ Cardinality(1 .. n) = n
    BY <1>2 DEF Counting, CountOfInterval
  <2>2. Cardinality(at) = Cardinality(1 .. n)
    BY <2>1 DEF n
  <2>3. OneToOne(rank, at, 1 .. n)
    BY <1>7, <2>0 DEF OneToOne
  <2>4. Onto(rank, at, 1 .. n)
    BY <2>1, <2>2, <2>3 DEF Counting, CountOneToOne
  <2> QED BY <2>4 DEF Onto
<1>9. \A k \in 1 .. n : Nth(at, k) \in at /\ rank[Nth(at, k)] = k
  BY <1>5, <1>8, Zenon DEF Nth
<1>10. ASSUME NEW k \in 1 .. n, NEW l \in 1 .. n, k < l PROVE Nth(at, k) < Nth(at, l)
  <2>1. Nth(at, k) \in Nat /\ Nth(at, l) \in Nat
    BY <1>1, <1>9, Zenon
  <2>2. Nth(at, l) # Nth(at, k)
    BY <1>9, <1>10
  <2>3. Nth(at, l) < Nth(at, k) => l < k
    BY <1>4, <1>9, Zenon
  <2> QED BY <1>2, <1>10, <2>1, <2>2, <2>3
<1> QED BY <1>2, <1>6, <1>7, <1>9, <1>10, Zenon DEF n

\* A set of indices has a smallest one.
LEMMA SmallestIn ==
    ASSUME Counting, NEW at \in SUBSET Nat, IsFiniteSet(at), at # {}
    PROVE  \E n \in at : \A m \in at : n <= m
<1>1. Cardinality(at) \in Nat /\ Cardinality(at) # 0
  BY DEF Counting, CountIsNat, CountOfNone
<1>2. 1 \in 1 .. Cardinality(at)
  BY <1>1
<1>3. ASSUME NEW m \in at PROVE Nth(at, 1) <= m
  <2>1. PICK k \in 1 .. Cardinality(at) : Nth(at, k) = m
    BY NthIndex
  <2>2. k = 1 \/ 1 < k
    BY <1>1
  <2>3. Nth(at, 1) \in Nat /\ m \in Nat
    BY <1>2, NthIndex, Zenon
  <2>4. 1 < k => Nth(at, 1) < m
    BY <1>2, <2>1, NthIndex, Zenon
  <2> QED BY <2>1, <2>2, <2>3, <2>4
<1> QED BY <1>2, <1>3, NthIndex, Zenon

\* What the proofs ask of a list of processes: who is on it, that nobody is
\* on it twice, and that the members of F come before the others.
Entries(s) == {s[i] : i \in 1 .. Len(s)}
Distinct(s) == \A i, j \in 1 .. Len(s) : i < j => s[i] # s[j]
InFront(s, F) == \A i, j \in 1 .. Len(s) : i < j /\ s[j] \in F => s[i] \in F

\* Only the members of F that are on the list matter.
LEMMA InFrontSame ==
    ASSUME NEW s \in Seq(Procs), NEW F, NEW G, \A x \in Entries(s) : x \in F <=> x \in G, InFront(s, F)
    PROVE  InFront(s, G)
  BY Zenon DEF InFront, Entries

\* Taking entries off a list keeps the others, each once and in their order.
LEMMA OnlyEntries ==
    ASSUME Counting, NEW s \in Seq(Procs), NEW S
    PROVE  /\ Only(s, S) \in Seq(Procs)
           /\ Entries(Only(s, S)) = Entries(s) \cap S
           /\ Distinct(s) => Distinct(Only(s, S))
           /\ \A F : InFront(s, F) => InFront(Only(s, S), F)
<1> DEFINE at == {i \in DOMAIN s : s[i] \in S}
           n == Cardinality(at)
           t == Only(s, S)
<1>1. Len(s) \in Nat /\ DOMAIN s = 1 .. Len(s) /\ IsFiniteSet(1 .. Len(s))
  BY DEF Counting, CountOfInterval
<1>2. at \in SUBSET Nat /\ at \subseteq 1 .. Len(s) /\ IsFiniteSet(at)
  BY <1>1 DEF Counting, CountOfPart
<1>3. /\ n \in Nat
      /\ \A k \in 1 .. n : Nth(at, k) \in at
      /\ \A k, l \in 1 .. n : k < l => Nth(at, k) < Nth(at, l)
      /\ \A i \in at : \E k \in 1 .. n : Nth(at, k) = i
  BY <1>2, NthIndex, Zenon
<1>4. t = [k \in 1 .. n |-> s[Nth(at, k)]]
  BY DEF Only
<1>5. \A i \in at : i \in 1 .. Len(s) /\ s[i] \in S /\ s[i] \in Procs
  BY <1>1
<1>6. \A i \in 1 .. Len(s) : s[i] \in S => i \in at
  BY <1>1
<1> HIDE DEF at, n, t
<1>7. t \in Seq(Procs) /\ Len(t) = n
  <2>1. \A k \in 1 .. n : s[Nth(at, k)] \in Procs
    BY <1>3, <1>5
  <2>2. t \in [1 .. n -> Procs]
    BY <1>4, <2>1
  <2> QED BY <1>3, <2>2
<1>8. \A k \in 1 .. n : t[k] = s[Nth(at, k)]
  BY <1>4, Zenon
<1>9. Entries(t) = Entries(s) \cap S
  <2>1. \A k \in 1 .. n : t[k] \in S /\ \E i \in 1 .. Len(s) : s[i] = t[k]
    BY <1>3, <1>5, <1>8, Zenon
  <2>2. \A i \in 1 .. Len(s) : s[i] \in S => \E k \in 1 .. n : t[k] = s[i]
    BY <1>3, <1>6, <1>8
  <2> QED BY <1>7, <2>1, <2>2, SMTT(30), Z3T(30) DEF Entries
<1>10. \A k, l \in 1 .. n : k < l =>
          \E i, j \in 1 .. Len(s) : i < j /\ t[k] = s[i] /\ t[l] = s[j]
  BY <1>3, <1>5, <1>8, Zenon
<1>11. Distinct(s) => Distinct(t)
  <2> SUFFICES ASSUME Distinct(s), NEW k \in 1 .. Len(t), NEW l \in 1 .. Len(t), k < l
               PROVE  t[k] # t[l]
    BY DEF Distinct
  <2>1. PICK i \in 1 .. Len(s), j \in 1 .. Len(s) : i < j /\ t[k] = s[i] /\ t[l] = s[j]
    BY <1>7, <1>10, Zenon
  <2> QED BY <2>1 DEF Distinct
<1>12. \A F : InFront(s, F) => InFront(t, F)
  BY <1>7, <1>10, Zenon DEF InFront
<1> QED BY <1>7, <1>9, <1>11, <1>12, Zenon DEF t

\* proclist_push_head.
LEMMA PushHead ==
    ASSUME NEW s \in Seq(Procs), NEW x \in Procs
    PROVE  /\ <<x>> \o s \in Seq(Procs)
           /\ Entries(<<x>> \o s) = Entries(s) \cup {x}
           /\ Distinct(s) /\ x \notin Entries(s) => Distinct(<<x>> \o s)
           /\ \A F : x \in F /\ InFront(s, F) => InFront(<<x>> \o s, F)
<1> DEFINE t == <<x>> \o s
<1>1. Len(s) \in Nat
  OBVIOUS
<1>2. t \in Seq(Procs) /\ Len(t) = Len(s) + 1 /\ t[1] = x
  OBVIOUS
<1>3. \A i \in 1 .. Len(t) : i = 1 \/ (i - 1 \in 1 .. Len(s) /\ t[i] = s[i - 1])
  OBVIOUS
<1>4. \A i \in 1 .. Len(s) : i + 1 \in 1 .. Len(t) /\ t[i + 1] = s[i]
  OBVIOUS
<1> HIDE DEF t
<1>5. Entries(t) = Entries(s) \cup {x}
  <2>1. \A i \in 1 .. Len(t) : t[i] = x \/ \E j \in 1 .. Len(s) : t[i] = s[j]
    BY <1>2, <1>3
  <2>2. 1 \in 1 .. Len(t)
    BY <1>1, <1>2
  <2>3. \A j \in 1 .. Len(s) : \E i \in 1 .. Len(t) : t[i] = s[j]
    BY <1>4
  <2> QED BY <1>2, <2>1, <2>2, <2>3 DEF Entries
<1>6. \A i, j \in 1 .. Len(t) : i < j =>
         /\ j - 1 \in 1 .. Len(s) /\ t[j] = s[j - 1]
         /\ i = 1 \/ (i - 1 \in 1 .. Len(s) /\ t[i] = s[i - 1] /\ i - 1 < j - 1)
  BY <1>1, <1>2, <1>3
<1>7. Distinct(s) /\ x \notin Entries(s) => Distinct(t)
  <2> SUFFICES ASSUME Distinct(s), x \notin Entries(s),
                      NEW i \in 1 .. Len(t), NEW j \in 1 .. Len(t), i < j
               PROVE  t[i] # t[j]
    BY DEF Distinct
  <2>1. \A m \in 1 .. Len(s) : s[m] # x
    BY DEF Entries
  <2>2. j - 1 \in 1 .. Len(s) /\ t[j] = s[j - 1]
    BY <1>6, Zenon
  <2>3. CASE i = 1
    BY <1>2, <2>1, <2>2, <2>3, Zenon
  <2>4. CASE i # 1
    <3>1. i - 1 \in 1 .. Len(s) /\ t[i] = s[i - 1] /\ i - 1 < j - 1
      BY <1>6, <2>4
    <3> HIDE DEF Distinct
    <3>2. \A k, l \in 1 .. Len(s) : k < l => s[k] # s[l]
      BY DEF Distinct
    <3>3. s[i - 1] # s[j - 1]
      BY <2>2, <3>1, <3>2, Zenon
    <3> QED BY <2>2, <3>1, <3>3, Zenon
  <2> QED BY <2>3, <2>4
<1>8. ASSUME NEW F, x \in F, InFront(s, F) PROVE InFront(t, F)
  BY <1>2, <1>6, <1>8, Zenon DEF InFront
<1> QED BY <1>2, <1>5, <1>7, <1>8 DEF t

\* proclist_push_tail.
LEMMA PushTail ==
    ASSUME NEW s \in Seq(Procs), NEW x \in Procs
    PROVE  /\ Append(s, x) \in Seq(Procs)
           /\ Entries(Append(s, x)) = Entries(s) \cup {x}
           /\ Distinct(s) /\ x \notin Entries(s) => Distinct(Append(s, x))
           /\ \A F : x \notin F /\ InFront(s, F) => InFront(Append(s, x), F)
<1> DEFINE t == Append(s, x)
<1>1. Len(s) \in Nat
  OBVIOUS
<1>2. t \in Seq(Procs) /\ Len(t) = Len(s) + 1 /\ t[Len(s) + 1] = x
  OBVIOUS
<1>3. \A i \in 1 .. Len(t) : i = Len(s) + 1 \/ (i \in 1 .. Len(s) /\ t[i] = s[i])
  OBVIOUS
<1>4. \A i \in 1 .. Len(s) : i \in 1 .. Len(t) /\ t[i] = s[i]
  OBVIOUS
<1> HIDE DEF t
<1>5. Entries(t) = Entries(s) \cup {x}
  <2>1. \A i \in 1 .. Len(t) : t[i] = x \/ \E j \in 1 .. Len(s) : t[i] = s[j]
    BY <1>2, <1>3
  <2>2. Len(s) + 1 \in 1 .. Len(t)
    BY <1>1, <1>2
  <2>3. \A j \in 1 .. Len(s) : \E i \in 1 .. Len(t) : t[i] = s[j]
    BY <1>4
  <2>4. x \in Entries(t)
    BY <1>2, <2>2, Zenon DEF Entries
  <2>5. \A y \in Entries(s) : y \in Entries(t)
    BY <2>3, Zenon DEF Entries
  <2>6. \A y \in Entries(t) : y \in Entries(s) \cup {x}
    BY <2>1, Zenon DEF Entries
  <2> QED BY <2>4, <2>5, <2>6
<1>6. Distinct(s) /\ x \notin Entries(s) => Distinct(t)
  BY <1>1, <1>2, <1>3, SMTT(30), Z3T(30) DEF Distinct, Entries
<1>7. \A F : x \notin F /\ InFront(s, F) => InFront(t, F)
  BY <1>1, <1>2, <1>3 DEF InFront
<1> QED BY <1>2, <1>5, <1>6, <1>7 DEF t

\* The first entry of a list and the list without it.
LEMMA HeadTail ==
    ASSUME NEW s \in Seq(Procs), s # <<>>
    PROVE  /\ Head(s) \in Procs /\ Tail(s) \in Seq(Procs)
           /\ Entries(s) = Entries(Tail(s)) \cup {Head(s)}
           /\ Distinct(s) => Distinct(Tail(s)) /\ Head(s) \notin Entries(Tail(s))
<1> DEFINE t == Tail(s)
<1>1. Len(s) \in Nat /\ Len(s) > 0
  OBVIOUS
<1>2. Head(s) = s[1] /\ Head(s) \in Procs
  BY <1>1
<1>3. t \in Seq(Procs) /\ Len(t) = Len(s) - 1
  BY <1>1
<1>4. \A i \in 1 .. Len(t) : i + 1 \in 1 .. Len(s) /\ t[i] = s[i + 1]
  BY <1>1
<1>5. \A i \in 1 .. Len(s) : i = 1 \/ (i - 1 \in 1 .. Len(t) /\ t[i - 1] = s[i])
  BY <1>1, <1>3, <1>4
<1> HIDE DEF t
<1>6. Entries(s) = Entries(t) \cup {s[1]}
  <2>1. \A i \in 1 .. Len(s) : s[i] = s[1] \/ \E j \in 1 .. Len(t) : s[i] = t[j]
    BY <1>5
  <2>2. 1 \in 1 .. Len(s)
    BY <1>1
  <2>3. \A j \in 1 .. Len(t) : \E i \in 1 .. Len(s) : s[i] = t[j]
    BY <1>4
  <2>4. s[1] \in Entries(s)
    BY <2>2, Zenon DEF Entries
  <2>5. \A y \in Entries(t) : y \in Entries(s)
    BY <2>3 DEF Entries
  <2>6. \A y \in Entries(s) : y \in Entries(t) \cup {s[1]}
    BY <2>1 DEF Entries
  <2> QED BY <2>4, <2>5, <2>6
<1>7. ASSUME Distinct(s) PROVE Distinct(t) /\ s[1] \notin Entries(t)
  <2>1. \A i, j \in 1 .. Len(t) : i < j => t[i] # t[j]
    BY <1>1, <1>3, <1>4, <1>7, SMTT(30), Z3T(30) DEF Distinct
  <2>2. \A i \in 1 .. Len(t) : s[1] # t[i]
    BY <1>1, <1>3, <1>4, <1>7 DEF Distinct
  <2> QED BY <2>1, <2>2 DEF Distinct, Entries
<1> QED BY <1>2, <1>3, <1>6, <1>7 DEF t

\* The empty list has no entries, and only that one.
LEMMA NoEntries ==
    ASSUME NEW s \in Seq(Procs)
    PROVE  (s = <<>> <=> Entries(s) = {}) /\ (s = <<>> => Distinct(s)) /\ Entries(s) \in SUBSET Procs
<1>1. Len(s) \in Nat /\ (s = <<>> <=> Len(s) = 0)
  OBVIOUS
<1>2. Len(s) # 0 => 1 \in 1 .. Len(s)
  BY <1>1
<1>3. \A i \in 1 .. Len(s) : s[i] \in Procs
  OBVIOUS
<1>4. Entries(s) \in SUBSET Procs
  BY <1>3 DEF Entries
<1>5. ASSUME Len(s) = 0 PROVE Entries(s) = {} /\ Distinct(s)
  <2>1. \A i : i \notin 1 .. Len(s)
    BY <1>5
  <2> QED BY <2>1 DEF Entries, Distinct
<1>6. ASSUME Len(s) # 0 PROVE Entries(s) # {}
  BY <1>2, <1>6 DEF Entries
<1> QED BY <1>1, <1>4, <1>5, <1>6

\* Counting wakeups stays within the naturals.
LEMMA CountType ==
    ASSUME NEW a \in Nat, NEW b \in Nat
    PROVE  /\ a + b \in Nat /\ a + 1 \in Nat
           /\ a > 0 => a - 1 \in Nat /\ a - 1 + b \in Nat
  OBVIOUS

\* The rest of the state: flags, wait list, semaphores and wakeup lists.
RestType ==
    /\ hasWaiters \in BOOLEAN /\ releaseOk \in BOOLEAN /\ locked \in BOOLEAN
    /\ waiters \in Seq(Procs)
    /\ lwWaiting \in [Procs -> {"not waiting", "waiting", "pending wakeup"}]
    /\ sem \in [Procs -> Nat]
    /\ strays \in [Procs -> 0 .. MaxStray]
    /\ extraWaits \in [Procs -> Nat]
    /\ wakeup \in [Procs -> Seq(Procs)]

\* Only a process that awakens others has a list of them.
PostInv ==
    \A q \in Procs : /\ pc[q] \notin {"awaken", "post"} => wakeup[q] = <<>>
                     /\ pc[q] = "post" => wakeup[q] # <<>>

\* Every step keeps the flags, the lists and the semaphores well formed.
LEMMA RestTypeStep ==
    ASSUME Counting, Inv, RestType, PostInv, NEW p \in Procs,
           Call(p) \/ Step(p) \/ UpdateVar(p) \/ Leave(p) \/ StrayPost(p)
    PROVE  RestType'
<1> USE DEF RestType, Goto, lock
<1>1. /\ sem[p] \in Nat /\ extraWaits[p] \in Nat /\ sem[p] + extraWaits[p] \in Nat
      /\ sem[p] + 1 \in Nat /\ extraWaits[p] + 1 \in Nat
      /\ sem[p] > 0 => sem[p] - 1 \in Nat /\ sem[p] - 1 + extraWaits[p] \in Nat
  <2>1. sem[p] \in Nat /\ extraWaits[p] \in Nat
    BY Zenon
  <2> HIDE DEF RestType
  <2> QED BY <2>1, CountType
<1>2. \A n \in Nat : /\ [sem EXCEPT ![p] = n] \in [Procs -> Nat]
                     /\ [extraWaits EXCEPT ![p] = n] \in [Procs -> Nat]
  BY Zenon
<1>3. CASE Call(p) \/ UpdateVar(p) \/ Leave(p)
  BY <1>3, Zenon DEF Call, UpdateVar, Leave, ClearVar, Release
<1>4. ASSUME Return(p, "held") \/ Return(p, "idle") \/ UNCHANGED <<call, sem, extraWaits>>
      PROVE  sem' \in [Procs -> Nat] /\ extraWaits' \in [Procs -> Nat]
  <2>1. CASE sem' = sem /\ extraWaits' = extraWaits
    BY <2>1, Zenon
  <2>2. CASE /\ sem' = [sem EXCEPT ![p] = sem[p] + extraWaits[p]]
             /\ extraWaits' = [extraWaits EXCEPT ![p] = 0]
    BY <1>1, <1>2, <2>2, Zenon
  <2> QED BY <1>4, <2>1, <2>2, Zenon DEF Return
<1>5. CASE FirstAttempt(p)
  <2>1. /\ UNCHANGED <<hasWaiters, releaseOk, locked, waiters, lwWaiting, strays, wakeup>>
        /\ Return(p, "held") \/ Return(p, "idle") \/ UNCHANGED <<call, sem, extraWaits>>
    BY <1>5, Zenon DEF FirstAttempt
  <2> QED BY <1>4, <2>1, Zenon
<1>6. ASSUME NEW here, NEW there, WaitListLock(p, here, there) PROVE RestType'
  BY <1>6, Zenon DEF WaitListLock
<1>7. CASE QueueSelf(p)
  <2>1. <<p>> \o waiters \in Seq(Procs) /\ Append(waiters, p) \in Seq(Procs)
    BY PushHead, PushTail, Zenon
  <2>2. waiters' \in Seq(Procs)
    BY <1>7, <2>1, Zenon DEF QueueSelf
  <2>3. lwWaiting' \in [Procs -> {"not waiting", "waiting", "pending wakeup"}]
    BY <1>7, Zenon DEF QueueSelf
  <2>4. /\ hasWaiters' = TRUE /\ locked' = FALSE
        /\ UNCHANGED <<releaseOk, sem, strays, extraWaits, wakeup>>
    BY <1>7, Zenon DEF QueueSelf
  <2> QED BY <2>2, <2>3, <2>4, Zenon
<1>8. CASE SecondAttempt(p) \/ ResetReleaseOk(p) \/ SetReleaseOk(p) \/ Retry(p)
  BY <1>8, Zenon DEF SecondAttempt, ResetReleaseOk, SetReleaseOk, Retry
<1>9. CASE DequeueSelf(p)
  <2>1. Only(waiters, Procs \ {p}) \in Seq(Procs)
    BY OnlyEntries, Zenon
  <2>2. sem' \in [Procs -> Nat] /\ extraWaits' \in [Procs -> Nat]
    BY <1>4, <1>9, Zenon DEF DequeueSelf, Acquired
  <2>3. lwWaiting' \in [Procs -> {"not waiting", "waiting", "pending wakeup"}]
    BY <1>9, Zenon DEF DequeueSelf
  <2>4. /\ hasWaiters' \in BOOLEAN /\ locked' = FALSE /\ waiters' \in Seq(Procs)
        /\ UNCHANGED <<releaseOk, strays, wakeup>>
    BY <1>9, <2>1, Zenon DEF DequeueSelf
  <2> QED BY <2>2, <2>3, <2>4, Zenon
<1>10. CASE AbsorbWakeup(p) \/ Sleep(p)
  <2>1. /\ sem' = sem \/ \E n \in Nat : sem' = [sem EXCEPT ![p] = n]
        /\ extraWaits' = extraWaits \/ \E n \in Nat : extraWaits' = [extraWaits EXCEPT ![p] = n]
    BY <1>1, <1>10, Zenon DEF AbsorbWakeup, Sleep, SemaphoreLock, ReturnAwakened, Awakened
  <2>2. UNCHANGED <<lock, lwWaiting, strays, wakeup>>
    BY <1>10, Zenon DEF AbsorbWakeup, Sleep, SemaphoreLock
  <2> QED BY <1>2, <2>1, <2>2, Zenon
<1>11. CASE WaitForVar(p) \/ RecheckVar(p)
  <2>1. /\ UNCHANGED <<lock, lwWaiting, strays, wakeup>>
        /\ Return(p, "idle") \/ UNCHANGED <<call, sem, extraWaits>>
    BY <1>11, Zenon DEF WaitForVar, RecheckVar, ConflictsWithVar, ReadVar
  <2> QED BY <1>4, <2>1, Zenon
<1>12. ASSUME NEW S, TakeOff(p, S)
       PROVE  /\ waiters' \in Seq(Procs)
              /\ wakeup' \in [Procs -> Seq(Procs)]
              /\ lwWaiting' \in [Procs -> {"not waiting", "waiting", "pending wakeup"}]
  <2>1. Only(waiters, S) \in Seq(Procs) /\ Only(waiters, Procs \ S) \in Seq(Procs)
    BY OnlyEntries, Zenon
  <2> QED BY <1>12, <2>1, Zenon DEF TakeOff
<1>13. CASE WakeForVar(p)
  <2>1. locked' = FALSE /\ UNCHANGED <<hasWaiters, releaseOk, sem, strays, extraWaits>>
    BY <1>13, Zenon DEF WakeForVar
  <2> QED BY <1>12, <1>13, <2>1, Zenon DEF WakeForVar
<1>14. CASE Wakeup(p)
  <2>1. /\ locked' = FALSE /\ hasWaiters' \in BOOLEAN /\ releaseOk' \in BOOLEAN
        /\ UNCHANGED <<sem, strays, extraWaits>>
    BY <1>14, Zenon DEF Wakeup
  <2> QED BY <1>12, <1>14, <2>1, Zenon DEF Wakeup
<1>15. CASE Awaken(p)
  BY <1>15, Zenon DEF Awaken
<1>16. CASE Post(p)
  <2>1. wakeup[p] \in Seq(Procs) /\ wakeup[p] # <<>>
    BY <1>16, Zenon DEF Post, PostInv
  <2>2. Tail(wakeup[p]) \in Seq(Procs) /\ Head(wakeup[p]) \in Procs
    BY <2>1, HeadTail, Zenon
  <2>3. wakeup' \in [Procs -> Seq(Procs)]
    BY <1>16, <2>2, Zenon DEF Post
  <2>4. sem[Head(wakeup[p])] + 1 \in Nat
    <3>1. sem[Head(wakeup[p])] \in Nat
      BY <2>2, Zenon
    <3> QED BY <3>1, CountType, Zenon
  <2>5. sem' \in [Procs -> Nat]
    BY <1>16, <2>2, <2>4, Zenon DEF Post
  <2> QED BY <1>16, <2>3, <2>5, Zenon DEF Post
<1>17. CASE StrayPost(p)
  <2>1. MaxStray \in Nat /\ strays[p] \in 0 .. MaxStray /\ strays[p] < MaxStray
    BY <1>17, ExclusiveAssumption, Zenon DEF StrayPost
  <2>2. strays[p] + 1 \in 0 .. MaxStray
    <3> HIDE DEF RestType
    <3> QED BY <2>1, SMTT(30), Z3T(30)
  <2>3. strays' \in [Procs -> 0 .. MaxStray] /\ sem' \in [Procs -> Nat]
    BY <1>1, <1>17, <2>2, ZenonT(40) DEF StrayPost
  <2> QED BY <1>17, <2>3, Zenon DEF StrayPost
<1> QED BY <1>3, <1>5, <1>6, <1>7, <1>8, <1>9, <1>10, <1>11, <1>13, <1>14, <1>15, <1>16, <1>17, Zenon
        DEF Step, Acquire, WakeOthers, WatchVar

\* Every step keeps the lists of processes to awaken with who awakens them.
LEMMA PostInvStep ==
    ASSUME Inv, RestType, PostInv, NEW p \in Procs,
           Call(p) \/ Step(p) \/ UpdateVar(p) \/ Leave(p) \/ StrayPost(p)
    PROVE  PostInv'
<1> USE DEF PostInv, Goto, lock, Inv, TypeInv, RestType
<1>1. CASE wakeup' = wakeup /\ pc[p] \notin {"awaken", "post"}
           /\ \E x \in PCs \ {"awaken", "post"} : pc' = [pc EXCEPT ![p] = x]
  BY <1>1, ZenonT(40)
<1>2. CASE wakeup' = wakeup /\ pc' = pc
  BY <1>2, Zenon
<1>3. CASE WakeForVar(p) \/ Wakeup(p)
  BY <1>3, Zenon DEF WakeForVar, Wakeup, TakeOff
<1>4. CASE Awaken(p)
  BY <1>4, Zenon DEF Awaken
<1>5. CASE Post(p)
  BY <1>5, ZenonT(40) DEF Post
<1>6. CASE Call(p) \/ UpdateVar(p) \/ Leave(p) \/ FirstAttempt(p) \/ SecondAttempt(p)
  BY <1>1, <1>6, Zenon DEF Call, UpdateVar, Leave, ClearVar, Release, FirstAttempt, SecondAttempt, Return, PCs
<1>7. CASE \/ WaitListLock(p, "queue", "enqueue") \/ WaitListLock(p, "dequeue", "undequeue")
           \/ WaitListLock(p, "update", "updatewake") \/ WaitListLock(p, "check", "collect")
  BY <1>1, <1>7, Zenon DEF WaitListLock, PCs
<1>8. CASE QueueSelf(p) \/ ResetReleaseOk(p) \/ SetReleaseOk(p) \/ Retry(p) \/ DequeueSelf(p)
  BY <1>1, <1>8, Zenon DEF QueueSelf, ResetReleaseOk, SetReleaseOk, Retry, DequeueSelf, Return, Acquired, PCs
<1>9. CASE AbsorbWakeup(p) \/ Sleep(p)
  BY <1>1, <1>2, <1>9, Zenon DEF AbsorbWakeup, Sleep, SemaphoreLock, ReturnAwakened, Awakened, Acquired, PCs
<1>10. CASE WaitForVar(p) \/ RecheckVar(p)
  BY <1>1, <1>10, Zenon DEF WaitForVar, RecheckVar, ConflictsWithVar, ReadVar, Return, PCs
<1>11. CASE StrayPost(p)
  BY <1>2, <1>11, Zenon DEF StrayPost
<1> QED BY <1>3, <1>4, <1>5, <1>6, <1>7, <1>8, <1>9, <1>10, <1>11, Zenon
        DEF Step, Acquire, WakeOthers, WatchVar

-----------------------------------------------------------------------------
\* LW_FLAG_LOCKED: one process at a time is in a section on the wait list.
Sections == {"enqueue", "undequeue", "updatewake", "collect"}
SectionInv ==
    /\ ~locked => \A p \in Procs : pc[p] \notin Sections
    /\ \A p, q \in Procs : pc[p] \in Sections /\ pc[q] \in Sections => p = q

\* Where lwWaiting may be set.
InQueue == {"releaseok", "attempt2", "conflict2", "conflictvar2", "dequeue", "undequeue", "sleep"}
Waits(p) ==
    /\ lwWaiting[p] = "waiting" => pc[p] \in InQueue
    /\ pc[p] \notin InQueue \cup {"absorbed", "absorb"} => lwWaiting[p] = "not waiting"
    /\ pc[p] \in InQueue \cup {"queue", "enqueue", "awake", "absorbed", "absorb"} =>
          call[p].op # "conditional"
    /\ pc[p] = "awake" => call[p].op = "acquire"

\* The wait list holds each waiting process once, those that wait until the
\* lock is free in front, and LW_FLAG_HAS_WAITERS is set when it is not empty.
UntilFree == {p \in Procs : WaitsUntilFree(p)}
ListInv ==
    /\ \A p \in Procs : p \in Entries(waiters) <=> lwWaiting[p] = "waiting"
    /\ Distinct(waiters)
    /\ InFront(waiters, UntilFree)
    /\ waiters # <<>> => hasWaiters

\* The processes q took off the list and has yet to flag, each in one list.
Due(q) == Entries(IF pc[q] = "post" THEN Tail(wakeup[q]) ELSE wakeup[q])
PendingInv ==
    /\ \A q \in Procs : Distinct(wakeup[q])
    /\ \A q \in Procs : \A x \in Due(q) : lwWaiting[x] = "pending wakeup"
    /\ \A q, r \in Procs : q # r => \A x \in Due(q) : x \notin Due(r)

QueueInv == /\ Inv /\ RestType /\ PostInv
            /\ SectionInv /\ (\A p \in Procs : Waits(p)) /\ ListInv /\ PendingInv

\* Those to be awakened are processes.
LEMMA DuesAreProcs ==
    ASSUME RestType, PostInv
    PROVE  \A q \in Procs : Due(q) \in SUBSET Procs
<1> SUFFICES ASSUME NEW q \in Procs PROVE Due(q) \in SUBSET Procs
  OBVIOUS
<1>1. wakeup[q] \in Seq(Procs) /\ (pc[q] = "post" => wakeup[q] # <<>>)
  BY Zenon DEF RestType, PostInv
<1>2. pc[q] = "post" => Tail(wakeup[q]) \in Seq(Procs)
  BY <1>1, HeadTail, Zenon
<1> QED BY <1>1, <1>2, NoEntries, Zenon DEF Due

\* LWLockWaitListLock and LWLockWaitListUnlock bracket every section.
LEMMA SectionStep ==
    ASSUME QueueInv, NEW p \in Procs,
           Call(p) \/ Step(p) \/ UpdateVar(p) \/ Leave(p) \/ StrayPost(p)
    PROVE  SectionInv'
<1> USE DEF Goto, lock
<1>1. pc \in [Procs -> PCs] /\ SectionInv
  BY Zenon DEF QueueInv, Inv, TypeInv
<1>2. ASSUME locked' = locked, pc[p] \notin Sections, NEW x,
             x \notin Sections, pc' = [pc EXCEPT ![p] = x]
      PROVE  SectionInv'
  BY <1>1, <1>2, Zenon DEF SectionInv
<1>3. ASSUME ~locked, locked' = TRUE, NEW x, pc' = [pc EXCEPT ![p] = x]
      PROVE  SectionInv'
  BY <1>1, <1>3, SMTT(30), Z3T(30) DEF SectionInv
<1>4. ASSUME pc[p] \in Sections, locked' = FALSE, NEW x, x \notin Sections, pc' = [pc EXCEPT ![p] = x]
      PROVE  SectionInv'
  BY <1>1, <1>4, Zenon DEF SectionInv
<1>5. ASSUME locked' = locked, pc' = pc PROVE SectionInv'
  BY <1>1, <1>5, Zenon DEF SectionInv
<1>6. CASE Call(p) \/ UpdateVar(p) \/ Leave(p) \/ FirstAttempt(p) \/ SecondAttempt(p)
  BY <1>2, <1>6, Zenon DEF Call, UpdateVar, Leave, ClearVar, Release, FirstAttempt, SecondAttempt,
                    Return, Sections
<1>7. ASSUME NEW here, NEW there, WaitListLock(p, here, there) PROVE SectionInv'
  BY <1>3, <1>7, Zenon DEF WaitListLock
<1>8. CASE ResetReleaseOk(p) \/ SetReleaseOk(p) \/ Retry(p)
  BY <1>2, <1>8 DEF ResetReleaseOk, SetReleaseOk, Retry, Sections
<1>9. CASE QueueSelf(p) \/ DequeueSelf(p) \/ WakeForVar(p) \/ Wakeup(p)
  BY <1>4, <1>9, Zenon DEF QueueSelf, DequeueSelf, WakeForVar, Wakeup, Return, Acquired, Sections
<1>10. CASE AbsorbWakeup(p) \/ Sleep(p)
  BY <1>2, <1>5, <1>10, Zenon DEF AbsorbWakeup, Sleep, SemaphoreLock, ReturnAwakened, Awakened, Acquired, Sections
<1>11. CASE WaitForVar(p) \/ RecheckVar(p)
  BY <1>2, <1>11, Zenon DEF WaitForVar, RecheckVar, ConflictsWithVar, ReadVar, Return, Sections
<1>12. CASE Awaken(p) \/ Post(p)
  BY <1>2, <1>12, Zenon DEF Awaken, Post, Sections
<1>13. CASE StrayPost(p)
  BY <1>5, <1>13 DEF StrayPost
<1> QED BY <1>6, <1>7, <1>8, <1>9, <1>10, <1>11, <1>12, <1>13, Zenon
        DEF Step, Acquire, WakeOthers, WatchVar

\* The steps that leave the wait list, the flags of the processes on it and
\* the lists of processes to awaken alone.
ListsKept(p) ==
    /\ UNCHANGED <<hasWaiters, waiters, lwWaiting, wakeup>>
    /\ pc[p] \notin {"awaken", "post"}
    /\ \E x \in PCs \ {"awaken", "post"} : pc' = [pc EXCEPT ![p] = x]
    /\ \A q \in Procs \ {p} : call'[q] = call[q]
    /\ call'[p] = call[p] \/ lwWaiting[p] # "waiting"

\* Such a step keeps the lists in order.
LEMMA ListsKeptStep ==
    ASSUME QueueInv, NEW p \in Procs, ListsKept(p)
    PROVE  ListInv' /\ PendingInv'
<1>1. /\ waiters' = waiters /\ lwWaiting' = lwWaiting /\ hasWaiters' = hasWaiters
      /\ wakeup' = wakeup
  BY Zenon DEF ListsKept
<1>2. ListInv'
  <2>1. waiters \in Seq(Procs) /\ Entries(waiters) \in SUBSET Procs
    BY NoEntries, Zenon DEF QueueInv, RestType
  <2>2. \A x \in Entries(waiters) : call'[x] = call[x]
    BY <2>1, Zenon DEF QueueInv, ListInv, ListsKept
  <2>3. \A x \in Entries(waiters) : x \in UntilFree <=> x \in UntilFree'
    BY <2>1, <2>2, Zenon DEF UntilFree, WaitsUntilFree
  <2>4. InFront(waiters, UntilFree')
    BY <2>1, <2>3, InFrontSame DEF QueueInv, ListInv
  <2> QED BY <1>1, <2>4 DEF QueueInv, ListInv
<1>3. PendingInv'
  <2>1. \A q \in Procs : pc'[q] = "post" <=> pc[q] = "post"
    BY DEF QueueInv, Inv, TypeInv, ListsKept
  <2>2. PendingInv
    BY DEF QueueInv
  <2> QED BY <1>1, <2>1, <2>2, Zenon DEF PendingInv, Due
<1> QED BY <1>2, <1>3, Zenon

\* All steps but those that queue, dequeue, wake and awaken are of that kind.
LEMMA QuietLists ==
    ASSUME QueueInv, NEW p \in Procs,
           \/ Call(p) \/ FirstAttempt(p)
           \/ WaitListLock(p, "queue", "enqueue") \/ WaitListLock(p, "dequeue", "undequeue")
           \/ WaitListLock(p, "update", "updatewake") \/ WaitListLock(p, "check", "collect")
           \/ SecondAttempt(p) \/ ResetReleaseOk(p) \/ AbsorbWakeup(p) \/ Sleep(p) \/ Retry(p)
           \/ WatchVar(p) \/ UpdateVar(p) \/ Leave(p)
    PROVE  ListsKept(p) /\ Waits(p)'
<1> USE DEF Goto, lock, ListsKept
<1>1. /\ pc \in [Procs -> PCs] /\ call \in [Procs -> Calls \cup {NoCall}]
      /\ lwWaiting \in [Procs -> {"not waiting", "waiting", "pending wakeup"}]
      /\ Waits(p) /\ HoldsAt(p)
  BY Zenon DEF QueueInv, Inv, TypeInv, RestType
<1>2. \A c \in Calls : c.op \in {"acquire", "conditional", "orwait", "waitvar"}
  BY Zenon DEF Calls
<1>3. NoCall.op # "conditional"
  BY DEF NoCall
<1>4. CASE Call(p)
  <2>1. PICK c \in Offered(p) : /\ call' = [call EXCEPT ![p] = c]
                               /\ pc' = [pc EXCEPT ![p] = IF c.op = "waitvar" THEN "conflict" ELSE "attempt"]
    BY <1>4, Zenon DEF Call
  <2>2. pc[p] = "idle" /\ UNCHANGED <<hasWaiters, waiters, lwWaiting, wakeup>>
    BY <1>4 DEF Call
  <2> QED BY <1>1, <2>1, <2>2, Zenon DEF Waits, InQueue, PCs
<1>5. CASE FirstAttempt(p)
  BY <1>1, <1>5, Zenon DEF FirstAttempt, Return, Waits, InQueue, PCs
<1>6. CASE \/ WaitListLock(p, "queue", "enqueue") \/ WaitListLock(p, "dequeue", "undequeue")
           \/ WaitListLock(p, "update", "updatewake") \/ WaitListLock(p, "check", "collect")
  BY <1>1, <1>6, ZenonT(40) DEF WaitListLock, Waits, InQueue, PCs
<1>7. CASE SecondAttempt(p) \/ ResetReleaseOk(p) \/ SetReleaseOk(p) \/ Retry(p)
  BY <1>1, <1>7, Zenon DEF SecondAttempt, ResetReleaseOk, SetReleaseOk, Retry, Waits, InQueue, PCs
<1>8. CASE AbsorbWakeup(p)
  <2>1. /\ pc[p] = "absorb" /\ UNCHANGED <<hasWaiters, waiters, lwWaiting, wakeup>>
        /\ \/ /\ lwWaiting[p] = "not waiting"
              /\ pc' = [pc EXCEPT ![p] = "idle"] \/ pc' = [pc EXCEPT ![p] = "held"]
              /\ call' = [call EXCEPT ![p] = NoCall]
           \/ pc' = pc /\ call' = call
    BY <1>8, Zenon DEF AbsorbWakeup, SemaphoreLock, ReturnAwakened, Acquired
  <2> QED BY <1>1, <2>1, Zenon DEF Waits, InQueue, PCs
<1>9. CASE Sleep(p)
  <2>1. /\ pc[p] = "sleep" /\ UNCHANGED <<hasWaiters, waiters, lwWaiting, wakeup>>
        /\ \/ /\ lwWaiting[p] = "not waiting"
              /\ \/ pc' = [pc EXCEPT ![p] = "idle"] /\ call' = [call EXCEPT ![p] = NoCall]
                 \/ pc' = [pc EXCEPT ![p] = "conflict"] /\ call' = call
                 \/ /\ pc' = [pc EXCEPT ![p] = "awake"] /\ call' = call
                    /\ call[p].op \notin {"orwait", "waitvar"}
           \/ pc' = pc /\ call' = call
    BY <1>9, Zenon DEF Sleep, SemaphoreLock, ReturnAwakened, Awakened
  <2>2. call[p] \in Calls /\ call[p].op # "conditional"
    BY <1>1, <2>1, ZenonT(40) DEF Waits, InQueue, HoldsAt
  <2> QED BY <1>1, <1>2, <2>1, <2>2, ZenonT(40) DEF Waits, InQueue, PCs
<1>10. CASE WaitForVar(p) \/ RecheckVar(p)
  <2>1. /\ UNCHANGED <<hasWaiters, waiters, lwWaiting, wakeup>>
        /\ \/ pc[p] = "conflict" /\ pc' = [pc EXCEPT ![p] = "conflictvar"] /\ call' = call
           \/ pc[p] = "conflictvar" /\ pc' = [pc EXCEPT ![p] = "queue"] /\ call' = call
           \/ pc[p] = "conflict2" /\ pc' = [pc EXCEPT ![p] = "conflictvar2"] /\ call' = call
           \/ pc[p] = "conflictvar2" /\ pc' = [pc EXCEPT ![p] = "sleep"] /\ call' = call
           \/ /\ pc[p] \in {"conflict", "conflictvar"}
              /\ pc' = [pc EXCEPT ![p] = "idle"] /\ call' = [call EXCEPT ![p] = NoCall]
           \/ /\ pc[p] \in {"conflict2", "conflictvar2"}
              /\ pc' = [pc EXCEPT ![p] = "dequeue"] /\ call' = call
    BY <1>10 DEF WaitForVar, RecheckVar, ConflictsWithVar, ReadVar, Return
  <2> QED BY <1>1, <2>1, ZenonT(40) DEF Waits, InQueue, PCs, HoldsAt
<1>11. CASE UpdateVar(p) \/ Leave(p)
  BY <1>1, <1>11, ZenonT(40) DEF UpdateVar, Leave, ClearVar, Release, Waits, InQueue, PCs
<1> QED BY <1>4, <1>5, <1>6, <1>7, <1>8, <1>9, <1>10, <1>11, Zenon DEF WatchVar

\* LWLockQueueSelf: first among those that wait until the lock is free, or last.
LEMMA QueueSelfList ==
    ASSUME QueueInv, NEW p \in Procs, QueueSelf(p)
    PROVE  ListInv' /\ PendingInv' /\ \A q \in Procs : Waits(q)'
<1>1. /\ pc[p] = "enqueue" /\ lwWaiting[p] = "not waiting" /\ pc \in [Procs -> PCs]
      /\ lwWaiting \in [Procs -> {"not waiting", "waiting", "pending wakeup"}]
      /\ waiters \in Seq(Procs) /\ call' = call /\ hasWaiters' = TRUE /\ wakeup' = wakeup
      /\ lwWaiting' = [lwWaiting EXCEPT ![p] = "waiting"]
      /\ pc' = [pc EXCEPT ![p] = IF call[p].op = "waitvar" THEN "releaseok" ELSE "attempt2"]
      /\ waiters' = IF WaitsUntilFree(p) THEN <<p>> \o waiters ELSE Append(waiters, p)
  BY ZenonT(40) DEF QueueInv, Inv, TypeInv, RestType, Waits, InQueue, QueueSelf, Goto
<1>2. \A q \in Procs : Waits(q)'
  <2>1. ASSUME NEW q \in Procs, q # p PROVE Waits(q)'
    BY <1>1, <2>1, Zenon DEF QueueInv, Waits
  <2>2. Waits(p)'
    BY <1>1, Zenon DEF QueueInv, Waits, InQueue
  <2> QED BY <2>1, <2>2, SMTT(30), Z3T(30)
<1>3. PendingInv'
  <2>1. \A q \in Procs : pc'[q] = "post" <=> pc[q] = "post"
    BY <1>1, Zenon
  <2>2. PendingInv
    BY DEF QueueInv
  <2>3. \A q \in Procs : \A x \in Due(q) : x # p /\ x \in Procs
    <3>1. \A q \in Procs : Due(q) \in SUBSET Procs
      BY DuesAreProcs DEF QueueInv
    <3> QED BY <1>1, <2>2, <3>1, Zenon DEF PendingInv
  <2>4. wakeup' = wakeup /\ \A x \in Procs : x # p => lwWaiting'[x] = lwWaiting[x]
    BY <1>1, Zenon
  <2> QED BY <2>1, <2>2, <2>3, <2>4, ZenonT(40) DEF PendingInv, Due
<1>4. p \notin Entries(waiters) /\ Distinct(waiters) /\ InFront(waiters, UntilFree)
  BY <1>1, Zenon DEF QueueInv, ListInv
<1>5. UntilFree' = UntilFree /\ (p \in UntilFree <=> WaitsUntilFree(p))
  BY <1>1, Zenon DEF UntilFree, WaitsUntilFree
<1>6. Entries(waiters') = Entries(waiters) \cup {p} /\ Distinct(waiters') /\ InFront(waiters', UntilFree)
  <2>1. CASE WaitsUntilFree(p)
    BY <1>1, <1>4, <1>5, <2>1, PushHead, Zenon
  <2>2. CASE ~WaitsUntilFree(p)
    BY <1>1, <1>4, <1>5, <2>2, PushTail, Zenon
  <2> QED BY <2>1, <2>2
<1>7. ListInv'
  BY <1>1, <1>5, <1>6, Zenon DEF QueueInv, ListInv
<1> QED BY <1>2, <1>3, <1>7

\* LWLockDequeueSelf takes the process off the list, if it is still there.
LEMMA DequeueSelfList ==
    ASSUME Counting, QueueInv, NEW p \in Procs, DequeueSelf(p)
    PROVE  ListInv' /\ PendingInv' /\ \A q \in Procs : Waits(q)'
<1>1. /\ pc[p] = "undequeue" /\ pc \in [Procs -> PCs] /\ call \in [Procs -> Calls \cup {NoCall}]
      /\ lwWaiting \in [Procs -> {"not waiting", "waiting", "pending wakeup"}]
      /\ wakeup' = wakeup /\ hasWaiters' = (hasWaiters /\ waiters' # <<>>)
      /\ \/ /\ lwWaiting[p] = "waiting"
            /\ lwWaiting' = [lwWaiting EXCEPT ![p] = "not waiting"]
            /\ pc' = [pc EXCEPT ![p] = "idle"] \/ pc' = [pc EXCEPT ![p] = "held"]
            /\ call' = [call EXCEPT ![p] = NoCall]
         \/ /\ lwWaiting[p] # "waiting" /\ lwWaiting' = lwWaiting
            /\ pc' = [pc EXCEPT ![p] = "absorbed"] /\ call' = call
  BY Zenon DEF QueueInv, Inv, TypeInv, RestType, DequeueSelf, Return, Acquired, Goto
<1>2. waiters \in Seq(Procs) /\ waiters' = Only(waiters, Procs \ {p})
  BY Zenon DEF QueueInv, RestType, DequeueSelf
<1>3. \A q \in Procs : Waits(q)'
  <2>1. ASSUME NEW q \in Procs, q # p PROVE Waits(q)'
    BY <1>1, <2>1, ZenonT(40) DEF QueueInv, Waits
  <2>2. Waits(p)'
    BY <1>1, ZenonT(40) DEF QueueInv, Waits, InQueue
  <2> QED BY <2>1, <2>2
<1>4. PendingInv'
  <2>1. \A q \in Procs : pc'[q] = "post" <=> pc[q] = "post"
    BY <1>1, Zenon
  <2>2. PendingInv
    BY DEF QueueInv
  <2>3. \A q \in Procs : \A x \in Due(q) : x \in Procs /\ lwWaiting[x] = "pending wakeup"
    BY <2>2, DuesAreProcs, Zenon DEF QueueInv, PendingInv
  <2>4. wakeup' = wakeup
    BY <1>1, Zenon
  <2>5. \A x \in Procs : lwWaiting[x] = "pending wakeup" => lwWaiting'[x] = "pending wakeup"
    BY <1>1, Zenon
  <2> QED BY <2>1, <2>2, <2>3, <2>4, <2>5, Zenon DEF PendingInv, Due
<1>5. /\ Entries(waiters') = Entries(waiters) \cap (Procs \ {p}) /\ Distinct(waiters')
      /\ InFront(waiters', UntilFree) /\ waiters' \in Seq(Procs)
  BY <1>2, OnlyEntries, Zenon DEF QueueInv, ListInv
<1>6. InFront(waiters', UntilFree')
  <2>1. \A x \in Entries(waiters') : x \in UntilFree <=> x \in UntilFree'
    BY <1>1, <1>5, Zenon DEF UntilFree, WaitsUntilFree
  <2> QED BY <1>5, <2>1, InFrontSame
<1>7. waiters' # <<>> => hasWaiters'
  <2>1. waiters' # <<>> => waiters # <<>>
    BY <1>2, <1>5, NoEntries, Zenon
  <2> QED BY <1>1, <2>1, Zenon DEF QueueInv, ListInv
<1>8. \A q \in Procs : q \in Entries(waiters') <=> lwWaiting'[q] = "waiting"
  <2>1. \A q \in Procs : q \in Entries(waiters) <=> lwWaiting[q] = "waiting"
    BY DEF QueueInv, ListInv
  <2> QED BY <1>1, <1>5, <2>1, Zenon
<1>9. ListInv'
  BY <1>5, <1>6, <1>7, <1>8, Zenon DEF ListInv
<1> QED BY <1>3, <1>4, <1>9

\* LWLockWakeup and LWLockUpdateVar move waiters from the wait list to a list
\* of their own.
LEMMA TakeOffList ==
    ASSUME Counting, QueueInv, NEW p \in Procs, NEW woken, \A x \in woken : x \in Entries(waiters),
           TakeOff(p, woken), pc[p] \in {"updatewake", "collect"},
           pc' = [pc EXCEPT ![p] = "awaken"], call' = call,
           hasWaiters' = hasWaiters \/ hasWaiters' = (hasWaiters /\ waiters' # <<>>)
    PROVE  ListInv' /\ PendingInv' /\ \A q \in Procs : Waits(q)'
<1>1. /\ pc \in [Procs -> PCs] /\ waiters \in Seq(Procs) /\ wakeup \in [Procs -> Seq(Procs)]
      /\ \A q \in Procs : q \in Entries(waiters) <=> lwWaiting[q] = "waiting"
      /\ Entries(waiters) \in SUBSET Procs
  BY NoEntries, Zenon DEF QueueInv, Inv, TypeInv, RestType, ListInv
<1>2. /\ waiters' = Only(waiters, Procs \ woken)
      /\ wakeup' = [wakeup EXCEPT ![p] = Only(waiters, woken)]
      /\ lwWaiting' = [q \in Procs |-> IF q \in woken THEN "pending wakeup" ELSE lwWaiting[q]]
  BY Zenon DEF TakeOff
<1>3. \A q \in woken : q \in Procs /\ lwWaiting[q] = "waiting"
  BY <1>1, Zenon
<1>4. \A q \in Procs : Waits(q)'
  <2> SUFFICES ASSUME NEW q \in Procs PROVE Waits(q)'
    OBVIOUS
  <2>1. Waits(q) /\ Waits(p)
    BY DEF QueueInv
  <2>2. p \notin woken
    BY <1>3, <2>1, Zenon DEF Waits, InQueue
  <2>3. CASE q = p
    BY <1>1, <1>2, <2>1, <2>2, <2>3, Zenon DEF Waits, InQueue
  <2>4. CASE q # p
    BY <1>1, <1>2, <1>3, <2>1, <2>4, Zenon DEF Waits, InQueue
  <2> QED BY <2>3, <2>4, Zenon
<1>5. /\ Entries(waiters') = Entries(waiters) \cap (Procs \ woken) /\ Distinct(waiters')
      /\ InFront(waiters', UntilFree) /\ waiters' \in Seq(Procs)
  BY <1>1, <1>2, OnlyEntries, Zenon DEF QueueInv, ListInv
<1>6. Entries(Only(waiters, woken)) = woken /\ Distinct(Only(waiters, woken))
  <2>1. Entries(Only(waiters, woken)) = Entries(waiters) \cap woken /\ Distinct(Only(waiters, woken))
    BY <1>1, OnlyEntries, Zenon DEF QueueInv, ListInv
  <2> QED BY <2>1, Zenon
<1>7. ListInv'
  <2>1. UntilFree' = UntilFree
    BY DEF UntilFree, WaitsUntilFree
  <2>2. waiters' # <<>> => hasWaiters'
    <3>1. waiters' # <<>> => waiters # <<>>
      BY <1>1, <1>5, NoEntries, Zenon
    <3> QED BY <3>1, Zenon DEF QueueInv, ListInv
  <2>3. \A q \in Procs : q \in Entries(waiters') <=> lwWaiting'[q] = "waiting"
    BY <1>1, <1>2, <1>5, Zenon
  <2> QED BY <1>5, <2>1, <2>2, <2>3, Zenon DEF ListInv
<1>8. PendingInv'
  <2>1. PendingInv /\ \A q \in Procs : Due(q) \in SUBSET Procs
    BY DuesAreProcs DEF QueueInv
  <2>2. \A q \in Procs : q # p => pc'[q] = pc[q] /\ wakeup'[q] = wakeup[q]
    BY <1>1, <1>2, Zenon
  <2>3. pc'[p] = "awaken" /\ wakeup'[p] = Only(waiters, woken)
    BY <1>1, <1>2, Zenon
  <2>4. ASSUME NEW q \in Procs PROVE Distinct(wakeup'[q])
    BY <1>6, <2>1, <2>2, <2>3, Zenon DEF PendingInv
  <2>5. \A x \in woken : lwWaiting'[x] = "pending wakeup"
    BY <1>2, <1>3, Zenon
  <2>6. \A q \in Procs : \A x \in Due(q) : x \notin woken /\ lwWaiting'[x] = "pending wakeup"
    <3>1. \A q \in Procs : \A x \in Due(q) : x \in Procs /\ lwWaiting[x] = "pending wakeup"
      BY <2>1, Zenon DEF PendingInv
    <3> QED BY <1>2, <1>3, <3>1, Zenon
  <2>7. Due(p)' = woken
    BY <1>6, <2>3, Zenon DEF Due
  <2>8. ASSUME NEW q \in Procs, q # p PROVE Due(q)' = Due(q)
    BY <2>2, <2>8 DEF Due
  <2>9. ASSUME NEW q \in Procs, NEW x \in Due(q)' PROVE lwWaiting'[x] = "pending wakeup"
    <3>1. CASE q = p
      BY <2>5, <2>7, <2>9, <3>1, Zenon
    <3>2. CASE q # p
      BY <2>6, <2>8, <2>9, <3>2, Zenon
    <3> QED BY <3>1, <3>2, Zenon
  <2>10. ASSUME NEW q \in Procs, NEW r \in Procs, q # r, NEW x \in Due(q)', x \in Due(r)'
         PROVE  FALSE
    <3>1. CASE q = p
      BY <2>6, <2>7, <2>8, <2>10, <3>1, Zenon
    <3>2. CASE r = p
      BY <2>6, <2>7, <2>8, <2>10, <3>2, Zenon
    <3>3. CASE q # p /\ r # p
      <4>1. x \in Due(q) /\ x \in Due(r)
        BY <2>8, <2>10, <3>3, Zenon
      <4> QED BY <2>1, <2>10, <4>1, Zenon DEF PendingInv
    <3> QED BY <3>1, <3>2, <3>3, Zenon
  <2> QED BY <2>4, <2>9, <2>10, Zenon DEF PendingInv
<1> QED BY <1>4, <1>7, <1>8

\* Clearing the flag, then posting the semaphore of the first process to awaken.
LEMMA AwakenList ==
    ASSUME QueueInv, NEW p \in Procs, Awaken(p) \/ Post(p)
    PROVE  ListInv' /\ PendingInv' /\ \A q \in Procs : Waits(q)'
<1>1. /\ pc \in [Procs -> PCs] /\ waiters \in Seq(Procs) /\ wakeup \in [Procs -> Seq(Procs)]
      /\ lwWaiting \in [Procs -> {"not waiting", "waiting", "pending wakeup"}]
      /\ PendingInv /\ ListInv /\ \A q \in Procs : Waits(q)
      /\ pc[p] = "post" => wakeup[p] # <<>>
  BY Zenon DEF QueueInv, Inv, TypeInv, RestType, PostInv
<1>2. /\ waiters' = waiters /\ hasWaiters' = hasWaiters /\ call' = call /\ UntilFree' = UntilFree
      /\ pc[p] \in {"awaken", "post"}
  BY Zenon DEF Awaken, Post, lock, UntilFree, WaitsUntilFree
<1>3. \A q \in Procs : Due(q) \in SUBSET Procs
  BY DuesAreProcs DEF QueueInv
<1>4. CASE Awaken(p) /\ wakeup[p] = <<>>
  <2>1. /\ lwWaiting' = lwWaiting /\ wakeup' = wakeup /\ pc[p] = "awaken"
        /\ pc' = [pc EXCEPT ![p] = "idle"] \/ pc' = [pc EXCEPT ![p] = "held"]
    BY <1>4 DEF Awaken, Goto
  <2>2. \A q \in Procs : pc'[q] = "post" <=> pc[q] = "post"
    BY <1>1, <2>1, Zenon
  <2>3. PendingInv'
    BY <1>1, <2>1, <2>2, Zenon DEF PendingInv, Due
  <2>4. ListInv'
    BY <1>1, <1>2, <2>1, Zenon DEF ListInv
  <2>5. ASSUME NEW q \in Procs PROVE Waits(q)'
    BY <1>1, <1>2, <2>1, ZenonT(40) DEF Waits, InQueue
  <2> QED BY <2>3, <2>4, <2>5, Zenon
<1>5. CASE Awaken(p) /\ wakeup[p] # <<>>
  <2> DEFINE h == Head(wakeup[p])
  <2>1. /\ lwWaiting' = [lwWaiting EXCEPT ![h] = "not waiting"] /\ wakeup' = wakeup
        /\ pc[p] = "awaken" /\ pc' = [pc EXCEPT ![p] = "post"]
    BY <1>5, Zenon DEF Awaken, Goto
  <2>2. /\ h \in Procs /\ Entries(wakeup[p]) = Entries(Tail(wakeup[p])) \cup {h}
        /\ h \notin Entries(Tail(wakeup[p]))
    BY <1>1, <1>5, HeadTail, Zenon DEF PendingInv
  <2>3. Due(p) = Entries(wakeup[p]) /\ Due(p)' = Entries(Tail(wakeup[p]))
    BY <1>1, <2>1, Zenon DEF Due
  <2>4. h \in Due(p) /\ lwWaiting[h] = "pending wakeup"
    BY <1>1, <2>2, <2>3, Zenon DEF PendingInv
  <2> HIDE DEF h
  <2>5. ASSUME NEW q \in Procs, q # p PROVE Due(q)' = Due(q) /\ h \notin Due(q)
    <3>1. Due(q)' = Due(q)
      BY <1>1, <2>1, <2>5, Zenon DEF Due
    <3> QED BY <1>1, <2>4, <2>5, <3>1, Zenon DEF PendingInv
  <2>6. ASSUME NEW q \in Procs, NEW x \in Due(q)' PROVE x \in Due(q) /\ x # h
    <3>1. CASE q = p
      BY <2>2, <2>3, <2>6, <3>1, Zenon
    <3>2. CASE q # p
      BY <2>5, <2>6, <3>2
    <3> QED BY <3>1, <3>2, Zenon
  <2>7. ASSUME NEW q \in Procs, NEW x \in Due(q)' PROVE lwWaiting'[x] = "pending wakeup"
    <3>1. x \in Due(q) /\ x # h /\ x \in Procs
      BY <1>3, <2>6, <2>7
    <3>2. lwWaiting[x] = "pending wakeup"
      BY <1>1, <3>1, Zenon DEF PendingInv
    <3> QED BY <1>1, <2>1, <3>1, <3>2, Zenon
  <2>8. ASSUME NEW q \in Procs, NEW r \in Procs, q # r, NEW x \in Due(q)', x \in Due(r)'
        PROVE  FALSE
    <3>1. x \in Due(q) /\ x \in Due(r)
      BY <2>6, <2>8
    <3> QED BY <1>1, <2>8, <3>1, Zenon DEF PendingInv
  <2>9. \A q \in Procs : Distinct(wakeup'[q])
    BY <1>1, <2>1, Zenon DEF PendingInv
  <2>10. PendingInv'
    BY <2>7, <2>8, <2>9, Zenon DEF PendingInv
  <2>11. \A q \in Procs : q \in Entries(waiters) <=> lwWaiting'[q] = "waiting"
    BY <1>1, <2>1, <2>4, Zenon DEF ListInv
  <2>12. ListInv'
    BY <1>1, <1>2, <2>11, Zenon DEF ListInv
  <2>13. ASSUME NEW q \in Procs PROVE Waits(q)'
    BY <1>1, <1>2, <2>1, Zenon DEF Waits, InQueue
  <2> QED BY <2>10, <2>12, <2>13
<1>6. CASE Post(p)
  <2>1. /\ lwWaiting' = lwWaiting /\ wakeup' = [wakeup EXCEPT ![p] = Tail(wakeup[p])]
        /\ pc[p] = "post" /\ pc' = [pc EXCEPT ![p] = "awaken"]
    BY <1>6 DEF Post, Goto
  <2>2. Distinct(Tail(wakeup[p]))
    BY <1>1, <2>1, HeadTail, Zenon DEF PendingInv
  <2>3. ASSUME NEW q \in Procs PROVE Due(q)' = Due(q)
    BY <1>1, <2>1, Zenon DEF Due
  <2>4. \A q \in Procs : Distinct(wakeup'[q])
    BY <1>1, <2>1, <2>2, Zenon DEF PendingInv
  <2>5. ASSUME NEW q \in Procs, NEW x \in Due(q)' PROVE lwWaiting'[x] = "pending wakeup"
    BY <1>1, <2>1, <2>3, <2>5, Zenon DEF PendingInv
  <2>6. ASSUME NEW q \in Procs, NEW r \in Procs, q # r, NEW x \in Due(q)', x \in Due(r)'
        PROVE  FALSE
    <3>1. x \in Due(q) /\ x \in Due(r)
      BY <2>3, <2>6
    <3> QED BY <1>1, <2>6, <3>1, Zenon DEF PendingInv
  <2>7. PendingInv'
    BY <2>4, <2>5, <2>6, Zenon DEF PendingInv
  <2>8. ListInv'
    BY <1>1, <1>2, <2>1, Zenon DEF ListInv
  <2>9. ASSUME NEW q \in Procs PROVE Waits(q)'
    BY <1>1, <1>2, <2>1, Zenon DEF Waits, InQueue
  <2> QED BY <2>7, <2>8, <2>9
<1> QED BY <1>4, <1>5, <1>6, Zenon

\* Those awakened are on the wait list.
LEMMA WokenWereQueued ==
    ASSUME RestType
    PROVE  /\ \A x \in FrontWaiters : x \in Entries(waiters)
           /\ \A x \in Awakens : x \in Entries(waiters)
  BY Zenon DEF FrontWaiters, Awakens, Entries

\* Every step keeps the queue and the lists of processes to awaken in order.
LEMMA QueueStep ==
    ASSUME Counting, QueueInv, Next, Inv'
    PROVE  QueueInv'
<1>1. PICK p \in Procs : Call(p) \/ Step(p) \/ UpdateVar(p) \/ Leave(p) \/ StrayPost(p)
  BY Zenon DEF Next
<1>2. RestType' /\ PostInv'
  BY <1>1, RestTypeStep, PostInvStep, Zenon DEF QueueInv
<1>3. SectionInv'
  BY <1>1, SectionStep, Zenon
<1>4. SUFFICES ListInv' /\ PendingInv' /\ \A q \in Procs : Waits(q)'
  BY <1>2, <1>3, Zenon DEF QueueInv
<1>5. ASSUME ListsKept(p) /\ Waits(p)' PROVE ListInv' /\ PendingInv' /\ \A q \in Procs : Waits(q)'
  <2>1. ASSUME NEW q \in Procs, q # p PROVE Waits(q)'
    <3>1. pc'[q] = pc[q] /\ call'[q] = call[q] /\ lwWaiting' = lwWaiting
      BY <1>5, <2>1, Zenon DEF ListsKept, QueueInv, Inv, TypeInv
    <3> QED BY <3>1, Zenon DEF QueueInv, Waits
  <2> QED BY <1>5, <2>1, ListsKeptStep
<1>6. CASE QueueSelf(p) \/ DequeueSelf(p) \/ Awaken(p) \/ Post(p)
  BY <1>6, QueueSelfList, DequeueSelfList, AwakenList
<1>7. CASE WakeForVar(p) \/ Wakeup(p)
  <2>1. /\ pc[p] \in {"updatewake", "collect"} /\ pc' = [pc EXCEPT ![p] = "awaken"] /\ call' = call
        /\ hasWaiters' = hasWaiters \/ hasWaiters' = (hasWaiters /\ waiters' # <<>>)
        /\ TakeOff(p, FrontWaiters) \/ TakeOff(p, Awakens)
    BY <1>7, Zenon DEF WakeForVar, Wakeup, Goto
  <2>2. RestType
    BY DEF QueueInv
  <2> QED BY <2>1, <2>2, TakeOffList, WokenWereQueued, Zenon
<1>8. CASE StrayPost(p)
  <2>1. UNCHANGED <<waiters, hasWaiters, lwWaiting, pc, call, wakeup>>
    BY <1>8 DEF StrayPost, lock
  <2>2. ListInv' /\ PendingInv'
    BY <2>1, Zenon DEF QueueInv, ListInv, PendingInv, Due, UntilFree, WaitsUntilFree
  <2>3. ASSUME NEW q \in Procs PROVE Waits(q)'
    BY <2>1, Zenon DEF QueueInv, Waits
  <2> QED BY <2>2, <2>3, Zenon
<1> QED BY <1>1, <1>5, <1>6, <1>7, <1>8, QuietLists, Zenon DEF Step, Acquire, WakeOthers

-----------------------------------------------------------------------------
\* The processes with a post of x's semaphore under way.
Posters(x) == {q \in Procs : \E i \in DOMAIN wakeup[q] : wakeup[q][i] = x}
DuePCs == InQueue \cup {"absorbed", "absorb"}
Conserved(x) ==
    sem[x] + extraWaits[x] + Cardinality(Posters(x)) = strays[x] + (IF WakeupDue(x) THEN 1 ELSE 0)

\* Being on a list, by index or as an entry.
LEMMA OnList ==
    ASSUME NEW s \in Seq(Procs), NEW x
    PROVE  (\E i \in DOMAIN s : s[i] = x) <=> x \in Entries(s)
<1>1. DOMAIN s = 1 .. Len(s)
  OBVIOUS
<1> QED BY <1>1 DEF Entries

\* There are finitely many posters: those with x on their list.
LEMMA PostersOf ==
    ASSUME Counting, RestType, NEW x
    PROVE  /\ Posters(x) = {q \in Procs : x \in Entries(wakeup[q])}
           /\ IsFiniteSet(Posters(x)) /\ Cardinality(Posters(x)) \in Nat
<1>1. \A q \in Procs : wakeup[q] \in Seq(Procs)
  BY Zenon DEF RestType
<1>2. Posters(x) = {q \in Procs : x \in Entries(wakeup[q])}
  BY <1>1, OnList, Zenon DEF Posters
<1>3. IsFiniteSet(Posters(x))
  BY ExclusiveAssumption, Zenon DEF Posters, Counting, CountOfPart
<1> QED BY <1>2, <1>3 DEF Counting, CountIsNat

\* What a process has, s on the semaphore and e absorbed, is a number of wakeups.
LEMMA SumIsNat == \A s, e \in Nat : s + e \in Nat
OBVIOUS

\* What a process has when it absorbs a wakeup.
LEMMA Absorbed ==
    \A s, e \in Nat : (s - 1) + (e + 1) = s + e
OBVIOUS
\* The same when it consumes its own wakeup.
LEMMA Consumed ==
    \A s, e \in Nat : (s - 1 + e) + 0 = (s + e) - 1 /\ (s - 1) + e = (s + e) - 1
OBVIOUS

\* One side of Conserved, where a process has a wakeups and n wakers have it on
\* their lists: its own wakeup is consumed.
LEMMA BalanceConsumed == \A a, n \in Nat : (a - 1) + n = (a + n) - 1
OBVIOUS

\* It is put on another list.
LEMMA BalanceListed == \A a, n \in Nat : a + (n + 1) = (a + n) + 1
OBVIOUS

\* The other side, t foreign posts and the wakeup that is due.
LEMMA BalanceRight ==
    \A t \in Nat : (t + 1) - 1 = t + 0 /\ (t + 0) + 1 = t + 1
OBVIOUS

\* The waker posts.
LEMMA BalancePosted ==
    \A s, e, n \in Nat : (s + 1) + e + (n - 1) = s + e + n
OBVIOUS

\* The return of an operation moves the absorbed wakeups to the semaphore.
LEMMA Returned ==
    ASSUME NEW f \in [Procs -> Nat], NEW g \in [Procs -> Nat], NEW p \in Procs, NEW x \in Procs
    PROVE  [f EXCEPT ![p] = f[p] + g[p]][x] + [g EXCEPT ![p] = 0][x] = f[x] + g[x]
<1>1. f[x] \in Nat /\ g[x] \in Nat
  OBVIOUS
<1>2. CASE x = p
  <2>1. [f EXCEPT ![p] = f[p] + g[p]][x] = f[x] + g[x] /\ [g EXCEPT ![p] = 0][x] = 0
    BY <1>2, Zenon
  <2> QED BY <1>1, <2>1
<1>3. CASE x # p
  <2>1. [f EXCEPT ![p] = f[p] + g[p]][x] = f[x] /\ [g EXCEPT ![p] = 0][x] = g[x]
    BY <1>3, Zenon
  <2> QED BY <1>1, <2>1, Zenon
<1> QED BY <1>2, <1>3, Zenon

\* Every step keeps the count of each process's wakeups.
LEMMA ConservedStep ==
    ASSUME Counting, QueueInv, QueueInv', WakeupsConserved, NEW p \in Procs,
           Call(p) \/ Step(p) \/ UpdateVar(p) \/ Leave(p) \/ StrayPost(p)
    PROVE  WakeupsConserved'
<1> USE DEF Goto, lock
<1>1. /\ pc \in [Procs -> PCs] /\ sem \in [Procs -> Nat] /\ extraWaits \in [Procs -> Nat]
      /\ strays \in [Procs -> 0 .. MaxStray] /\ MaxStray \in Nat
      /\ lwWaiting \in [Procs -> {"not waiting", "waiting", "pending wakeup"}]
  BY ExclusiveAssumption, Zenon DEF QueueInv, Inv, TypeInv, RestType
<1>2. ASSUME NEW x \in Procs PROVE Conserved(x)
  BY <1>2, Zenon DEF WakeupsConserved, Conserved, Posters
<1>3. SUFFICES ASSUME NEW x \in Procs PROVE Conserved(x)'
  BY Zenon DEF WakeupsConserved, Conserved, Posters
<1>4. /\ sem[x] \in Nat /\ extraWaits[x] \in Nat /\ strays[x] \in Nat
      /\ Cardinality(Posters(x)) \in Nat /\ Conserved(x)
  <2>1. sem[x] \in Nat /\ extraWaits[x] \in Nat /\ strays[x] \in 0 .. MaxStray
    BY <1>1, Zenon
  <2>2. strays[x] \in Nat
    BY ExclusiveAssumption, <2>1
  <2>3. Cardinality(Posters(x)) \in Nat
    BY PostersOf, Zenon DEF QueueInv
  <2> QED BY <1>2, <2>1, <2>2, <2>3, Zenon
<1>5. WakeupDue(x) <=> pc[x] \in DuePCs /\ lwWaiting[x] # "waiting"
  BY Zenon DEF WakeupDue, DuePCs, InQueue
<1>6. WakeupDue(x)' <=> pc'[x] \in DuePCs /\ lwWaiting'[x] # "waiting"
  BY Zenon DEF WakeupDue, DuePCs, InQueue
\* Steps that post nothing and whose process moves on.
<1>7. ASSUME wakeup' = wakeup, strays' = strays, sem'[x] + extraWaits'[x] = sem[x] + extraWaits[x],
             WakeupDue(x)' <=> WakeupDue(x)
      PROVE  Conserved(x)'
  <2>1. Posters(x)' = Posters(x)
    BY <1>7 DEF Posters
  <2> QED BY <1>4, <1>7, <2>1, Zenon DEF Conserved
<1>8. ASSUME wakeup' = wakeup, strays' = strays, UNCHANGED <<sem, extraWaits, lwWaiting>>,
             NEW y, pc' = [pc EXCEPT ![p] = y], pc[p] \in DuePCs <=> y \in DuePCs
      PROVE  Conserved(x)'
  BY <1>1, <1>5, <1>6, <1>7, <1>8, Zenon
<1>9. ASSUME wakeup' = wakeup, strays' = strays, lwWaiting' = lwWaiting, pc[p] \notin DuePCs,
             NEW y, y \notin DuePCs, Return(p, y)
      PROVE  Conserved(x)'
  <2>1. /\ sem' = [sem EXCEPT ![p] = sem[p] + extraWaits[p]]
        /\ extraWaits' = [extraWaits EXCEPT ![p] = 0] /\ pc' = [pc EXCEPT ![p] = y]
    BY <1>9 DEF Return
  <2>2. sem'[x] + extraWaits'[x] = sem[x] + extraWaits[x]
    BY <1>1, <1>4, <2>1, Returned, ZenonT(40)
  <2> QED BY <1>1, <1>5, <1>6, <1>7, <1>9, <2>1, <2>2, Zenon
<1>10. CASE Call(p) \/ UpdateVar(p) \/ Leave(p) \/ SecondAttempt(p)
  BY <1>8, <1>10, Zenon DEF Call, UpdateVar, Leave, ClearVar, Release, SecondAttempt, DuePCs, InQueue
<1>11. CASE FirstAttempt(p)
  BY <1>8, <1>9, <1>11, ZenonT(40) DEF FirstAttempt, DuePCs, InQueue
<1>12. CASE \/ WaitListLock(p, "queue", "enqueue") \/ WaitListLock(p, "dequeue", "undequeue")
            \/ WaitListLock(p, "update", "updatewake") \/ WaitListLock(p, "check", "collect")
  BY <1>8, <1>12, ZenonT(40) DEF WaitListLock, DuePCs, InQueue
<1>13. CASE ResetReleaseOk(p) \/ SetReleaseOk(p) \/ Retry(p)
  BY <1>8, <1>13, ZenonT(40) DEF ResetReleaseOk, SetReleaseOk, Retry, DuePCs, InQueue
<1>14. CASE WaitForVar(p) \/ RecheckVar(p)
  BY <1>8, <1>9, <1>14, Zenon DEF WaitForVar, RecheckVar, ConflictsWithVar, ReadVar, DuePCs, InQueue
<1>15. CASE QueueSelf(p)
  <2>1. /\ wakeup' = wakeup /\ strays' = strays /\ sem' = sem /\ extraWaits' = extraWaits
        /\ pc[p] = "enqueue" /\ lwWaiting' = [lwWaiting EXCEPT ![p] = "waiting"]
        /\ \E y : pc' = [pc EXCEPT ![p] = y]
    BY <1>15, Zenon DEF QueueSelf
  <2>2. WakeupDue(x)' <=> WakeupDue(x)
    BY <1>1, <1>5, <1>6, <2>1, Zenon DEF DuePCs, InQueue
  <2> QED BY <1>7, <2>1, <2>2, SMTT(30), Z3T(30)
<1>16. CASE DequeueSelf(p)
  <2>1. /\ wakeup' = wakeup /\ strays' = strays /\ pc[p] = "undequeue"
        /\ \/ /\ lwWaiting[p] = "waiting" /\ lwWaiting' = [lwWaiting EXCEPT ![p] = "not waiting"]
              /\ pc' = [pc EXCEPT ![p] = "idle"] \/ pc' = [pc EXCEPT ![p] = "held"]
              /\ sem' = [sem EXCEPT ![p] = sem[p] + extraWaits[p]]
              /\ extraWaits' = [extraWaits EXCEPT ![p] = 0]
           \/ /\ lwWaiting' = lwWaiting /\ sem' = sem /\ extraWaits' = extraWaits
              /\ pc' = [pc EXCEPT ![p] = "absorbed"]
    BY <1>16, Zenon DEF DequeueSelf, Return, Acquired
  <2>2. WakeupDue(x)' <=> WakeupDue(x)
    BY <1>1, <1>5, <1>6, <2>1, Zenon DEF DuePCs, InQueue
  <2>3. sem'[x] + extraWaits'[x] = sem[x] + extraWaits[x]
    <3>1. CASE sem' = sem /\ extraWaits' = extraWaits
      BY <3>1, Zenon
    <3>2. CASE /\ sem' = [sem EXCEPT ![p] = sem[p] + extraWaits[p]]
               /\ extraWaits' = [extraWaits EXCEPT ![p] = 0]
      BY <1>1, <3>2, Returned, ZenonT(40)
    <3> QED BY <2>1, <3>1, <3>2, Zenon
  <2> QED BY <1>7, <2>1, <2>2, <2>3, Zenon
<1>17. CASE AbsorbWakeup(p) \/ Sleep(p)
  <2>1. /\ wakeup' = wakeup /\ strays' = strays /\ pc[p] \in {"absorb", "sleep"}
        /\ lwWaiting' = lwWaiting /\ sem[p] > 0
        /\ \/ /\ lwWaiting[p] = "not waiting"
              /\ \E y \in PCs \ DuePCs : pc' = [pc EXCEPT ![p] = y]
              /\ \/ /\ sem' = [sem EXCEPT ![p] = sem[p] - 1 + extraWaits[p]]
                    /\ extraWaits' = [extraWaits EXCEPT ![p] = 0]
                 \/ sem' = [sem EXCEPT ![p] = sem[p] - 1] /\ extraWaits' = extraWaits
           \/ /\ sem' = [sem EXCEPT ![p] = sem[p] - 1] /\ pc' = pc
              /\ extraWaits' = [extraWaits EXCEPT ![p] = extraWaits[p] + 1]
    BY <1>17, Zenon DEF AbsorbWakeup, Sleep, SemaphoreLock, ReturnAwakened, Awakened, Acquired, PCs, DuePCs, InQueue
  <2>2. CASE x # p \/ pc' = pc
    <3>1. WakeupDue(x)' <=> WakeupDue(x)
      BY <1>1, <1>5, <1>6, <2>1, <2>2, Zenon
    <3>2. sem'[x] + extraWaits'[x] = sem[x] + extraWaits[x]
      <4>1. pc' = pc => pc'[p] \in DuePCs
        BY <1>1, <2>1, Zenon DEF DuePCs, InQueue
      <4>2. \/ sem'[x] = sem[x] /\ extraWaits'[x] = extraWaits[x]
            \/ sem'[x] = sem[x] - 1 /\ extraWaits'[x] = extraWaits[x] + 1
        BY <1>1, <2>1, <2>2, <4>1, Zenon
      <4>3. (sem[x] - 1) + (extraWaits[x] + 1) = sem[x] + extraWaits[x]
        BY <1>4, Absorbed, Zenon
      <4> QED BY <4>2, <4>3, Zenon
    <3> QED BY <1>7, <2>1, <3>1, <3>2, Zenon
  <2>3. CASE x = p /\ pc' # pc
    <3>1. WakeupDue(x) /\ ~WakeupDue(x)'
      BY <1>1, <1>5, <1>6, <2>1, <2>3, Zenon DEF DuePCs, InQueue
    <3>2. sem'[x] + extraWaits'[x] = (sem[x] + extraWaits[x]) - 1
      <4>1. \/ sem'[x] = sem[x] - 1 + extraWaits[x] /\ extraWaits'[x] = 0
            \/ sem'[x] = sem[x] - 1 /\ extraWaits'[x] = extraWaits[x]
        BY <1>1, <2>1, <2>3, Zenon
      <4>2. /\ (sem[x] - 1 + extraWaits[x]) + 0 = (sem[x] + extraWaits[x]) - 1
            /\ (sem[x] - 1) + extraWaits[x] = (sem[x] + extraWaits[x]) - 1
        BY <1>4, Consumed, Zenon
      <4> QED BY <4>1, <4>2, Zenon
    <3>3. Posters(x)' = Posters(x)
      BY <2>1, Zenon DEF Posters
    <3>4. sem'[x] \in Nat /\ extraWaits'[x] \in Nat
      BY Zenon DEF QueueInv, RestType
    <3>5. strays'[x] = strays[x]
      BY <2>1, Zenon
    <3>6. sem[x] + extraWaits[x] + Cardinality(Posters(x)) = strays[x] + 1
      BY <1>4, <3>1, Zenon DEF Conserved
    <3>7. sem'[x] + extraWaits'[x] + Cardinality(Posters(x)) = strays[x] + 0
      <4>1. sem[x] + extraWaits[x] \in Nat
        BY <1>4, SumIsNat, Zenon
      <4>2. ((sem[x] + extraWaits[x]) - 1) + Cardinality(Posters(x))
            = (sem[x] + extraWaits[x] + Cardinality(Posters(x))) - 1
        BY <1>4, <4>1, BalanceConsumed, Zenon
      <4>3. (strays[x] + 1) - 1 = strays[x] + 0
        BY <1>4, BalanceRight, Zenon
      <4> QED BY <3>2, <3>6, <4>2, <4>3, Zenon
    <3> QED BY <3>1, <3>3, <3>5, <3>7, Zenon DEF Conserved
  <2> QED BY <2>2, <2>3
<1>18. CASE StrayPost(p)
  <2>1. /\ wakeup' = wakeup /\ pc' = pc /\ lwWaiting' = lwWaiting /\ extraWaits' = extraWaits
        /\ strays' = [strays EXCEPT ![p] = strays[p] + 1] /\ sem' = [sem EXCEPT ![p] = sem[p] + 1]
    BY <1>18, Zenon DEF StrayPost
  <2>2. Posters(x)' = Posters(x)
    BY <2>1, Zenon DEF Posters
  <2>3. WakeupDue(x)' <=> WakeupDue(x)
    BY <1>5, <1>6, <2>1, Zenon
  <2>4. \/ sem'[x] = sem[x] /\ strays'[x] = strays[x]
        \/ sem'[x] = sem[x] + 1 /\ strays'[x] = strays[x] + 1
    BY <1>1, <2>1, Zenon
  <2>5. extraWaits'[x] = extraWaits[x]
    BY <2>1
  <2>6. CASE sem'[x] = sem[x] /\ strays'[x] = strays[x]
    BY <1>4, <2>2, <2>3, <2>5, <2>6, Zenon DEF Conserved
  <2>7. CASE sem'[x] = sem[x] + 1 /\ strays'[x] = strays[x] + 1
    <3> DEFINE due == IF WakeupDue(x) THEN 1 ELSE 0
    <3>1. due \in Nat
      OBVIOUS
    <3>2. due = (IF WakeupDue(x)' THEN 1 ELSE 0)
      BY <2>3, Zenon
    <3>3. sem[x] + extraWaits[x] + Cardinality(Posters(x)) = strays[x] + due
      BY <1>4, Zenon DEF Conserved
    <3> HIDE DEF due
    <3>4. (sem[x] + 1) + extraWaits[x] + Cardinality(Posters(x)) = (strays[x] + 1) + due
      BY <1>4, <3>1, <3>3
    <3> QED BY <2>2, <2>5, <2>7, <3>2, <3>4, Zenon DEF Conserved
  <2> QED BY <2>4, <2>6, <2>7, Zenon
<1>19. CASE Awaken(p)
  <2>1. /\ wakeup' = wakeup /\ strays' = strays /\ sem' = sem /\ extraWaits' = extraWaits
        /\ pc[p] = "awaken"
        /\ \E y \in PCs \ DuePCs : pc' = [pc EXCEPT ![p] = y]
        /\ \/ lwWaiting' = lwWaiting
           \/ wakeup[p] # <<>> /\ lwWaiting' = [lwWaiting EXCEPT ![Head(wakeup[p])] = "not waiting"]
    BY <1>19, Zenon DEF Awaken, PCs, DuePCs, InQueue
  <2>2. wakeup[p] # <<>> => Head(wakeup[p]) \in Procs /\ lwWaiting[Head(wakeup[p])] = "pending wakeup"
    <3> SUFFICES ASSUME wakeup[p] # <<>>
                 PROVE  Head(wakeup[p]) \in Procs /\ lwWaiting[Head(wakeup[p])] = "pending wakeup"
      BY Zenon
    <3>1. wakeup[p] \in Seq(Procs) /\ PendingInv
      BY Zenon DEF QueueInv, RestType
    <3>2. Head(wakeup[p]) \in Procs /\ Head(wakeup[p]) \in Entries(wakeup[p])
      BY <3>1, HeadTail, Zenon
    <3>3. Due(p) = Entries(wakeup[p])
      BY <2>1, Zenon DEF Due
    <3> QED BY <3>1, <3>2, <3>3, Zenon DEF PendingInv
  <2>3. lwWaiting'[x] = "waiting" <=> lwWaiting[x] = "waiting"
    BY <1>1, <2>1, <2>2, Zenon
  <2>4. pc'[x] \in DuePCs <=> pc[x] \in DuePCs
    BY <1>1, <2>1, Zenon DEF DuePCs, InQueue
  <2> QED BY <1>5, <1>6, <1>7, <2>1, <2>3, <2>4, Zenon
<1>20. ASSUME NEW woken, \A y \in woken : y \in Entries(waiters), TakeOff(p, woken),
              pc[p] \in {"updatewake", "collect"}, pc' = [pc EXCEPT ![p] = "awaken"],
              UNCHANGED <<sem, strays, extraWaits>>
       PROVE  Conserved(x)'
  <2>1. /\ wakeup' = [wakeup EXCEPT ![p] = Only(waiters, woken)]
        /\ lwWaiting' = [q \in Procs |-> IF q \in woken THEN "pending wakeup" ELSE lwWaiting[q]]
    BY <1>20, Zenon DEF TakeOff
  <2>2. wakeup \in [Procs -> Seq(Procs)] /\ waiters \in Seq(Procs) /\ wakeup[p] = <<>>
    BY <1>20, Zenon DEF QueueInv, RestType, PostInv
  <2>3. p \notin Posters(x)
    BY <2>2, SMTT(30), Z3T(30) DEF Posters
  <2>4. Posters(x)' = {q \in Procs : x \in Entries(wakeup'[q])}
    <3>1. \A q \in Procs : wakeup'[q] \in Seq(Procs)
      BY Zenon DEF QueueInv, RestType
    <3> QED BY <3>1, OnList, Zenon DEF Posters
  <2>5. Posters(x) = {q \in Procs : x \in Entries(wakeup[q])}
    BY PostersOf, Zenon DEF QueueInv
  <2>6. Entries(Only(waiters, woken)) = Entries(waiters) \cap woken
    BY <2>2, OnlyEntries, Zenon
  <2>7. x \in Entries(waiters) <=> lwWaiting[x] = "waiting"
    BY Zenon DEF QueueInv, ListInv
  <2>8. CASE x \in woken
    <3>1. Posters(x)' = Posters(x) \cup {p}
      BY <1>20, <2>1, <2>2, <2>4, <2>5, <2>6, <2>8, Zenon
    <3>2. Cardinality(Posters(x)') = Cardinality(Posters(x)) + 1
      BY <2>3, <3>1, PostersOf, Zenon DEF QueueInv, Counting, CountAfterAdding
    <3>3. lwWaiting[x] = "waiting" /\ lwWaiting'[x] = "pending wakeup"
      BY <1>20, <2>1, <2>7, <2>8, Zenon
    <3>4. pc[x] \in InQueue /\ pc'[x] = pc[x]
      BY <1>1, <1>20, <3>3, Zenon DEF QueueInv, Waits, InQueue
    <3>5. ~WakeupDue(x) /\ WakeupDue(x)'
      BY <1>5, <1>6, <3>3, <3>4, Zenon DEF DuePCs
    <3>6. sem[x] + extraWaits[x] + Cardinality(Posters(x)) = strays[x] + 0
      BY <1>4, <3>5, Zenon DEF Conserved
    <3>7. sem[x] + extraWaits[x] + (Cardinality(Posters(x)) + 1) = strays[x] + 1
      <4>1. sem[x] + extraWaits[x] \in Nat
        BY <1>4, SumIsNat, Zenon
      <4>2. sem[x] + extraWaits[x] + (Cardinality(Posters(x)) + 1)
            = (sem[x] + extraWaits[x] + Cardinality(Posters(x))) + 1
        BY <1>4, <4>1, BalanceListed, Zenon
      <4>3. (strays[x] + 0) + 1 = strays[x] + 1
        BY <1>4, BalanceRight, Zenon
      <4> QED BY <3>6, <4>2, <4>3, Zenon
    <3> QED BY <1>20, <3>2, <3>5, <3>7, Zenon DEF Conserved
  <2>9. CASE x \notin woken
    <3>1. Posters(x)' = Posters(x)
      BY <2>1, <2>2, <2>3, <2>4, <2>5, <2>6, <2>9, Zenon
    <3>2. WakeupDue(x)' <=> WakeupDue(x)
      BY <1>1, <1>5, <1>6, <1>20, <2>1, <2>9, Zenon DEF DuePCs, InQueue
    <3> QED BY <1>4, <1>20, <3>1, <3>2, Zenon DEF Conserved
  <2> QED BY <2>8, <2>9
<1>21. CASE WakeForVar(p) \/ Wakeup(p)
  <2>1. RestType
    BY Zenon DEF QueueInv
  <2> QED BY <1>20, <1>21, <2>1, WokenWereQueued, Zenon DEF WakeForVar, Wakeup
<1>22. CASE Post(p)
  <2> DEFINE h == Head(wakeup[p])
  <2>1. /\ pc[p] = "post" /\ pc' = [pc EXCEPT ![p] = "awaken"]
        /\ sem' = [sem EXCEPT ![h] = sem[h] + 1]
        /\ wakeup' = [wakeup EXCEPT ![p] = Tail(wakeup[p])]
        /\ lwWaiting' = lwWaiting /\ strays' = strays /\ extraWaits' = extraWaits
    BY <1>22 DEF Post
  <2>2. wakeup \in [Procs -> Seq(Procs)] /\ wakeup[p] # <<>> /\ Distinct(wakeup[p])
    BY <2>1, Zenon DEF QueueInv, RestType, PostInv, PendingInv
  <2>3. /\ h \in Procs /\ Entries(wakeup[p]) = Entries(Tail(wakeup[p])) \cup {h}
        /\ h \notin Entries(Tail(wakeup[p]))
    BY <2>2, HeadTail, Zenon
  <2> HIDE DEF h
  <2>4. Posters(x)' = {q \in Procs : x \in Entries(wakeup'[q])}
    <3>1. \A q \in Procs : wakeup'[q] \in Seq(Procs)
      BY Zenon DEF QueueInv, RestType
    <3> QED BY <3>1, OnList DEF Posters
  <2>5. Posters(x) = {q \in Procs : x \in Entries(wakeup[q])}
    BY PostersOf DEF QueueInv
  <2>6. WakeupDue(x)' <=> WakeupDue(x)
    BY <1>1, <1>5, <1>6, <2>1, Zenon DEF DuePCs, InQueue
  <2>7. CASE x = h
    <3>1. Posters(x)' = Posters(x) \ {p} /\ p \in Posters(x)
      BY <2>1, <2>2, <2>3, <2>4, <2>5, <2>7, Zenon
    <3>2. Cardinality(Posters(x)') = Cardinality(Posters(x)) - 1
      BY <3>1, PostersOf, Zenon DEF QueueInv, Counting, CountAfterRemoving
    <3>3. sem'[x] = sem[x] + 1 /\ extraWaits'[x] = extraWaits[x] /\ strays'[x] = strays[x]
      BY <1>1, <2>1, <2>7, Zenon
    <3>4. (sem[x] + 1) + extraWaits[x] + (Cardinality(Posters(x)) - 1)
          = sem[x] + extraWaits[x] + Cardinality(Posters(x))
      BY <1>4, BalancePosted, Zenon
    <3> QED BY <1>4, <2>6, <3>2, <3>3, <3>4, Zenon DEF Conserved
  <2>8. CASE x # h
    <3>1. Posters(x)' = Posters(x)
      BY <2>1, <2>2, <2>3, <2>4, <2>5, <2>8, Zenon
    <3>2. sem'[x] = sem[x] /\ extraWaits'[x] = extraWaits[x] /\ strays'[x] = strays[x]
      BY <1>1, <2>1, <2>8, Zenon
    <3> QED BY <1>4, <2>6, <3>1, <3>2, Zenon DEF Conserved
  <2> QED BY <2>7, <2>8, Zenon
<1> QED BY <1>10, <1>11, <1>12, <1>13, <1>14, <1>15, <1>16, <1>17, <1>18, <1>19, <1>21, <1>22, Zenon
        DEF Step, Acquire, WakeOthers, WatchVar

-----------------------------------------------------------------------------
\* A process that was taken off the queue and will set LW_FLAG_RELEASE_OK.
Retryer(q) ==
    \/ pc[q] = "awake"
    \/ /\ call[q].op = "acquire" /\ lwWaiting[q] # "waiting"
       /\ pc[q] \in {"attempt2", "sleep", "dequeue", "undequeue", "absorbed"}

\* LW_FLAG_RELEASE_OK is clear only while such a process exists ...
RetryInv == ~releaseOk => \E q \in Procs : Retryer(q)

\* ... and never while a process waits for the variable past setting it.
VarInv == \A p \in Procs :
    lwWaiting[p] = "waiting" /\ call[p].op = "waitvar" /\ pc[p] # "releaseok" => releaseOk

\* Somebody who will look at the queue.
Freeing(q) == holds[q] # "none" \/ pc[q] \in {"check", "collect", "attempt"} \/ Retryer(q)
Asleep(p) == lwWaiting[p] = "waiting" /\ pc[p] \in {"sleep", "conflictvar2"}
FreeingInv == (\E p \in Procs : Asleep(p)) => \E q \in Procs : Freeing(q)

\* A process that cannot have the lock finds somebody who holds it.
LEMMA NotFreeMeansHeld ==
    ASSUME Counting, Inv, NEW mode, ~FreeFor(mode)
    PROVE  \E q \in Procs : holds[q] # "none"
<1> SUFFICES ASSUME \A q \in Procs : holds[q] = "none" PROVE FALSE
  OBVIOUS
<1>1. LW_VAL_EXCLUSIVE \in Nat /\ LW_VAL_EXCLUSIVE > 0
  BY ExclusiveAssumption DEF Counting, CountIsNat
<1>2. Readers = {}
  BY Zenon DEF Readers
<1>3. lockcount = 0
  BY <1>2 DEF Inv, CountInv, Counting, CountOfNone
<1>4. 0 \div LW_VAL_EXCLUSIVE = 0 /\ 0 % 2 = 0
  BY <1>1
<1> QED BY <1>3, <1>4, Zenon DEF FreeFor

\* A release that leaves a count leaves a holder.
LEMMA CountMeansHeld ==
    ASSUME Counting, Inv', lockcount' # 0
    PROVE  \E q \in Procs : holds'[q] # "none"
<1> SUFFICES ASSUME \A q \in Procs : holds'[q] = "none" PROVE FALSE
  OBVIOUS
<1>1. Readers' = {}
  BY DEF Readers
<1> QED BY <1>1 DEF Inv, CountInv, Counting, CountOfNone

\* LWLockUpdateVar takes off everybody who waits for the variable.
LEMMA FrontIsAll ==
    ASSUME QueueInv, NEW p \in Procs, lwWaiting[p] = "waiting", WaitsUntilFree(p)
    PROVE  p \in FrontWaiters /\ p \in Awakens
<1>1. waiters \in Seq(Procs) /\ p \in Entries(waiters) /\ InFront(waiters, UntilFree)
  BY Zenon DEF QueueInv, RestType, ListInv
<1>2. PICK k \in 1 .. Len(waiters) : waiters[k] = p
  BY <1>1 DEF Entries
<1>3. p \in UntilFree
  BY Zenon DEF UntilFree
<1>4. \A j \in 1 .. k : WaitsUntilFree(waiters[j])
  <2> SUFFICES ASSUME NEW j \in 1 .. k PROVE WaitsUntilFree(waiters[j])
    OBVIOUS
  <2>1. j \in 1 .. Len(waiters) /\ (j = k \/ j < k)
    OBVIOUS
  <2>2. waiters[j] \in UntilFree
    BY <1>1, <1>2, <1>3, <2>1, Zenon DEF InFront
  <2> QED BY <2>2, Zenon DEF UntilFree
<1>5. p \in FrontWaiters
  BY <1>2, <1>4, Zenon DEF FrontWaiters
<1>6. \A j \in 1 .. k : ~WaitsExclusive(waiters[j])
  BY <1>4, Zenon DEF WaitsUntilFree, WaitsExclusive
<1>7. k \in 1 .. k /\ \A j \in 1 .. k - 1 : j \in 1 .. k
  OBVIOUS
<1>8. p \in Awakens
  BY <1>2, <1>6, <1>7, Zenon DEF Awakens
<1> QED BY <1>5, <1>8

\* LWLockWakeup: if somebody stays in the queue, it awakened a process that
\* will try the lock.
LEMMA StaysBehind ==
    ASSUME Counting, QueueInv, NEW p \in Procs, lwWaiting[p] = "waiting", p \notin Awakens
    PROVE  \E q \in Awakens : ~WaitsUntilFree(q)
<1>1. waiters \in Seq(Procs) /\ p \in Entries(waiters) /\ ~WaitsUntilFree(p)
  BY FrontIsAll, Zenon DEF QueueInv, RestType, ListInv
<1> DEFINE R == {i \in 1 .. Len(waiters) : ~WaitsUntilFree(waiters[i])}
<1>2. R # {} /\ R \in SUBSET Nat /\ IsFiniteSet(R)
  <2>1. R # {}
    BY <1>1 DEF Entries
  <2>2. Len(waiters) \in Nat
    BY <1>1
  <2>3. IsFiniteSet(1 .. Len(waiters))
    BY <2>2 DEF Counting, CountOfInterval
  <2>4. R \in SUBSET (1 .. Len(waiters))
    OBVIOUS
  <2> QED BY <2>1, <2>3, <2>4, SMTT(30), Z3T(30) DEF Counting, CountOfPart
<1>3. PICK k \in R : \A i \in R : k <= i
  BY <1>2, SmallestIn, Zenon
<1>4. \A j \in 1 .. k - 1 : WaitsUntilFree(waiters[j])
  <2> SUFFICES ASSUME NEW j \in 1 .. k - 1, ~WaitsUntilFree(waiters[j]) PROVE FALSE
    BY Zenon
  <2>1. Len(waiters) \in Nat /\ k \in 1 .. Len(waiters)
    BY <1>1
  <2>2. j \in 1 .. Len(waiters) /\ j < k
    BY <2>1
  <2> QED BY <1>3, <2>1, <2>2
<1>5. FirstToRetry(k)
  BY <1>3, <1>4, Zenon DEF FirstToRetry
<1>6. \A j \in 1 .. k - 1 : ~WaitsExclusive(waiters[j])
  BY <1>4, Zenon DEF WaitsUntilFree, WaitsExclusive
<1>7. waiters[k] \in Awakens
  BY <1>3, <1>5, <1>6, Zenon DEF Awakens
<1> QED BY <1>3, <1>7

\* Which step a process takes where.
Acts(p) == Call(p) \/ Step(p) \/ UpdateVar(p) \/ Leave(p) \/ StrayPost(p)
\* The label decides the step.
LEMMA Labels ==
    ASSUME NEW p \in Procs, Acts(p)
    PROVE  \/ pc[p] = "idle" /\ Call(p)
           \/ pc[p] = "attempt" /\ FirstAttempt(p)
           \/ pc[p] = "queue" /\ WaitListLock(p, "queue", "enqueue")
           \/ pc[p] = "enqueue" /\ QueueSelf(p)
           \/ pc[p] = "attempt2" /\ SecondAttempt(p)
           \/ pc[p] = "dequeue" /\ WaitListLock(p, "dequeue", "undequeue")
           \/ pc[p] = "undequeue" /\ DequeueSelf(p)
           \/ pc[p] = "absorbed" /\ ResetReleaseOk(p)
           \/ pc[p] = "absorb" /\ AbsorbWakeup(p)
           \/ pc[p] = "sleep" /\ Sleep(p)
           \/ pc[p] = "awake" /\ Retry(p)
           \/ pc[p] \in {"conflict", "conflictvar"} /\ WaitForVar(p)
           \/ pc[p] = "releaseok" /\ SetReleaseOk(p)
           \/ pc[p] \in {"conflict2", "conflictvar2"} /\ RecheckVar(p)
           \/ pc[p] = "update" /\ WaitListLock(p, "update", "updatewake")
           \/ pc[p] = "updatewake" /\ WakeForVar(p)
           \/ pc[p] = "check" /\ WaitListLock(p, "check", "collect")
           \/ pc[p] = "collect" /\ Wakeup(p)
           \/ pc[p] = "awaken" /\ Awaken(p)
           \/ pc[p] = "post" /\ Post(p)
           \/ pc[p] = "held" /\ (UpdateVar(p) \/ ClearVar(p))
           \/ pc[p] \in {"held", "clear"} /\ Release(p)
           \/ StrayPost(p)
<1>1. CASE Call(p) \/ UpdateVar(p) \/ Leave(p) \/ StrayPost(p)
  BY <1>1, Zenon DEF Call, UpdateVar, Leave, ClearVar, Release
<1>2. CASE Acquire(p)
  <2>1. /\ FirstAttempt(p) => pc[p] = "attempt"
        /\ WaitListLock(p, "queue", "enqueue") => pc[p] = "queue"
        /\ WaitListLock(p, "dequeue", "undequeue") => pc[p] = "dequeue"
        /\ QueueSelf(p) => pc[p] = "enqueue"
        /\ SecondAttempt(p) => pc[p] = "attempt2"
        /\ DequeueSelf(p) => pc[p] = "undequeue"
    BY ZenonT(40) DEF FirstAttempt, WaitListLock, QueueSelf, SecondAttempt, DequeueSelf
  <2>2. /\ ResetReleaseOk(p) => pc[p] = "absorbed"
        /\ AbsorbWakeup(p) => pc[p] = "absorb"
        /\ Sleep(p) => pc[p] = "sleep"
        /\ Retry(p) => pc[p] = "awake"
    BY SMTT(30), Z3T(30) DEF ResetReleaseOk, AbsorbWakeup, Sleep, Retry
  <2> QED BY <1>2, <2>1, <2>2, Zenon DEF Acquire
<1>3. CASE WatchVar(p)
  BY <1>3, ZenonT(40) DEF WatchVar, WaitForVar, SetReleaseOk, RecheckVar, ConflictsWithVar, ReadVar
<1>4. CASE WakeOthers(p)
  BY <1>4, ZenonT(40) DEF WakeOthers, WaitListLock, WakeForVar, Wakeup, Awaken, Post
<1> QED BY <1>1, <1>2, <1>3, <1>4, Zenon DEF Acts, Step

\* Only the attempts and the release change who holds the lock.
LEMMA HoldsKept ==
    ASSUME NEW p \in Procs, Acts(p), ~FirstAttempt(p), ~SecondAttempt(p), ~Release(p)
    PROVE  holds' = holds
<1> USE DEF lock
<1>1. CASE Call(p) \/ UpdateVar(p) \/ ClearVar(p) \/ StrayPost(p)
  BY <1>1 DEF Call, UpdateVar, ClearVar, StrayPost
<1>2. ASSUME NEW here, NEW there, WaitListLock(p, here, there) PROVE holds' = holds
  BY <1>2 DEF WaitListLock
<1>3. CASE QueueSelf(p) \/ DequeueSelf(p) \/ ResetReleaseOk(p) \/ SetReleaseOk(p) \/ Retry(p)
  BY <1>3, Zenon DEF QueueSelf, DequeueSelf, ResetReleaseOk, SetReleaseOk, Retry
<1>4. CASE AbsorbWakeup(p) \/ Sleep(p) \/ WaitForVar(p) \/ RecheckVar(p)
  BY <1>4, Zenon DEF AbsorbWakeup, Sleep, SemaphoreLock, WaitForVar, RecheckVar, ConflictsWithVar, ReadVar
<1>5. CASE WakeForVar(p) \/ Wakeup(p) \/ Awaken(p) \/ Post(p)
  BY <1>5, ZenonT(40) DEF WakeForVar, Wakeup, Awaken, Post
<1> QED BY <1>1, <1>2, <1>3, <1>4, <1>5, Labels

\* Only LWLockUpdateVar and LWLockReleaseClearVar change the variable.
LEMMA ValKept ==
    ASSUME NEW p \in Procs, Acts(p), ~UpdateVar(p), ~ClearVar(p)
    PROVE  val' = val
<1> USE DEF lock
<1>1. CASE Call(p) \/ FirstAttempt(p) \/ SecondAttempt(p) \/ Release(p) \/ StrayPost(p)
  BY <1>1, Zenon DEF Call, FirstAttempt, SecondAttempt, Release, StrayPost
<1>2. ASSUME NEW here, NEW there, WaitListLock(p, here, there) PROVE val' = val
  BY <1>2 DEF WaitListLock
<1>3. CASE QueueSelf(p) \/ DequeueSelf(p) \/ ResetReleaseOk(p) \/ SetReleaseOk(p) \/ Retry(p)
  BY <1>3, ZenonT(40) DEF QueueSelf, DequeueSelf, ResetReleaseOk, SetReleaseOk, Retry
<1>4. CASE AbsorbWakeup(p) \/ Sleep(p) \/ WaitForVar(p) \/ RecheckVar(p)
  BY <1>4, Zenon DEF AbsorbWakeup, Sleep, SemaphoreLock, WaitForVar, RecheckVar, ConflictsWithVar, ReadVar
<1>5. CASE WakeForVar(p) \/ Wakeup(p) \/ Awaken(p) \/ Post(p)
  BY <1>5, ZenonT(40) DEF WakeForVar, Wakeup, Awaken, Post
<1> QED BY <1>1, <1>2, <1>3, <1>4, <1>5, Labels, Zenon

\* A step of one process moves no other, and queues no other.
LEMMA OthersStay ==
    ASSUME QueueInv, NEW p \in Procs, Acts(p), NEW x \in Procs
    PROVE  /\ x # p => pc'[x] = pc[x] /\ call'[x] = call[x] /\ holds'[x] = holds[x]
           /\ lwWaiting'[x] = "waiting" /\ lwWaiting[x] # "waiting" => x = p /\ QueueSelf(p)
           /\ releaseOk' = releaseOk \/ releaseOk' = TRUE \/ Wakeup(p)
<1> USE DEF Goto, lock
<1>1. /\ pc \in [Procs -> PCs] /\ call \in [Procs -> Calls \cup {NoCall}]
      /\ holds \in [Procs -> Modes \cup {"none"}]
      /\ lwWaiting \in [Procs -> {"not waiting", "waiting", "pending wakeup"}]
  BY Zenon DEF QueueInv, Inv, TypeInv, RestType
<1>2. CASE Call(p) \/ UpdateVar(p) \/ ClearVar(p) \/ Release(p) \/ StrayPost(p)
  BY <1>1, <1>2, Zenon DEF Call, UpdateVar, ClearVar, Release, StrayPost
<1>3. CASE FirstAttempt(p) \/ SecondAttempt(p)
  BY <1>1, <1>3, Zenon DEF FirstAttempt, SecondAttempt, AttemptLock, Return
<1>4. ASSUME NEW here, NEW there, WaitListLock(p, here, there)
      PROVE  /\ x # p => pc'[x] = pc[x] /\ call'[x] = call[x] /\ holds'[x] = holds[x]
             /\ lwWaiting' = lwWaiting /\ releaseOk' = releaseOk
  BY <1>1, <1>4, Zenon DEF WaitListLock
<1>5. CASE QueueSelf(p) \/ DequeueSelf(p)
  BY <1>1, <1>5, Zenon DEF QueueSelf, DequeueSelf, Return
<1>6. CASE ResetReleaseOk(p) \/ SetReleaseOk(p) \/ Retry(p)
  BY <1>1, <1>6, Zenon DEF ResetReleaseOk, SetReleaseOk, Retry
<1>7. CASE AbsorbWakeup(p) \/ Sleep(p)
  BY <1>1, <1>7, Zenon DEF AbsorbWakeup, Sleep, SemaphoreLock, ReturnAwakened, Awakened
<1>8. CASE WaitForVar(p) \/ RecheckVar(p)
  BY <1>1, <1>8, Zenon DEF WaitForVar, RecheckVar, ConflictsWithVar, ReadVar, Return
<1>9. CASE WakeForVar(p) \/ Wakeup(p)
  BY <1>1, <1>9, ZenonT(40) DEF WakeForVar, Wakeup, TakeOff
<1>10. CASE Awaken(p) \/ Post(p)
  BY <1>1, <1>10, Zenon DEF Awaken, Post
<1> QED BY <1>2, <1>3, <1>4, <1>5, <1>6, <1>7, <1>8, <1>9, <1>10, Labels, Zenon

\* Whoever was awakened stays about to retry until it allows wakeups again.
LEMMA RetryerStays ==
    ASSUME QueueInv, NEW p \in Procs, Acts(p), NEW q \in Procs, Retryer(q)
    PROVE  Retryer(q)' \/ (releaseOk' = TRUE /\ Freeing(q)')
<1> USE DEF Goto, lock
<1>1. CASE q # p
  <2>1. /\ pc'[q] = pc[q] /\ call'[q] = call[q]
        /\ lwWaiting'[q] = "waiting" => lwWaiting[q] = "waiting"
    BY <1>1, OthersStay, Zenon
  <2> QED BY <2>1 DEF Retryer
<1>2. CASE q = p
  <2>1. /\ pc \in [Procs -> PCs] /\ call \in [Procs -> Calls \cup {NoCall}] /\ HoldsAt(p)
        /\ holds \in [Procs -> Modes \cup {"none"}] /\ Retryer(p)
    BY <1>2, Zenon DEF QueueInv, Inv, TypeInv
  <2>2. pc[p] \in {"awake", "attempt2", "sleep", "dequeue", "undequeue", "absorbed"}
    BY <2>1, Zenon DEF Retryer
  <2>3. CASE SecondAttempt(p) \/ WaitListLock(p, "dequeue", "undequeue")
    BY <1>2, <2>1, <2>3, Zenon DEF SecondAttempt, WaitListLock, Retryer
  <2>4. CASE DequeueSelf(p)
    BY <1>2, <2>1, <2>4, Zenon DEF DequeueSelf, Retryer
  <2>5. CASE Sleep(p)
    <3>1. call[p].op = "acquire" /\ lwWaiting[p] # "waiting"
      BY <2>1, <2>5 DEF Sleep, Retryer
    <3>2. call' = call /\ lwWaiting' = lwWaiting /\ (pc' = [pc EXCEPT ![p] = "awake"] \/ pc' = pc)
      BY <2>5, <3>1, Zenon DEF Sleep, SemaphoreLock, Awakened
    <3> QED BY <1>2, <2>1, <3>1, <3>2, Zenon DEF Retryer
  <2>6. CASE ResetReleaseOk(p)
    <3>1. holds[p] # "none" /\ holds' = holds /\ releaseOk' = TRUE
      BY <2>1, <2>6, Zenon DEF ResetReleaseOk, HoldsAt, Retryer
    <3> QED BY <1>2, <3>1, Zenon DEF Freeing
  <2>7. CASE Retry(p)
    BY <1>2, <2>1, <2>7, Zenon DEF Retry, Freeing
  <2>8. CASE StrayPost(p)
    BY <1>2, <2>1, <2>8, Zenon DEF StrayPost, Retryer
  <2> QED BY <2>2, <2>3, <2>4, <2>5, <2>6, <2>7, <2>8, Labels, Zenon
<1> QED BY <1>1, <1>2, Zenon

\* LWLockWakeup: a waiter it awakens that wants the lock is about to retry.
LEMMA AwakensRetryer ==
    ASSUME QueueInv, NEW p \in Procs, Wakeup(p), NEW q \in Awakens, ~WaitsUntilFree(q)
    PROVE  q \in Procs /\ Retryer(q)'
<1>1. /\ q \in Entries(waiters) /\ q \in Procs
  <2>1. RestType /\ waiters \in Seq(Procs)
    BY Zenon DEF QueueInv, RestType
  <2> QED BY <2>1, WokenWereQueued, NoEntries, Zenon
<1>2. lwWaiting[q] = "waiting" /\ Waits(q) /\ HoldsAt(q)
  BY <1>1, Zenon DEF QueueInv, ListInv, Inv
<1>3. pc[p] = "collect" /\ pc[q] \in InQueue /\ q # p
  BY <1>2, Zenon DEF Wakeup, Waits, InQueue
<1>4. pc[q] # "undequeue"
  BY <1>1, <1>3, Zenon DEF QueueInv, SectionInv, Sections
<1>5. call[q] \in Calls /\ call[q].op \in {"acquire", "conditional", "orwait", "waitvar"}
  <2>1. \A c \in Calls : c.op \in {"acquire", "conditional", "orwait", "waitvar"}
    BY Zenon DEF Calls
  <2>2. call[q] \in Calls
    BY <1>2, <1>3, Zenon DEF HoldsAt, InQueue
  <2> QED BY <2>1, <2>2, Zenon
<1>6. call[q].op = "acquire" /\ pc[q] \in {"attempt2", "sleep", "dequeue"}
  BY <1>2, <1>3, <1>4, <1>5, Zenon DEF WaitsUntilFree, Waits, HoldsAt, InQueue
<1>7. pc'[q] = pc[q] /\ call' = call /\ lwWaiting'[q] = "pending wakeup"
  BY <1>1, <1>3, Zenon DEF Wakeup, TakeOff, Goto, QueueInv, Inv, TypeInv
<1> QED BY <1>1, <1>6, <1>7, Zenon DEF Retryer

\* Steps keep what decides whether a release wakes the queue.
LEMMA RetryStep ==
    ASSUME QueueInv, RetryInv, NEW p \in Procs, Acts(p)
    PROVE  RetryInv'
<1> SUFFICES ASSUME ~releaseOk' PROVE \E q \in Procs : Retryer(q)'
  BY Zenon DEF RetryInv
<1>1. CASE Wakeup(p)
  <2>1. PICK q \in Awakens : ~WaitsUntilFree(q)
    BY <1>1 DEF Wakeup
  <2> QED BY <1>1, <2>1, AwakensRetryer, Zenon
<1>2. CASE ~Wakeup(p)
  <2>1. ~releaseOk
    BY <1>2, OthersStay, Zenon
  <2>2. PICK q \in Procs : Retryer(q)
    BY <2>1, Zenon DEF RetryInv
  <2> QED BY <2>2, RetryerStays, Zenon
<1> QED BY <1>1, <1>2, Zenon

\* A process waiting for the variable has set LW_FLAG_RELEASE_OK, and whoever
\* clears it takes that process off the queue.
LEMMA VarStep ==
    ASSUME QueueInv, QueueInv', VarInv, NEW p \in Procs, Acts(p)
    PROVE  VarInv'
<1> USE DEF Goto, lock
<1> SUFFICES ASSUME NEW x \in Procs, lwWaiting'[x] = "waiting", call'[x].op = "waitvar",
                    pc'[x] # "releaseok"
             PROVE  releaseOk'
  BY DEF VarInv
<1>1. /\ pc \in [Procs -> PCs] /\ call \in [Procs -> Calls \cup {NoCall}]
      /\ lwWaiting \in [Procs -> {"not waiting", "waiting", "pending wakeup"}]
  BY Zenon DEF QueueInv, Inv, TypeInv, RestType
<1>2. ~QueueSelf(p) \/ x # p
  BY <1>1, Zenon DEF QueueSelf
<1>3. lwWaiting[x] = "waiting" /\ pc[x] \in InQueue
  <2>1. lwWaiting[x] = "waiting"
    BY <1>2, OthersStay, Zenon
  <2> QED BY <2>1, Zenon DEF QueueInv, Waits
<1>4. CASE Wakeup(p)
  <2>1. call' = call /\ x \notin Awakens
    BY <1>4, Zenon DEF Wakeup, TakeOff
  <2> QED BY <1>3, <2>1, FrontIsAll, Zenon DEF WaitsUntilFree
<1>5. CASE ~Wakeup(p) /\ (x # p \/ StrayPost(p))
  <2>1. pc'[x] = pc[x] /\ call'[x] = call[x] /\ (releaseOk' = releaseOk \/ releaseOk' = TRUE)
    BY <1>5, OthersStay, Zenon DEF StrayPost
  <2> QED BY <1>3, <2>1 DEF VarInv
<1>6. CASE x = p /\ ~StrayPost(p)
  <2>1. pc'[p] \in InQueue
    BY <1>6, Zenon DEF QueueInv, Waits
  <2>2. CASE SetReleaseOk(p)
    BY <2>2, ZenonT(40) DEF SetReleaseOk
  <2>3. CASE SecondAttempt(p) \/ WaitListLock(p, "dequeue", "undequeue")
    BY <1>3, <1>6, <2>3, SMTT(30), Z3T(30) DEF SecondAttempt, WaitListLock, VarInv
  <2>4. CASE Sleep(p)
    BY <1>1, <1>3, <1>6, <2>1, <2>4, ZenonT(40) DEF Sleep, SemaphoreLock, VarInv
  <2>5. CASE RecheckVar(p)
    BY <1>3, <1>6, <2>5, SMTT(30), Z3T(30) DEF RecheckVar, ConflictsWithVar, ReadVar, VarInv
  <2>6. CASE DequeueSelf(p)
    BY <1>1, <1>3, <1>6, <2>6, Zenon DEF DequeueSelf
  <2> QED BY <1>3, <1>6, <2>2, <2>3, <2>4, <2>5, <2>6, Labels, Zenon DEF InQueue
<1> QED BY <1>4, <1>5, <1>6, Zenon

\* While somebody sleeps in the queue, somebody will look at it.
LEMMA FreeingStep ==
    ASSUME Counting, QueueInv, QueueInv', RetryInv, FreeingInv, NEW p \in Procs, Acts(p)
    PROVE  FreeingInv'
<1> USE DEF Goto, lock
<1> SUFFICES ASSUME NEW x \in Procs, Asleep(x)' PROVE \E q \in Procs : Freeing(q)'
  BY DEF FreeingInv
<1>1. /\ pc \in [Procs -> PCs] /\ call \in [Procs -> Calls \cup {NoCall}] /\ HoldsAt(p)
      /\ holds \in [Procs -> Modes \cup {"none"}] /\ Inv
      /\ lwWaiting \in [Procs -> {"not waiting", "waiting", "pending wakeup"}]
  BY Zenon DEF QueueInv, Inv, TypeInv, RestType
<1>2. lwWaiting'[x] = "waiting" /\ pc'[x] \in {"sleep", "conflictvar2"}
  BY DEF Asleep
<1>3. lwWaiting[x] = "waiting"
  <2>1. ~QueueSelf(p) \/ x # p
    BY <1>1, <1>2, Zenon DEF QueueSelf
  <2> QED BY <1>2, <2>1, OthersStay, Zenon
<1>4. ASSUME NEW r \in Procs, Retryer(r) PROVE \E q \in Procs : Freeing(q)'
  <2>1. Retryer(r)' \/ Freeing(r)'
    BY <1>4, RetryerStays, ZenonT(40)
  <2> QED BY <2>1 DEF Freeing
<1>5. ASSUME holds' = holds, \E q \in Procs : holds[q] # "none" PROVE \E q \in Procs : Freeing(q)'
  BY <1>5 DEF Freeing
<1>6. CASE pc[p] \in {"attempt2", "conflict2"} /\ x = p /\ ~StrayPost(p)
  <2>1. SecondAttempt(p) \/ RecheckVar(p)
    BY <1>6, Labels
  <2>2. holds' = holds /\ \E mode : ~FreeFor(mode)
    BY <1>1, <1>2, <1>6, <2>1, Zenon DEF SecondAttempt, RecheckVar, ConflictsWithVar, ReadVar
  <2> QED BY <1>1, <1>5, <2>2, NotFreeMeansHeld, Zenon
<1>7. CASE Asleep(x)
  <2>1. PICK q \in Procs : Freeing(q)
    BY <1>7, Zenon DEF FreeingInv
  <2>2. CASE Retryer(q)
    BY <1>4, <2>2, Zenon
  <2>3. CASE ~Retryer(q) /\ q # p
    <3>1. Freeing(q)'
      BY <2>1, <2>3, OthersStay, Zenon DEF Freeing
    <3> QED BY <3>1
  <2>4. CASE q = p /\ Release(p)
    <3>1. CASE pc'[p] = "check"
      BY <3>1, Zenon DEF Freeing
    <3>2. CASE lockcount' # 0
      <4>1. \E r \in Procs : holds'[r] # "none"
        BY <3>2, CountMeansHeld, Zenon DEF QueueInv
      <4> QED BY <4>1, Zenon DEF Freeing
    <3>3. CASE ~releaseOk
      BY <1>4, <3>3, ZenonT(40) DEF RetryInv
    <3>4. hasWaiters
      <4>1. waiters \in Seq(Procs) /\ x \in Entries(waiters)
        BY <1>3, ZenonT(40) DEF QueueInv, RestType, ListInv
      <4> QED BY <4>1, NoEntries, Zenon DEF QueueInv, ListInv
    <3> QED BY <1>1, <2>4, <3>1, <3>2, <3>3, <3>4, Zenon DEF Release, CheckWaiters
  <2>5. CASE q = p /\ Wakeup(p)
    <3>1. x \notin Awakens
      BY <1>2, <2>5, Zenon DEF Wakeup, TakeOff
    <3>2. PICK r \in Awakens : ~WaitsUntilFree(r)
      BY <1>3, <3>1, StaysBehind, Zenon
    <3> QED BY <2>5, <3>2, AwakensRetryer, Zenon DEF Freeing
  <2>6. CASE q = p /\ FirstAttempt(p)
    <3>1. CASE AttemptLock(p)
      <4>1. call[p].mode \in Modes
        BY <1>1, <2>6, Zenon DEF FirstAttempt, HoldsAt, Calls
      <4>2. holds'[p] # "none"
        BY <1>1, <3>1, <4>1, Zenon DEF AttemptLock, Modes
      <4> QED BY <4>2, Zenon DEF Freeing
    <3>2. CASE ~FreeFor(call[p].mode) /\ holds' = holds
      BY <1>1, <1>5, <3>2, NotFreeMeansHeld, Zenon
    <3> QED BY <2>6, <3>1, <3>2, ZenonT(40) DEF FirstAttempt
  <2>7. CASE q = p /\ WaitListLock(p, "check", "collect")
    BY <1>1, <2>7, Zenon DEF WaitListLock, Freeing
  <2>8. CASE q = p /\ holds' = holds /\ holds[p] # "none"
    BY <2>8, Zenon DEF Freeing
  <2>9. CASE q = p /\ StrayPost(p)
    <3>1. Freeing(p)'
      BY <2>1, <2>9, Zenon DEF StrayPost, Freeing, Retryer
    <3> QED BY <3>1, Zenon
  <2>10. CASE q = p /\ holds[p] # "none" /\ ~Release(p)
    <3>1. pc[p] \notin {"attempt", "attempt2"}
      BY <1>1, <2>10, Zenon DEF HoldsAt
    <3>2. holds' = holds
      BY <2>10, <3>1, HoldsKept, Zenon DEF FirstAttempt, SecondAttempt
    <3> QED BY <2>8, <2>10, <3>2, Zenon
  <2> QED BY <2>1, <2>2, <2>3, <2>4, <2>5, <2>6, <2>7, <2>9, <2>10, Labels, Zenon DEF Freeing
<1>8. CASE ~Asleep(x)
  <2>1. x = p /\ ~StrayPost(p)
    BY <1>2, <1>3, <1>8, OthersStay, ZenonT(40) DEF Asleep, StrayPost
  <2>2. pc[p] \in InQueue /\ pc[p] \notin {"sleep", "conflictvar2"}
    BY <1>3, <1>8, <2>1, ZenonT(40) DEF QueueInv, Waits, Asleep
  <2>3. pc'[p] \in {"sleep", "conflictvar2"}
    BY <1>2, <2>1, Zenon
  <2>4. ~SetReleaseOk(p) /\ ~WaitListLock(p, "dequeue", "undequeue") /\ ~DequeueSelf(p)
    BY <1>1, <2>3, Zenon DEF SetReleaseOk, WaitListLock, DequeueSelf, Return, Acquired
  <2> QED BY <1>6, <2>1, <2>2, <2>4, Labels, Zenon DEF InQueue
<1> QED BY <1>7, <1>8, Zenon

\* A replaced value is announced before anybody who waits for it is forgotten.
LEMMA UpdateStep ==
    ASSUME QueueInv, QueueInv', VarInv, NoLostUpdate, NEW p \in Procs, Acts(p)
    PROVE  NoLostUpdate'
<1> USE DEF Goto, lock
<1> DEFINE Announcing == {"update", "updatewake", "clear", "check", "collect"}
<1> SUFFICES ASSUME NEW x \in Procs, pc'[x] = "sleep", call'[x].op = "waitvar",
                    lwWaiting'[x] = "waiting", val' # call'[x].old
             PROVE  \E q \in Procs : pc'[q] \in Announcing
  BY DEF NoLostUpdate
<1>1. /\ pc \in [Procs -> PCs] /\ call \in [Procs -> Calls \cup {NoCall}] /\ HoldsAt(p)
      /\ holds \in [Procs -> Modes \cup {"none"}] /\ Inv
      /\ lwWaiting \in [Procs -> {"not waiting", "waiting", "pending wakeup"}]
  BY Zenon DEF QueueInv, Inv, TypeInv, RestType
<1>2. lwWaiting[x] = "waiting"
  <2>1. ~QueueSelf(p) \/ x # p
    BY <1>1, Zenon DEF QueueSelf
  <2> QED BY <2>1, OthersStay, Zenon
<1>3. CASE UpdateVar(p) \/ ClearVar(p)
  BY <1>1, <1>3, Zenon DEF UpdateVar, ClearVar
<1>4. CASE WakeForVar(p) \/ Wakeup(p)
  <2>1. call' = call /\ (x \notin FrontWaiters \/ x \notin Awakens)
    BY <1>4, Zenon DEF WakeForVar, Wakeup, TakeOff
  <2> QED BY <1>2, <2>1, FrontIsAll, Zenon DEF WaitsUntilFree
<1>5. CASE ~UpdateVar(p) /\ ~ClearVar(p) /\ ~WakeForVar(p) /\ ~Wakeup(p)
  <2>1. val' = val
    BY <1>5, ValKept, Zenon
  <2>2. pc[x] = "sleep" /\ call'[x] = call[x]
    <3>1. CASE x # p
      BY <3>1, OthersStay, ZenonT(40)
    <3>2. CASE x = p
      <4>1. pc[p] \in InQueue
        BY <1>2, <3>2, ZenonT(40) DEF QueueInv, Waits
      <4>2. CASE StrayPost(p)
        BY <3>2, <4>2, Zenon DEF StrayPost
      <4>3. CASE Sleep(p)
        BY <1>2, <3>2, <4>3, Zenon DEF Sleep, SemaphoreLock
      <4>4. ~SetReleaseOk(p) /\ ~WaitListLock(p, "dequeue", "undequeue") /\ ~DequeueSelf(p)
        BY <1>1, <3>2, Zenon DEF SetReleaseOk, WaitListLock, DequeueSelf, Return, Acquired
      <4>5. ~SecondAttempt(p)
        BY <1>1, <3>2, Zenon DEF SecondAttempt, HoldsAt
      <4>6. ~RecheckVar(p)
        BY <1>1, <2>1, <3>2, Zenon DEF RecheckVar, ConflictsWithVar, ReadVar
      <4> QED BY <4>1, <4>2, <4>3, <4>4, <4>5, <4>6, Labels, ZenonT(40) DEF InQueue
    <3> QED BY <3>1, <3>2, Zenon
  <2>3. PICK q \in Procs : pc[q] \in Announcing
    BY <1>2, <2>1, <2>2, Zenon DEF NoLostUpdate
  <2>4. CASE q # p
    BY <2>3, <2>4, OthersStay, Zenon
  <2>5. CASE q = p /\ Release(p)
    <3>1. pc[p] = "clear" /\ holds[p] = "exclusive"
      BY <1>1, <2>3, <2>5, Zenon DEF Release, HoldsAt, Modes
    <3>2. lockcount = LW_VAL_EXCLUSIVE
      BY <1>1, <3>1, Zenon DEF Inv, CountInv
    <3>3. lockcount' = 0
      BY <2>5, <3>1, <3>2, ExclusiveAssumption, SMTT(30), Z3T(30) DEF Release, Weight
    <3>4. releaseOk
      BY <1>2, <2>2, Zenon DEF VarInv
    <3>5. hasWaiters
      <4>1. waiters \in Seq(Procs) /\ x \in Entries(waiters)
        BY <1>2, Zenon DEF QueueInv, RestType, ListInv
      <4> QED BY <4>1, NoEntries DEF QueueInv, ListInv
    <3> QED BY <1>1, <2>5, <3>3, <3>4, <3>5, Zenon DEF Release, CheckWaiters
  <2>6. CASE q = p /\ (WaitListLock(p, "update", "updatewake") \/ WaitListLock(p, "check", "collect"))
    BY <1>1, <2>6, Zenon DEF WaitListLock
  <2>7. CASE q = p /\ StrayPost(p)
    BY <2>3, <2>7, Zenon DEF StrayPost
  <2> QED BY <1>5, <2>3, <2>4, <2>5, <2>6, <2>7, Labels, Zenon
<1> QED BY <1>3, <1>4, <1>5

-----------------------------------------------------------------------------
\* Everything a step of lwlock.c preserves.
FullInv == QueueInv /\ WakeupsConserved /\ RetryInv /\ VarInv /\ FreeingInv /\ NoLostUpdate

\* It holds initially ...
LEMMA InitFull == Counting /\ Init => FullInv
<1> SUFFICES ASSUME Counting, Init PROVE FullInv
  OBVIOUS
<1>1. Inv
  BY InitInv, Zenon
<1>2. 0 \in 0 .. MaxStray
  BY ExclusiveAssumption
<1>3. <<>> \in Seq(Procs)
  OBVIOUS
<1>4. RestType
  BY <1>2, <1>3, Zenon DEF Init, RestType
<1>5. PostInv /\ SectionInv
  BY Zenon DEF Init, PostInv, SectionInv, Sections
<1>6. ASSUME NEW p \in Procs PROVE Waits(p)
  BY Zenon DEF Init, Waits, InQueue
<1>7. Entries(<<>>) = {} /\ Distinct(<<>>) /\ \A F : InFront(<<>>, F)
  <2>1. \A i : i \notin 1 .. Len(<<>>)
    OBVIOUS
  <2> QED BY <2>1 DEF Entries, Distinct, InFront
<1>8. ListInv
  BY <1>7, Zenon DEF Init, ListInv
<1>9. PendingInv
  BY <1>7, Zenon DEF Init, PendingInv, Due
<1>10. WakeupsConserved
  <2> SUFFICES ASSUME NEW p \in Procs
               PROVE  sem[p] + extraWaits[p]
                      + Cardinality({q \in Procs : \E i \in DOMAIN wakeup[q] : wakeup[q][i] = p})
                      = strays[p] + (IF WakeupDue(p) THEN 1 ELSE 0)
    BY Zenon DEF WakeupsConserved
  <2>1. {q \in Procs : \E i \in DOMAIN wakeup[q] : wakeup[q][i] = p} = {}
    <3>1. Posters(p) = {q \in Procs : p \in Entries(wakeup[q])}
      BY <1>4, PostersOf
    <3>2. Posters(p) = {}
      BY <1>7, <3>1, Zenon DEF Init
    <3> QED BY <3>2, Zenon DEF Posters
  <2>2. ~WakeupDue(p) /\ sem[p] = 0 /\ extraWaits[p] = 0 /\ strays[p] = 0
    BY Zenon DEF Init, WakeupDue
  <2> QED BY <2>1, <2>2, SMTT(30), Z3T(30) DEF Counting, CountOfNone
<1>11. RetryInv /\ VarInv /\ FreeingInv /\ NoLostUpdate
  BY Zenon DEF Init, RetryInv, VarInv, FreeingInv, Asleep, NoLostUpdate
<1> QED BY <1>1, <1>4, <1>5, <1>6, <1>8, <1>9, <1>10, <1>11, Zenon DEF FullInv, QueueInv

\* ... and every step keeps it.
LEMMA NextFull == Counting /\ FullInv /\ [Next]_vars => FullInv'
<1> SUFFICES ASSUME Counting, FullInv, [Next]_vars PROVE FullInv'
  BY Zenon
<1>1. CASE UNCHANGED vars
  <2>1. UNCHANGED <<usage, lockcount, hasWaiters, releaseOk, locked, waiters, val, lwWaiting,
                    sem, strays, pc, call, holds, extraWaits, wakeup>>
    BY <1>1, Zenon DEF vars, lock, procs
  <2>2. QueueInv'
    <3>1. Inv'
      BY NextInv DEF FullInv, QueueInv
    <3>2. RestType' /\ PostInv' /\ SectionInv'
      BY <2>1, Zenon DEF FullInv, QueueInv, RestType, PostInv, SectionInv
    <3>3. ASSUME NEW p \in Procs PROVE Waits(p)'
      BY <2>1, Zenon DEF FullInv, QueueInv, Waits
    <3>4. ListInv'
      BY <2>1 DEF FullInv, QueueInv, ListInv, UntilFree, WaitsUntilFree
    <3>5. PendingInv'
      BY <2>1, Zenon DEF FullInv, QueueInv, PendingInv, Due
    <3> QED BY <3>1, <3>2, <3>3, <3>4, <3>5, Zenon DEF QueueInv
  <2>3. WakeupsConserved' /\ NoLostUpdate'
    BY <2>1, Zenon DEF FullInv, WakeupsConserved, WakeupDue, NoLostUpdate
  <2>4. RetryInv' /\ VarInv' /\ FreeingInv'
    BY <2>1, Zenon DEF FullInv, RetryInv, VarInv, FreeingInv, Asleep, Freeing, Retryer
  <2> QED BY <2>2, <2>3, <2>4, Zenon DEF FullInv
<1>2. CASE Next
  <2>1. PICK p \in Procs : Acts(p)
    BY <1>2, Zenon DEF Next, Acts
  <2>2. Inv'
    BY NextInv, Zenon DEF FullInv, QueueInv
  <2>3. QueueInv'
    BY <1>2, <2>2, QueueStep, Zenon DEF FullInv
  <2>4. WakeupsConserved'
    BY <2>1, <2>3, ConservedStep, Zenon DEF FullInv, Acts
  <2>5. RetryInv' /\ VarInv' /\ FreeingInv' /\ NoLostUpdate'
    BY <2>1, <2>3, RetryStep, VarStep, FreeingStep, UpdateStep, Zenon DEF FullInv
  <2> QED BY <2>3, <2>4, <2>5, Zenon DEF FullInv
<1> QED BY <1>1, <1>2, Zenon

-----------------------------------------------------------------------------
\* The library's theorems give the facts the lemmas count with.
INSTANCE FiniteSetTheorems

\* The facts about finite sets that the lemmas above assume hold.
LEMMA CountsHold == Counting
<1>1. CountIsNat
  BY FS_CardinalityType, Zenon DEF CountIsNat
<1>2. CountOfNone
  BY FS_EmptySet, Zenon DEF CountOfNone
<1>3. CountAfterAdding
  BY FS_AddElement, Zenon DEF CountAfterAdding
<1>4. CountAfterRemoving
  BY FS_RemoveElement, Zenon DEF CountAfterRemoving
<1>5. CountOfPart
  BY FS_Subset, Zenon DEF CountOfPart
<1>6. CountOfInterval
  BY FS_Interval DEF CountOfInterval
<1>7. CountOneToOne
  <2> SUFFICES ASSUME NEW S, NEW T, NEW f, IsFiniteSet(T), Cardinality(S) = Cardinality(T),
                      OneToOne(f, S, T)
               PROVE  Onto(f, S, T)
    BY Zenon DEF CountOneToOne
  <2>1. f \in Injection(S, T)
    BY Zenon DEF OneToOne, Injection, IsInjective
  <2>2. f \in Surjection(S, T)
    BY <2>1, FS_Injection, Zenon
  <2> QED BY <2>2, Zenon DEF Onto, Surjection
<1> QED BY <1>1, <1>2, <1>3, <1>4, <1>5, <1>6, <1>7, Zenon DEF Counting

\* LWLockAttemptLock, LWLockRelease: an exclusive holder of a lightweight lock
\* is alone, for any number of processes and in every use of the lock.
THEOREM LWLockExcludes == Spec => []MutualExclusion
<1>1. Inv => MutualExclusion
  BY DEF Inv
<1> QED BY CountsHold, InitInv, NextInv, <1>1, PTL DEF Spec

\* lwlock.c implements the shared/exclusive lock of RWLock.
THEOREM LWLockImplements == Spec => ImplementsRWLock
<1> QED BY CountsHold, InitInv, NextInv, PTL DEF Spec, ImplementsRWLock, RW!Spec

\* Flags, wait list, semaphores and wakeup lists stay well formed.
THEOREM LWLockTypes == Spec => []TypeOK
<1>1. FullInv => TypeOK
  BY Zenon DEF FullInv, QueueInv, Inv, TypeInv, RestType, TypeOK
<1> QED BY CountsHold, InitFull, NextFull, <1>1, PTL DEF Spec

\* LWLockQueueSelf, LWLockRelease, LWLockWakeup: for any number of processes a
\* sleeper in the queue is never forgotten by the releases to come.
THEOREM LWLockNoLostWakeup == Spec => []NoLostWakeup
<1>1. FullInv => NoLostWakeup
  <2> SUFFICES ASSUME FullInv, NEW p \in Procs, pc[p] = "sleep", lwWaiting[p] = "waiting"
               PROVE  /\ hasWaiters
                      /\ releaseOk \/ \E q \in Procs : WakeupDue(q) \/ pc[q] = "awake"
                      /\ \E q \in Procs : \/ holds[q] # "none"
                                          \/ pc[q] \in {"check", "collect", "attempt"}
                                          \/ WakeupDue(q) \/ pc[q] = "awake"
    BY Zenon DEF NoLostWakeup
  <2>1. \A q \in Procs : Retryer(q) => WakeupDue(q) \/ pc[q] = "awake"
    BY Zenon DEF Retryer, WakeupDue
  <2>2. hasWaiters
    <3>1. waiters \in Seq(Procs) /\ p \in Entries(waiters)
      BY Zenon DEF FullInv, QueueInv, RestType, ListInv
    <3> QED BY <3>1, NoEntries, Zenon DEF FullInv, QueueInv, ListInv
  <2>3. releaseOk \/ \E q \in Procs : Retryer(q)
    BY Zenon DEF FullInv, RetryInv
  <2>4. \E q \in Procs : Freeing(q)
    BY Zenon DEF FullInv, FreeingInv, Asleep
  <2> QED BY <2>1, <2>2, <2>3, <2>4, Zenon DEF Freeing
<1> QED BY CountsHold, InitFull, NextFull, <1>1, PTL DEF Spec

\* LWLockUpdateVar, LWLockReleaseClearVar: a process asleep on a value that was
\* replaced is about to be woken, for any number of processes.
THEOREM LWLockNoLostUpdate == Spec => []NoLostUpdate
<1>1. FullInv => NoLostUpdate
  BY Zenon DEF FullInv
<1> QED BY CountsHold, InitFull, NextFull, <1>1, PTL DEF Spec

\* extraWaits: no wakeup of a semaphore is lost or consumed twice, for any
\* number of processes and of foreign posts.
THEOREM LWLockConservesWakeups == Spec => []WakeupsConserved
<1>1. FullInv => WakeupsConserved
  BY DEF FullInv
<1> QED BY CountsHold, InitFull, NextFull, <1>1, PTL DEF Spec
=============================================================================
