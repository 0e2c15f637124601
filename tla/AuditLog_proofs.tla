-------------------------- MODULE AuditLog_proofs --------------------------
(***************************************************************************)
(* For every number of sessions, rows and keys: the audit log's types, its *)
(* chain, and where it can fork (TypeInv, ChainInv); that key rotation     *)
(* never leaves the log without a pair of keys, and which pairs rows are   *)
(* signed and verified with (KeyInv).                                      *)
(***************************************************************************)
EXTENDS AuditLog, FiniteSetTheorems, WellFoundedInduction, TLAPS

\* ORDER BY ... DESC LIMIT 1: the largest of bounded numbers is one of them,
\* and none exceeds it.
LEMMA LargestIn ==
    ASSUME NEW N \in Nat, NEW S \in SUBSET (1 .. N)
    PROVE  /\ Largest(S) \in 0 .. N
           /\ \A m \in S : m <= Largest(S)
           /\ Largest(S) # 0 => Largest(S) \in S
<1>1. CASE S = {}
  BY <1>1 DEF Largest
<1>2. CASE S # {}
  <2> DEFINE segs == {x .. N : x \in S}
  <2>1. segs \subseteq FiniteSubsetsOf(Nat)
    <3>1. \A x \in S : IsFiniteSet(x .. N) /\ x .. N \subseteq Nat
      BY FS_Interval
    <3> QED BY <3>1 DEF FiniteSubsetsOf
  <2>2. segs # {}
    BY <1>2, Zenon
  <2>3. PICK g \in segs : \A h \in segs : ~(<<h, g>> \in StrictSubsetOrdering(Nat))
    BY <2>1, <2>2, FS_StrictSubsetOrderingWellFounded, WFMin, Zenon
  <2>4. PICK n \in S : g = n .. N
    OBVIOUS
  <2>5. ASSUME NEW m \in S, m > n PROVE FALSE
    <3>1. m .. N \in segs /\ g \in segs
      OBVIOUS
    <3>2. m .. N \subseteq n .. N /\ n \in n .. N /\ n \notin m .. N
      BY <2>5
    <3>3. m .. N \in SUBSET Nat /\ n .. N \in SUBSET Nat
      OBVIOUS
    <3>4. <<m .. N, g>> \in StrictSubsetOrdering(Nat)
      BY <2>4, <3>2, <3>3 DEF StrictSubsetOrdering
    <3> QED BY <2>3, <3>1, <3>4, Zenon
  <2>6. \E k \in S : \A m \in S : m <= k
    BY <2>5
  <2>7. Largest(S) \in S /\ \A m \in S : m <= Largest(S)
    <3>1. Largest(S) = CHOOSE k \in S : \A m \in S : m <= k
      BY <1>2 DEF Largest
    <3> QED BY <2>6, <3>1, Zenon
  <2>8. \A x \in S : x \in 0 .. N
    OBVIOUS
  <2> QED BY <2>7, <2>8, Zenon
<1> QED BY <1>1, <1>2

-----------------------------------------------------------------------------
\* What the typing of a session's state rests on: the second INSERT of
\* pqc_audit_init_keys follows the first.
TypeInv ==
    /\ TypeOK
    /\ \A s \in Sessions : pc[s] = "pqc" => \E k \in made[s] : k.purpose = "classical"

\* The last committed state of the two tables.
LEMMA CurrentDB ==
    ASSUME TypeOK
    PROVE  DB \in DBs /\ DB = dbs[Len(dbs)] /\ Len(dbs) \in Nat \ {0}
BY DEF TypeOK, DB

\* load_audit_key returns the key_id of a visible key, if it returns one.
LEMMA LoadAuditKeyType ==
    ASSUME NEW keys \in SUBSET Keys, NEW purpose \in Purposes
    PROVE  /\ LoadAuditKey(keys, purpose) \in 0 .. MaxKey
           /\ (\E k \in keys : k.purpose = purpose) => LoadAuditKey(keys, purpose) # 0
<1> DEFINE ids == Ids({k \in keys : k.purpose = purpose})
<1>1. ids \in SUBSET (1 .. MaxKey)
  BY DEF Ids, Keys
<1>2. /\ Largest(ids) \in 0 .. MaxKey
      /\ \A m \in ids : m <= Largest(ids)
  BY <1>1, AuditAssumption, LargestIn
<1>3. ASSUME NEW k \in keys, k.purpose = purpose PROVE k.id \in ids
  BY <1>3 DEF Ids
<1> QED BY <1>1, <1>2, <1>3 DEF LoadAuditKey

\* What an SPI query of audit_log_ddl_event can see has the tables' type.
LEMMA VisibleType ==
    ASSUME TypeOK, NEW s \in Sessions
    PROVE  /\ VisibleKeys(s) \in SUBSET Keys
           /\ Ids(snap[s].log \cup own[s]) \in SUBSET (1 .. MaxId)
           /\ Ids(snap[s].keys) \in SUBSET (1 .. MaxKey)
           /\ GetPrevHash(s) \in 0 .. MaxId
<1>1. snap[s] \in DBs /\ made[s] \in SUBSET Keys /\ own[s] \in SUBSET Entries
  BY DEF TypeOK
<1>2. VisibleKeys(s) \in SUBSET Keys
  BY <1>1 DEF VisibleKeys, DBs
<1>3. Ids(snap[s].log \cup own[s]) \in SUBSET (1 .. MaxId)
  BY <1>1 DEF Ids, DBs, Entries
<1>4. Ids(snap[s].keys) \in SUBSET (1 .. MaxKey)
  BY <1>1 DEF Ids, DBs, Keys
<1>5. GetPrevHash(s) \in 0 .. MaxId
  BY <1>3, AuditAssumption, LargestIn, Zenon DEF GetPrevHash
<1> QED BY <1>2, <1>3, <1>4, <1>5

\* A statement's snapshot has the tables' type.
LEMMA SnapshotType ==
    ASSUME TypeOK, NEW s \in Sessions
    PROVE  Snapshot(s) \in DBs
BY CurrentDB DEF Snapshot, TypeOK

\* So has the placeholder outside a transaction.
LEMMA NoDBType == NoDB \in DBs
BY DEF NoDB, DBs

\* Every step keeps the types.
LEMMA TypeSession ==
    ASSUME TypeInv, NEW s \in Sessions,
           \/ \E level \in {"rc", "rr"} : Begin(s, level)
           \/ StartStatement(s) \/ StartInitKeys(s) \/ DeactivateKeys(s)
    PROVE  TypeInv'
<1> USE DEF TypeInv
<1>1. DB \in DBs /\ Snapshot(s) \in DBs /\ NoDB \in DBs
  BY CurrentDB, SnapshotType, NoDBType, Zenon
<1>2. CASE \E level \in {"rc", "rr"} : Begin(s, level)
  BY <1>1, <1>2 DEF Begin, TypeOK
<1>3. CASE StartStatement(s)
  BY <1>1, <1>3, Zenon DEF StartStatement, TypeOK
<1>4. CASE StartInitKeys(s)
  BY <1>1, <1>4 DEF StartInitKeys, TypeOK
<1>5. CASE DeactivateKeys(s)
  <2> DEFINE mine == Ids(VisibleKeys(s) \cap (DB.active \cup made[s]))
  <2>1. mine \in SUBSET (1 .. MaxKey)
    <3>1. VisibleKeys(s) \in SUBSET Keys
      BY VisibleType, Zenon
    <3> QED BY <3>1 DEF Ids, Keys
  <2>2. /\ off' = [off EXCEPT ![s] = @ \cup mine]
        /\ pc' = [pc EXCEPT ![s] = "classical"]
        /\ UNCHANGED <<dbs, logSeq, keySeq, iso, snap, own, made>>
    BY <1>5 DEF DeactivateKeys
  <2> QED BY <2>1, <2>2, Zenon DEF TypeOK, Purposes
<1> QED BY <1>2, <1>3, <1>4, <1>5

\* audit_log_ddl_event preserves the types.
LEMMA TypeLogging ==
    ASSUME TypeInv, NEW s \in Sessions, ProcessUtility(s)
    PROVE  TypeInv'
<1> USE DEF TypeInv
<1>1. /\ pc' = [pc EXCEPT ![s] = "open"]
      /\ UNCHANGED <<dbs, keySeq, iso, snap, off, made>>
  BY DEF ProcessUtility
<1>2. CASE LogEntry(s)
  <2> DEFINE keys == VisibleKeys(s)
             e == [id |-> logSeq + 1, prev |-> GetPrevHash(s),
                   ckey |-> LoadAuditKey(keys, "classical"),
                   pkey |-> LoadAuditKey(keys, "pqc"), saw |-> Ids(snap[s].log \cup own[s])]
  <2>1. /\ logSeq < MaxId /\ logSeq' = logSeq + 1
        /\ own' = [own EXCEPT ![s] = @ \cup {e}]
        /\ LoadAuditKey(keys, "classical") # 0 /\ LoadAuditKey(keys, "pqc") # 0
    BY <1>2 DEF LogEntry
  <2>2. LoadAuditKey(keys, "classical") \in 0 .. MaxKey /\ LoadAuditKey(keys, "pqc") \in 0 .. MaxKey
    BY VisibleType, LoadAuditKeyType, Zenon DEF Purposes
  <2>3. LoadAuditKey(keys, "classical") \in 1 .. MaxKey /\ LoadAuditKey(keys, "pqc") \in 1 .. MaxKey
    BY <2>1, <2>2, AuditAssumption
  <2>4. logSeq + 1 \in 1 .. MaxId
    BY <2>1, AuditAssumption DEF TypeOK
  <2>5. e \in Entries
    BY <2>3, <2>4, VisibleType DEF Entries
  <2>6. own' \in [Sessions -> SUBSET Entries]
    BY <2>1, <2>5, Zenon DEF TypeOK
  <2>7. logSeq' \in 0 .. MaxId
    BY <2>1, <2>4, AuditAssumption
  <2> QED BY <1>1, <2>6, <2>7, Zenon DEF TypeOK
<1>3. CASE NoEntry(s)
  BY <1>1, <1>3, Zenon DEF NoEntry, TypeOK
<1> QED BY <1>2, <1>3 DEF ProcessUtility

\* Each insert of pqc_audit_init_keys preserves the types.
LEMMA TypeInsert ==
    ASSUME TypeInv, NEW s \in Sessions, NEW purpose \in Purposes, InsertKey(s, purpose)
    PROVE  TypeInv'
<1> USE DEF TypeInv
<1> DEFINE call == IF purpose = "classical" THEN keySeq + 1 ELSE LoadAuditKey(made[s], "classical")
           k == [id |-> keySeq + 1, purpose |-> purpose, call |-> call, saw |-> Ids(snap[s].keys)]
<1>1. /\ pc[s] = purpose /\ keySeq < MaxKey /\ keySeq' = keySeq + 1
      /\ made' = [made EXCEPT ![s] = @ \cup {k}]
      /\ pc' = [pc EXCEPT ![s] = IF purpose = "classical" THEN "pqc" ELSE "open"]
      /\ UNCHANGED <<dbs, logSeq, iso, snap, own, off>>
  BY DEF InsertKey
<1>2. keySeq + 1 \in 1 .. MaxKey /\ keySeq' \in 0 .. MaxKey
  BY <1>1, AuditAssumption DEF TypeOK
<1>3. call \in 1 .. MaxKey
  <2>1. CASE purpose = "classical"
    BY <1>2, <2>1
  <2>2. CASE purpose = "pqc"
    <3>1. made[s] \in SUBSET Keys /\ \E c \in made[s] : c.purpose = "classical"
      BY <1>1, <2>2 DEF TypeOK
    <3>2. LoadAuditKey(made[s], "classical") \in 0 .. MaxKey /\ LoadAuditKey(made[s], "classical") # 0
      BY <3>1, LoadAuditKeyType DEF Purposes
    <3> QED BY <2>2, <3>2, AuditAssumption
  <2> QED BY <2>1, <2>2 DEF Purposes
<1>4. k \in Keys
  BY <1>2, <1>3, VisibleType, Zenon DEF Keys
<1>5. made' \in [Sessions -> SUBSET Keys] /\ pc' \in [Sessions -> {"idle", "open", "executed", "update"} \cup Purposes]
  BY <1>1, <1>4 DEF TypeOK, Purposes
<1>6. \A t \in Sessions : pc'[t] = "pqc" => \E c \in made'[t] : c.purpose = "classical"
  <2> SUFFICES ASSUME NEW t \in Sessions, pc'[t] = "pqc" PROVE \E c \in made'[t] : c.purpose = "classical"
    OBVIOUS
  <2>1. CASE t = s
    <3>1. purpose = "classical"
      BY <1>1, <2>1, Zenon DEF TypeOK
    <3>2. k \in made'[t] /\ k.purpose = "classical"
      BY <1>1, <2>1, <3>1, Zenon DEF TypeOK
    <3> QED BY <3>2, Zenon
  <2>2. CASE t # s
    BY <1>1, <2>2, Zenon DEF TypeOK
  <2> QED BY <2>1, <2>2
<1> QED BY <1>1, <1>2, <1>5, <1>6, Zenon DEF TypeOK

\* The end of a transaction, a WAL flush and a crash preserve the types.
LEMMA TypeEnd ==
    ASSUME TypeInv, (\E s \in Sessions : Commit(s) \/ Abort(s)) \/ Flush \/ Crash
    PROVE  TypeInv'
<1> USE DEF TypeInv
<1>1. DB \in DBs /\ NoDB \in DBs
  BY CurrentDB, NoDBType, Zenon
<1>2. ASSUME NEW s \in Sessions, Commit(s) PROVE TypeInv'
  <2>1. Committed(s) \in DBs
    BY <1>1 DEF Committed, DBs, TypeOK
  <2>2. dbs' \in Seq(DBs) /\ Len(dbs') > 0
    BY <1>2, <2>1 DEF Commit, TypeOK
  <2>3. EndTransaction(s) /\ UNCHANGED <<logSeq, keySeq>>
    BY <1>2, Zenon DEF Commit
  <2> QED BY <1>1, <2>2, <2>3, Zenon DEF EndTransaction, TypeOK
<1>3. ASSUME NEW s \in Sessions, Abort(s) PROVE TypeInv'
  BY <1>1, <1>3, Zenon DEF Abort, EndTransaction, TypeOK
<1>4. CASE Flush
  <2>1. dbs' \in Seq(DBs) /\ Len(dbs') > 0
    BY <1>1, <1>4, SMTT(30), Z3T(30) DEF Flush
  <2> QED BY <1>4, <2>1 DEF Flush, TypeOK, sessVars
<1>5. CASE Crash
  <2>1. PICK i \in DOMAIN dbs :
           /\ dbs' = <<dbs[i]>>
           /\ logSeq' \in Largest(Ids(dbs[i].log)) .. logSeq
           /\ keySeq' \in Largest(Ids(dbs[i].keys)) .. keySeq
    BY <1>5 DEF Crash
  <2>2. dbs[i] \in DBs
    BY DEF TypeOK
  <2>3. Ids(dbs[i].log) \in SUBSET (1 .. MaxId) /\ Ids(dbs[i].keys) \in SUBSET (1 .. MaxKey)
    BY <2>2 DEF DBs, Ids, Entries, Keys
  <2>4. Largest(Ids(dbs[i].log)) \in 0 .. MaxId /\ Largest(Ids(dbs[i].keys)) \in 0 .. MaxKey
    BY <2>3, AuditAssumption, LargestIn, Zenon
  <2>5. logSeq' \in 0 .. MaxId /\ keySeq' \in 0 .. MaxKey
    BY <2>1, <2>4, AuditAssumption DEF TypeOK
  <2>6. dbs' \in Seq(DBs) /\ Len(dbs') > 0
    BY <2>1, <2>2
  <2> QED BY <1>1, <1>5, <2>5, <2>6 DEF Crash, TypeOK
<1> QED BY <1>2, <1>3, <1>4, <1>5, Zenon

\* Every step preserves the types.
LEMMA TypeStep == TypeInv /\ [Next]_vars => TypeInv'
<1> SUFFICES ASSUME TypeInv, [Next]_vars PROVE TypeInv'
  OBVIOUS
<1>1. CASE UNCHANGED vars
  BY <1>1, Zenon DEF vars, sessVars, TypeInv, TypeOK
<1> QED BY <1>1, TypeSession, TypeLogging, TypeInsert, TypeEnd, Zenon DEF Next

-----------------------------------------------------------------------------
\* A row links to the newest row its statement saw, and its log_id is newer.
Links(e) == e.prev < e.id /\ \A n \in e.saw : n <= e.prev

\* The links of `rows' end in `target'.
Closed(rows, target) == \A e \in rows : e.prev # 0 => \E f \in target : f.id = e.prev

\* The committed rows and those of open transactions.
Rows == DB.log \cup UNION {own[s] : s \in Sessions}

\* The inductive invariant: later committed states keep the rows of earlier
\* ones, what a session sees is committed, and all log_ids in sight differ.
ChainInv ==
    /\ TypeInv
    /\ \A i, j \in DOMAIN dbs : i <= j => dbs[i].log \subseteq dbs[j].log
    /\ \A i \in DOMAIN dbs : Closed(dbs[i].log, dbs[i].log)
    /\ \A s \in Sessions : snap[s].log \subseteq DB.log /\ Closed(own[s], DB.log \cup own[s])
    /\ \A e \in Rows : e.id <= logSeq /\ Links(e)
    /\ \A e, f \in Rows : e.id = f.id => e = f

\* Steps that only change what a session sees, or its keys.
LEMMA ChainSession ==
    ASSUME ChainInv, TypeInv', NEW s \in Sessions, UNCHANGED <<dbs, logSeq, own>>,
           snap' = snap \/ snap' = [snap EXCEPT ![s] = DB]
    PROVE  ChainInv'
<1>1. DB' = DB /\ Rows' = Rows
  BY DEF DB, Rows
<1>2. \A t \in Sessions : snap'[t].log \subseteq DB.log
  BY Zenon DEF ChainInv, TypeInv, TypeOK
<1>3. \A t \in Sessions : Closed(own'[t], DB' .log \cup own'[t])
  BY <1>1, Zenon DEF ChainInv
<1>4. \A i \in DOMAIN dbs' : Closed(dbs'[i].log, dbs'[i].log)
  BY DEF ChainInv
<1> QED BY <1>1, <1>2, <1>3, <1>4, Zenon DEF ChainInv, Links

\* audit_log_ddl_event: the new row is newer than every row in sight.
LEMMA ChainLogging ==
    ASSUME ChainInv, TypeInv', NEW s \in Sessions, ProcessUtility(s)
    PROVE  ChainInv'
<1> USE DEF ChainInv, TypeInv
<1>1. UNCHANGED <<dbs, snap>> /\ DB' = DB
  BY DEF ProcessUtility, DB
<1>2. CASE NoEntry(s)
  <2>1. UNCHANGED <<dbs, logSeq, own>> /\ snap' = snap
    BY <1>1, <1>2 DEF NoEntry
  <2> QED BY <2>1, ChainSession, Zenon
<1>3. CASE LogEntry(s)
  <2> DEFINE seen == snap[s].log \cup own[s]
  <2>1. /\ logSeq' = logSeq + 1
        /\ \E e : /\ own' = [own EXCEPT ![s] = @ \cup {e}]
                 /\ e.id = logSeq + 1 /\ e.prev = GetPrevHash(s) /\ e.saw = Ids(seen)
    <3> DEFINE new == [id |-> logSeq + 1, prev |-> GetPrevHash(s),
                       ckey |-> LoadAuditKey(VisibleKeys(s), "classical"),
                       pkey |-> LoadAuditKey(VisibleKeys(s), "pqc"), saw |-> Ids(seen)]
    <3>1. logSeq' = logSeq + 1 /\ own' = [own EXCEPT ![s] = @ \cup {new}]
      BY <1>3, Zenon DEF LogEntry
    <3>2. new.id = logSeq + 1 /\ new.prev = GetPrevHash(s) /\ new.saw = Ids(seen)
      OBVIOUS
    <3> HIDE DEF new, seen
    <3> QED BY <3>1, <3>2, Zenon
  <2>1a. PICK e : /\ own' = [own EXCEPT ![s] = @ \cup {e}]
                 /\ e.id = logSeq + 1 /\ e.prev = GetPrevHash(s) /\ e.saw = Ids(seen)
    BY <2>1, Zenon
  <2>2. logSeq \in Nat
    BY AuditAssumption, SMTT(30), Z3T(30) DEF TypeOK
  <2>3. own'[s] = own[s] \cup {e} /\ \A t \in Sessions \ {s} : own'[t] = own[t]
    BY <2>1a DEF TypeOK
  <2>4. seen \subseteq DB.log \cup own[s] /\ seen \subseteq Rows
    BY ZenonT(40) DEF Rows
  <2>5. /\ GetPrevHash(s) \in 0 .. MaxId
        /\ \A n \in Ids(seen) : n <= GetPrevHash(s)
        /\ GetPrevHash(s) # 0 => GetPrevHash(s) \in Ids(seen)
    BY VisibleType, AuditAssumption, LargestIn, Zenon DEF GetPrevHash
  <2>6. GetPrevHash(s) # 0 => \E f \in seen : f.id = GetPrevHash(s)
    BY <2>5 DEF Ids
  <2>7. GetPrevHash(s) <= logSeq
    BY <2>2, <2>4, <2>5, <2>6
  <2>8. Links(e) /\ e.id = logSeq + 1 /\ e.prev = GetPrevHash(s)
    <3>1. GetPrevHash(s) < logSeq + 1
      BY <2>2, <2>5, <2>7
    <3>2. \A n \in e.saw : n <= e.prev
      BY <2>1a, <2>5, Zenon
    <3>3. e.prev < e.id
      BY <2>1a, <3>1, Zenon
    <3> QED BY <2>1a, <3>2, <3>3, Zenon DEF Links
  <2>9. Rows' = Rows \cup {e}
    BY <1>1, <2>3 DEF Rows
  <2>10. \A f \in Rows : f.id \in Nat
    <3>1. DB \in DBs /\ own \in [Sessions -> SUBSET Entries]
      BY CurrentDB, Zenon DEF TypeOK
    <3>2. Rows \subseteq Entries
      BY <3>1, SMTT(30), Z3T(30) DEF Rows, DBs
    <3> QED BY <3>2 DEF Entries
  <2>11. \A f \in Rows' : f.id <= logSeq' /\ Links(f)
    BY <2>1, <2>2, <2>8, <2>9, <2>10, SMTT(30), Z3T(30)
  <2>12. \A f, g \in Rows' : f.id = g.id => f = g
    BY <2>2, <2>8, <2>9, <2>10
  <2>13. Closed(own'[s], DB.log \cup own'[s])
    BY <2>3, <2>4, <2>6, <2>8, Zenon DEF Closed
  <2>14. \A t \in Sessions : Closed(own'[t], DB'.log \cup own'[t])
    BY <1>1, <2>3, <2>13, Zenon
  <2>15. \A i \in DOMAIN dbs' : Closed(dbs'[i].log, dbs'[i].log)
    BY <1>1, Zenon
  <2>16. \A f \in Rows' : Links(f)'
    BY <2>11 DEF Links
  <2> QED BY <1>1, <2>11, <2>12, <2>14, <2>15, <2>16, Zenon
<1> QED BY <1>2, <1>3, Zenon DEF ProcessUtility

\* A commit adds its rows to the committed ones; their links lead there.
LEMMA ChainCommit ==
    ASSUME ChainInv, TypeInv', NEW s \in Sessions, Commit(s)
    PROVE  ChainInv'
<1> USE DEF ChainInv, TypeInv
<1>1. /\ dbs' = dbs \/ dbs' = Append(dbs, Committed(s))
      /\ DB' = Committed(s)
      /\ dbs \in Seq(DBs) /\ Len(dbs) \in Nat \ {0}
      /\ Committed(s) \in DBs
  <2>1. DB \in DBs /\ DB = dbs[Len(dbs)] /\ Len(dbs) \in Nat \ {0} /\ dbs \in Seq(DBs)
    BY CurrentDB DEF TypeOK
  <2>2. Committed(s) \in DBs
    BY <2>1, Zenon DEF Committed, DBs, TypeOK
  <2>3. CASE Committed(s) = DB
    BY <2>1, <2>2, <2>3, Zenon DEF Commit, DB
  <2>4. CASE Committed(s) # DB
    BY <2>1, <2>2, <2>4 DEF Commit, DB
  <2> QED BY <2>1, <2>2, <2>3, <2>4, SMTT(30), Z3T(30)
<1>2. DB'.log = DB.log \cup own[s]
  BY <1>1, Zenon DEF Committed
<1>3. /\ logSeq' = logSeq /\ own' = [own EXCEPT ![s] = {}] /\ snap' = [snap EXCEPT ![s] = NoDB]
      /\ own \in [Sessions -> SUBSET Entries] /\ snap \in [Sessions -> DBs]
  BY Zenon DEF Commit, EndTransaction, TypeOK
<1>4. Rows' = Rows
  BY <1>2, <1>3 DEF Rows
<1>5. \A t \in Sessions : snap'[t].log \subseteq DB'.log
  BY <1>2, <1>3, Zenon DEF NoDB
<1>6. \A t \in Sessions : Closed(own'[t], DB'.log \cup own'[t])
  BY <1>2, <1>3, SMTT(30), Z3T(30) DEF Closed
<1>7. Closed(DB'.log, DB'.log)
  <2>1. Closed(DB.log, DB.log)
    BY <1>1 DEF DB
  <2> QED BY <1>2, <2>1, SMTT(30), Z3T(30) DEF Closed
<1>8. CASE dbs' = dbs
  BY <1>1, <1>3, <1>4, <1>5, <1>6, <1>8, Zenon DEF Links
<1>9. CASE dbs' = Append(dbs, Committed(s))
  <2>1. /\ DOMAIN dbs' = 1 .. Len(dbs) + 1 /\ DOMAIN dbs = 1 .. Len(dbs)
        /\ \A i \in DOMAIN dbs : dbs'[i] = dbs[i]
        /\ dbs'[Len(dbs) + 1] = DB'
    BY <1>1, <1>9, SMTT(30), Z3T(30)
  <2>2. \A i \in DOMAIN dbs : dbs[i].log \subseteq DB'.log
    <3>1. Len(dbs) \in DOMAIN dbs /\ \A i \in DOMAIN dbs : i <= Len(dbs)
      BY <1>1, SMTT(30), Z3T(30)
    <3> QED BY <1>2, <3>1, Zenon DEF DB
  <2>3. \A i, j \in DOMAIN dbs' : i <= j => dbs'[i].log \subseteq dbs'[j].log
    BY <1>1, <2>1, <2>2, SMTT(30), Z3T(30)
  <2>4. \A i \in DOMAIN dbs' : Closed(dbs'[i].log, dbs'[i].log)
    BY <1>1, <1>7, <2>1
  <2> QED BY <1>3, <1>4, <1>5, <1>6, <2>3, <2>4, Zenon DEF Links
<1> QED BY <1>1, <1>8, <1>9, Zenon

\* An abort, a flush and a crash only lose rows, never one that a remaining
\* row links to.
LEMMA ChainLoss ==
    ASSUME ChainInv, TypeInv', (\E s \in Sessions : Abort(s)) \/ Flush \/ Crash
    PROVE  ChainInv'
<1> USE DEF ChainInv, TypeInv
<1>1. ASSUME NEW s \in Sessions, Abort(s) PROVE ChainInv'
  <2>1. /\ dbs' = dbs /\ logSeq' = logSeq
        /\ own' = [own EXCEPT ![s] = {}] /\ snap' = [snap EXCEPT ![s] = NoDB]
        /\ own \in [Sessions -> SUBSET Entries] /\ snap \in [Sessions -> DBs] /\ DB' = DB
    BY <1>1, Zenon DEF Abort, EndTransaction, TypeOK, DB
  <2>2. Rows' \subseteq Rows
    BY <2>1 DEF Rows
  <2>3. \A t \in Sessions : snap'[t].log \subseteq DB'.log
    BY <2>1, Zenon DEF NoDB
  <2>4. \A t \in Sessions : Closed(own'[t], DB'.log \cup own'[t])
    BY <2>1, Zenon DEF Closed
  <2> QED BY <2>1, <2>2, <2>3, <2>4, SMTT(30), Z3T(30) DEF Links, Closed
<1>2. CASE Flush
  <2>1. dbs' = <<DB>> /\ UNCHANGED <<logSeq, own, snap>> /\ Len(dbs) \in DOMAIN dbs
    BY <1>2, SMTT(30), Z3T(30) DEF Flush, sessVars, TypeOK
  <2>2. DB' = DB
    BY <2>1, SMTT(30), Z3T(30) DEF DB
  <2>3. Rows' = Rows
    BY <2>1, <2>2, SMTT(30), Z3T(30) DEF Rows
  <2>4. DOMAIN dbs' = {1} /\ dbs'[1] = DB
    BY <2>1, SMTT(30), Z3T(30)
  <2>5. Closed(DB.log, DB.log)
    BY <2>1 DEF DB
  <2> QED BY <2>1, <2>2, <2>3, <2>4, <2>5, Zenon DEF Links
<1>3. CASE Crash
  <2>1. PICK i \in DOMAIN dbs : dbs' = <<dbs[i]>> /\ logSeq' \in Largest(Ids(dbs[i].log)) .. logSeq
    BY <1>3, Zenon DEF Crash
  <2>2. own' = [s \in Sessions |-> {}] /\ snap' = [s \in Sessions |-> NoDB]
    BY <1>3 DEF Crash
  <2>3. DB' = dbs[i] /\ DOMAIN dbs' = {1} /\ dbs'[1] = dbs[i]
    <3>1. dbs' = <<dbs[i]>>
      BY <2>1, Zenon
    <3>2. Len(dbs') = 1 /\ DOMAIN dbs' = {1} /\ dbs'[1] = dbs[i]
      BY <3>1, SMTT(30), Z3T(30)
    <3> QED BY <3>2, Zenon DEF DB
  <2>4. Rows' = dbs[i].log
    BY <2>2, <2>3, Zenon DEF Rows
  <2>5. dbs[i].log \subseteq DB.log /\ dbs[i] \in DBs
    <3>1. Len(dbs) \in DOMAIN dbs /\ i <= Len(dbs) /\ dbs[i] \in DBs
      BY SMTT(30), Z3T(30) DEF TypeOK
    <3> QED BY <3>1, Zenon DEF DB
  <2>6. Rows' \subseteq Rows
    BY <2>4, <2>5, Zenon DEF Rows
  <2>7. \A e \in Rows' : e.id <= logSeq'
    <3>1. Ids(dbs[i].log) \in SUBSET (1 .. MaxId)
      BY <2>5, SMTT(30), Z3T(30) DEF DBs, Ids, Entries
    <3>2. Largest(Ids(dbs[i].log)) \in 0 .. MaxId /\ \A n \in Ids(dbs[i].log) : n <= Largest(Ids(dbs[i].log))
      BY <3>1, AuditAssumption, LargestIn
    <3>3. \A e \in Rows' : e.id \in Ids(dbs[i].log)
      BY <2>4, Zenon DEF Ids
    <3>4. logSeq \in Nat
      <4>1. logSeq \in 0 .. MaxId
        BY Zenon DEF TypeOK
      <4> QED BY <4>1, AuditAssumption
    <3>5. \A e \in Rows' : e.id \in Nat
      BY <3>1, <3>3
    <3> QED BY <2>1, <3>2, <3>3, <3>4, <3>5, SMTT(30), Z3T(30)
  <2>8. \A e \in Rows' : Links(e)'
    BY <2>6, Zenon DEF Links
  <2>9. \A s \in Sessions : snap'[s].log \subseteq DB'.log /\ Closed(own'[s], DB'.log \cup own'[s])
    BY <2>2, Zenon DEF NoDB, Closed
  <2>10. \A j \in DOMAIN dbs' : Closed(dbs'[j].log, dbs'[j].log)
    BY <2>3, Zenon
  <2>11. \A j, k \in DOMAIN dbs' : dbs'[j].log \subseteq dbs'[k].log
    BY <2>3, Zenon
  <2> QED BY <2>6, <2>7, <2>8, <2>9, <2>10, <2>11, Zenon
<1> QED BY <1>1, <1>2, <1>3, Zenon

\* The empty audit log satisfies the chain invariant.
LEMMA ChainInit == Init => ChainInv
<1> SUFFICES ASSUME Init PROVE ChainInv
  OBVIOUS
<1>1. NoDB \in DBs
  BY NoDBType
<1>2. TypeInv
  BY <1>1, AuditAssumption DEF Init, TypeInv, TypeOK
<1>3. DOMAIN dbs = {1} /\ dbs[1].log = {} /\ DB.log = {}
  BY SMTT(30), Z3T(30) DEF Init, DB, NoDB
<1>4. Rows = {} /\ \A s \in Sessions : snap[s].log = {} /\ own[s] = {}
  BY <1>3 DEF Init, Rows, NoDB
<1> QED BY <1>2, <1>3, <1>4, Zenon DEF ChainInv, Closed

\* Every step preserves the chain invariant.
LEMMA ChainStep == ChainInv /\ [Next]_vars => ChainInv'
<1> SUFFICES ASSUME ChainInv, [Next]_vars PROVE ChainInv'
  OBVIOUS
<1>1. TypeInv'
  BY TypeStep DEF ChainInv
<1>2. ASSUME NEW s \in Sessions,
             \/ \E level \in {"rc", "rr"} : Begin(s, level)
             \/ \E purpose \in Purposes : InsertKey(s, purpose)
             \/ StartStatement(s) \/ StartInitKeys(s) \/ DeactivateKeys(s)
      PROVE  ChainInv'
  <2>1. UNCHANGED <<dbs, logSeq, own>>
    BY <1>2 DEF Begin, InsertKey, StartStatement, StartInitKeys, DeactivateKeys
  <2>2. snap' = snap \/ snap' = [snap EXCEPT ![s] = DB]
    <3>1. snap' = snap \/ snap' = [snap EXCEPT ![s] = DB] \/ snap' = [snap EXCEPT ![s] = snap[s]]
      BY <1>2, Zenon DEF Begin, InsertKey, StartStatement, StartInitKeys, DeactivateKeys, Snapshot
    <3>2. [snap EXCEPT ![s] = snap[s]] = snap
      BY Zenon DEF ChainInv, TypeInv, TypeOK
    <3> QED BY <3>1, <3>2, Zenon
  <2> QED BY <1>1, <2>1, <2>2, ChainSession, Zenon
<1>3. CASE UNCHANGED vars
  BY <1>3 DEF vars, sessVars, ChainInv, TypeInv, TypeOK, Rows, DB, Closed, Links
<1>4. CASE Next
  BY <1>1, <1>2, <1>4, ChainLogging, ChainCommit, ChainLoss, Zenon DEF Next
<1> QED BY <1>3, <1>4, Zenon

\* The types, for any number of sessions.
THEOREM AuditTypes == Spec => []TypeOK
<1>1. ChainInv => TypeOK
  BY Zenon DEF ChainInv, TypeInv
<1> QED BY ChainInit, ChainStep, <1>1, PTL DEF Spec

\* audit_log_ddl_event: whatever interleaves, aborts or is lost in a crash, the
\* hash chain of the committed log never dangles and never turns back.
THEOREM AuditChain == Spec => []ChainWellFounded
<1>1. ChainInv => ChainWellFounded
  <2> SUFFICES ASSUME ChainInv, NEW i \in DOMAIN dbs, NEW e \in dbs[i].log
               PROVE  /\ e.prev # 0 => e.prev < e.id /\ \E f \in dbs[i].log : f.id = e.prev
                      /\ \A f \in dbs[i].log : f.id = e.id => f = e
    BY DEF ChainWellFounded
  <2>1. dbs[i].log \subseteq Rows
    <3>1. Len(dbs) \in DOMAIN dbs /\ i <= Len(dbs)
      BY SMTT(30), Z3T(30) DEF ChainInv, TypeInv, TypeOK
    <3>2. dbs[i].log \subseteq DB.log
      BY <3>1 DEF ChainInv, DB
    <3> QED BY <3>2, Zenon DEF Rows
  <2>2. e.prev < e.id
    BY <2>1 DEF ChainInv, Links
  <2>3. e.prev # 0 => \E f \in dbs[i].log : f.id = e.prev
    BY Zenon DEF ChainInv, Closed
  <2>4. \A f \in dbs[i].log : f.id = e.id => f = e
    BY <2>1, SMTT(30), Z3T(30) DEF ChainInv
  <2> QED BY <2>2, <2>3, <2>4, Zenon
<1> QED BY ChainInit, ChainStep, <1>1, PTL DEF Spec

\* get_prev_hash: two committed rows with the same predecessor were written by
\* statements that did not see each other.
THEOREM AuditForks == Spec => []ForksOnlyWhenConcurrent
<1>1. ChainInv => ForksOnlyWhenConcurrent
  <2> SUFFICES ASSUME ChainInv, NEW e \in DB.log, NEW f \in DB.log, e.prev = f.prev
               PROVE  e.id \notin f.saw /\ f.id \notin e.saw
    BY Zenon DEF ForksOnlyWhenConcurrent
  <2>1. Links(e) /\ Links(f)
    BY DEF ChainInv, Rows
  <2>2. e.id \in Nat /\ f.id \in Nat /\ e.prev \in Nat /\ f.prev \in Nat
    <3>1. DB \in DBs
      BY CurrentDB DEF ChainInv, TypeInv
    <3>2. e \in Entries /\ f \in Entries
      BY <3>1 DEF DBs
    <3> QED BY <3>2 DEF Entries
  <2> QED BY <2>1, <2>2 DEF Links
<1> QED BY ChainInit, ChainStep, <1>1, PTL DEF Spec

-----------------------------------------------------------------------------
\* The call that made l saw k committed, and has retired it.
Saw(k, l) == k.id \in l.saw

\* The keys of a transaction that it has not set inactive again.
InUse(mine, gone) == {k \in mine : k.id \notin gone}

\* A key of this purpose is among `keys', and k is not newer than it.
Covers(k, purpose, keys) ==
    \E m \in keys : m.purpose = purpose /\ (k.purpose = purpose => k.id <= m.id)

\* A key of this purpose newer than key_id n is among `keys'.
Outlives(n, purpose, keys) == \E m \in keys : m.purpose = purpose /\ n < m.id

\* A row is signed with two of `keys', neither of which retired the other.
SignedWith(e, keys) ==
    \E k, l \in keys :
        /\ e.ckey = k.id /\ k.purpose = "classical" /\ e.pkey = l.id /\ l.purpose = "pqc"
        /\ ~Saw(k, l) /\ ~Saw(l, k)

\* A committed state of the two tables: no active key has retired another one,
\* and what is retired has been replaced by newer keys.
KeyTable(db) ==
    /\ db.active \subseteq db.keys
    /\ \A k \in db.keys : k.saw \subseteq Ids(db.keys)
    /\ \A k, l \in db.active : ~Saw(k, l)
    /\ \A k \in db.keys, purpose \in Purposes : Covers(k, purpose, db.active)
    /\ \A e \in db.log : SignedWith(e, db.keys)

\* Keys stay in the table, and once inactive they stay inactive.
Later(old, new) ==
    /\ old.keys \subseteq new.keys
    /\ new.active \cap old.keys \subseteq old.active

\* A transaction on committed state db, at label `at', that sees `see', has set
\* `gone' inactive and has inserted `mine': what its keys retire is gone once
\* it commits, and between the statements what is gone is replaced.
SessionOK(db, seq, at, level, see, gone, mine) ==
    /\ KeyTable(see) /\ Later(see, db)
    /\ \A n \in gone : n <= seq
    /\ \A l \in mine : l.saw \subseteq Ids(db.keys)
    /\ \A k \in db.active, l \in mine : Saw(k, l) => k.id \in gone
    /\ level = "rr" \/ at \in {"executed", "update"} =>
          \A k \in see.active, l \in mine : Saw(k, l) => k.id \in gone
    /\ at \in Purposes =>
          /\ Ids(db.active \cap see.keys) \subseteq gone
          /\ level = "rr" => Ids(see.active) \subseteq gone
    /\ at = "classical" => InUse(mine, gone) = {}
    /\ at = "pqc" => \E m \in mine : /\ InUse(mine, gone) = {m} /\ m.purpose = "classical"
                                     /\ \A n \in gone : n < m.id
    /\ at \notin Purposes =>
          \A purpose \in Purposes :
             /\ \A k \in mine : Covers(k, purpose, InUse(mine, gone))
             /\ \A n \in gone : Outlives(n, purpose, InUse(mine, gone))

\* The keys in the table and those of open transactions.
AllKeys == DB.keys \cup UNION {made[s] : s \in Sessions}

\* The inductive invariant.
KeyInv ==
    /\ \A i \in DOMAIN dbs : KeyTable(dbs[i])
    /\ \A i, j \in DOMAIN dbs : i <= j => Later(dbs[i], dbs[j])
    /\ \A k \in AllKeys : k.id <= keySeq
    /\ \A k, l \in AllKeys : k.id = l.id => k = l
    /\ \A s \in Sessions : made[s] \cap DB.keys = {}
    /\ \A s, t \in Sessions : s # t => made[s] \cap made[t] = {}
    /\ \A s \in Sessions : SessionOK(DB, keySeq, pc[s], iso[s], snap[s], off[s], made[s])
    /\ \A s \in Sessions : \A e \in own[s] : SignedWith(e, DB.keys \cup made[s])

\* Key ids are numbers.
LEMMA KeyNats ==
    ASSUME NEW k \in Keys
    PROVE  k.id \in Nat /\ k.purpose \in Purposes /\ k.saw \in SUBSET Nat
BY AuditAssumption DEF Keys

\* load_audit_key returns the newest of the keys at hand of its purpose.
LEMMA LoadedKey ==
    ASSUME NEW keys \in SUBSET Keys, NEW purpose \in Purposes
    PROVE  /\ LoadAuditKey(keys, purpose) # 0 =>
                \E k \in keys : k.id = LoadAuditKey(keys, purpose) /\ k.purpose = purpose
           /\ \A k \in keys : k.purpose = purpose => k.id <= LoadAuditKey(keys, purpose)
<1> DEFINE ids == Ids({k \in keys : k.purpose = purpose})
<1>1. ids \in SUBSET (1 .. MaxKey)
  BY DEF Ids, Keys
<1>2. /\ \A m \in ids : m <= Largest(ids)
      /\ Largest(ids) # 0 => Largest(ids) \in ids
  BY <1>1, AuditAssumption, LargestIn
<1>3. \A n \in ids : \E k \in keys : k.id = n /\ k.purpose = purpose
  BY DEF Ids
<1>4. \A k \in keys : k.purpose = purpose => k.id \in ids
  BY DEF Ids
<1>5. LoadAuditKey(keys, purpose) = Largest(ids)
  BY ZenonT(40) DEF LoadAuditKey
<1> HIDE DEF ids
<1> QED BY <1>2, <1>3, <1>4, <1>5, Zenon

\* Later committed states follow one another.
LEMMA LaterThan ==
    ASSUME NEW a, NEW b, NEW c
    PROVE  /\ a.active \subseteq a.keys => Later(a, a)
           /\ Later(NoDB, a)
           /\ Later(a, b) /\ Later(b, c) => Later(a, c)
BY DEF Later, NoDB

\* A row stays signed as keys are added.
LEMMA SignedMore ==
    ASSUME NEW e, NEW keys, NEW more, keys \subseteq more, SignedWith(e, keys)
    PROVE  SignedWith(e, more)
BY Zenon DEF SignedWith

\* Nothing is retired yet.
LEMMA EmptyTable == KeyTable(NoDB)
BY Zenon DEF KeyTable, NoDB

\* Outside a transaction nothing is retired or inserted.
LEMMA NoTransaction ==
    ASSUME NEW db, NEW seq
    PROVE  SessionOK(db, seq, "idle", "rc", NoDB, {}, {})
<1>1. KeyTable(NoDB) /\ Later(NoDB, db)
  BY EmptyTable, LaterThan, Zenon
<1> QED BY <1>1 DEF SessionOK, Purposes

\* What a transaction has done stays in order while others commit keys of
\* their own, and draw more.
LEMMA OthersCommit ==
    ASSUME NEW db, NEW new, NEW seq \in Nat, NEW n \in Nat, seq <= n, Later(db, new),
           \A k \in new.active, l \in db.keys : k.id = l.id => k \in db.keys,
           NEW at, NEW level, NEW see, NEW gone \in SUBSET Nat, NEW mine,
           SessionOK(db, seq, at, level, see, gone, mine)
    PROVE  SessionOK(new, n, at, level, see, gone, mine)
<1>1. KeyTable(see) /\ Later(see, new)
  BY LaterThan, Zenon DEF SessionOK
<1>2. \A x \in gone : x <= n
  BY SMTT(30), Z3T(30) DEF SessionOK
<1>3. \A l \in mine : l.saw \subseteq Ids(new.keys)
  BY Zenon DEF SessionOK, Ids, Later
<1>4. \A k \in new.active, l \in mine : Saw(k, l) => k.id \in gone
  <2> SUFFICES ASSUME NEW k \in new.active, NEW l \in mine, k.id \in l.saw PROVE k.id \in gone
    BY Zenon DEF Saw
  <2>1. PICK j \in db.keys : j.id = k.id
    BY Zenon DEF SessionOK, Ids
  <2>2. k \in db.active
    BY <2>1, Zenon DEF Later
  <2> QED BY <2>2, Zenon DEF SessionOK, Saw
<1>5. at \in Purposes => Ids(new.active \cap see.keys) \subseteq gone
  <2>1. new.active \cap see.keys \subseteq db.active \cap see.keys
    BY DEF SessionOK, Later
  <2> QED BY <2>1, Zenon DEF SessionOK, Ids
<1> QED BY <1>1, <1>2, <1>3, <1>4, <1>5, Zenon DEF SessionOK

\* The commit of a transaction between two statements.
LEMMA CommitTable ==
    ASSUME NEW db \in DBs, KeyTable(db), NEW seq, NEW at, at \notin Purposes, NEW level,
           NEW see, NEW gone \in SUBSET Nat, NEW mine \in SUBSET Keys,
           SessionOK(db, seq, at, level, see, gone, mine),
           \A k \in db.keys, l \in mine : k.id # l.id,
           NEW rows, \A e \in rows : SignedWith(e, db.keys \cup mine),
           NEW new, new.log = db.log \cup rows, new.keys = db.keys \cup mine,
           \A k : k \in new.active <=> k \in db.active \cup mine /\ k.id \notin gone
    PROVE  KeyTable(new) /\ Later(db, new)
<1>1. /\ new.log = db.log \cup rows /\ new.keys = db.keys \cup mine
      /\ \A k : k \in new.active <=> k \in db.active \cup mine /\ k.id \notin gone
  BY Zenon
<1>2. \A k \in new.keys : k.saw \subseteq Ids(new.keys)
  <2>1. \A k \in new.keys : k.saw \subseteq Ids(db.keys)
    BY <1>1, Zenon DEF KeyTable, SessionOK
  <2> QED BY <1>1, <2>1, Zenon DEF Ids
<1>3. \A k, l \in new.active : ~Saw(k, l)
  <2> SUFFICES ASSUME NEW k \in new.active, NEW l \in new.active, k.id \in l.saw PROVE FALSE
    BY Zenon DEF Saw
  <2>1. l.saw \subseteq Ids(db.keys)
    BY <1>1, Zenon DEF KeyTable, SessionOK
  <2>2. PICK j \in db.keys : j.id = k.id
    BY <2>1 DEF Ids
  <2>3. k \in db.active /\ k.id \notin gone
    BY <1>1, <2>2, Zenon
  <2>4. CASE l \in db.active
    BY <2>3, <2>4, Zenon DEF KeyTable, Saw
  <2>5. CASE l \in mine
    BY <2>3, <2>5, Zenon DEF SessionOK, Saw
  <2> QED BY <1>1, <2>4, <2>5, Zenon
<1>4. InUse(mine, gone) \subseteq new.active
  BY <1>1, Zenon DEF InUse
<1>5. ASSUME NEW k \in new.keys, NEW purpose \in Purposes PROVE Covers(k, purpose, new.active)
  <2>1. CASE k \in mine
    BY <1>4, <2>1, Zenon DEF SessionOK, Covers
  <2>2. CASE k \in db.keys
    <3>1. PICK m \in db.active : m.purpose = purpose /\ (k.purpose = purpose => k.id <= m.id)
      BY <2>2, Zenon DEF KeyTable, Covers
    <3>2. CASE m.id \notin gone
      BY <1>1, <3>1, <3>2, Zenon DEF Covers
    <3>3. CASE m.id \in gone
      <4>1. PICK n \in InUse(mine, gone) : n.purpose = purpose /\ m.id < n.id
        BY <3>3, Zenon DEF SessionOK, Outlives
      <4>2. n \in new.active
        BY <1>4, Zenon
      <4>3. k \in Keys /\ m \in Keys /\ n \in Keys
        BY <2>2, Zenon DEF DBs, InUse
      <4>4. k.id \in Nat /\ m.id \in Nat /\ n.id \in Nat
        BY <4>3, KeyNats, Zenon
      <4>5. k.purpose = purpose => k.id <= n.id
        BY <3>1, <4>1, <4>4, SMTT(30), Z3T(30)
      <4> QED BY <4>1, <4>2, <4>5, Zenon DEF Covers
    <3> QED BY <3>2, <3>3, Zenon
  <2> QED BY <1>1, <2>1, <2>2, Zenon
<1>6. \A e \in new.log : SignedWith(e, new.keys)
  BY <1>1, SignedMore, ZenonT(40) DEF KeyTable
<1>7. new.active \subseteq new.keys
  BY <1>1, SMTT(30), Z3T(30) DEF KeyTable
<1>8. Later(db, new)
  BY <1>1, Zenon DEF Later
<1> QED BY <1>2, <1>3, <1>5, <1>6, <1>7, <1>8, ZenonT(40) DEF KeyTable

\* What the invariant says of the newest committed state.
LEMMA KeysNow ==
    ASSUME TypeInv, KeyInv
    PROVE  /\ DB \in DBs /\ KeyTable(DB) /\ keySeq \in Nat
           /\ \A i \in DOMAIN dbs : dbs[i] \in DBs /\ Later(dbs[i], DB)
           /\ \A s \in Sessions : off[s] \in SUBSET Nat /\ made[s] \in SUBSET Keys
           /\ AllKeys \in SUBSET Keys
<1>1. DB \in DBs /\ DB = dbs[Len(dbs)] /\ Len(dbs) \in Nat \ {0}
  BY CurrentDB DEF TypeInv
<1>2. Len(dbs) \in DOMAIN dbs /\ \A i \in DOMAIN dbs : dbs[i] \in DBs /\ i <= Len(dbs)
  BY <1>1, SMTT(30), Z3T(30) DEF TypeInv, TypeOK
<1>3. KeyTable(DB) /\ \A i \in DOMAIN dbs : Later(dbs[i], DB)
  BY <1>1, <1>2, Zenon DEF KeyInv
<1>4. /\ keySeq \in Nat
      /\ \A s \in Sessions : off[s] \in SUBSET Nat /\ made[s] \in SUBSET Keys
  BY AuditAssumption DEF TypeInv, TypeOK
<1>5. AllKeys \in SUBSET Keys
  BY <1>1, <1>4, ZenonT(40) DEF AllKeys, DBs
<1> QED BY <1>1, <1>2, <1>3, <1>4, <1>5

\* Statements of one session, which change its own state only.
LEMMA OneSession ==
    ASSUME TypeInv, KeyInv, NEW s \in Sessions,
           UNCHANGED <<dbs, keySeq, own, made>>,
           \A t \in Sessions \ {s} :
               pc'[t] = pc[t] /\ iso'[t] = iso[t] /\ snap'[t] = snap[t] /\ off'[t] = off[t],
           SessionOK(DB, keySeq, pc'[s], iso'[s], snap'[s], off'[s], made[s])
    PROVE  KeyInv'
<1>1. DB' = DB /\ AllKeys' = AllKeys
  BY DEF DB, AllKeys
<1>2. \A t \in Sessions : SessionOK(DB, keySeq, pc'[t], iso'[t], snap'[t], off'[t], made[t])
  <2> TAKE t \in Sessions
  <2>1. CASE t = s
    BY <2>1, Zenon
  <2>2. CASE t # s
    BY <2>2, Zenon DEF KeyInv
  <2> QED BY <2>1, <2>2, SMTT(30), Z3T(30)
<1>3. /\ \A i \in DOMAIN dbs' : KeyTable(dbs'[i])
      /\ \A i, j \in DOMAIN dbs' : i <= j => Later(dbs'[i], dbs'[j])
  BY Zenon DEF KeyInv
<1>4. /\ \A k \in AllKeys' : k.id <= keySeq'
      /\ \A k, l \in AllKeys' : k.id = l.id => k = l
      /\ \A t \in Sessions : made'[t] \cap DB'.keys = {}
      /\ \A t, u \in Sessions : t # u => made'[t] \cap made'[u] = {}
  BY <1>1, Zenon DEF KeyInv
<1>5. \A t \in Sessions : \A e \in own'[t] : SignedWith(e, DB'.keys \cup made'[t])
  BY <1>1, Zenon DEF KeyInv
<1>6. \A t \in Sessions : SessionOK(DB', keySeq', pc'[t], iso'[t], snap'[t], off'[t], made'[t])
  BY <1>1, <1>2, SMTT(30), Z3T(30)
<1> QED BY <1>3, <1>4, <1>5, <1>6, Zenon DEF KeyInv

\* BEGIN and the start of a statement take a snapshot.
LEMMA KeysSnapshot ==
    ASSUME TypeInv, KeyInv, NEW s \in Sessions,
           (\E level \in {"rc", "rr"} : Begin(s, level)) \/ StartStatement(s) \/ StartInitKeys(s)
    PROVE  KeyInv'
<1>1. DB \in DBs /\ KeyTable(DB) /\ Later(DB, DB)
  BY KeysNow, LaterThan, Zenon DEF KeyTable
<1>2. SessionOK(DB, keySeq, pc[s], iso[s], snap[s], off[s], made[s])
  BY ZenonT(40) DEF KeyInv
<1>3. CASE \E level \in {"rc", "rr"} : Begin(s, level)
  <2>1. PICK level \in {"rc", "rr"} : Begin(s, level)
    BY <1>3, Zenon
  <2>2. pc'[s] = "open" /\ iso'[s] = level /\ snap'[s] = DB /\ off' = off /\ pc[s] = "idle"
    BY <2>1, Zenon DEF Begin, TypeInv, TypeOK
  <2>3. SessionOK(DB, keySeq, "open", level, DB, off[s], made[s])
    BY <1>1, <1>2, <2>2, Zenon DEF SessionOK, Purposes
  <2>4. /\ UNCHANGED <<dbs, keySeq, own, made, off>>
        /\ \A t \in Sessions \ {s} :
              pc'[t] = pc[t] /\ iso'[t] = iso[t] /\ snap'[t] = snap[t] /\ off'[t] = off[t]
    BY <2>1, ZenonT(40) DEF Begin, TypeInv, TypeOK
  <2>5. SessionOK(DB, keySeq, pc'[s], iso'[s], snap'[s], off'[s], made[s])
    BY <2>2, <2>3, Zenon
  <2> QED BY <2>4, <2>5, OneSession, Zenon
<1>4. CASE StartStatement(s) \/ StartInitKeys(s)
  <2>1. /\ pc[s] = "open" /\ pc'[s] \in {"executed", "update"} /\ iso' = iso
        /\ snap'[s] = Snapshot(s) /\ off' = off
        /\ UNCHANGED <<dbs, keySeq, own, made, off>>
        /\ \A t \in Sessions \ {s} :
              pc'[t] = pc[t] /\ iso'[t] = iso[t] /\ snap'[t] = snap[t] /\ off'[t] = off[t]
    BY <1>4, Zenon DEF StartStatement, StartInitKeys, TypeInv, TypeOK
  <2>2. iso[s] \in {"rc", "rr"}
    BY Zenon DEF TypeInv, TypeOK
  <2>3. CASE iso[s] = "rc"
    <3>1. snap'[s] = DB
      BY <2>1, <2>3, Zenon DEF Snapshot
    <3>2. SessionOK(DB, keySeq, pc'[s], iso[s], DB, off[s], made[s])
      BY <1>1, <1>2, <2>1, Zenon DEF SessionOK, Purposes
    <3>3. SessionOK(DB, keySeq, pc'[s], iso'[s], snap'[s], off'[s], made[s])
      BY <2>1, <3>1, <3>2, ZenonT(40)
    <3> QED BY <2>1, <3>3, OneSession, Zenon
  <2>4. CASE iso[s] = "rr"
    <3>1. snap'[s] = snap[s]
      BY <2>1, <2>4, Zenon DEF Snapshot
    <3>2. SessionOK(DB, keySeq, pc'[s], iso[s], snap[s], off[s], made[s])
      BY <1>2, <2>1, <2>4, Zenon DEF SessionOK, Purposes
    <3>3. SessionOK(DB, keySeq, pc'[s], iso'[s], snap'[s], off'[s], made[s])
      BY <2>1, <3>1, <3>2, Zenon
    <3> QED BY <2>1, <3>3, OneSession, ZenonT(30)
  <2> QED BY <2>2, <2>3, <2>4, Zenon
<1> QED BY <1>3, <1>4, Zenon

\* DeactivateKeys: the UPDATE retires all keys the call sees and that are
\* still active, its own earlier ones included.
LEMMA KeysDeactivate ==
    ASSUME TypeInv, KeyInv, NEW s \in Sessions, DeactivateKeys(s)
    PROVE  KeyInv'
<1> DEFINE see == snap[s]
           mine == made[s]
           gone == off[s]
           new == Ids(VisibleKeys(s) \cap (DB.active \cup made[s]))
<1>1. /\ pc[s] = "update" /\ pc'[s] = "classical" /\ iso' = iso /\ snap' = snap
      /\ off'[s] = gone \cup new
      /\ iso[s] = "rr" => see.active \subseteq DB.active
      /\ UNCHANGED <<dbs, keySeq, own, made>>
      /\ \A t \in Sessions \ {s} :
            pc'[t] = pc[t] /\ iso'[t] = iso[t] /\ snap'[t] = snap[t] /\ off'[t] = off[t]
  BY Zenon DEF DeactivateKeys, TypeInv, TypeOK
<1>2. SessionOK(DB, keySeq, "update", iso[s], see, gone, mine)
  BY <1>1, Zenon DEF KeyInv
<1>3. \A n \in new : n <= keySeq
  <2>1. \A k \in DB.active \cup made[s] : k \in AllKeys
    BY KeysNow, Zenon DEF AllKeys, KeyTable
  <2>2. \A k \in AllKeys : k.id <= keySeq
    BY Zenon DEF KeyInv
  <2>3. ASSUME NEW n \in new PROVE n <= keySeq
    <3>1. PICK k \in DB.active \cup made[s] : n = k.id
      BY ZenonT(40) DEF Ids
    <3> QED BY <2>1, <2>2, <3>1, Zenon
  <2> QED BY <2>3, ZenonT(40)
<1>4. \A k \in see.active \cup mine : k \in DB.active \cup mine => k.id \in gone \cup new
  BY DEF VisibleKeys, Ids
<1>5. Ids(DB.active \cap see.keys) \subseteq gone \cup new
  <2>1. DB.active \cap see.keys \subseteq see.active
    BY <1>2, Zenon DEF SessionOK, Later
  <2> QED BY <1>4, <2>1, Zenon DEF Ids
<1>6. iso[s] = "rr" => Ids(see.active) \subseteq gone \cup new
  BY <1>1, <1>4, Zenon DEF Ids
<1>7. InUse(mine, gone \cup new) = {}
  BY <1>4, Zenon DEF InUse
<1> HIDE DEF new, mine, gone, see
<1>8. SessionOK(DB, keySeq, "classical", iso[s], see, gone \cup new, mine)
  BY <1>2, <1>3, <1>5, <1>6, <1>7, Zenon DEF SessionOK, Purposes
<1>9. SessionOK(DB, keySeq, pc'[s], iso'[s], snap'[s], off'[s], made[s])
  BY <1>1, <1>8, Zenon DEF mine, see
<1> QED BY <1>1, <1>9, OneSession, ZenonT(40)

\* audit_log_ddl_event: the two keys at hand have not retired each other.
LEMMA KeysLogging ==
    ASSUME TypeInv, KeyInv, NEW s \in Sessions, ProcessUtility(s)
    PROVE  KeyInv'
<1>1. /\ pc[s] = "executed" /\ pc'[s] = "open"
      /\ UNCHANGED <<dbs, keySeq, iso, snap, off, made>>
      /\ \A t \in Sessions \ {s} : pc'[t] = pc[t]
  BY Zenon DEF ProcessUtility, TypeInv, TypeOK
<1>2. SessionOK(DB, keySeq, "executed", iso[s], snap[s], off[s], made[s])
  BY <1>1, Zenon DEF KeyInv
<1>3. SessionOK(DB, keySeq, "open", iso[s], snap[s], off[s], made[s])
  BY <1>2, Zenon DEF SessionOK, Purposes
<1>4. DB' = DB /\ AllKeys' = AllKeys
  BY <1>1, Zenon DEF DB, AllKeys
<1>5. \A t \in Sessions : SessionOK(DB, keySeq, pc'[t], iso[t], snap[t], off[t], made[t])
  <2> TAKE t \in Sessions
  <2>1. CASE t = s
    BY <1>1, <1>3, <2>1, Zenon
  <2>2. CASE t # s
    BY <1>1, <2>2, Zenon DEF KeyInv
  <2> QED BY <2>1, <2>2, Zenon
<1>6. \A t \in Sessions : \A e \in own'[t] : SignedWith(e, DB.keys \cup made[t])
  <2>1. CASE NoEntry(s)
    BY <2>1, Zenon DEF NoEntry, KeyInv
  <2>2. CASE LogEntry(s)
    <3> DEFINE vis == VisibleKeys(s)
               c == LoadAuditKey(vis, "classical")
               p == LoadAuditKey(vis, "pqc")
    <3>1. c # 0 /\ p # 0 /\ \E e : own' = [own EXCEPT ![s] = @ \cup {e}] /\ e.ckey = c /\ e.pkey = p
      <4> DEFINE new == [id |-> logSeq + 1, prev |-> GetPrevHash(s), ckey |-> c, pkey |-> p,
                         saw |-> Ids(snap[s].log \cup own[s])]
      <4>1. c # 0 /\ p # 0 /\ own' = [own EXCEPT ![s] = @ \cup {new}]
        BY <2>2, ZenonT(40) DEF LogEntry
      <4>2. new.ckey = c /\ new.pkey = p
        OBVIOUS
      <4> HIDE DEF new, c, p
      <4> QED BY <4>1, <4>2, ZenonT(40)
    <3>2. PICK e : own' = [own EXCEPT ![s] = @ \cup {e}] /\ e.ckey = c /\ e.pkey = p
      BY <3>1, Zenon
    <3>3. vis \in SUBSET Keys
      BY VisibleType, Zenon DEF TypeInv
    <3> HIDE DEF vis
    <3>4. PICK k \in vis : k.id = c /\ k.purpose = "classical"
      BY <3>1, <3>3, LoadedKey, Zenon DEF Purposes
    <3>5. PICK l \in vis : l.id = p /\ l.purpose = "pqc"
      BY <3>1, <3>3, LoadedKey, Zenon DEF Purposes
    <3>6. ASSUME NEW x \in vis, NEW y \in vis PROVE ~Saw(x, y)
      <4> SUFFICES ASSUME x.id \in y.saw PROVE FALSE
        BY Zenon DEF Saw
      <4>1. x \in snap[s].active \cup made[s] /\ y \in snap[s].active \cup made[s] /\ x.id \notin off[s]
        BY Zenon DEF vis, VisibleKeys
      <4>2. y.saw \subseteq Ids(DB.keys)
        <5>1. snap[s].active \subseteq snap[s].keys /\ snap[s].keys \subseteq DB.keys
          BY <1>2, Zenon DEF SessionOK, KeyTable, Later
        <5>2. KeyTable(DB)
          BY KeysNow, Zenon
        <5> QED BY <1>2, <4>1, <5>1, <5>2, Zenon DEF SessionOK, KeyTable
      <4>3. PICK z \in DB.keys : z.id = x.id
        BY <4>2, Zenon DEF Ids
      <4>4. snap[s].active \subseteq DB.keys
        BY <1>2, Zenon DEF SessionOK, KeyTable, Later
      <4>5. x \notin made[s]
        <5> SUFFICES ASSUME x \in made[s] PROVE FALSE
          BY Zenon
        <5>1. x \in AllKeys /\ z \in AllKeys
          BY Zenon DEF AllKeys
        <5>2. x = z
          BY <4>3, <5>1, Zenon DEF KeyInv
        <5> QED BY <4>3, <5>2, Zenon DEF KeyInv
      <4>6. x \in snap[s].active
        BY <4>1, <4>5, Zenon
      <4>7. CASE y \in snap[s].active
        BY <1>2, <4>6, <4>7, Zenon DEF SessionOK, KeyTable, Saw
      <4>8. CASE y \in made[s]
        BY <1>2, <4>1, <4>6, <4>8, Zenon DEF SessionOK, Saw
      <4> QED BY <4>1, <4>7, <4>8, Zenon
    <3>7. k \in DB.keys \cup made[s] /\ l \in DB.keys \cup made[s]
      <4>1. snap[s].active \subseteq DB.keys
        BY <1>2, Zenon DEF SessionOK, KeyTable, Later
      <4> QED BY <4>1, Zenon DEF vis, VisibleKeys
    <3>8. SignedWith(e, DB.keys \cup made[s])
      BY <3>2, <3>4, <3>5, <3>6, <3>7, Zenon DEF SignedWith
    <3>9. own'[s] = own[s] \cup {e} /\ \A t \in Sessions \ {s} : own'[t] = own[t]
      BY <3>2, Zenon DEF TypeInv, TypeOK
    <3> QED BY <3>8, <3>9, Zenon DEF KeyInv
  <2> QED BY <2>1, <2>2, Zenon DEF ProcessUtility
<1>7. \A t \in Sessions : SessionOK(DB', keySeq', pc'[t], iso'[t], snap'[t], off'[t], made'[t])
  BY <1>1, <1>4, <1>5, Zenon
<1>8. \A t \in Sessions : \A e \in own'[t] : SignedWith(e, DB'.keys \cup made'[t])
  BY <1>1, <1>4, <1>6, Zenon
<1>9. /\ \A i \in DOMAIN dbs' : KeyTable(dbs'[i])
      /\ \A i, j \in DOMAIN dbs' : i <= j => Later(dbs'[i], dbs'[j])
  BY <1>1, Zenon DEF KeyInv
<1>10. /\ \A k \in AllKeys' : k.id <= keySeq'
       /\ \A k, l \in AllKeys' : k.id = l.id => k = l
       /\ \A t \in Sessions : made'[t] \cap DB'.keys = {}
       /\ \A t, u \in Sessions : t # u => made'[t] \cap made'[u] = {}
  BY <1>1, <1>4, Zenon DEF KeyInv
<1> QED BY <1>7, <1>8, <1>9, <1>10, Zenon DEF KeyInv

\* InsertKey: the new key is newer than all others; the keys it has seen are
\* retired by the UPDATE before.
LEMMA KeysInsert ==
    ASSUME TypeInv, KeyInv, TypeInv', NEW s \in Sessions, NEW purpose \in Purposes,
           InsertKey(s, purpose)
    PROVE  KeyInv'
<1> DEFINE call == IF purpose = "classical" THEN keySeq + 1 ELSE LoadAuditKey(made[s], "classical")
           new == [id |-> keySeq + 1, purpose |-> purpose, call |-> call, saw |-> Ids(snap[s].keys)]
<1>1. /\ pc[s] = purpose /\ keySeq' = keySeq + 1
      /\ made' = [made EXCEPT ![s] = @ \cup {new}]
      /\ pc' = [pc EXCEPT ![s] = IF purpose = "classical" THEN "pqc" ELSE "open"]
      /\ UNCHANGED <<dbs, iso, snap, own, off>>
  BY Zenon DEF InsertKey
<1>2. new.id = keySeq + 1 /\ new.purpose = purpose /\ new.saw = Ids(snap[s].keys)
  BY Zenon
<1> HIDE DEF new
<1>3. /\ made'[s] = made[s] \cup {new} /\ \A t \in Sessions \ {s} : made'[t] = made[t]
      /\ pc'[s] = IF purpose = "classical" THEN "pqc" ELSE "open"
      /\ \A t \in Sessions \ {s} : pc'[t] = pc[t]
  BY <1>1, Zenon DEF TypeInv, TypeOK
<1>4. /\ DB \in DBs /\ KeyTable(DB) /\ keySeq \in Nat
      /\ \A t \in Sessions : off[t] \in SUBSET Nat /\ made[t] \in SUBSET Keys
      /\ AllKeys \in SUBSET Keys
  BY KeysNow, Zenon
<1>seq. keySeq \in Nat
  BY <1>4, Zenon
<1>5. DB' = DB /\ AllKeys' = AllKeys \cup {new}
  BY <1>1, <1>3 DEF DB, AllKeys
<1>6. \A k \in AllKeys : /\ k.id \in Nat /\ k.id <= keySeq /\ k.id # new.id
                         /\ k.id <= keySeq + 1 /\ k.id < new.id
  <2>1. \A k \in AllKeys : k.id <= keySeq
    BY Zenon DEF KeyInv
  <2>2. \A k \in AllKeys : k.id \in Nat
    BY <1>4, KeyNats, Zenon
  <2>3. \A n \in Nat : n <= keySeq => n # keySeq + 1 /\ n <= keySeq + 1 /\ n < keySeq + 1
    BY <1>seq
  <2> QED BY <1>2, <2>1, <2>2, <2>3, Zenon
<1>7. new \notin AllKeys
  BY <1>6, Zenon
<1>8. /\ \A k \in AllKeys' : k.id <= keySeq'
      /\ \A k, l \in AllKeys' : k.id = l.id => k = l
  <2>1. \A k \in AllKeys : k.id <= keySeq + 1
    BY <1>6, Zenon
  <2>2. \A k, l \in AllKeys : k.id = l.id => k = l
    BY Zenon DEF KeyInv
  <2>3. keySeq + 1 <= keySeq + 1
    BY <1>seq, SMTT(30), Z3T(30)
  <2> QED BY <1>1, <1>2, <1>5, <1>6, <2>1, <2>2, <2>3, Zenon
<1>9. /\ \A t \in Sessions : made'[t] \cap DB'.keys = {}
      /\ \A t, u \in Sessions : t # u => made'[t] \cap made'[u] = {}
  <2>1. new \notin DB.keys /\ \A t \in Sessions : new \notin made[t]
    BY <1>7, Zenon DEF AllKeys
  <2>2. /\ \A t \in Sessions : made[t] \cap DB.keys = {}
        /\ \A t, u \in Sessions : t # u => made[t] \cap made[u] = {}
    BY ZenonT(40) DEF KeyInv
  <2> QED BY <1>3, <1>5, <2>1, <2>2, SMTT(30), Z3T(30)
<1>10. \A t \in Sessions : \A e \in own'[t] : SignedWith(e, DB'.keys \cup made'[t])
  <2> SUFFICES ASSUME NEW t \in Sessions, NEW e \in own[t] PROVE SignedWith(e, DB.keys \cup made'[t])
    BY <1>1, <1>5, Zenon
  <2>1. made[t] \subseteq made'[t]
    BY <1>3, Zenon
  <2>2. SignedWith(e, DB.keys \cup made[t])
    BY Zenon DEF KeyInv
  <2> QED BY <2>1, <2>2, SignedMore
<1>11. \A t \in Sessions \ {s} : SessionOK(DB, keySeq + 1, pc'[t], iso[t], snap[t], off[t], made'[t])
  <2> SUFFICES ASSUME NEW t \in Sessions \ {s}
               PROVE  SessionOK(DB, keySeq + 1, pc[t], iso[t], snap[t], off[t], made[t])
    BY <1>3, Zenon
  <2>1. SessionOK(DB, keySeq, pc[t], iso[t], snap[t], off[t], made[t])
    BY Zenon DEF KeyInv
  <2>2. Later(DB, DB) /\ \A k \in DB.active : k \in DB.keys
    BY <1>4, LaterThan, Zenon DEF KeyTable
  <2>3. keySeq + 1 \in Nat /\ keySeq <= keySeq + 1
    BY <1>seq
  <2> QED BY <1>4, <2>1, <2>2, <2>3, OthersCommit, Zenon
<1>12. SessionOK(DB, keySeq + 1, pc'[s], iso[s], snap[s], off[s], made'[s])
  <2> DEFINE see == snap[s]
             gone == off[s]
             mine == made[s]
  <2>1. SessionOK(DB, keySeq, purpose, iso[s], see, gone, mine)
    BY <1>1, Zenon DEF KeyInv
  <2>2. gone \in SUBSET Nat /\ new.id \notin gone /\ \A n \in gone : n < new.id
    <3>1. gone \in SUBSET Nat /\ \A n \in gone : n <= keySeq
      BY <1>4, <2>1, Zenon DEF SessionOK
    <3>2. \A n \in Nat : n <= keySeq => n # keySeq + 1 /\ n < keySeq + 1
      BY <1>seq
    <3>3. ~(keySeq + 1 <= keySeq)
      BY <1>seq
    <3> QED BY <1>2, <3>1, <3>2, <3>3, Zenon
  <2>3. \A k \in mine : k.id \in Nat /\ k.id < new.id
    <3>1. \A k \in mine : k \in AllKeys
      BY Zenon DEF AllKeys
    <3> QED BY <1>6, <3>1, Zenon
  <2>4. made'[s] = mine \cup {new}
    BY <1>3, Zenon
  <2> HIDE DEF see, gone, mine
  <2>5. InUse(mine \cup {new}, gone) = InUse(mine, gone) \cup {new}
    BY <2>2, Zenon DEF InUse
  <2>6. see.keys \subseteq DB.keys /\ see.active \subseteq see.keys
    BY <2>1, Zenon DEF SessionOK, Later, KeyTable
  <2>7. \A l \in mine \cup {new} : l.saw \subseteq Ids(DB.keys)
    BY <1>2, <2>1, <2>6, ZenonT(40) DEF SessionOK, Ids, see
  <2>8. \A k \in DB.active, l \in mine \cup {new} : Saw(k, l) => k.id \in gone
    <3> SUFFICES ASSUME NEW k \in DB.active, k.id \in new.saw PROVE k.id \in gone
      BY <2>1, Zenon DEF SessionOK, Saw
    <3>1. PICK j \in see.keys : j.id = k.id
      BY <1>2, Zenon DEF Ids, see
    <3>2. j = k
      BY <1>4, <2>6, <3>1, Zenon DEF KeyInv, AllKeys, KeyTable
    <3> QED BY <2>1, <3>1, <3>2, Zenon DEF SessionOK, Ids
  <2>9. iso[s] = "rr" => \A k \in see.active, l \in mine \cup {new} : Saw(k, l) => k.id \in gone
    BY <2>1, Zenon DEF SessionOK, Saw, Ids
  <2>10. KeyTable(see) /\ Later(see, DB) /\ \A n \in gone : n <= keySeq + 1
    <3>1. KeyTable(see) /\ Later(see, DB) /\ \A n \in gone : n <= keySeq
      BY <2>1, Zenon DEF SessionOK
    <3>2. \A n \in Nat : n <= keySeq => n <= keySeq + 1
      BY <1>seq
    <3> QED BY <2>2, <3>1, <3>2, Zenon
  <2>11. /\ Ids(DB.active \cap see.keys) \subseteq gone
         /\ iso[s] = "rr" => Ids(see.active) \subseteq gone
    BY <2>1, Zenon DEF SessionOK
  <2>12. CASE purpose = "classical"
    <3>1. InUse(mine, gone) = {}
      BY <2>1, <2>12, Zenon DEF SessionOK
    <3>2. \E m \in mine \cup {new} : /\ InUse(mine \cup {new}, gone) = {m} /\ m.purpose = "classical"
                                     /\ \A n \in gone : n < m.id
      BY <1>2, <2>2, <2>5, <2>12, <3>1, Zenon
    <3>3. SessionOK(DB, keySeq + 1, "pqc", iso[s], see, gone, mine \cup {new})
      BY <2>7, <2>8, <2>9, <2>10, <2>11, <3>2, ZenonT(40) DEF SessionOK, Purposes
    <3> QED BY <1>3, <2>4, <2>12, <3>3, Zenon DEF see, gone
  <2>13. CASE purpose = "pqc"
    <3>1. PICK m \in mine : /\ InUse(mine, gone) = {m} /\ m.purpose = "classical"
                            /\ \A n \in gone : n < m.id
      BY <2>1, <2>13, Zenon DEF SessionOK
    <3>2. InUse(mine \cup {new}, gone) = {m, new}
      BY <2>5, <3>1, Zenon
    <3>3. \A n \in gone, q \in Purposes : Outlives(n, q, {m, new})
      BY <1>2, <2>2, <2>13, <3>1, Zenon DEF Outlives, Purposes
    <3>4. ASSUME NEW k \in mine \cup {new}, NEW q \in Purposes PROVE Covers(k, q, {m, new})
      <4>1. m.id \in Nat /\ new.id \in Nat /\ m.id < new.id
        BY <2>3, <1>2, <1>4, SMTT(30), Z3T(30)
      <4>2. CASE q = "pqc"
        <5>1. k.id <= new.id
          BY <2>3, <4>1
        <5> QED BY <1>2, <2>13, <4>2, <5>1, Zenon DEF Covers
      <4>3. CASE q = "classical"
        <5>1. CASE k = new
          BY <1>2, <2>13, <3>1, <4>3, <5>1, Zenon DEF Covers
        <5>2. CASE k = m
          BY <3>1, <4>1, <4>3, <5>2, SMTT(30), Z3T(30) DEF Covers
        <5>3. CASE k \in mine /\ k # m
          <6>1. k.id \in gone
            BY <3>1, <5>3, Zenon DEF InUse
          <6>2. k.id < m.id /\ k.id \in Nat
            BY <2>3, <3>1, <5>3, <6>1, Zenon
          <6>3. k.id <= m.id
            BY <4>1, <6>2
          <6> QED BY <3>1, <4>3, <6>3, Zenon DEF Covers
        <5> QED BY <5>1, <5>2, <5>3, Zenon
      <4> QED BY <4>2, <4>3, Zenon DEF Purposes
    <3>5. SessionOK(DB, keySeq + 1, "open", iso[s], see, gone, mine \cup {new})
      BY <2>7, <2>8, <2>9, <2>10, <3>2, <3>3, <3>4, ZenonT(40) DEF SessionOK, Purposes
    <3> QED BY <1>3, <2>4, <2>13, <3>5, Zenon DEF see, gone
  <2> QED BY <2>12, <2>13, Zenon DEF Purposes
<1>13. \A t \in Sessions : SessionOK(DB', keySeq', pc'[t], iso'[t], snap'[t], off'[t], made'[t])
  <2> SUFFICES ASSUME NEW t \in Sessions
               PROVE  SessionOK(DB', keySeq', pc'[t], iso'[t], snap'[t], off'[t], made'[t])
    BY Zenon
  <2>1. CASE t = s
    BY <1>1, <1>5, <1>12, <2>1
  <2>2. CASE t # s
    BY <1>1, <1>5, <1>11, <2>2, Zenon
  <2> QED BY <2>1, <2>2, Zenon
<1>14. /\ \A i \in DOMAIN dbs' : KeyTable(dbs'[i])
       /\ \A i, j \in DOMAIN dbs' : i <= j => Later(dbs'[i], dbs'[j])
  BY <1>1, Zenon DEF KeyInv
<1> QED BY <1>8, <1>9, <1>10, <1>13, <1>14, Zenon DEF KeyInv

\* The end of a transaction, of which the committed state `new' is the outcome.
LEMMA KeysEnd ==
    ASSUME TypeInv, KeyInv, NEW s \in Sessions, EndTransaction(s), keySeq' = keySeq,
           Later(DB, DB'), DB'.keys \subseteq DB.keys \cup made[s], DB'.active \subseteq DB'.keys,
           \A i \in DOMAIN dbs' : KeyTable(dbs'[i]),
           \A i, j \in DOMAIN dbs' : i <= j => Later(dbs'[i], dbs'[j])
    PROVE  KeyInv'
<1>1. /\ pc'[s] = "idle" /\ iso'[s] = "rc" /\ snap'[s] = NoDB
      /\ own'[s] = {} /\ off'[s] = {} /\ made'[s] = {}
      /\ \A t \in Sessions \ {s} :
            /\ pc'[t] = pc[t] /\ iso'[t] = iso[t] /\ snap'[t] = snap[t]
            /\ own'[t] = own[t] /\ off'[t] = off[t] /\ made'[t] = made[t]
  BY Zenon DEF EndTransaction, TypeInv, TypeOK
<1>2. /\ keySeq \in Nat /\ keySeq <= keySeq /\ \A t \in Sessions : off[t] \in SUBSET Nat
  <2>1. keySeq \in Nat /\ \A t \in Sessions : off[t] \in SUBSET Nat
    BY KeysNow, Zenon
  <2>2. \A n \in Nat : n <= n
    BY SMTT(30), Z3T(30)
  <2> QED BY <2>1, <2>2, Zenon
<1>3. AllKeys' \subseteq AllKeys
  <2>1. \A t \in Sessions : made'[t] \subseteq made[t]
    BY <1>1, Zenon
  <2>2. ASSUME NEW k \in AllKeys' PROVE k \in AllKeys
    <3>1. k \in DB'.keys \/ \E t \in Sessions : k \in made'[t]
      BY Zenon DEF AllKeys
    <3>2. k \in DB.keys \cup made[s] \/ \E t \in Sessions : k \in made[t]
      BY <2>1, <3>1, Zenon
    <3> QED BY <3>2, Zenon DEF AllKeys
  <2> QED BY <2>2, Zenon
<1>4. /\ \A k \in AllKeys' : k.id <= keySeq'
      /\ \A k, l \in AllKeys' : k.id = l.id => k = l
  BY <1>3, ZenonT(40) DEF KeyInv
<1>5. /\ \A t \in Sessions : made'[t] \cap DB'.keys = {}
      /\ \A t, u \in Sessions : t # u => made'[t] \cap made'[u] = {}
  <2>1. \A t \in Sessions \ {s} : made[t] \cap DB'.keys = {}
    BY Zenon DEF KeyInv
  <2>2. \A t, u \in Sessions : t # u => made[t] \cap made[u] = {}
    BY Zenon DEF KeyInv
  <2>3. ASSUME NEW t \in Sessions PROVE made'[t] \cap DB'.keys = {}
    <3>1. CASE t = s
      BY <1>1, <3>1, Zenon
    <3>2. CASE t # s
      BY <1>1, <2>1, <3>2, Zenon
    <3> QED BY <3>1, <3>2, Zenon
  <2>4. ASSUME NEW t \in Sessions, NEW u \in Sessions, t # u PROVE made'[t] \cap made'[u] = {}
    <3>1. CASE t = s \/ u = s
      BY <1>1, <3>1, Zenon
    <3>2. CASE t # s /\ u # s
      BY <1>1, <2>2, <2>4, <3>2, Zenon
    <3> QED BY <3>1, <3>2, Zenon
  <2> QED BY <2>3, <2>4, Zenon
<1>6. \A k \in DB'.active, l \in DB.keys : k.id = l.id => k \in DB.keys
  <2> SUFFICES ASSUME NEW k \in DB'.active, NEW l \in DB.keys, k.id = l.id PROVE k \in DB.keys
    BY Zenon
  <2>1. k \in AllKeys /\ l \in AllKeys
    BY Zenon DEF AllKeys
  <2>2. k = l
    BY <2>1, Zenon DEF KeyInv
  <2> QED BY <2>2, Zenon
<1>7. \A t \in Sessions : SessionOK(DB', keySeq', pc'[t], iso'[t], snap'[t], off'[t], made'[t])
  <2> TAKE t \in Sessions
  <2>1. CASE t = s
    <3>1. SessionOK(DB', keySeq', "idle", "rc", NoDB, {}, {})
      BY NoTransaction, Zenon
    <3> QED BY <1>1, <2>1, <3>1, ZenonT(40)
  <2>2. CASE t # s
    <3>1. SessionOK(DB, keySeq, pc[t], iso[t], snap[t], off[t], made[t])
      BY Zenon DEF KeyInv
    <3>2. SessionOK(DB', keySeq, pc[t], iso[t], snap[t], off[t], made[t])
      BY <1>2, <1>6, <3>1, OthersCommit, Zenon
    <3> QED BY <1>1, <2>2, <3>2, Zenon
  <2> QED BY <2>1, <2>2, Zenon
<1>8. \A t \in Sessions : \A e \in own'[t] : SignedWith(e, DB'.keys \cup made'[t])
  <2> SUFFICES ASSUME NEW t \in Sessions \ {s}, NEW e \in own[t]
               PROVE  SignedWith(e, DB'.keys \cup made[t])
    BY <1>1, ZenonT(40)
  <2>1. SignedWith(e, DB.keys \cup made[t]) /\ DB.keys \subseteq DB'.keys
    BY Zenon DEF KeyInv, Later
  <2> QED BY <2>1, SignedMore
<1> QED BY <1>4, <1>5, <1>7, <1>8, Zenon DEF KeyInv

\* COMMIT makes a transaction's keys active and those it retired inactive.
LEMMA KeysCommit ==
    ASSUME TypeInv, KeyInv, NEW s \in Sessions, Commit(s)
    PROVE  KeyInv'
<1>1. /\ DB \in DBs /\ KeyTable(DB) /\ off[s] \in SUBSET Nat /\ made[s] \in SUBSET Keys
      /\ \A i \in DOMAIN dbs : Later(dbs[i], DB)
  BY KeysNow, Zenon
<1>2. SessionOK(DB, keySeq, pc[s], iso[s], snap[s], off[s], made[s])
  BY DEF KeyInv
<1>3. pc[s] \notin Purposes
  BY Zenon DEF Commit, Purposes
<1>4. \A k \in DB.keys, l \in made[s] : k.id # l.id
  <2> SUFFICES ASSUME NEW k \in DB.keys, NEW l \in made[s], k.id = l.id PROVE FALSE
    OBVIOUS
  <2>1. k \in AllKeys /\ l \in AllKeys
    BY Zenon DEF AllKeys
  <2>2. k = l
    BY <2>1, Zenon DEF KeyInv
  <2> QED BY <2>2, Zenon DEF KeyInv
<1>5. \A e \in own[s] : SignedWith(e, DB.keys \cup made[s])
  BY Zenon DEF KeyInv
<1> DEFINE new == Committed(s)
<1>6. /\ new.log = DB.log \cup own[s] /\ new.keys = DB.keys \cup made[s]
      /\ \A k : k \in new.active <=> k \in DB.active \cup made[s] /\ k.id \notin off[s]
  BY Zenon DEF Committed
<1> HIDE DEF new
<1>7. KeyTable(new) /\ Later(DB, new)
  BY <1>1, <1>2, <1>3, <1>4, <1>5, <1>6, CommitTable, ZenonT(40)
<1>8. new.keys = DB.keys \cup made[s] /\ new.active \subseteq new.keys
  BY <1>6, <1>7, Zenon DEF KeyTable
<1>9. /\ dbs' = IF new = DB THEN dbs ELSE Append(dbs, new)
      /\ EndTransaction(s) /\ keySeq' = keySeq
      /\ dbs \in Seq(DBs) /\ Len(dbs) \in Nat \ {0}
  BY CurrentDB, Zenon DEF Commit, new, TypeInv, TypeOK
<1>10. /\ DB' = new
       /\ \A i \in DOMAIN dbs' : KeyTable(dbs'[i])
       /\ \A i, j \in DOMAIN dbs' : i <= j => Later(dbs'[i], dbs'[j])
  <2>1. CASE new = DB
    BY <1>9, <2>1, Zenon DEF DB, KeyInv
  <2>2. CASE new # DB
    <3>1. /\ dbs' = Append(dbs, new)
          /\ Len(dbs') = Len(dbs) + 1
          /\ DOMAIN dbs' = 1 .. Len(dbs) + 1 /\ DOMAIN dbs = 1 .. Len(dbs)
          /\ \A i \in DOMAIN dbs : dbs'[i] = dbs[i]
          /\ dbs'[Len(dbs) + 1] = new
      BY <1>9, <2>2
    <3>2. DB' = new
      BY <3>1, Zenon DEF DB
    <3>3. \A i \in DOMAIN dbs : Later(dbs[i], new)
      BY <1>1, <1>7, LaterThan, Zenon
    <3>4. Later(new, new)
      BY <1>8, LaterThan, Zenon
    <3>5. \A i \in DOMAIN dbs' : i \in DOMAIN dbs \/ i = Len(dbs) + 1
      BY <1>9, <3>1
    <3>6. \A i \in DOMAIN dbs' : KeyTable(dbs'[i])
      BY <1>7, <3>1, <3>5, Zenon DEF KeyInv
    <3>7. ASSUME NEW i \in DOMAIN dbs', NEW j \in DOMAIN dbs', i <= j PROVE Later(dbs'[i], dbs'[j])
      <4>1. CASE j = Len(dbs) + 1
        BY <3>1, <3>3, <3>4, <3>5, <4>1, Zenon
      <4>2. CASE j \in DOMAIN dbs
        <5>1. i \in DOMAIN dbs
          BY <1>9, <3>1, <3>7, <4>2, SMTT(30), Z3T(30)
        <5> QED BY <3>1, <3>7, <4>2, <5>1, Zenon DEF KeyInv
      <4> QED BY <3>5, <4>1, <4>2, Zenon
    <3> QED BY <3>2, <3>6, <3>7, Zenon
  <2> QED BY <2>1, <2>2, Zenon
<1> QED BY <1>7, <1>8, <1>9, <1>10, KeysEnd, Zenon

\* An abort, a flush and a crash.
LEMMA KeysLoss ==
    ASSUME TypeInv, KeyInv, TypeInv', (\E s \in Sessions : Abort(s)) \/ Flush \/ Crash
    PROVE  KeyInv'
<1>1. /\ DB \in DBs /\ KeyTable(DB) /\ Later(DB, DB) /\ keySeq \in Nat
      /\ \A i \in DOMAIN dbs : dbs[i] \in DBs /\ Later(dbs[i], DB)
  BY KeysNow, LaterThan, Zenon DEF KeyTable
<1>2. ASSUME NEW s \in Sessions, Abort(s) PROVE KeyInv'
  <2>1. EndTransaction(s) /\ keySeq' = keySeq /\ dbs' = dbs
    BY <1>2 DEF Abort
  <2>2. DB' = DB
    BY <2>1, Zenon DEF DB
  <2>3. /\ \A i \in DOMAIN dbs' : KeyTable(dbs'[i])
        /\ \A i, j \in DOMAIN dbs' : i <= j => Later(dbs'[i], dbs'[j])
    BY <2>1, Zenon DEF KeyInv
  <2>4. DB.active \subseteq DB.keys
    BY <1>1, Zenon DEF KeyTable
  <2> QED BY <1>1, <2>1, <2>2, <2>3, <2>4, KeysEnd, Zenon
<1>3. CASE Flush
  <2>1. dbs' = <<DB>> /\ UNCHANGED <<keySeq, pc, iso, snap, own, off, made>>
    BY <1>3, Zenon DEF Flush, sessVars
  <2>2. DB' = DB /\ DOMAIN dbs' = {1} /\ dbs'[1] = DB
    BY <2>1 DEF DB
  <2>3. AllKeys' = AllKeys
    BY <2>1, <2>2, Zenon DEF AllKeys
  <2>4. /\ \A i \in DOMAIN dbs' : KeyTable(dbs'[i])
        /\ \A i, j \in DOMAIN dbs' : i <= j => Later(dbs'[i], dbs'[j])
    BY <1>1, <2>2, Zenon
  <2>5. /\ \A k \in AllKeys' : k.id <= keySeq'
        /\ \A k, l \in AllKeys' : k.id = l.id => k = l
        /\ \A t \in Sessions : made'[t] \cap DB'.keys = {}
        /\ \A t, u \in Sessions : t # u => made'[t] \cap made'[u] = {}
    BY <2>1, <2>2, <2>3, Zenon DEF KeyInv
  <2>6. /\ \A t \in Sessions : SessionOK(DB', keySeq', pc'[t], iso'[t], snap'[t], off'[t], made'[t])
        /\ \A t \in Sessions : \A e \in own'[t] : SignedWith(e, DB'.keys \cup made'[t])
    BY <2>1, <2>2, Zenon DEF KeyInv
  <2> QED BY <2>4, <2>5, <2>6, Zenon DEF KeyInv
<1>4. CASE Crash
  <2>1. PICK i \in DOMAIN dbs : dbs' = <<dbs[i]>> /\ keySeq' \in Largest(Ids(dbs[i].keys)) .. keySeq
    BY <1>4, ZenonT(40) DEF Crash
  <2>2. \A t \in Sessions : /\ pc'[t] = "idle" /\ iso'[t] = "rc" /\ snap'[t] = NoDB
                            /\ own'[t] = {} /\ off'[t] = {} /\ made'[t] = {}
    BY <1>4, Zenon DEF Crash
  <2>3. DB' = dbs[i] /\ DOMAIN dbs' = {1} /\ dbs'[1] = dbs[i]
    <3>1. dbs' = <<dbs[i]>>
      BY <2>1, Zenon
    <3>2. Len(dbs') = 1 /\ DOMAIN dbs' = {1} /\ dbs'[1] = dbs[i]
      BY <3>1
    <3> QED BY <3>2, Zenon DEF DB
  <2>4. KeyTable(dbs[i]) /\ Later(dbs[i], dbs[i])
    BY LaterThan, Zenon DEF KeyInv, KeyTable
  <2>5. /\ \A j \in DOMAIN dbs' : KeyTable(dbs'[j])
        /\ \A j, k \in DOMAIN dbs' : j <= k => Later(dbs'[j], dbs'[k])
    BY <2>3, <2>4, Zenon
  <2>6. AllKeys' = dbs[i].keys
    <3>1. DB'.keys = dbs[i].keys /\ \A t \in Sessions : made'[t] = {}
      BY <2>2, <2>3, Zenon
    <3> QED BY <3>1, Zenon DEF AllKeys
  <2>7. AllKeys' \subseteq AllKeys
    BY <1>1, <2>6, Zenon DEF AllKeys, Later
  <2>8. \A k \in AllKeys' : k.id <= keySeq'
    <3>1. dbs[i].keys \in SUBSET Keys
      BY <1>1, Zenon DEF DBs
    <3>2. Ids(dbs[i].keys) \in SUBSET (1 .. MaxKey)
      BY <3>1, Zenon DEF Ids, Keys
    <3>3. /\ Largest(Ids(dbs[i].keys)) \in 0 .. MaxKey
          /\ \A n \in Ids(dbs[i].keys) : n <= Largest(Ids(dbs[i].keys))
      BY <3>2, AuditAssumption, LargestIn, Zenon
    <3>4. \A k \in AllKeys' : k.id \in Ids(dbs[i].keys) /\ k.id \in Nat
      BY <2>6, <3>2 DEF Ids
    <3> QED BY <1>1, <2>1, <3>3, <3>4, SMTT(30), Z3T(30)
  <2>9. \A k, l \in AllKeys' : k.id = l.id => k = l
    BY <2>7, Zenon DEF KeyInv
  <2>10. \A t \in Sessions : SessionOK(DB', keySeq', pc'[t], iso'[t], snap'[t], off'[t], made'[t])
    BY <2>2, NoTransaction, ZenonT(40)
  <2> QED BY <2>2, <2>5, <2>8, <2>9, <2>10, Zenon DEF KeyInv
<1> QED BY <1>2, <1>3, <1>4, Zenon

\* No keys yet.
LEMMA KeysInit == Init => KeyInv
<1> SUFFICES ASSUME Init PROVE KeyInv
  OBVIOUS
<1>1. DOMAIN dbs = {1} /\ dbs[1] = NoDB /\ DB = NoDB
  BY SMTT(30), Z3T(30) DEF Init, DB
<1>2. KeyTable(NoDB) /\ Later(NoDB, NoDB) /\ NoDB.keys = {}
  BY EmptyTable, LaterThan, Zenon DEF NoDB
<1>3. \A s \in Sessions : /\ pc[s] = "idle" /\ iso[s] = "rc" /\ snap[s] = NoDB
                          /\ own[s] = {} /\ off[s] = {} /\ made[s] = {}
  BY Zenon DEF Init
<1>4. AllKeys = {}
  BY <1>1, <1>2, <1>3, SMTT(30), Z3T(30) DEF AllKeys
<1>5. \A s \in Sessions : SessionOK(DB, keySeq, pc[s], iso[s], snap[s], off[s], made[s])
  BY <1>3, NoTransaction, Zenon
<1>6. /\ \A i \in DOMAIN dbs : dbs[i] = NoDB
      /\ \A s, t \in Sessions : made[s] \cap made[t] = {} /\ made[s] \cap DB.keys = {}
      /\ \A s \in Sessions : \A e \in own[s] : FALSE
  BY <1>1, <1>3, Zenon
<1> QED BY <1>2, <1>4, <1>5, <1>6, Zenon DEF KeyInv

\* Every step keeps the keys in order.
LEMMA KeysStep == TypeInv /\ KeyInv /\ [Next]_vars => KeyInv'
<1> SUFFICES ASSUME TypeInv, KeyInv, [Next]_vars PROVE KeyInv'
  OBVIOUS
<1>1. TypeInv'
  BY TypeStep, SMTT(30), Z3T(30)
<1>2. CASE UNCHANGED vars
  <2>1. UNCHANGED <<dbs, keySeq, pc, iso, snap, own, off, made>>
    BY <1>2, SMTT(30), Z3T(30) DEF vars, sessVars
  <2>2. DB' = DB /\ AllKeys' = AllKeys
    BY <2>1, Zenon DEF DB, AllKeys
  <2> QED BY <2>1, <2>2, Zenon DEF KeyInv
<1>3. CASE Next
  BY <1>1, <1>3, KeysSnapshot, KeysDeactivate, KeysLogging, KeysInsert, KeysCommit, KeysLoss, SMTT(30), Z3T(30) DEF Next
<1> QED BY <1>2, <1>3

\* Types and keys together.
LEMMA KeysAlways == Spec => [](TypeInv /\ KeyInv)
<1>1. Init => TypeInv
  BY ChainInit DEF ChainInv
<1> QED BY <1>1, KeysInit, KeysStep, TypeStep, PTL DEF Spec

\* pqc_audit_init_keys: whatever interleaves, aborts or is lost in a crash, once
\* there are keys every committed state has an active one of each kind.
THEOREM AuditKeysComplete == Spec => []KeysStayComplete
<1>1. TypeInv /\ KeyInv => KeysStayComplete
  <2> SUFFICES ASSUME TypeInv, KeyInv, NEW i \in DOMAIN dbs, dbs[i].keys # {},
                      NEW purpose \in Purposes
               PROVE  LoadAuditKey(dbs[i].active, purpose) # 0
    BY Zenon DEF KeysStayComplete
  <2>1. PICK k \in dbs[i].keys : TRUE
    BY Zenon
  <2>2. Covers(k, purpose, dbs[i].active)
    BY Zenon DEF KeyInv, KeyTable
  <2>3. dbs[i].active \in SUBSET Keys
    BY KeysNow, Zenon DEF DBs
  <2> QED BY <2>2, <2>3, LoadAuditKeyType, Zenon DEF Covers
<1> QED BY <1>1, KeysAlways, PTL

\* audit_log_ddl_event: the two keys of a row are of one pqc_audit_init_keys call
\* or of calls that did not see each other, for any number of sessions.
THEOREM AuditPairs == Spec => []PairsMixOnlyWhenConcurrent
<1>1. TypeInv /\ KeyInv => PairsMixOnlyWhenConcurrent
  <2> SUFFICES ASSUME TypeInv, KeyInv, NEW e \in DB.log, NEW k \in DB.keys, NEW l \in DB.keys,
                      e.ckey = k.id, e.pkey = l.id
               PROVE  k.id \notin l.saw /\ l.id \notin k.saw
    BY Zenon DEF PairsMixOnlyWhenConcurrent
  <2>1. PICK c \in DB.keys, p \in DB.keys :
            e.ckey = c.id /\ e.pkey = p.id /\ ~Saw(c, p) /\ ~Saw(p, c)
    BY KeysNow, Zenon DEF KeyTable, SignedWith
  <2>2. c = k /\ p = l
    BY <2>1, Zenon DEF KeyInv, AllKeys
  <2> QED BY <2>1, <2>2, Zenon DEF Saw
<1> QED BY <1>1, KeysAlways, PTL

\* pqc_audit_verify_chain: a row verifies with the active keys exactly until
\* newer ones are committed, for any number of sessions and calls.
THEOREM AuditVerifies == Spec => []VerifiesUntilReplaced
<1>1. TypeInv /\ KeyInv => VerifiesUntilReplaced
  <2> SUFFICES ASSUME TypeInv, KeyInv, NEW e \in DB.log, NEW purpose \in Purposes,
                      NEW key, key = IF purpose = "classical" THEN e.ckey ELSE e.pkey
               PROVE  key = LoadAuditKey(DB.active, purpose)
                        <=> ~\E k \in DB.active : k.purpose = purpose /\ k.id > key
    BY Zenon DEF VerifiesUntilReplaced, VerifySignature
  <2>1. DB \in DBs /\ KeyTable(DB)
    BY KeysNow, SMTT(30), Z3T(30)
  <2>2. PICK k \in DB.keys : k.id = key /\ k.purpose = purpose
    BY <2>1, Zenon DEF KeyTable, SignedWith, Purposes
  <2>3. PICK m \in DB.active : m.purpose = purpose /\ k.id <= m.id
    BY <2>1, <2>2, Zenon DEF KeyTable, Covers
  <2>4. DB.active \in SUBSET Keys /\ k \in Keys
    BY <2>1, Zenon DEF DBs
  <2>5. \A j \in DB.active : j.id \in Nat
    BY <2>4, KeyNats, Zenon
  <2>6. key \in Nat
    BY <2>2, <2>4, KeyNats, Zenon
  <2> DEFINE top == LoadAuditKey(DB.active, purpose)
  <2>7. /\ top \in Nat /\ top # 0
        /\ \E j \in DB.active : j.id = top /\ j.purpose = purpose
        /\ \A j \in DB.active : j.purpose = purpose => j.id <= top
    <3>1. top \in 0 .. MaxKey /\ top # 0
      BY <2>3, <2>4, LoadAuditKeyType, Zenon
    <3> QED BY <2>4, <3>1, LoadedKey, AuditAssumption
  <2> HIDE DEF top
  <2>8. m.id <= top /\ key <= m.id /\ m.id \in Nat
    BY <2>2, <2>3, <2>5, <2>7, Zenon
  <2>9. CASE key = top
    <3>1. \A j \in DB.active : j.purpose = purpose => ~(j.id > key)
      BY <2>5, <2>6, <2>7, <2>9, SMTT(30), Z3T(30)
    <3> QED BY <2>9, <3>1, Zenon DEF top
  <2>10. CASE key # top
    <3>1. top > key
      BY <2>6, <2>7, <2>8, <2>10, SMTT(30), Z3T(30)
    <3>2. \E j \in DB.active : j.purpose = purpose /\ j.id > key
      BY <2>7, <3>1
    <3> QED BY <2>10, <3>2, Zenon DEF top
  <2> QED BY <2>9, <2>10, SMTT(30), Z3T(30)
<1> QED BY <1>1, KeysAlways, PTL
=============================================================================
