------------------------------ MODULE AuditLog ------------------------------
(***************************************************************************)
(* The audit log of contrib/pgcrypto_pqc: sessions whose audited           *)
(* statements append signed, hash-chained rows to pqc_audit_log, and       *)
(* pqc_audit_init_keys, which replaces the signing keys, in transactions   *)
(* that interleave, abort and are lost in a crash.                         *)
(*                                                                         *)
(* A row's hash is known by its log_id; a signature by the key_id of the   *)
(* key that made it.  The statement's other contents are left out: they go *)
(* into the hash and change nothing else.                                  *)
(***************************************************************************)
EXTENDS Naturals, Sequences, FiniteSets

CONSTANTS
    Sessions,
    MaxId,            \* bound: log_id values drawn
    MaxKey,           \* bound: key_id values drawn
    MaxUnflushed      \* bound: commits not flushed yet

ASSUME AuditAssumption ==
    MaxId \in Nat /\ MaxKey \in Nat /\ MaxUnflushed \in Nat \ {0}

VARIABLES
    dbs,              \* committed states since the last flush of WAL, newest last
    logSeq, keySeq,   \* last values of the sequences behind log_id and key_id
    pc,               \* what each session is at
    iso,              \* its transaction's isolation level
    snap,             \* its active snapshot: the committed state it sees
    own,              \* rows of pqc_audit_log its transaction has inserted
    off,              \* key_ids its transaction has set inactive (row locks)
    made              \* keys its transaction has inserted

sessVars == <<pc, iso, snap, own, off, made>>
vars == <<dbs, logSeq, keySeq, sessVars>>

\* A row of pqc_audit_log.  prev is 0 for NULL; saw is a history field, the rows
\* visible to the statement that wrote it.
Entries ==
    [id : 1 .. MaxId, prev : 0 .. MaxId, ckey : 1 .. MaxKey, pkey : 1 .. MaxKey,
     saw : SUBSET (1 .. MaxId)]

\* A row of pqc_audit_keys.  Two history fields: the call of pqc_audit_init_keys
\* that made it, and the keys visible to that call's UPDATE.
Purposes == {"classical", "pqc"}
Keys == [id : 1 .. MaxKey, purpose : Purposes, call : 1 .. MaxKey,
         saw : SUBSET (1 .. MaxKey)]

\* A committed state: the log, the keys, and those with is_active.
DBs == [log : SUBSET Entries, keys : SUBSET Keys, active : SUBSET Keys]
NoDB == [log |-> {}, keys |-> {}, active |-> {}]

DB == dbs[Len(dbs)]
Ids(rows) == {r.id : r \in rows}
Largest(S) == IF S = {} THEN 0 ELSE CHOOSE n \in S : \A m \in S : m <= n

Init ==
    /\ dbs = <<NoDB>> /\ logSeq = 0 /\ keySeq = 0
    /\ pc = [s \in Sessions |-> "idle"]
    /\ iso = [s \in Sessions |-> "rc"]
    /\ snap = [s \in Sessions |-> NoDB]
    /\ own = [s \in Sessions |-> {}]
    /\ off = [s \in Sessions |-> {}]
    /\ made = [s \in Sessions |-> {}]

-----------------------------------------------------------------------------
\* BEGIN.  The snapshot of a REPEATABLE READ transaction is that of its first
\* statement, taken here.
Begin(s, level) ==
    /\ pc[s] = "idle"
    /\ pc' = [pc EXCEPT ![s] = "open"]
    /\ iso' = [iso EXCEPT ![s] = level]
    /\ snap' = [snap EXCEPT ![s] = DB]
    /\ UNCHANGED <<dbs, logSeq, keySeq, own, off, made>>

\* A statement of READ COMMITTED gets a snapshot of its own.
Snapshot(s) == IF iso[s] = "rc" THEN DB ELSE snap[s]

\* An audited statement (CREATE, ALTER and DROP ROLE, GRANT, REVOKE, ALTER
\* SYSTEM) takes its snapshot and is executed.
StartStatement(s) ==
    /\ pc[s] = "open"
    /\ pc' = [pc EXCEPT ![s] = "executed"]
    /\ snap' = [snap EXCEPT ![s] = Snapshot(s)]
    /\ UNCHANGED <<dbs, logSeq, keySeq, iso, own, off, made>>

\* The active keys a session sees, its own changes included.
VisibleKeys(s) == {k \in snap[s].active \cup made[s] : k.id \notin off[s]}

\* Mutant: the keys are ordered the other way round.
LoadAuditKeyOldest(keys, purpose) ==
    LET ids == Ids({k \in keys : k.purpose = purpose}) IN
    IF ids = {} THEN 0 ELSE CHOOSE n \in ids : \A m \in ids : n <= m

\* load_audit_key: the active key of highest key_id, 0 if there is none.
LoadAuditKey(keys, purpose) ==
    Largest(Ids({k \in keys : k.purpose = purpose}))

\* Mutant: the chain goes on from the last log_id given out, committed or not.
GetPrevHashNewest(s) == logSeq

\* Mutant: the transaction's own rows are not visible.
GetPrevHashCommitted(s) == Largest(Ids(snap[s].log))

\* get_prev_hash, under the snapshot of the statement.
GetPrevHash(s) == Largest(Ids(snap[s].log \cup own[s]))

\* Mutant: the second key is read with a snapshot of its own.
LogEntryFreshSnapshot(s) ==
    LET ckey == LoadAuditKey(VisibleKeys(s), "classical")
        pkey == LoadAuditKey(DB.active, "pqc")
    IN
    /\ ckey # 0 /\ pkey # 0 /\ logSeq < MaxId
    /\ logSeq' = logSeq + 1
    /\ own' = [own EXCEPT ![s] = @ \cup
            {[id |-> logSeq + 1, prev |-> GetPrevHash(s), ckey |-> ckey,
              pkey |-> pkey, saw |-> Ids(snap[s].log \cup own[s])]}]

\* audit_log_ddl_event, called by the hook after the statement: with both keys
\* at hand the row is signed, chained and inserted; log_id is drawn last.
LogEntry(s) ==
    LET keys == VisibleKeys(s)
        ckey == LoadAuditKey(keys, "classical")
        pkey == LoadAuditKey(keys, "pqc")
    IN
    /\ ckey # 0 /\ pkey # 0 /\ logSeq < MaxId
    /\ logSeq' = logSeq + 1
    /\ own' = [own EXCEPT ![s] = @ \cup
            {[id |-> logSeq + 1, prev |-> GetPrevHash(s), ckey |-> ckey,
              pkey |-> pkey, saw |-> Ids(snap[s].log \cup own[s])]}]

\* Auditing is off or does not cover the statement, a key is missing, signing
\* fails, or an error is caught by the hook: a WARNING at most, and no row.
NoEntry(s) == UNCHANGED <<logSeq, own>>

ProcessUtility(s) ==
    /\ pc[s] = "executed"
    /\ LogEntry(s) \/ NoEntry(s)
    /\ pc' = [pc EXCEPT ![s] = "open"]
    /\ UNCHANGED <<dbs, keySeq, iso, snap, off, made>>
-----------------------------------------------------------------------------
\* pqc_audit_init_keys takes the snapshot of its UPDATE.
StartInitKeys(s) ==
    /\ pc[s] = "open" /\ keySeq < MaxKey
    /\ snap' = [snap EXCEPT ![s] = Snapshot(s)]
    /\ pc' = [pc EXCEPT ![s] = "update"]
    /\ UNCHANGED <<dbs, logSeq, keySeq, iso, own, off, made>>

\* The UPDATE of all active keys waits for transactions that have updated some
\* of them; then it skips those that are inactive by now (READ COMMITTED), or
\* the transaction fails (REPEATABLE READ, see Abort).
DeactivateKeys(s) ==
    LET mine == Ids(VisibleKeys(s) \cap (DB.active \cup made[s])) IN
    /\ pc[s] = "update"
    /\ \A t \in Sessions \ {s} : off[t] \cap mine = {}
    /\ iso[s] = "rr" => snap[s].active \subseteq DB.active
    /\ off' = [off EXCEPT ![s] = @ \cup mine]
    /\ pc' = [pc EXCEPT ![s] = "classical"]
    /\ UNCHANGED <<dbs, logSeq, keySeq, iso, snap, own, made>>

\* Mutant: the call returns before the second INSERT.
InsertKeyFirst(s, purpose) ==
    /\ pc[s] = purpose /\ keySeq < MaxKey
    /\ keySeq' = keySeq + 1
    /\ made' = [made EXCEPT ![s] = @ \cup
            {[id |-> keySeq + 1, purpose |-> purpose, call |-> keySeq + 1,
              saw |-> Ids(snap[s].keys)]}]
    /\ pc' = [pc EXCEPT ![s] = "open"]
    /\ UNCHANGED <<dbs, logSeq, iso, snap, own, off>>

\* The two INSERTs.
InsertKey(s, purpose) ==
    /\ pc[s] = purpose /\ keySeq < MaxKey
    /\ keySeq' = keySeq + 1
    /\ made' = [made EXCEPT ![s] = @ \cup
            {[id |-> keySeq + 1, purpose |-> purpose,
              call |-> IF purpose = "classical" THEN keySeq + 1
                       ELSE LoadAuditKey(made[s], "classical"),
              saw |-> Ids(snap[s].keys)]}]
    /\ pc' = [pc EXCEPT ![s] = IF purpose = "classical" THEN "pqc" ELSE "open"]
    /\ UNCHANGED <<dbs, logSeq, iso, snap, own, off>>
-----------------------------------------------------------------------------
EndTransaction(s) ==
    /\ pc' = [pc EXCEPT ![s] = "idle"]
    /\ iso' = [iso EXCEPT ![s] = "rc"]
    /\ snap' = [snap EXCEPT ![s] = NoDB]
    /\ own' = [own EXCEPT ![s] = {}]
    /\ off' = [off EXCEPT ![s] = {}]
    /\ made' = [made EXCEPT ![s] = {}]

\* What a commit makes of the committed state.
Committed(s) ==
    [log |-> DB.log \cup own[s], keys |-> DB.keys \cup made[s],
     active |-> {k \in DB.active \cup made[s] : k.id \notin off[s]}]

\* The commit, flushed at once or later (synchronous_commit = off).
Commit(s) ==
    /\ pc[s] = "open" /\ Len(dbs) <= MaxUnflushed
    /\ dbs' = IF Committed(s) = DB THEN dbs ELSE Append(dbs, Committed(s))
    /\ EndTransaction(s)
    /\ UNCHANGED <<logSeq, keySeq>>

\* ROLLBACK, an error in a statement, a serialization failure, a disconnect.
Abort(s) ==
    /\ pc[s] # "idle"
    /\ EndTransaction(s)
    /\ UNCHANGED <<dbs, logSeq, keySeq>>

\* WAL is flushed up to the newest commit.
Flush ==
    /\ Len(dbs) > 1
    /\ dbs' = <<DB>>
    /\ UNCHANGED <<logSeq, keySeq, sessVars>>

\* A crash: commits that were not flushed are lost, the later before the earlier;
\* so may be what the sequences gave out since, but not what a surviving commit
\* used.
Crash ==
    \E i \in DOMAIN dbs :
        /\ dbs' = <<dbs[i]>>
        /\ logSeq' \in Largest(Ids(dbs[i].log)) .. logSeq
        /\ keySeq' \in Largest(Ids(dbs[i].keys)) .. keySeq
        /\ pc' = [s \in Sessions |-> "idle"]
        /\ iso' = [s \in Sessions |-> "rc"]
        /\ snap' = [s \in Sessions |-> NoDB]
        /\ own' = [s \in Sessions |-> {}]
        /\ off' = [s \in Sessions |-> {}]
        /\ made' = [s \in Sessions |-> {}]

Next ==
    \/ \E s \in Sessions :
        \/ \E level \in {"rc", "rr"} : Begin(s, level)
        \/ \E purpose \in Purposes : InsertKey(s, purpose)
        \/ StartStatement(s) \/ ProcessUtility(s)
        \/ StartInitKeys(s) \/ DeactivateKeys(s)
        \/ Commit(s) \/ Abort(s)
    \/ Flush \/ Crash

Spec == Init /\ [][Next]_vars

-----------------------------------------------------------------------------
\* Type invariant.
TypeOK ==
    /\ dbs \in Seq(DBs) /\ Len(dbs) > 0
    /\ logSeq \in 0 .. MaxId /\ keySeq \in 0 .. MaxKey
    /\ pc \in [Sessions -> {"idle", "open", "executed", "update"} \cup Purposes]
    /\ iso \in [Sessions -> {"rc", "rr"}]
    /\ snap \in [Sessions -> DBs]
    /\ own \in [Sessions -> SUBSET Entries]
    /\ off \in [Sessions -> SUBSET (1 .. MaxKey)]
    /\ made \in [Sessions -> SUBSET Keys]

\* The chain never dangles and never turns back: whatever aborts or is lost in a
\* crash, the row a committed row links to is committed too and has a smaller
\* log_id, and log_id is unique.  get_prev_hash only sees committed rows and
\* those of its own transaction, and log_id is drawn after it.
ChainWellFounded ==
    \A i \in DOMAIN dbs : \A e \in dbs[i].log :
        /\ e.prev # 0 => e.prev < e.id /\ \E f \in dbs[i].log : f.id = e.prev
        /\ \A f \in dbs[i].log : f.id = e.id => f = e

\* The chain forks only between concurrent statements, neither of which had the
\* other's row in its snapshot: sequential statements form one chain.
ForksOnlyWhenConcurrent ==
    \A e, f \in DB.log :
        e # f /\ e.prev = f.prev => e.id \notin f.saw /\ f.id \notin e.saw

\* Replacing the keys is atomic: once there are keys, every committed state has
\* an active key of each kind, and no statement goes unsigned for want of one.
KeysStayComplete ==
    \A i \in DOMAIN dbs : dbs[i].keys # {} =>
        \A purpose \in Purposes : LoadAuditKey(dbs[i].active, purpose) # 0

\* The two signatures of a row are made with keys of one pqc_audit_init_keys
\* call, unless two such calls ran concurrently.
PairsMixOnlyWhenConcurrent ==
    \A e \in DB.log : \A k, l \in DB.keys :
        e.ckey = k.id /\ e.pkey = l.id /\ k.call # l.call
        => k.id \notin l.saw /\ l.id \notin k.saw

\* A row's signature with key_id key is valid: pqc_audit_verify_chain verifies
\* each with the key that is active now, whatever key made it.
VerifySignature(db, key, purpose) == key = LoadAuditKey(db.active, purpose)

\* pqc_audit_verify_chain accepts the signatures of a row until newer keys of
\* their kind are committed, and no longer: racing calls of
\* pqc_audit_init_keys, whichever commits last, take no older key into use.
VerifiesUntilReplaced ==
    \A e \in DB.log : \A purpose \in Purposes :
        LET key == IF purpose = "classical" THEN e.ckey ELSE e.pkey IN
        VerifySignature(DB, key, purpose)
            <=> ~\E k \in DB.active : k.purpose = purpose /\ k.id > key
=============================================================================
