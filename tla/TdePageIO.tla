----------------------------- MODULE TdePageIO -----------------------------
(***************************************************************************)
(* Encryption and decryption of data pages on their way between the buffer *)
(* pool and disk: the TDE hooks of FlushBuffer and WaitReadBuffers in      *)
(* src/backend/storage/buffer/bufmgr.c, tde_page.c, and what else changes  *)
(* the key cache or the pages under them: new tablespace keys, master key  *)
(* rotation, configuration reloads, restarts, and the bulk writer, which   *)
(* writes pages past the hooks.                                            *)
(*                                                                         *)
(* Both hooks look the key up twice: once to decide whether the page is to *)
(* be encrypted at all, and once more inside tde_page_crypt.  The cache    *)
(* lock is free in between, so a page transfer that finds a key is two     *)
(* steps here.                                                             *)
(*                                                                         *)
(* A page image has the content's version (0: an all-zero page, pd_upper   *)
(* = 0), the set of keys whose CTR keystream is XORed over its payload     *)
(* (XOR twice is none: crypting toggles membership), and the content over  *)
(* which pd_checksum was computed.  The header stays in clear text.  The   *)
(* IV depends on the page only, so a key gives one keystream per page.     *)
(***************************************************************************)
EXTENDS TdeKeyArray, FiniteSets

CONSTANTS
    Pages,
    SpaceOf,          \* [Pages -> Oids], a page's tablespace
    MapPages,         \* pages of free space maps and visibility maps
    Procs,            \* backends, checkpointer, background writer
    Postmaster,
    Checksums,        \* DataChecksumsEnabled()
    MaxVersion        \* bound: content versions per page

ASSUME PageAssumption ==
    /\ SpaceOf \in [Pages -> Oids] /\ MapPages \subseteq Pages
    /\ Postmaster \notin Procs
    /\ Checksums \in BOOLEAN
    /\ MaxVersion \in Nat \ {0}

VARIABLES
    conf,             \* tde_enabled in postgresql.conf
    tde_enabled,      \* the GUC in each process
    attached, cache,  \* the key cache, see TdeKeyCache
    usedKeys,         \* keys drawn so far: RAND_bytes repeats none
    buf,              \* shared buffers: NoBuffer or an image with a dirty bit
    disk,             \* what is stored for each page
    latest,           \* history: the version a reader of the page must see
    task,             \* a transfer between its two lookups, per process
    outcome           \* how each process's last transfer ended

confVars == <<conf, tde_enabled>>
keyVars == <<attached, cache, usedKeys>>
pageVars == <<buf, disk, latest>>
vars == <<confVars, keyVars, pageVars, task, outcome>>

Holders == Procs \cup {Postmaster}     \* of the GUC tde_enabled
Versions == 0 .. MaxVersion
NoSum == [none |-> TRUE]
SumOf(img) == [ver |-> img.ver, mask |-> img.mask]
Image == [ver : Versions, mask : SUBSET Keys,
          sum : {NoSum} \cup [ver : Versions, mask : SUBSET Keys]]
ZeroPage == [ver |-> 0, mask |-> {}, sum |-> NoSum]
NoBuffer == [img |-> ZeroPage, dirty |-> FALSE, valid |-> FALSE]
Loaded(img, d) == [img |-> img, dirty |-> d, valid |-> TRUE]
Idle == [op |-> "idle"]

\* Whether a transfer of page b is under way (BM_IO_IN_PROGRESS).
InTransfer(b) == \E p \in Procs : task[p] # Idle /\ task[p].page = b

PageIsNew(img) == img.ver = 0

\* Mutant: the checksum is taken over the encrypted payload.
CryptThenSum(img, k) ==
    LET out == [img EXCEPT !.mask = IF k \in @ THEN @ \ {k} ELSE @ \cup {k}]
    IN  [out EXCEPT !.sum = SumOf(out)]

\* AES-256-CTR over the payload with key k: encryption and decryption alike.
Crypt(img, k) ==
    [img EXCEPT !.mask = IF k \in @ THEN @ \ {k} ELSE @ \cup {k}]

\* PageSetChecksumCopy, PageSetChecksumInplace.
WithChecksum(img) ==
    IF PageIsNew(img) \/ ~Checksums THEN img ELSE [img EXCEPT !.sum = SumOf(img)]

\* PageIsVerifiedExtended: the header is in clear text and always sane, so
\* without checksums only the all-zeroes rule can reject a page.
PageIsVerified(img) ==
    \/ ~PageIsNew(img) /\ (Checksums => img.sum = SumOf(img))
    \/ img = ZeroPage

-----------------------------------------------------------------------------
Init ==
    /\ conf \in BOOLEAN
    /\ tde_enabled = [p \in Holders |-> conf]
    /\ attached = conf
    /\ cache = EmptyCache
    /\ usedKeys = {}
    /\ buf = [b \in Pages |-> NoBuffer]
    /\ disk = [b \in Pages |-> ZeroPage]
    /\ latest = [b \in Pages |-> 0]
    /\ task = [p \in Procs |-> Idle]
    /\ outcome = [p \in Procs |-> "none"]

\* The executor changes a page in the pool, under the content lock that a
\* flush of the page would hold in share mode.  (A hint that leaves the page
\* clean is no version of its own.)
Modify(b) ==
    /\ buf[b].valid /\ ~InTransfer(b) /\ latest[b] < MaxVersion
    /\ latest' = [latest EXCEPT ![b] = @ + 1]
    /\ buf' = [buf EXCEPT ![b] =
                Loaded([@.img EXCEPT !.ver = latest[b] + 1], TRUE)]
    /\ UNCHANGED <<disk, confVars, keyVars, task, outcome>>

\* RelationCopyStorageUsingBuffer copies an all-zero block of the template:
\* the target buffer is zeroed without a read and marked dirty.
CopyZeroPage(b) ==
    /\ ~buf[b].valid /\ ~InTransfer(b) /\ disk[b] = ZeroPage
    /\ buf' = [buf EXCEPT ![b] = Loaded(ZeroPage, TRUE)]
    /\ UNCHANGED <<disk, latest, confVars, keyVars, task, outcome>>

\* A clean, unpinned buffer is reused for another page.
Evict(b) ==
    /\ buf[b].valid /\ ~buf[b].dirty /\ ~InTransfer(b)
    /\ buf' = [buf EXCEPT ![b] = NoBuffer]
    /\ UNCHANGED <<disk, latest, confVars, keyVars, task, outcome>>

\* smgr_bulk_flush (index builds, table rewrites): checksum, then straight to
\* smgrextend or smgrwrite.
BulkWrite(b) ==
    /\ ~buf[b].valid /\ ~InTransfer(b) /\ latest[b] < MaxVersion
    /\ latest' = [latest EXCEPT ![b] = @ + 1]
    /\ disk' = [disk EXCEPT ![b] =
                 WithChecksum([ZeroPage EXCEPT !.ver = latest[b] + 1])]
    /\ UNCHANGED <<buf, confVars, keyVars, task, outcome>>

-----------------------------------------------------------------------------
\* What the first lookup of either hook tells process p about page b: "skip"
\* (TDE off in p, or no key), "crypt", or "error" (TDE on, no cache).
Decide(p, b) ==
    IF ~tde_enabled[p] THEN "skip"
    ELSE IF ~attached THEN "error"
    ELSE IF LookupIn(cache, SpaceOf[b]) = Miss THEN "skip" ELSE "crypt"

Fail(p) == outcome' = [outcome EXCEPT ![p] = "error"]
Succeed(p) == outcome' = [outcome EXCEPT ![p] = "ok"]

\* Mutant: the page is encrypted in the pool, without a copy.
StoreInPlace(b, img) ==
    /\ disk' = [disk EXCEPT ![b] = img]
    /\ buf' = [buf EXCEPT ![b] = Loaded(img, FALSE)]
    /\ UNCHANGED latest

\* smgrwrite and TerminateBufferIO: the stored image replaces the page, the
\* pool's own copy is only marked clean.
Store(b, img) ==
    /\ disk' = [disk EXCEPT ![b] = img]
    /\ buf' = [buf EXCEPT ![b].dirty = FALSE]
    /\ UNCHANGED latest

\* FlushBuffer up to the first lookup.
FlushBuffer(p, b) ==
    LET img == WithChecksum(buf[b].img) IN
    /\ task[p] = Idle
    /\ buf[b].valid /\ buf[b].dirty /\ ~InTransfer(b)
    /\ \/ /\ Decide(p, b) = "skip"
          /\ Store(b, img) /\ Succeed(p) /\ UNCHANGED task
       \/ /\ Decide(p, b) = "error"
          /\ Fail(p) /\ UNCHANGED <<pageVars, task>>
       \/ /\ Decide(p, b) = "crypt"
          /\ task' = [task EXCEPT ![p] = [op |-> "flush", page |-> b, img |-> img]]
          /\ UNCHANGED <<pageVars, outcome>>
    /\ UNCHANGED <<confVars, keyVars>>

\* The versions a crash may leave of page b.  WAL has every change of a page
\* but those of a free space map: they are hints, of which WAL has the image
\* the page was first dirtied with, or none (MarkBufferDirtyHint).
Recovered(b) ==
    IF b \in MapPages /\ buf[b].dirty THEN disk[b].ver .. latest[b] ELSE {latest[b]}

\* The buffer of page b after redo brought it to version v: what was dirty is
\* rebuilt from full-page images, every other buffer is gone.
Rebuilt(b, v) ==
    IF buf[b].dirty /\ (v = latest[b] \/ v # disk[b].ver)
    THEN Loaded([buf[b].img EXCEPT !.ver = v], TRUE)
    ELSE NoBuffer

\* Shared memory is created anew by a postmaster whose tde_enabled is "on":
\* the cache exists if it is set, and is empty.
Reinit(on) ==
    /\ attached' = on
    /\ cache' = EmptyCache
    /\ tde_enabled' = [p \in Holders |-> on]
    /\ \E ver \in [Pages -> Versions] :
        /\ \A b \in Pages : ver[b] \in Recovered(b)
        /\ buf' = [b \in Pages |-> Rebuilt(b, ver[b])]
        /\ latest' = ver
    /\ task' = [p \in Procs |-> Idle]
    /\ outcome' = [p \in Procs |-> "none"]
    /\ UNCHANGED <<conf, usedKeys, disk>>

\* Mutant: a miss at the second lookup falls back to a plain write.
EncryptPageFallback(p) ==
    /\ task[p].op = "flush"
    /\ LET b == task[p].page
           r == LookupIn(cache, SpaceOf[b])
       IN  Store(b, IF r = Miss THEN task[p].img
                                ELSE Crypt(task[p].img, r.key))
    /\ task' = [task EXCEPT ![p] = Idle]
    /\ Succeed(p)
    /\ UNCHANGED <<confVars, keyVars>>

\* Mutant: a miss at the second lookup gives the write up but ends the I/O as
\* if it had succeeded.
EncryptPageAbandon(p) ==
    /\ task[p].op = "flush"
    /\ LET b == task[p].page
           r == LookupIn(cache, SpaceOf[b])
       IN  Store(b, IF r = Miss THEN disk[b] ELSE Crypt(task[p].img, r.key))
    /\ task' = [task EXCEPT ![p] = Idle]
    /\ Succeed(p)
    /\ UNCHANGED <<confVars, keyVars>>

\* tde_encrypt_page: the second lookup.  A miss is a PANIC.
EncryptPage(p) ==
    /\ task[p].op = "flush"
    /\ LET b == task[p].page
           r == LookupIn(cache, SpaceOf[b])
       IN  \/ /\ r # Miss
              /\ Store(b, Crypt(task[p].img, r.key))
              /\ task' = [task EXCEPT ![p] = Idle]
              /\ Succeed(p)
              /\ UNCHANGED <<confVars, keyVars>>
           \/ /\ r = Miss
              /\ Reinit(tde_enabled[Postmaster])

\* The end of WaitReadBuffers: the page enters the pool if it verifies.  If
\* not, a read in mode RBM_ZERO_ON_ERROR, of a map, zeroes it, warns and goes
\* on; one in another mode, which maps are copied in, is an error.
FinishRead(p, b, img) ==
    /\ \/ /\ PageIsVerified(img)
          /\ buf' = [buf EXCEPT ![b] = Loaded(img, FALSE)]
          /\ Succeed(p)
       \/ /\ ~PageIsVerified(img) /\ b \in MapPages
          /\ buf' = [buf EXCEPT ![b] = Loaded(ZeroPage, FALSE)]
          /\ Succeed(p)
       \/ /\ ~PageIsVerified(img)
          /\ Fail(p) /\ UNCHANGED buf
    /\ UNCHANGED <<disk, latest>>

\* WaitReadBuffers up to the first lookup.
ReadBuffer(p, b) ==
    LET todo == IF PageIsNew(disk[b]) THEN "skip" ELSE Decide(p, b) IN
    /\ task[p] = Idle
    /\ ~buf[b].valid /\ ~InTransfer(b)
    /\ \/ /\ todo = "skip"
          /\ FinishRead(p, b, disk[b]) /\ UNCHANGED task
       \/ /\ todo = "error"
          /\ Fail(p) /\ UNCHANGED <<pageVars, task>>
       \/ /\ todo = "crypt"
          /\ task' = [task EXCEPT ![p] = [op |-> "read", page |-> b, img |-> disk[b]]]
          /\ UNCHANGED <<pageVars, outcome>>
    /\ UNCHANGED <<confVars, keyVars>>

\* tde_decrypt_page: the second lookup.  A miss leaves the page as it is.
DecryptPage(p) ==
    /\ task[p].op = "read"
    /\ LET b == task[p].page
           r == LookupIn(cache, SpaceOf[b])
       IN  FinishRead(p, b, IF r = Miss THEN task[p].img
                                        ELSE Crypt(task[p].img, r.key))
    /\ task' = [task EXCEPT ![p] = Idle]
    /\ UNCHANGED <<confVars, keyVars>>

-----------------------------------------------------------------------------
\* tde_generate_tablespace_key, with the master key loaded: a fresh random
\* key becomes the tablespace's active one and is kept nowhere else.
GenerateTablespaceKey(s) ==
    /\ attached
    /\ \E k \in Keys \ usedKeys :
        LET e == [spc_oid |-> s, key |-> k, active |-> TRUE] IN
        /\ TargetSlot(cache, e) # 0
        /\ cache' = InsertAt(cache, TargetSlot(cache, e), e)
        /\ usedKeys' = usedKeys \cup {k}
    /\ UNCHANGED <<attached, confVars, pageVars, task, outcome>>

\* The effect of tde_rotate_master_key on the cache: tde_keycache_invalidate.
RotateMasterKey ==
    /\ attached
    /\ cache' = EmptyCache
    /\ UNCHANGED <<attached, usedKeys, confVars, pageVars, task, outcome>>

\* The administrator edits tde_enabled, a PGC_SIGHUP setting.
EditConf ==
    /\ conf' = ~conf
    /\ UNCHANGED <<tde_enabled, keyVars, pageVars, task, outcome>>

\* A process handles SIGHUP between two operations.
Reload(p) ==
    /\ p \in Procs => task[p] = Idle
    /\ tde_enabled' = [tde_enabled EXCEPT ![p] = conf]
    /\ UNCHANGED <<conf, keyVars, pageVars, task, outcome>>

\* A process ends and another is forked, with the postmaster's settings.
Fork(p) ==
    /\ task[p] = Idle
    /\ tde_enabled' = [tde_enabled EXCEPT ![p] = tde_enabled[Postmaster]]
    /\ UNCHANGED <<conf, keyVars, pageVars, task, outcome>>

\* A child crashes: the postmaster lives on and re-creates shared memory.
ChildCrash == Reinit(tde_enabled[Postmaster])

\* The server is started anew, after a crash of all of it or after a shutdown
\* (whose checkpoint leaves nothing dirty).
Restart == Reinit(conf)

\* Ordinary page traffic.
Traffic ==
    \/ \E b \in Pages : Modify(b) \/ Evict(b)
    \/ \E p \in Procs, b \in Pages : FlushBuffer(p, b) \/ ReadBuffer(p, b)
    \/ \E p \in Procs : EncryptPage(p) \/ DecryptPage(p)

Next ==
    \/ Traffic
    \/ \E s \in Oids : GenerateTablespaceKey(s)
    \/ \E b \in Pages : CopyZeroPage(b) \/ BulkWrite(b)
    \/ RotateMasterKey
    \/ EditConf
    \/ \E p \in Holders : Reload(p)
    \/ \E p \in Procs : Fork(p)
    \/ ChildCrash
    \/ Restart

Spec == Init /\ [][Next]_vars

-----------------------------------------------------------------------------
\* Type invariant.
TypeOK ==
    /\ conf \in BOOLEAN /\ attached \in BOOLEAN
    /\ tde_enabled \in [Holders -> BOOLEAN]
    /\ cache \in [num_entries : 0 .. MaxCachedKeys, entries : [Slots -> Entry]]
    /\ usedKeys \subseteq Keys
    /\ \A b \in Pages : buf[b].img \in Image /\ disk[b] \in Image
    /\ buf \in [Pages -> [img : {buf[b].img : b \in Pages},
                          dirty : BOOLEAN, valid : BOOLEAN]]
    /\ latest \in [Pages -> Versions]
    /\ \A p \in Procs :
        \/ task[p] = Idle
        \/ task[p].op \in {"flush", "read"} /\ task[p].page \in Pages
    /\ outcome \in [Procs -> {"none", "ok", "error"}]

\* On a cluster with checksums no sequence of key changes, reloads, restarts
\* and racing lookups lets a garbled or outdated page into the buffer pool,
\* and no flush garbles the pool's own copy ("We must never encrypt the
\* in-memory buffer pool page", FlushBuffer): the checksum is taken before
\* encryption and verified after decryption.  The one exception is a map that
\* no longer verifies: it is in the pool as an empty one, which is safe ("It's
\* always safe to clear bits", vm_readbuf), and is not written back as it is.
ChecksumGuardsPool ==
    Checksums => \A b \in Pages : buf[b].valid =>
        \/ buf[b].img.mask = {} /\ buf[b].img.ver = latest[b]
        \/ b \in MapPages /\ buf[b].img = ZeroPage /\ ~buf[b].dirty

\* A page on disk is under at most one key, and under the right key its
\* checksum verifies, whatever happened to the cache between the two lookups
\* of the flush that stored it.
DecryptableOnDisk ==
    Checksums => \A b \in Pages :
        /\ Cardinality(disk[b].mask) <= 1
        /\ PageIsVerified([disk[b] EXCEPT !.mask = {}])

\* A buffer that is not dirty may be dropped at any time, so its content is on
\* disk: no failed or abandoned encryption marks a page clean.
CleanMeansStored ==
    \A b \in Pages : ~buf[b].dirty => disk[b].ver = latest[b]

\* Once FlushBuffer's first lookup found a key, plaintext is not written, even
\* if the key is gone at the second lookup ("We must NOT write plaintext to
\* disk", tde_encrypt_page).
NoPlaintextAfterHit ==
    [][\A p \in Procs : task[p].op = "flush" =>
        LET b == task[p].page IN
        disk'[b] # disk[b] => disk'[b].mask # task[p].img.mask]_vars
=============================================================================
