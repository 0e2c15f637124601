# A TLA+ verification project for FortressQL

FortressQL is PostgreSQL 17 with post-quantum cryptography built in: transparent
data encryption (TDE), signed WAL segments, PQC authentication and TLS, an audit
log, key escrow, encrypted backups.  This directory models FortressQL's own state
machines, and the code inherited from PostgreSQL where they depend on it: page
transfers, WAL flushing, password authentication on both ends of a connection,
configuration variables, lightweight locks.

The repository is the whole PostgreSQL tree, 1.6 million lines, of which
FortressQL's additions are a small part.  The modules cover well under one percent
of it.  They cover most of what the additions keep as state.

## The system and its parts

| Part | Source | State | Module |
|---|---|---|---|
| TDE key cache | `crypto/tde/tde_keycache.c` | 256 slots in shared memory under one LWLock | `TdeKeyArray`, `TdeKeyCache`, `KeyStore` |
| TDE page encryption | `crypto/tde/tde_page.c`, hooks in `bufmgr.c` | buffers, disk pages, the GUC in each process | `TdePageIO` |
| TDE master key | `crypto/tde/tde_keymanage.c`, `bin/pg_tde_master_key` | one key file, a copy per process, the administrator's secret keys | `TdeMasterKey` |
| WAL segment signing | `access/transam/xlog.c` | a queue per process, `.sig` files | `WalSigning` |
| WAL signing keys | `crypto/pqc/pqc_wal_keys.c`, `pqc_preflight.c`, `pqc_wal_verify.c`, `walreceiver.c` | two key files, static pointers per process | `WalKeys` |
| Authentication | `libpq/auth*.c`, `libpq/crypt.c`, `interfaces/libpq/fe-auth*.c` | a role's secret, a message exchange | `Scram` |
| Audit log | `contrib/pgcrypto_pqc` | a hash-chained table, signing keys | `AuditLog` |
| Key escrow | `contrib/pgcrypto_pqc` | shares of a key, GF(256) arithmetic | `Escrow` |
| Crypto policy | `libpq/crypto-policy.c` | settings cascaded from one setting | `CryptoPolicy` |
| Configuration variables | `utils/misc/guc.c` | value, reset value and stack of each variable | `Guc` |
| Lightweight locks | `storage/lmgr/lwlock.c` | a state word, a wait list, semaphores | `LWLock`, `RWLock` |

How they interact.  At start the postmaster creates the key cache if `tde_enabled`
is set, unwraps the master key with a secret key from the provider, and loads the
WAL signing keys; children inherit all of it by `fork()`.  The buffer manager asks
the key cache for a tablespace key on every page it writes or reads.  Rotating the
master key writes a new key file and wipes the key cache.  Whoever completes a WAL
segment queues it in its own memory and signs it at its next flush; the WAL
receiver of a standby reloads the keys and verifies each received segment.
`crypto_policy` decides on `password_encryption`, which decides on the kind of
secret a role gets, which decides on how its clients can authenticate.  The key
cache, `WALWriteLock` and the content locks of buffers are lightweight locks;
`TdeKeyCache`, `TdePageIO` and `WalSigning` take the exclusion for granted that
`LWLock` is shown to provide.

`tde_generate_tablespace_key` is the only function that puts keys into the cache.
It is exported, and nothing in the repository calls it.  `TdePageIO` takes it as
an operation the server may perform at any time; until it has a caller every page
is stored in plain text, which the model includes (no key, no encryption).

## Modules

**`TdeKeyArray`, `TdeKeyCache`, `KeyStore`.**  `TdeKeyArray` is the array with
`num_entries` and the scans over it.  `TdeKeyCache` has one action per function of
`tde_keycache.c`; each holds the LWLock throughout and is one step.  Entries may be
inserted inactive, as the interface allows; `tde_generate_tablespace_key` inserts
active ones only.  `KeyStore` is what callers rely on: a bounded map.

**`TdePageIO`** extends `TdeKeyArray`, so page transfers and the cache are composed
in one state.  A page image is a content version, the set of keys whose keystream
is on its payload (encrypting twice with one key is decrypting), and the content
its checksum was computed over.  `FlushBuffer` and `ReadBuffer` run up to the first
key lookup; `EncryptPage` and `DecryptPage` do the second, inside `tde_page_crypt`,
and the rest.  In between, another process may rotate, crash or create keys.  The
I/O-in-progress bit excludes a second transfer of the same page, and the content
lock a modification.  Each process has its own `tde_enabled`, reloaded on its own;
a forked child and a crash restart take the postmaster's.  A PANIC or crash keeps
what was dirty, since WAL replay rebuilds it from full-page images (`Rebuilt`).
`MapPages` are the pages of free space and visibility maps.  They are read with
`RBM_ZERO_ON_ERROR`: one that fails its verification enters the pool empty, where any
other page is an error (`FinishRead`).  A copy of the relation reads them like any
other page, so that they may fail as well.  Changes of a free space map are hints, and
a crash may lose them (`Recovered`); a visibility map loses none, so one class of map
pages allows more than either map does.  A hint that leaves a page clean is no new
version.  `zero_damaged_pages` and `ignore_checksum_failure` are off.

**`WalSigning`.**  `BeginWrite`, `FinishSegment`, `EndWrite` are a call of
`XLogWrite` under `WALWriteLock`, from `AdvanceXLInsertBuffer`, from a commit's
`XLogFlush`, or from another flush; the last two go on to
`XLogPqcProcessDeferredSigning`.  Each segment of its loop is a step, which writes a
signature, warns, or raises an error.  Processes exit and the server crashes.

**`WalKeys`.**  The key files are truncated and filled in separate steps, so others
load them half-written.  Each process has the static pointers, the `loaded` flag and
whether the memory behind them is still allocated: what the postmaster loads lives
in a context that children delete, what a rotation loads in the context of its
query.  Signing with freed memory yields the old key or garbage.  Freeing it again
is undefined too; the outcome that matters, a crash, is `ChildCrash`, possible at
any time.  `overlap` records that rotations failed or ran beside another process.  A
segment without `.sig` file fails its verification before keys are asked for.

**`TdeMasterKey`.**  A generation number stands for a master key and the KEM key
pair drawn with it.  `file` is what processes see, `durable` what a power failure
leaves.  The server's `fsync` comes before stdio has written the bytes (the file is
smaller than a stdio buffer), the tool's after.  `secured` is history: the generation
that a run of the tool wrote and synced with no rotation at the file, in place of an
earlier file (the tool does not sync the directory, so a new file may be gone after a
power failure).  The cache wipe that ends a rotation
is `RotateMasterKey` of `TdePageIO`.

**`Scram`.**  Both ends of a connection under one of four `pg_hba.conf` methods, with
queues of messages between them.  The server reads the role's secret once
(`shadow`), or, for `password`, when the answer is there; meanwhile the password,
its expiry and `password_encryption` change, and `pqc_migrate_credentials` resets
SHA-256 roles.  A stored secret's hash overrides the mechanism's, as `scram_init`
has it.  A relay that ends SSL shows the client another certificate.  Either end may
go away.  `CheckPWChallengeAuth` asserts that the method is SCRAM-SHA-256 or MD5,
which `pqc-scram-sha-384` violates in a build with assertions; the model is of a
build without.  The server's treatment of an empty initial response, and MD5
secrets cleared when a role is renamed, are left out.

**`AuditLog`.**  Transactions at READ COMMITTED and REPEATABLE READ run audited
statements and `pqc_audit_init_keys`.  `dbs` are the committed states since the last
flush of WAL: a crash falls back to one of them, and sequences may repeat what no
surviving row used.  `saw` is history: what the writing statement could see.

**`Guc`, `CryptoPolicy`.**  `Guc` is `guc.c` for one variable as operators on a
record: value, source, reset value, stack.  `CryptoPolicy` uses it for the four
settings `crypto_policy` cascades to, in the postmaster, and for
`password_encryption` in sessions that nest transactions, subtransactions and
functions with a `SET` option.  The history in `layers` says what SQL promises.
Settings from the command line, the database, or the client's start packet behave
as those of the file or role and are left out, as are parallel workers.

**`LWLock`, `RWLock`.**  One lock, used as a content lock, as `WALWriteLock` or as a
WAL insertion lock, each with the operations the server applies to it.  Every atomic
operation on the state word is a step; a section under `LW_FLAG_LOCKED` is one step,
since the wait list is touched nowhere else.  Semaphores are shared with other
code, which may post them at any time (`StrayPost`).  `RWLock` is what callers rely
on.

**`Escrow`.**  The arithmetic loop by loop, one byte of key.  Reference definitions
of the field and of polynomial evaluation stand beside it.  `load_audit_key` allocates
the key in the memory of the SPI session, and `pqc_escrow_create` reads it after
`SPI_finish` has deleted that memory.  `CreateFromFreed` has the outcomes: the key is
still there, the memory was reused and other bytes are split, shares in it are wiped
by the second free, or the call ends in an error.  `escrow.intact` records the first.

The `MC*` modules and `.cfg` files are the TLC instances.

## Runs

### Passing

| Run | Instance | Distinct states | Shows |
|---|---|---|---|
| `keycache` | 4 tablespaces, 3 slots, 2 keys | 5,636 | `OneSlotPerTablespace`; `ImplementsKeyStore`: the array implements the map |
| `pageio` | 2 pages in 2 tablespaces, 1 slot, 2 keys, 2 processes, 2 versions, 1 page a map page | 872,912 | `ChecksumGuardsPool`, `DecryptableOnDisk`, `CleanMeansStored`, `NoPlaintextAfterHit` |
| `walsigning` | 2 processes, queue 2, 2 buffers, 3 segments | 48,615 | `EverySegmentAccounted`, `SignedAtMostOnce`, `FlushSettles` |
| `walkeys` | 2 backends, 1 receiver, 3 key pairs | 266,540 | `PairMatches`, `JudgedByCurrentKeys`, `ReplayNotBlocked` |
| `masterkey` | 2 backends, the tool, 3 generations | 1,982 | `MemoryKeyWasStored`, `ToolHandsOverSecret`, `ToolKeyDurable` |
| `scram` | 1 connection in 72 configurations, 2 passwords, 2 changes of password | 564,564 | `AcceptsOnlyCompatible`, `RejectsOnlyWithCause`, `VerdictsAgree`, `EveryAttemptEnds` |
| `auditlog` | 2 sessions, 3 rows, 4 keys, 2 unflushed commits | 796,039 | `ChainWellFounded`, `ForksOnlyWhenConcurrent`, `KeysStayComplete`, `PairsMixOnlyWhenConcurrent`, `VerifiesUntilReplaced` |
| `cryptopolicy` | 1 session, 2 nest levels, 1 edit of the file | 649,760 | `PolicyInForce`, `SetIsScoped` |
| `lwlock` | 3 processes, 1 stray post | 1,447,043 | `MutualExclusion`, `NoLostWakeup`, `NoLostUpdate`, `WakeupsConserved`; `ImplementsRWLock` |
| `escrow` | up to 255 shares, thresholds up to 3, 2 keys | 11,046 | `SharesOnPolynomial`, `RecoversEscrowedKey` |

Each also checks deadlock, and the module's type invariant unless that is proved
(`keycache`, `walkeys`, `masterkey`, `auditlog`).

Why the bounds are enough.  `keycache`: more tablespaces than slots, so the cache
fills, slots are reused and inserts fail.  `pageio`: two keys make a page stored
under one key meet another, one slot makes tablespaces compete, two versions make an
outdated page differ from a current one, one of the pages is a map page, and two
processes race.  Processes are interchangeable, so symmetry is used.  `walsigning`: three segments overflow a queue
of two.  `walkeys`: three pairs allow two rotations, racing or in sequence.
`masterkey`: three generations allow an initialisation and two rotations, racing or
in sequence.  `scram`: connections share only the role, which changes at any time
anyway, so one connection is enough; passwords are interchangeable, so the client
has the first and the role either; two salts tell a secret from the one that
replaced it.  `auditlog`: four keys are two calls of `pqc_audit_init_keys`, racing or
in sequence, three rows a chain that forks and goes on, and a crash may lose
two commits, one or none.  Sessions are
interchangeable, so symmetry is used.  `cryptopolicy`: a policy that cascades all
settings, one that cascades two and one that is refused, with a setting before or
after it in the file; an edit may switch between any two files; two levels are a
transaction with a subtransaction or a function.  Sessions share only the
postmaster.  `lwlock`: three processes are a holder, a sleeper and one that gets in
between; `LW_VAL_EXCLUSIVE` need only exceed their number.  `escrow`: `gf256_mul` is
tabulated for all pairs of bytes; share 255 and the refused 256 are the boundary; the
key is replaced before and after the one escrow; one recovery is enough, since
recoveries change nothing.

### Disagreements

Each of these runs checks one sentence of the documentation and finds it violated.
`PROJECT.json` quotes the sentences.

| Run | What happens |
|---|---|
| `walkeys_verify` | signatures are made over a hash and verified over the bytes |
| `scram_plus` | with `SCRAM-SHA-384-PLUS` libpq sends the flag of a client without channel binding, and the server rejects it |

The models contain more behaviour that differs from what is written about it,
without a run of its own.

TDE.  A rotation wipes the only copies of the tablespace keys (`RotateMasterKey`,
`tde_keymanage.c:661`; `docs/BACKUP_RESTORE.md:286` says that access to encrypted
data is preserved), and so does a restart (`Restart`;
`docs/PRODUCTION_READINESS_PLAN.md:15`).  A zeroed page is encrypted on its way out
and not decrypted on its way in, and is rejected (`CopyZeroPage`, `bufmgr.c:3962`;
`bufpage.c:76`).  Bulk writes are not encrypted (`BulkWrite`;
`doc/fortressql-admin-guide.md:273`).  A reload can switch `tde_enabled` on without
a cache (`Reload`; admin guide, line 493).  The master key file is synced before its
bytes are written (`RotateFsync`, `tde_keymanage.c:351`; comment at line 350).  A
failed rotation leaves a torn file, and the secret key of one that succeeds inside
the server is given to nobody (`RotateFails`, `RotateClose`; `tde_keymanage.c:624`,
`148`).

WAL.  A queued segment waits for the next flush of its own process, which may never
come (`EnqueueSign`, `xlog.c:2065`; `README.md:184`), and the ninth between two
flushes is dropped.  A commit's flush signs inside the commit's critical section
(`SignSegment`, `xlog.c:3134`, `xact.c:1425`; comment at `xlog.c:2332`).  Children
sign with freed memory (`Inherited`, `pqc_wal_keys.c:122`, `auxprocess.c:51`;
`pqc_preflight.c:97`).  WAL key files are replaced in place, one after the other, and
the old public key is not kept (`WriteSk`, `OpenPk`; `pgcrypto_pqc.c:2806`, admin
guide, line 580).  The load before a verification reads the files each time
(`LoadSk`; the comment at `walreceiver.c:1099` calls it a no-op).  A segment that fails
its verification is replayed all the same, with a warning (`VerifySegment`,
`ReplayNotBlocked`; `walreceiver.c:1080-1088` says so), where two documents say the
opposite: "Standbys with `wal_pqc_verify_on_receive = on` will reject WAL that fails
signature verification" (`doc/fortressql-admin-guide.md:319`) and "If a signature is
missing or invalid, recovery halts with an error" (`docs/BACKUP_RESTORE.md:272-273`).
`ReplayNotBlocked` is what the code's own comments promise.  The `.sig` file is not
synced; the model has it written or not, and no torn one.

Audit log.  `pqc_audit_verify_chain` checks every row with the keys active now, so
rows signed before a replacement fail (`VerifySignature`); nothing but the signature
and a row's own hash is checked, the links between rows are not.

Crypto policy.  Cascaded values have a higher priority than the file's, and `custom`
gives nothing back until a restart (`CascadeSetting`, `LoadedPolicy`; admin guide,
line 863).  The values of `legacy` and the two `fips` policies are not those of the admin
guide's table (`Cascade`; lines 463-469).  `RESET` and then `SET LOCAL` in one transaction leave the session with
the default of that moment as if it had been `SET` (`CommitGUC`, PostgreSQL's own
behaviour), which `SetIsScoped` excepts.

Credentials.  `pqc_migrate_credentials('force-reset')` also sets the end of the
role's validity to now, so that a new password alone does not let it in
(`MigrateCredentials`, `RolePassword`).

Escrow.  The key is read, and freed again, after `SPI_finish` has deleted the memory it
is in (`CreateFromFreed`; `pgcrypto_pqc.c:956-970`, `3321`, `3344`, `3376`), so that the
shares may be of other bytes; the properties of `escrow` are stated of the escrows that
still found the key.  What is escrowed is the active audit key, not the master key (admin guide,
lines 590-610); fewer shares than the threshold are accepted and give another key;
the answer is `success`, the test in `sql/pgcrypto_pqc_escrow.sql` expects `OK`.

## Fairness

`FlushSettles` assumes that a process in `XLogWrite` or in the signing loop keeps
running (weak fairness of `EndWrite`, `SignSegment`, `Return` of each process): all
three are straight-line code that waits for nothing.  It does not assume that a
process ever starts a flush.  `ReplayNotBlocked` assumes the same of a process in the
middle of a rotation or reception.  `EveryAttemptEnds` assumes that backend and
client process what has arrived (weak fairness of `ServerStep` and
`ClientReceive`); it does not rely on `authentication_timeout`, nor on the client
giving up.  `LWLock` states no fairness: that a sleeper is woken is checked as the
invariants `NoLostWakeup` and `NoLostUpdate` and the absence of deadlock, because the
corresponding liveness takes TLC too long even for three processes, and because
`lwlock.c` does not promise that a woken process gets the lock.

## Proofs

All are for every value of the constants under the assumption the module names.

The inductive invariants of `Scram`, `AuditLog`, `LWLock` and, for the scope of SET,
`CryptoPolicy`, which are the longest, were model-checked on the instance of the component's run before they were proved.

**`TdeKeys_proofs`**, of the key cache: `CacheInvariant`, `OneSlotAlways`, `CacheRefinesStore`, from
`CacheAssumption` (at least one slot, zeroes are no key).  One slot per tablespace is
not inductive alone: an insert must land in the used part or just past it, and leave
no second slot of its tablespace, which needs the type invariant; the invariant also
says that slots past the used part are wiped and that used slots hold real keys.  For
the refinement, slots in use are counted against entries of the map
(`OccupiedCount`): the array is full exactly when the map is.

Of the master key (`TdeMasterKey`, whose specification is `MasterSpec`, under
`MasterKeyAssumption`): `MasterKeyInvariant` and from it `MemoryKeyAlwaysStored`,
`ToolAlwaysHandsOver` and `ToolKeyOutlivesCrashes`.  That a key in memory was once
in the file needs that the file and its durable version were (`FilesWereStored`: a
start loads the one, a power failure brings back the other) and that running jobs
carry real generations (`JobsCarryGens`).  That a synced key stays needs that nobody
in the server is at the file meanwhile (`SecuredOK`): a rotation that begins
truncates it and ends the claim.

**`TdePageIO_proofs`**: `PageInvariant` and from it `PageTypes` and the four other
properties of `pageio`.
`PagesOK` relates buffer, disk image and latest version of each page, `TasksOK` says
the same of the copy a transfer carries, and `Exclusive` that a page is in one
transfer at most; the last is what lets a finished flush call the buffer clean.  A map
page may also be in the pool zeroed and clean (`Zeroed`): its next change makes it the
latest version, and until then nothing stores it over what is on disk.

**`WalSigning_proofs`**: `SigningInvariant`, `SigningTypes`, `AllSegmentsAccounted`,
`NeverSignedTwice`.  `Control` ties the lock and the loop's entries to where a
process is; `Waiting` says that an entry is in one queue, once, of a completed
segment that has no signature yet.

**`WalKeys_proofs`**: `WalKeysInvariant`, `SignaturesJudgedByCurrentKeys`,
`LoadedPairsMatch`.  `ReadyOK` says what a process that has come to the verification has
in memory; a load that fails never gets there, whatever it leaves in the statics.  `Calm`
describes files and jobs while rotations succeed and run alone, step by step of the
rotation; it is needed because a load reads the two halves in two steps.

**`Scram_proofs`**: `ScramTypes`, `ScramAcceptsOnlyCompatible`, `ScramVerdictsAgree`,
`ScramRejectsOnlyWithCause`, from `ScramAssumption` (no password is the absence of
one, and clients try passwords a role may have).  The verdicts depend on a whole exchange, so `ConnInv` says, for each pair of
states of backend and client, which messages are under way, and that every nonce,
salt, flag and proof in them is the one function of the connection's configuration
and of the secret its backend has read (`FirstMsg`, `Cont`, `FinalMsg`, `Fin`).  The
role may change in any step; that this does not matter is the content of the
invariant, which speaks of the secret the backend has read (`shadow`), never of the
role's.

**`AuditLog_proofs`**: `AuditTypes`, `AuditChain`, `AuditForks` from `ChainInv`;
`AuditKeysComplete`, `AuditPairs`, `AuditVerifies` from `KeyInv`.  `ChainInv` adds that
committed logs grow along `dbs`, that a snapshot is part of the newest one, that
uncommitted rows link into it or to rows of their own transaction, and that no two
rows, committed or not, have the same `log_id`.  `KeyInv` is about the key table.
`KeyTable`, of a committed state: no active key was in the snapshot of another's
insertion, and every key is active or has newer active ones of both kinds.
`SessionOK`, of an open transaction: what its snapshot and its own keys retire is set
inactive before it commits, and between the statements of `pqc_audit_init_keys` what
is gone is replaced by a newer pair (`InUse`, `Outlives`).  `Later` orders committed
states, which is what a crash that falls back to an earlier one needs.

**`LWLock_proofs`**: all properties of `lwlock`, from `ExclusiveAssumption` (finitely
many processes, fewer than `LW_VAL_EXCLUSIVE`), along three invariants.  `Inv` is enough for
`LWLockExcludes` and `LWLockImplements`: the low bits of the state word count the
holders (`CountInv`), and a process holds the lock exactly where the code believes it
does (`HoldsAt`).  `QueueInv`, for `LWLockTypes`, adds the wait list: one process at a
time is in a section under the list's lock (`SectionInv`), the list holds each waiting
process once, those that wait until the lock is free in front (`ListInv`), and each
process taken off it is on the list of exactly one waker (`PendingInv`).  `FullInv`,
for `LWLockNoLostWakeup`, `LWLockNoLostUpdate` and `LWLockConservesWakeups`, adds who
is going to look at the list: a cleared `LW_FLAG_RELEASE_OK` belongs to a woken
process that will try again and set it (`RetryInv`), it is never clear under a process
that waits for the variable (`VarInv`), and while anybody sleeps somebody holds the
lock, wakes or tries again (`FreeingInv`).  `Only`, by which entries leave the list, is
shown to keep their order and to lose or repeat none (by counting, without induction
over the list).

**`CryptoPolicy_proofs`**: `CryptoPolicyTypes`, `PolicyAlwaysInForce`,
`SetAlwaysScoped`, from `PolicyInv` (`CryptoPolicyInvariant`) and `PolicyAssumption`: the
markers of the model (`Null`, `Invalid`, `"default"`, `"pinned"`) are no values of a
setting, and no policy cascades to a value that is refused.  Levels may nest to any
depth.  None of the three properties is inductive, because each speaks of the value in
force and the end of a level brings back one from the stack.

- `Imposed`, for `PolicyInForce`: the value in force, the one to reset to and every
  stacked one either have the policy's value with the priority of the cascade or come
  from the session.  Loading a file keeps it since `set_config_with_handle` treats the
  three alike (`Follows`, `Tracks`); all other steps only move values between the three
  places (`Restores`).
- `Scoped`, for `SetIsScoped` and the types: entries are of open levels, at most one
  each, in the levels' order (`Nested`); an entry's `state` tells which SET, SET LOCAL
  or function option its level has seen (`Told`), and a level without an entry has seen
  none (`Silent`); and for each open level the oldest entry of it or of the levels in
  it remembers the value that the SET commands before the level call for (`Undone`).
  That `masked` is recorded whenever `state` is `SET_LOCAL`, which keeps
  `AtEOXact_GUC` from restoring nothing, is part of `Told`.

The lemmas follow the code: what `push_old_value` makes of a stack (`IsSet`,
`IsPlaced`), what a commit lowers or merges into the level around it (`CommitInner`,
`TellsMerged`), what an abort takes off (`Ended`).  An abort looks for the oldest entry
of the levels that fail, and its existence is the well-foundedness of the natural
numbers: `HasLeast` is a hypothesis of the lemmas about aborts and is discharged by
`LeastExists` before the theorems.

**Only model-checked.**  Liveness (`FlushSettles`, `ReplayNotBlocked`,
`EveryAttemptEnds`) is out of the prover's reach.  So is what the loops of `Escrow`
compute, which needs induction over data (and `Bitwise`): the invariants of `escrow` are
checked on its instance alone.

## Abstractions

Key bytes, IVs, ciphertexts, file layouts, messages and logging are left out.
Cryptographic operations do what they promise: a keystream cancels itself, a wrong
secret key fails the GCM check, a checksum never collides, random keys never repeat,
a proof or signature cannot be made without its key.  WAL is counted in whole
segments, and timelines are left out.  There is one key directory and one signature
algorithm.

## Not modelled

- PostgreSQL itself beyond what is named above: FortressQL does not touch it, and it
  is most of the tree.
- Key provider (`tde_key_provider.c`): one blocking read of a variable, file or
  command while the server starts; its result is `provider` in `TdeMasterKey`.  The
  comment above the command's reader announces a timeout; there is none.
- TDE of WAL pages (`tde_wal.c`), backup encryption (`compress_pqc.c`) and statistics
  (`pqc_stats.c`): nothing in the tree calls or initialises them, so how they are
  used cannot be told.
- `pg_basebackup`, `pg_upgrade`: one process copies key files and stops at the first
  error.
- TLS: lists handed to OpenSSL, whose handshake is not in the repository.
  `auth-pqc.c` looks at one certificate after it.
- Primitives, column encryption, reports: calls of liboqs and OpenSSL, and queries,
  without state of their own.
- Composition of `TdeMasterKey` with `TdePageIO`: they meet in the cache wipe that
  ends a rotation, which `TdePageIO` has; the product of the two adds states and no
  interaction.
