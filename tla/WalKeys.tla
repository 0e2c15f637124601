------------------------------ MODULE WalKeys ------------------------------
(***************************************************************************)
(* The WAL signing key pair: the files wal_signing.key and wal_signing.pub *)
(* in wal_pqc_key_path, the copy each process keeps in static variables    *)
(* (src/backend/crypto/pqc/pqc_wal_keys.c), the load at server start       *)
(* (pqc_preflight.c), rotation (pqc_rotate_wal_signing_keys in             *)
(* contrib/pgcrypto_pqc), signing, and the verification of received        *)
(* segments (pqc_wal_verify.c, XLogWalRcvClose in walreceiver.c).          *)
(*                                                                         *)
(* One server with one key directory and one signature algorithm.  The     *)
(* static pointers are palloc'd in whatever memory context is current:     *)
(* PostmasterContext at start, which every child deletes, and the query's  *)
(* context in a rotation.  What freed memory holds is a free choice.       *)
(***************************************************************************)
EXTENDS Naturals

CONSTANTS
    Postmaster,
    Backends,
    Receivers,        \* WAL receivers, on a standby
    KeyPairs,         \* key pairs, each named by what its halves share
    Garbage           \* what reused memory yields

ASSUME KeysAssumption ==
    /\ Postmaster \notin Backends \cup Receivers
    /\ Backends \cap Receivers = {}
    /\ Garbage \notin KeyPairs
    /\ KeyPairs \cap {"none", "empty", "short", "null"} = {}

VARIABLES
    skFile, pkFile,   \* "none", "empty", "short" (partly written) or a key
    unused,           \* key pairs not generated yet
    mem,              \* wal_secret_key, wal_public_key, wal_keys_loaded, and
                      \* whether their memory is still allocated
    signing,          \* wal_pqc_signing in each process
    job,              \* a rotation or a reception under way, per child
    walsig,           \* the .sig file last written
    verdict,          \* of the reception each receiver is at, or was last
    overlap           \* history: a rotation failed, or was not alone

fileVars == <<skFile, pkFile, unused>>
vars == <<fileVars, mem, signing, job, walsig, verdict, overlap>>

Children == Backends \cup Receivers
Procs == Children \cup {Postmaster}
NoKeys == [sk |-> "null", pk |-> "null", loaded |-> FALSE, live |-> TRUE]
NoSig == [by |-> "none", over |-> "none"]
Idle == [kind |-> "idle", step |-> "idle", key |-> "null"]

\* read_key_file finds the file and it is not empty.
Readable(f) == f \notin {"none", "empty"}
Complete(f) == f \in KeyPairs

\* The keys after a successful load: sizes are checked once both are read.
LoadedKeys(sk, pk) ==
    IF Complete(sk) /\ Complete(pk)
    THEN [sk |-> sk, pk |-> pk, loaded |-> TRUE, live |-> TRUE]
    ELSE NoKeys

\* pqc_preflight_check in a new postmaster: both files must exist, an error of
\* the load is caught.
Preflight ==
    IF Readable(skFile) /\ Readable(pkFile) THEN LoadedKeys(skFile, pkFile)
                                            ELSE NoKeys

\* The statics of a child: copied by fork(), their memory context deleted.
Inherited(m) == [m EXCEPT !.live = ~m.loaded]

Init ==
    /\ skFile \in KeyPairs /\ pkFile = skFile
    /\ unused = KeyPairs \ {skFile}
    /\ mem = [p \in Procs |-> IF p = Postmaster THEN Preflight
                                                ELSE Inherited(Preflight)]
    /\ signing = [p \in Procs |-> TRUE]
    /\ job = [p \in Children |-> Idle]
    /\ walsig = NoSig
    /\ verdict = [p \in Receivers |-> "none"]
    /\ overlap = FALSE

-----------------------------------------------------------------------------
Rotating(p) == job[p].kind = "rotate"
Step(p, s) == job' = [job EXCEPT ![p].step = s]

\* A job of p begins: it is not alone if another process is at work and one of
\* the two rotates.
NotAlone(p, kind) ==
    \E q \in Children \ {p} : job[q] # Idle /\ (kind = "rotate" \/ Rotating(q))

Begin(p, kind, k, s) ==
    /\ job[p] = Idle
    /\ job' = [job EXCEPT ![p] = [kind |-> kind, step |-> s, key |-> k]]
    /\ overlap' = (overlap \/ NotAlone(p, kind))

\* A rotation ends in an error: the query's memory is released.
Abort(p, m) ==
    /\ job' = [job EXCEPT ![p] = Idle]
    /\ mem' = [mem EXCEPT ![p] = [m EXCEPT !.live = m.sk = "null" /\ m.pk = "null"]]
    /\ overlap' = TRUE
    /\ UNCHANGED <<signing, walsig, verdict>>

\* pqc_wal_generate_signing_keys: keygen, then write_key_file opens the secret
\* key file with O_TRUNC.
RotateBegin(p) ==
    /\ \E k \in unused :
        /\ Begin(p, "rotate", k, "sk")
        /\ unused' = unused \ {k}
    /\ skFile' = "empty"
    /\ UNCHANGED <<pkFile, mem, signing, walsig, verdict>>

WriteSk(p) ==
    /\ job[p].step = "sk"
    /\ \/ skFile' = job[p].key /\ Step(p, "pkopen")
          /\ UNCHANGED <<mem, signing, walsig, verdict, overlap>>
       \/ skFile' = "short" /\ Abort(p, mem[p])
    /\ UNCHANGED <<pkFile, unused>>

\* Mutant: a rotation leaves the public key file alone.
OpenPkSkipped(p) ==
    /\ job[p].step = "pkopen"
    /\ Step(p, "loadsk")
    /\ UNCHANGED <<fileVars, mem, signing, walsig, verdict, overlap>>

OpenPk(p) ==
    /\ job[p].step = "pkopen"
    /\ pkFile' = "empty" /\ Step(p, "pk")
    /\ UNCHANGED <<skFile, unused, mem, signing, walsig, verdict, overlap>>

\* The second file is written, and the statics take the new pair over.
WritePk(p) ==
    /\ job[p].step = "pk"
    /\ \/ /\ pkFile' = job[p].key /\ Step(p, "loadsk")
          /\ mem' = [mem EXCEPT ![p] = LoadedKeys(job[p].key, job[p].key)]
          /\ UNCHANGED <<signing, walsig, verdict, overlap>>
       \/ pkFile' = "short" /\ Abort(p, mem[p])
    /\ UNCHANGED <<skFile, unused>>
-----------------------------------------------------------------------------
\* An error in pqc_wal_load_signing_keys, with m what is loaded by then:
\* rotation aborts, the WAL receiver logs it and carries on.
LoadError(p, m) ==
    \/ Rotating(p) /\ Abort(p, m)
    \/ /\ ~Rotating(p)
       /\ mem' = [mem EXCEPT ![p] = m]
       /\ job' = [job EXCEPT ![p] = Idle]
       /\ verdict' = [verdict EXCEPT ![p] = "error"]
       /\ UNCHANGED <<signing, walsig, overlap>>

\* pqc_wal_load_signing_keys frees what is loaded and reads the secret key.
LoadSk(p) ==
    LET freed == [mem[p] EXCEPT !.sk = "null", !.pk = "null", !.live = TRUE] IN
    /\ job[p].step = "loadsk"
    /\ \/ /\ Readable(skFile)
          /\ mem' = [mem EXCEPT ![p] = [freed EXCEPT !.sk = skFile]]
          /\ Step(p, "loadpk")
          /\ UNCHANGED <<signing, walsig, verdict, overlap>>
       \/ ~Readable(skFile) /\ LoadError(p, freed)
    /\ UNCHANGED fileVars

\* It reads the public key, and checks both sizes.  A rotation is then over,
\* and its query's memory is released.
LoadPk(p) ==
    LET m == LoadedKeys(mem[p].sk, pkFile) IN
    /\ job[p].step = "loadpk"
    /\ \/ ~Readable(pkFile) /\ LoadError(p, mem[p])
       \/ /\ Readable(pkFile)
          /\ signing' = [signing EXCEPT ![p] = @ /\ m.loaded]
          /\ \/ /\ Rotating(p)
                /\ mem' = [mem EXCEPT ![p] = Inherited(m)]
                /\ job' = [job EXCEPT ![p] = Idle]
             \/ /\ ~Rotating(p)
                /\ mem' = [mem EXCEPT ![p] = m]
                /\ Step(p, "verify")
          /\ UNCHANGED <<walsig, verdict, overlap>>
    /\ UNCHANGED fileVars

\* pqc_wal_sign_data over the SHA-256 hash of a segment.  Without loaded keys
\* it warns, with a secret key of the wrong length it raises an error; both
\* leave no signature.
SignData(p) ==
    /\ job[p] = Idle /\ signing[p] /\ mem[p].loaded /\ Complete(mem[p].sk)
    /\ \E k \in IF mem[p].live THEN {mem[p].sk} ELSE {mem[p].sk, Garbage} :
        walsig' = [by |-> k, over |-> "sha256"]
    /\ UNCHANGED <<fileVars, mem, signing, job, verdict, overlap>>

\* Mutant: keys that are loaded are not loaded again.
ReceiveCached(p) ==
    /\ Begin(p, "receive", "null", IF mem[p].loaded THEN "verify" ELSE "loadsk")
    /\ verdict' = [verdict EXCEPT ![p] = "pending"]
    /\ UNCHANGED <<fileVars, mem, signing, walsig>>

\* XLogWalRcvClose of a complete segment: its .sig is the last one written.
Receive(p) ==
    /\ Begin(p, "receive", "null", "loadsk")
    /\ verdict' = [verdict EXCEPT ![p] = "pending"]
    /\ UNCHANGED <<fileVars, mem, signing, walsig>>

\* pqc_wal_verify_data over the bytes of the segment.
Verifies(m, w) == w.by = m.pk /\ w.over = "segment"

\* Mutant: a verification that fails is an error nobody catches.
VerifySegmentUncaught(p) ==
    /\ job[p].step = "verify" /\ mem[p].loaded /\ Verifies(mem[p], walsig)
    /\ verdict' = [verdict EXCEPT ![p] = "valid"]
    /\ job' = [job EXCEPT ![p] = Idle]
    /\ UNCHANGED <<fileVars, mem, signing, walsig, overlap>>

\* pqc_wal_verify_segment, and whatever it says the segment is replayed.
\* A missing .sig fails before a key is asked for; then, without loaded keys,
\* pqc_wal_get_public_key raises an error, which is caught.
VerifySegment(p) ==
    /\ job[p].step = "verify"
    /\ verdict' = [verdict EXCEPT ![p] =
                     IF walsig # NoSig /\ ~mem[p].loaded THEN "error"
                     ELSE IF Verifies(mem[p], walsig) THEN "valid" ELSE "failed"]
    /\ job' = [job EXCEPT ![p] = Idle]
    /\ UNCHANGED <<fileVars, mem, signing, walsig, overlap>>

\* All children are new, forked from a postmaster with keys m.
ForkAll(m, on) ==
    /\ overlap' = (overlap \/ \E p \in Backends : Rotating(p))
    /\ mem' = [p \in Procs |-> IF p = Postmaster THEN m ELSE Inherited(m)]
    /\ signing' = [p \in Procs |-> on]
    /\ job' = [p \in Children |-> Idle]
    /\ verdict' = [p \in Receivers |-> "none"]
    /\ UNCHANGED <<fileVars, walsig>>

\* A child crashes: the postmaster replaces all of them, without a preflight.
ChildCrash == ForkAll(mem[Postmaster], signing[Postmaster])

\* The server is started anew.
Restart ==
    ForkAll(Preflight, Preflight.loaded \/ ~Readable(skFile) \/ ~Readable(pkFile))

\* A child ends and another is forked.
Fork(p) ==
    /\ job[p] = Idle
    /\ mem' = [mem EXCEPT ![p] = Inherited(mem[Postmaster])]
    /\ signing' = [signing EXCEPT ![p] = signing[Postmaster]]
    /\ UNCHANGED <<fileVars, job, walsig, verdict, overlap>>

Run(p) == WriteSk(p) \/ OpenPk(p) \/ WritePk(p) \/ LoadSk(p) \/ LoadPk(p)
              \/ VerifySegment(p)

Next ==
    \/ \E p \in Backends : RotateBegin(p) \/ SignData(p)
    \/ \E p \in Receivers : Receive(p)
    \/ \E p \in Children : Run(p) \/ Fork(p)
    \/ ChildCrash
    \/ Restart

Spec == Init /\ [][Next]_vars /\ \A p \in Children : WF_vars(Run(p))

-----------------------------------------------------------------------------
\* Type invariant.
TypeOK ==
    LET File == {"none", "empty", "short"} \cup KeyPairs
        Half == {"null", "short"} \cup KeyPairs
    IN
    /\ skFile \in File /\ pkFile \in File /\ unused \subseteq KeyPairs
    /\ mem \in [Procs -> [sk : Half, pk : Half, loaded : BOOLEAN, live : BOOLEAN]]
    /\ signing \in [Procs -> BOOLEAN]
    /\ \A p \in Children :
        /\ job[p].kind \in {"idle", "rotate", "receive"}
        /\ job[p].step \in {"idle", "sk", "pkopen", "pk", "loadsk", "loadpk", "verify"}
        /\ job[p].key \in {"null"} \cup KeyPairs
    /\ verdict \in [Receivers -> {"none", "pending", "error", "valid", "failed"}]
    /\ overlap \in BOOLEAN

\* A WAL receiver judges a signature with two whole keys in memory that is
\* still allocated, whatever it was forked with (statics whose context is gone)
\* and whatever earlier loads left behind (wal_keys_loaded set, one half or none
\* in place).  Unless a rotation failed or ran meanwhile, it is the pair in the
\* files: XLogWalRcvClose loads the keys anew for every segment.
JudgedByCurrentKeys ==
    [][\A p \in Receivers :
        /\ verdict'[p] # verdict[p] /\ verdict'[p] \in {"valid", "failed"}
        /\ walsig # NoSig
        => /\ mem[p].live /\ Complete(mem[p].sk) /\ Complete(mem[p].pk)
           /\ ~overlap => mem[p].pk = pkFile]_vars

\* As long as rotations succeed and run alone, the two halves a process has
\* loaded are of one pair: signatures it makes verify under the public key it
\* publishes.
PairMatches ==
    ~overlap => \A p \in Procs :
        /\ mem[p].loaded
        /\ p \in Children => job[p].step # "loadpk"
        => mem[p].sk = mem[p].pk

\* "Do not let verification errors prevent WAL replay" (XLogWalRcvClose): a
\* reception always reaches its end, whatever the verdict.  (Two of the
\* repository's documents say that the standby rejects such a segment.)
ReplayNotBlocked ==
    \A p \in Receivers : verdict[p] = "pending" ~> verdict[p] # "pending"

-----------------------------------------------------------------------------
\* What the documentation says of verification.

\* A segment whose signature was made with the secret half of the loaded pair
\* verifies ("Standbys verify signatures before applying WAL", README.md).
GenuineSegmentsVerify ==
    [][\A p \in Receivers :
        job[p].step = "verify" /\ walsig.by = mem[p].pk
        => verdict'[p] # "failed"]_vars
=============================================================================
