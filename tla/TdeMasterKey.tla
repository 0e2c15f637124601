--------------------------- MODULE TdeMasterKey ---------------------------
(***************************************************************************)
(* The life of the TDE master key: the file master.key, written by the     *)
(* server (src/backend/crypto/tde/tde_keymanage.c) and by the offline tool *)
(* src/bin/pg_tde_master_key, the KEM secret key that unwraps it, held by  *)
(* the administrator and handed back through the key provider, and the     *)
(* unwrapped key in the memory of each process.                            *)
(*                                                                         *)
(* Every generation draws a master key and a KEM key pair together, and    *)
(* the file wraps the one under the other: a generation number stands for  *)
(* both, and a file unwraps with the secret key of its own generation      *)
(* only, AES-GCM rejecting any other.  The file is rewritten in place; it  *)
(* is torn from the truncation until its bytes arrive, in one write(2)     *)
(* since it is smaller than a stdio buffer.                                *)
(***************************************************************************)
EXTENDS Integers

CONSTANTS
    Backends,
    Tool,             \* a run of pg_tde_master_key
    Postmaster,
    MaxGen            \* bound: master keys generated

ASSUME MasterKeyAssumption ==
    /\ Tool \notin Backends /\ Postmaster \notin Backends
    /\ MaxGen \in Nat

VARIABLES
    file,             \* master.key as processes see it
    durable,          \* master.key as a power failure would leave it
    lastGen,          \* generations drawn so far
    secrets,          \* KEM secret keys the administrator has been given
    provider,         \* the one the key provider returns, or None
    MasterKey,        \* per process; None when MasterKeyLoaded is false
    job,              \* a generation under way, per backend and for the tool
    stored,           \* history: generations the file has held
    secured,          \* history: the generation a run of the tool has written
                      \* and synced, until the next one begins; or None
    unreported        \* history: generations whose secret key was discarded

diskVars == <<file, durable, stored, secured>>
adminVars == <<secrets, provider>>
masterVars == <<diskVars, lastGen, adminVars, MasterKey, job, unreported>>

None == 0
NoFile == -1
Torn == -2
Gens == 1 .. MaxGen
Procs == Backends \cup {Postmaster}
Writers == Backends \cup {Tool}
Idle == [step |-> "idle", gen |-> None]

\* The server runs: a TDE server does not without its master key.
Up == MasterKey[Postmaster] # None

MasterInit ==
    /\ file = NoFile /\ durable = NoFile /\ stored = {} /\ secured = None
    /\ lastGen = 0
    /\ secrets = {} /\ provider = None
    /\ MasterKey = [p \in Procs |-> None]
    /\ job = [w \in Writers |-> Idle]
    /\ unreported = {}

-----------------------------------------------------------------------------
Step(w, s) == job' = [job EXCEPT ![w].step = s]
Finish(w) == job' = [job EXCEPT ![w] = Idle]

\* Key generation and encapsulation, then the file is opened for writing,
\* which truncates it.
OpenKeyFile(w) ==
    /\ job[w] = Idle /\ lastGen < MaxGen
    /\ lastGen' = lastGen + 1
    /\ job' = [job EXCEPT ![w] = [step |-> "open", gen |-> lastGen + 1]]
    /\ file' = Torn /\ secured' = None
    /\ UNCHANGED <<durable, stored>>

\* The bytes of the new file reach the kernel.
Fill(g) ==
    /\ file' = g
    /\ stored' = stored \cup {g}

\* cmd_init, with or without --force, and cmd_rotate.
ToolBegin(cmd) ==
    /\ CASE cmd = "init" -> file = NoFile
         [] cmd = "force" -> TRUE
         [] cmd = "rotate" -> file # NoFile
    /\ OpenKeyFile(Tool)
    /\ UNCHANGED <<adminVars, MasterKey, unreported>>

\* A successful fsync of generation g by the tool.  It counts if no rotation is
\* at the file too, and if the file is not new: nobody syncs the directory.
Secure(g) ==
    secured' = IF durable # NoFile /\ \A p \in Backends : job[p] = Idle THEN g ELSE None

\* Mutant: fsync before write, the order of tde_write_master_key_file.
ToolWriteSyncFirst ==
    /\ job[Tool].step = "open"
    /\ Fill(job[Tool].gen)
    /\ \/ durable' = file /\ Secure(job[Tool].gen)
       \/ UNCHANGED durable /\ secured' = None
    /\ Step(Tool, "print")
    /\ UNCHANGED <<lastGen, adminVars, MasterKey, unreported>>

\* write_secure_file: write, then fsync, whose failure is a warning.
ToolWrite ==
    /\ job[Tool].step = "open"
    /\ Fill(job[Tool].gen)
    /\ \/ durable' = job[Tool].gen /\ Secure(job[Tool].gen)
       \/ UNCHANGED durable /\ secured' = None
    /\ Step(Tool, "print")
    /\ UNCHANGED <<lastGen, adminVars, MasterKey, unreported>>

\* Mutant: the secret key is not printed.
ToolPrintNothing ==
    /\ job[Tool].step = "print"
    /\ Finish(Tool)
    /\ UNCHANGED <<diskVars, lastGen, adminVars, MasterKey, unreported>>

\* The secret key is printed, and wiped.
ToolPrint ==
    /\ job[Tool].step = "print"
    /\ secrets' = secrets \cup {job[Tool].gen}
    /\ Finish(Tool)
    /\ UNCHANGED <<diskVars, lastGen, provider, MasterKey, unreported>>

\* The tool fails or is killed.
ToolFails ==
    /\ job[Tool] # Idle
    /\ unreported' = unreported \cup {job[Tool].gen}
    /\ Finish(Tool)
    /\ UNCHANGED <<diskVars, lastGen, adminVars, MasterKey>>

-----------------------------------------------------------------------------
\* tde_rotate_master_key: MasterKeyLoaded, then tde_generate_master_key.
RotateBegin(p) ==
    /\ Up /\ MasterKey[p] # None
    /\ OpenKeyFile(p)
    /\ UNCHANGED <<adminVars, MasterKey, unreported>>

\* tde_write_master_key_file: pg_fsync while the bytes are in the stdio buffer.
RotateFsync(p) ==
    /\ job[p].step = "open"
    /\ durable' = file
    /\ Step(p, "close")
    /\ UNCHANGED <<file, stored, secured, lastGen, adminVars, MasterKey, unreported>>

\* pg_fsync fails, which is a warning.
RotateFsyncWarns(p) ==
    /\ job[p].step = "open"
    /\ Step(p, "close")
    /\ UNCHANGED <<diskVars, lastGen, adminVars, MasterKey, unreported>>

\* FreeFile writes them; the new key is loaded and its secret key freed.
RotateClose(p) ==
    /\ job[p].step = "close"
    /\ Fill(job[p].gen)
    /\ MasterKey' = [MasterKey EXCEPT ![p] = job[p].gen]
    /\ unreported' = unreported \cup {job[p].gen}
    /\ Finish(p)
    /\ UNCHANGED <<durable, secured, lastGen, adminVars>>

\* Mutant: the new key is in memory before its file is, and stays there.
RotateFailsLate(p) ==
    /\ job[p] # Idle
    /\ MasterKey' = [MasterKey EXCEPT ![p] = job[p].gen]
    /\ unreported' = unreported \cup {job[p].gen}
    /\ Finish(p)
    /\ UNCHANGED <<diskVars, lastGen, adminVars>>

\* The file cannot be written, or not closed when it is; PG_CATCH restores the
\* key that was loaded.
RotateFails(p) ==
    /\ job[p] # Idle
    /\ \/ UNCHANGED <<file, stored>>
       \/ job[p].step = "close" /\ Fill(job[p].gen)
    /\ unreported' = unreported \cup {job[p].gen}
    /\ Finish(p)
    /\ UNCHANGED <<durable, secured, lastGen, adminVars, MasterKey>>

-----------------------------------------------------------------------------
\* The administrator configures a secret key they were given.
SetProvider(g) ==
    /\ provider' = g
    /\ UNCHANGED <<diskVars, lastGen, secrets, MasterKey, job, unreported>>

\* tde_unwrap_master_key accepts the file with the provider's secret key.
Unwraps(f, s) == f \in Gens /\ s = f

\* Server start: the postmaster unwraps the key while it creates shared
\* memory, an error being fatal; its children inherit the key.
StartServer ==
    /\ ~Up /\ Unwraps(file, provider)
    /\ MasterKey' = [p \in Procs |-> file]
    /\ UNCHANGED <<diskVars, lastGen, adminVars, job, unreported>>

\* The jobs of the backends end without having reported their secret key.
DropJobs(W) ==
    /\ job' = [w \in Writers |-> IF w \in W THEN Idle ELSE job[w]]
    /\ unreported' = unreported \cup ({job[w].gen : w \in W} \ {None})

\* A backend ends and another is forked.
Fork(p) ==
    /\ Up /\ job[p] = Idle
    /\ MasterKey' = [MasterKey EXCEPT ![p] = MasterKey[Postmaster]]
    /\ UNCHANGED <<diskVars, lastGen, adminVars, job, unreported>>

\* A backend crashes.  The postmaster re-creates shared memory, but its
\* MasterKeyLoaded is still set and the file is not read again.
CrashRestart ==
    /\ Up
    /\ MasterKey' = [p \in Procs |-> MasterKey[Postmaster]]
    /\ DropJobs(Backends)
    /\ UNCHANGED <<diskVars, lastGen, adminVars>>

Stop ==
    /\ Up
    /\ MasterKey' = [p \in Procs |-> None]
    /\ DropJobs(Backends)
    /\ UNCHANGED <<diskVars, lastGen, adminVars>>

\* The kernel writes dirty pages out in its own time.
Writeback ==
    /\ durable' = file
    /\ UNCHANGED <<file, stored, secured, lastGen, adminVars, MasterKey, job, unreported>>

PowerFailure ==
    /\ file' = durable
    /\ MasterKey' = [p \in Procs |-> None]
    /\ DropJobs(Writers)
    /\ UNCHANGED <<durable, stored, secured, lastGen, adminVars>>
-----------------------------------------------------------------------------
Generate ==
    \/ \E cmd \in {"init", "force", "rotate"} : ToolBegin(cmd)
    \/ ToolWrite \/ ToolPrint
    \/ \E p \in Backends : RotateBegin(p) \/ RotateFsync(p) \/ RotateClose(p)

Operate ==
    \/ \E g \in secrets : SetProvider(g)
    \/ StartServer \/ Stop
    \/ \E p \in Backends : Fork(p)

MasterNext ==
    \/ Generate \/ Operate
    \/ ToolFails
    \/ \E p \in Backends : RotateFsyncWarns(p) \/ RotateFails(p)
    \/ CrashRestart \/ Writeback \/ PowerFailure

MasterSpec == MasterInit /\ [][MasterNext]_masterVars

-----------------------------------------------------------------------------
\* Type invariant.
MasterTypeOK ==
    /\ file \in Gens \cup {NoFile, Torn} /\ durable \in Gens \cup {NoFile, Torn}
    /\ stored \subseteq Gens /\ unreported \subseteq Gens /\ secured \in Gens \cup {None}
    /\ lastGen \in 0 .. MaxGen
    /\ secrets \subseteq Gens /\ provider \in Gens \cup {None}
    /\ MasterKey \in [Procs -> Gens \cup {None}]
    /\ job \in [Writers -> [step : {"idle", "open", "close", "print"},
                           gen : Gens \cup {None}]]

\* No process works with a master key that was never in the file, whatever
\* fails, crashes or runs beside a rotation ("If this fails, we restore the old
\* key", tde_rotate_master_key): what it encrypted would be lost with it.
MemoryKeyWasStored ==
    \A p \in Procs : MasterKey[p] # None => MasterKey[p] \in stored

\* A master key that a run of the tool put in the place of another one, with
\* no rotation beside it, outlives every crash, restart and power failure until
\* the next generation begins: write_secure_file syncs the file once its bytes
\* are in it.  (A rotation inside the server syncs it before, RotateFsync.)
ToolKeyDurable ==
    secured # None => file = secured /\ durable = secured

\* The administrator can unwrap any file that a completed run of the tool
\* wrote: the only files without a known secret key come from rotations inside
\* the server and from runs of the tool that did not get to print it.
ToolHandsOverSecret ==
    \A g \in stored :
        g \in secrets \/ g \in unreported \/ job[Tool] = [step |-> "print", gen |-> g]
=============================================================================
