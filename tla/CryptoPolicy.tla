---------------------------- MODULE CryptoPolicy ----------------------------
(***************************************************************************)
(* crypto_policy and the settings it cascades to (crypto-policy.c), as the *)
(* postmaster and its sessions load and reload the configuration files     *)
(* (guc.c), while sessions change password_encryption in transactions,     *)
(* subtransactions and functions with a SET option.                        *)
(*                                                                         *)
(* The two files are taken as one list of settings.  The ssl_pqc settings  *)
(* are followed in the postmaster, which makes the SSL context; a session  *)
(* can change password_encryption only.                                    *)
(***************************************************************************)
EXTENDS Guc, FiniteSets

CONSTANTS
    Sessions,
    FilePolicies,     \* values of crypto_policy in the file
    FileValues,       \* values of a setting in the file, by setting
    SetValues,        \* values of password_encryption in SET and ALTER ROLE
    Invalid,          \* a value the file may hold and the check hook refuses
    MaxLevel,         \* bound: nest levels open in a session
    MaxEdits          \* bound: changes of the file

Params == {"password_encryption", "ssl_pqc_mode", "ssl_pqc_groups", "ssl_pqc_sigalgs"}
PE == "password_encryption"
Policies == {"custom", "legacy", "transitional", "fips-pqc-level3", "fips-pqc-level5"}

\* The boot values of guc_tables.c.
BootVal ==
    [password_encryption |-> "scram-sha-256", ssl_pqc_mode |-> "hybrid",
     ssl_pqc_groups |-> "X25519MLKEM768:X25519:prime256v1", ssl_pqc_sigalgs |-> ""]

\* assign_crypto_policy: what a policy sets, Null what it leaves alone.
Cascade(policy) ==
    CASE policy = "custom" -> [x \in Params |-> Null]
      [] policy = "legacy" ->
            [[x \in Params |-> Null] EXCEPT !.password_encryption = "md5",
                                            !.ssl_pqc_mode = "off"]
      [] policy = "transitional" -> BootVal
      [] policy = "fips-pqc-level3" ->
            [password_encryption |-> "scram-sha-384", ssl_pqc_mode |-> "hybrid",
             ssl_pqc_groups |-> "MLKEM768", ssl_pqc_sigalgs |-> "MLDSA65"]
      [] policy = "fips-pqc-level5" ->
            [password_encryption |-> "scram-sha-384", ssl_pqc_mode |-> "pqc-only",
             ssl_pqc_groups |-> "MLKEM1024", ssl_pqc_sigalgs |-> "MLDSA87"]

Values(x) ==
    ({Cascade(p)[x] : p \in Policies} \cup {BootVal[x]} \cup FileValues[x]
        \cup (IF x = PE THEN SetValues ELSE {})) \ {Null, Invalid}

\* A file: the policy, the other settings, and whether the policy comes first.
Files ==
    {f \in [policy : FilePolicies \cup {Null}, policyFirst : BOOLEAN,
            set : [Params -> UNION {FileValues[x] : x \in Params} \cup {Null}]] :
        /\ \A x \in Params : f.set[x] \in FileValues[x] \cup {Null}
        /\ f.policyFirst => f.policy # Null /\ \E x \in Params : f.set[x] # Null}

ASSUME PolicyAssumption ==
    /\ FilePolicies \subseteq Policies \cup {Invalid}
    /\ {Null, Invalid} \cap ({BootVal[x] : x \in Params} \cup {"default", "pinned"}) = {}
    /\ \A p \in Policies, x \in Params : Cascade(p)[x] # Invalid
    /\ SetValues \cap {Null, Invalid, "default", "pinned"} = {}
    /\ MaxLevel \in Nat /\ MaxEdits \in Nat

VARIABLES
    file, edits,
    pmPolicy, pm,     \* the postmaster's crypto_policy and other settings
    sess              \* the sessions

fileVars == <<file, edits>>
pmVars == <<pmPolicy, pm>>
vars == <<fileVars, pmVars, sess>>

\* A session: its crypto_policy and password_encryption, its open nest levels
\* ("xact" or "func"), ConfigReloadPending; and as history the SET and SET LOCAL
\* in force ("save" while a function's SET option is), and those in force when
\* each of the levels was opened.
NoLayers == [set |-> Null, local |-> Null, save |-> FALSE]
NoSession ==
    [policy |-> "none", guc |-> InitializeOneGUCOption(BootVal[PE]), levels |-> <<>>,
     pending |-> FALSE, layers |-> NoLayers, outer |-> <<>>]
Connected(s) == sess[s].policy # "none"
-----------------------------------------------------------------------------
\* Loading the file.

\* Mutant: the cascaded values count as values from the file.
CascadeSettingAsFile(g, p, x) ==
    IF Cascade(p)[x] = Null THEN g ELSE SetDefault(g, Cascade(p)[x], FILE)

\* assign_crypto_policy, for one setting.
CascadeSetting(g, p, x) ==
    IF Cascade(p)[x] = Null THEN g ELSE SetDefault(g, Cascade(p)[x], OVERRIDE)

\* A value from the file, unless it is refused.
FileSetting(g, f, x) ==
    IF f.set[x] \in {Null, Invalid} THEN g ELSE SetDefault(g, f.set[x], FILE)

\* crypto_policy after loading f, and whether its assign hook runs.
LoadedPolicy(p, f) ==
    IF f.policy = Null THEN "custom" ELSE IF f.policy = Invalid THEN p ELSE f.policy

\* ProcessConfigFileInternal: settings gone from the file first, then the
\* others in the order of the file.
LoadSetting(g, f, x) ==
    LET kept == IF f.set[x] = Null THEN RemovedFromFile(g, BootVal[x]) ELSE g
        Hook(h) == IF f.policy \in {Null, Invalid} THEN h
                   ELSE CascadeSetting(h, f.policy, x)
    IN  IF f.policyFirst THEN FileSetting(Hook(kept), f, x)
        ELSE Hook(FileSetting(kept, f, x))

ValidFile(f) == f.policy # Invalid /\ \A x \in Params : f.set[x] # Invalid

Startup(f) == [x \in Params |-> LoadSetting(InitializeOneGUCOption(BootVal[x]), f, x)]

Init ==
    /\ file \in {f \in Files : ValidFile(f)} /\ edits = 0
    /\ pmPolicy = LoadedPolicy("custom", file) /\ pm = Startup(file)
    /\ sess = [s \in Sessions |-> NoSession]

\* ALTER SYSTEM or an editor.
EditFile ==
    /\ edits < MaxEdits /\ edits' = edits + 1
    /\ file' \in Files \ {file}
    /\ UNCHANGED <<pmVars, sess>>

\* process_pm_reload_request.
PostmasterReload ==
    /\ pmPolicy' = LoadedPolicy(pmPolicy, file)
    /\ pm' = [x \in Params |-> LoadSetting(pm[x], file, x)]
    /\ sess' = [s \in Sessions |-> [sess[s] EXCEPT !.pending = Connected(s)]]
    /\ UNCHANGED fileVars

\* The server is restarted; a file with errors would keep it from starting.
Restart ==
    /\ ValidFile(file)
    /\ pmPolicy' = LoadedPolicy("custom", file) /\ pm' = Startup(file)
    /\ sess' = [s \in Sessions |-> NoSession]
    /\ UNCHANGED fileVars
-----------------------------------------------------------------------------
\* Sessions.  A backend starts with the postmaster's settings; then come those of
\* its role, if any.
Connect(s, role) ==
    /\ ~Connected(s)
    /\ sess' = [sess EXCEPT ![s].policy = pmPolicy,
            ![s].guc = IF role = Null THEN pm[PE] ELSE SetDefault(pm[PE], role, USER)]
    /\ UNCHANGED <<fileVars, pmVars>>

Disconnect(s) ==
    /\ Connected(s)
    /\ sess' = [sess EXCEPT ![s] = NoSession]
    /\ UNCHANGED <<fileVars, pmVars>>

\* PostgresMain reloads between two commands, in a transaction or not.
Reload(s) ==
    /\ sess[s].pending /\ \A k \in DOMAIN sess[s].levels : sess[s].levels[k] # "func"
    /\ sess' = [sess EXCEPT ![s].pending = FALSE,
            ![s].policy = LoadedPolicy(@, file),
            ![s].guc = LoadSetting(@, file, PE)]
    /\ UNCHANGED <<fileVars, pmVars>>

Level(s) == Len(sess[s].levels)

\* BEGIN, SAVEPOINT or the block of an exception handler.
BeginXact(s) ==
    /\ Connected(s) /\ Level(s) < MaxLevel
    /\ sess' = [sess EXCEPT ![s].levels = Append(@, "xact"),
            ![s].outer = Append(@, sess[s].layers)]
    /\ UNCHANGED <<fileVars, pmVars>>

\* fmgr_security_definer: a function with SET password_encryption = v.
EnterFunction(s, v) ==
    /\ Level(s) \in 1 .. MaxLevel - 1
    /\ sess' = [sess EXCEPT ![s].levels = Append(@, "func"),
            ![s].outer = Append(@, sess[s].layers),
            ![s].guc = SetInteractive(@, v, "SAVE", Level(s) + 1),
            ![s].layers = [@ EXCEPT !.local = v, !.save = TRUE]]
    /\ UNCHANGED <<fileVars, pmVars>>

\* History: the layers after a SET, and after the end of a level n.
AfterSet(layers, v, action) ==
    IF action = "SET" THEN [set |-> v, local |-> Null, save |-> FALSE]
    ELSE [layers EXCEPT !.local = IF v = Null THEN "default" ELSE v]

\* SET, RESET, SET LOCAL, SET LOCAL TO DEFAULT: v is Null for the default.
Set(s, v, action) ==
    /\ Level(s) > 0
    /\ sess' = [sess EXCEPT
            ![s].guc = SetInteractive(@, v, action, Level(s)),
            ![s].layers = AfterSet(@, v, action)]
    /\ UNCHANGED <<fileVars, pmVars>>

\* ResetAllOptions passes over what was not SET.
ResetAll(s) == sess[s].guc.source > OVERRIDE /\ Set(s, Null, "SET")

AfterCommit(g, kind, layers, outer, n) ==
    IF kind = "func" /\ layers.save THEN outer
    ELSE IF n > 1 THEN layers
    ELSE IF layers.set = Null /\ g.stack # <<>> /\ Last(g.stack).state = "SET_LOCAL"
    THEN [layers EXCEPT !.local = Null, !.set = "pinned"]
    ELSE [layers EXCEPT !.local = Null]

\* The end of the innermost level: COMMIT, RELEASE, the return of a function.
CommitLevel(s) ==
    LET n == Level(s) IN
    /\ n > 0
    /\ sess' = [sess EXCEPT ![s].levels = Front(@), ![s].outer = Front(@),
            ![s].guc = CommitGUC(@, n),
            ![s].layers = AfterCommit(sess[s].guc, sess[s].levels[n], @, sess[s].outer[n], n)]
    /\ UNCHANGED <<fileVars, pmVars>>

\* ROLLBACK, ROLLBACK TO or an error: level n and those in it end.
AbortLevel(s, n) ==
    /\ sess[s].levels[n] = "xact"
    /\ sess' = [sess EXCEPT ![s].levels = SubSeq(@, 1, n - 1),
            ![s].outer = SubSeq(@, 1, n - 1),
            ![s].guc = AbortGUC(@, n),
            ![s].layers = sess[s].outer[n]]
    /\ UNCHANGED <<fileVars, pmVars>>

Command(s) ==
    \/ \E v \in SetValues \cup {Null}, action \in {"SET", "LOCAL"} : Set(s, v, action)
    \/ \E v \in SetValues : EnterFunction(s, v)
    \/ ResetAll(s)
    \/ BeginXact(s)
    \/ CommitLevel(s)
    \/ \E n \in 1 .. Level(s) : AbortLevel(s, n)

Next ==
    \/ EditFile \/ PostmasterReload \/ Restart
    \/ \E s \in Sessions :
        \/ \E role \in SetValues \cup {Null} : Connect(s, role)
        \/ Disconnect(s) \/ Reload(s) \/ Command(s)

Spec == Init /\ [][Next]_vars
-----------------------------------------------------------------------------
\* Type invariant.
TypeOK ==
    /\ file \in Files /\ edits \in 0 .. MaxEdits
    /\ pmPolicy \in Policies
    /\ DOMAIN pm = Params /\ \A x \in Params : pm[x] \in Gucs(Values(x), MaxLevel)
    /\ DOMAIN sess = Sessions
    /\ \A s \in Sessions :
        /\ sess[s].policy \in Policies \cup {"none"}
        /\ sess[s].guc \in Gucs(Values(PE), MaxLevel)
        /\ sess[s].levels \in Seq({"xact", "func"}) /\ sess[s].pending \in BOOLEAN

InForce(p, g, x) ==
    Cascade(p)[x] # Null =>
        /\ g.reset = Cascade(p)[x]
        /\ g.source <= OVERRIDE => g.val = Cascade(p)[x]

\* A policy is in force as a whole in every process that has loaded it: whatever
\* comes before or after crypto_policy in the file, whatever was in force
\* before, whatever the role's setting is, and however transactions in which
\* the session had SET password_encryption end, each setting the policy
\* cascades to has the policy's value, or one the session has SET and can RESET.
PolicyInForce ==
    /\ \A x \in Params : InForce(pmPolicy, pm[x], x) /\ pm[x].source <= OVERRIDE
    /\ \A s \in Sessions : Connected(s) => InForce(sess[s].policy, sess[s].guc, PE)

\* SET and SET LOCAL are scoped as SQL has it, reloads in the middle of a
\* transaction included: the effective value is that of the SET LOCAL in force,
\* else of the SET in force, else the present default.  Except that a RESET
\* followed by SET LOCAL in one transaction pins the default of that time.
SetIsScoped ==
    \A s \in Sessions :
        LET l == sess[s].layers
            g == sess[s].guc
            top == IF l.local # Null THEN l.local ELSE l.set
        IN  top # "pinned" =>
                g.val = IF top \in {Null, "default"} THEN g.reset ELSE top
=============================================================================
