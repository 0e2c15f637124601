--------------------------- MODULE WalKeys_proofs ---------------------------
(***************************************************************************)
(* Proofs about WalKeys, for any number of backends, WAL receivers and key *)
(* pairs.                                                                  *)
(***************************************************************************)
EXTENDS WalKeys, TLAPS

Files == {"none", "empty", "short"} \cup KeyPairs
Halves == {"null", "short"} \cup KeyPairs
Pairs == [sk : Halves, pk : Halves, loaded : BOOLEAN, live : BOOLEAN]
Jobs == [kind : {"idle", "rotate", "receive"},
         step : {"idle", "sk", "pkopen", "pk", "loadsk", "loadpk", "verify"},
         key : {"null"} \cup KeyPairs]

\* Only rotations write files, only backends rotate.
JobOK ==
    /\ job \in [Children -> Jobs]
    /\ \A p \in Children :
        /\ job[p].step \in {"sk", "pkopen", "pk"} => Rotating(p)
        /\ Rotating(p) => /\ p \in Backends /\ job[p].key \in KeyPairs
                          /\ job[p].step \notin {"idle", "verify"}

\* What holds as long as rotations succeed and run alone: nobody else is at
\* work during one, the files are a pair outside one and follow its steps
\* inside, and a load has read what is in the files.
Calm ==
    /\ \A p, q \in Children : Rotating(p) /\ p # q => job[q] = Idle
    /\ (\A p \in Children : ~Rotating(p)) => skFile = pkFile /\ skFile \in KeyPairs
    /\ \A p \in Children : Rotating(p) =>
        /\ job[p].step # "sk" => skFile = job[p].key
        /\ job[p].step \in {"loadsk", "loadpk"} => pkFile = job[p].key
    /\ \A p \in Children : /\ job[p].step = "loadpk" => mem[p].sk = skFile
                           /\ job[p].step = "verify" => mem[p].pk = pkFile
    /\ \A p \in Procs : /\ mem[p].loaded
                        /\ p \in Children => job[p].step # "loadpk"
                        => mem[p].sk = mem[p].pk

\* The keys of a WAL receiver that is about to verify a segment.
ReadyOK ==
    \A p \in Children : job[p].step = "verify" =>
        mem[p].live /\ (mem[p].loaded => Complete(mem[p].sk) /\ Complete(mem[p].pk))

\* PairMatches is not inductive by itself: what a load finds depends on the
\* files, and those on the rotation under way.
Inv == TypeOK /\ JobOK /\ ReadyOK /\ (~overlap => Calm)

\* The types as sets, and what a process is.
LEMMA Types ==
    TypeOK <=>
    /\ skFile \in Files /\ pkFile \in Files /\ unused \subseteq KeyPairs
    /\ mem \in [Procs -> Pairs]
    /\ signing \in [Procs -> BOOLEAN]
    /\ \A p \in Children :
        /\ job[p].kind \in {"idle", "rotate", "receive"}
        /\ job[p].step \in {"idle", "sk", "pkopen", "pk", "loadsk", "loadpk", "verify"}
        /\ job[p].key \in {"null"} \cup KeyPairs
    /\ verdict \in [Receivers -> {"none", "pending", "error", "valid", "failed"}]
    /\ overlap \in BOOLEAN
  BY DEF TypeOK, Files, Halves, Pairs

\* The postmaster is no child, and no backend is a WAL receiver.
LEMMA Persons ==
    /\ Postmaster \in Procs /\ Postmaster \notin Children
    /\ \A p \in Children : p \in Procs
    /\ \A p \in Backends : p \in Children /\ p \notin Receivers
    /\ \A p \in Receivers : p \in Children /\ p \notin Backends
  BY KeysAssumption DEF Procs, Children

\* Key bytes are readable, and an idle job is no rotation.
LEMMA Values ==
    /\ Idle \in Jobs /\ Idle.step = "idle" /\ Idle.kind = "idle"
    /\ NoKeys \in Pairs /\ ~NoKeys.loaded
    /\ \A k \in KeyPairs : Readable(k) /\ k \in Files /\ k \in Halves
    /\ \A f \in Files : Readable(f) => f \in Halves
  BY KeysAssumption DEF Idle, Jobs, NoKeys, Pairs, Halves, Files, Readable

\* pqc_wal_load_signing_keys never reports a load of two halves of which one
\* is not whole.
LEMMA Loads ==
    ASSUME NEW sk, NEW pk
    PROVE  /\ LoadedKeys(sk, pk) \in Pairs /\ Inherited(LoadedKeys(sk, pk)) \in Pairs
           /\ LoadedKeys(sk, pk).loaded =>
                LoadedKeys(sk, pk).sk = sk /\ LoadedKeys(sk, pk).pk = pk
  BY Values, Zenon DEF LoadedKeys, Complete, Pairs, Halves, Inherited, NoKeys

\* fork() copies the statics.
LEMMA Inherits ==
    ASSUME NEW m \in Pairs
    PROVE  /\ Inherited(m) \in Pairs
           /\ Inherited(m).sk = m.sk /\ Inherited(m).pk = m.pk
           /\ Inherited(m).loaded = m.loaded
  BY Zenon DEF Inherited, Pairs

-----------------------------------------------------------------------------
\* In a calm state a process that is reading the files and does not rotate
\* finds one pair there.
LEMMA CalmFiles ==
    ASSUME Inv, ~overlap, NEW p \in Children, job[p].step \in {"loadsk", "loadpk"}
    PROVE  skFile = pkFile /\ skFile \in KeyPairs
<1>1. CASE Rotating(p)
  BY <1>1 DEF Inv, Calm, JobOK
<1>2. CASE ~Rotating(p)
  <2>1. job[p] # Idle
    BY Values
  <2>2. \A q \in Children : ~Rotating(q)
    BY <1>2, <2>1 DEF Inv, Calm
  <2> QED BY <2>2 DEF Inv, Calm
<1> QED BY <1>1, <1>2

\* A step that makes nobody ready to verify.
LEMMA ReadyStays ==
    ASSUME Inv,
           \A p \in Children : job'[p].step = "verify" =>
                              job'[p] = job[p] /\ mem'[p] = mem[p]
    PROVE  ReadyOK'
  BY Zenon DEF Inv, ReadyOK, Complete

\* The beginning of a rotation.
LEMMA StepRotateBegin ==
    ASSUME Inv, NEW p \in Backends, RotateBegin(p)
    PROVE  Inv'
<1>1. PICK k \in unused : Begin(p, "rotate", k, "sk") /\ unused' = unused \ {k}
  BY DEF RotateBegin
<1> DEFINE j == [kind |-> "rotate", step |-> "sk", key |-> k]
<1>2. /\ p \in Children /\ k \in KeyPairs
      /\ job' = [job EXCEPT ![p] = j] /\ overlap' = (overlap \/ NotAlone(p, "rotate"))
      /\ skFile' = "empty" /\ UNCHANGED <<pkFile, mem, signing, walsig, verdict>>
  BY <1>1, Persons, Types, Zenon DEF Begin, RotateBegin, Inv
<1>3. /\ j \in Jobs /\ j.kind = "rotate" /\ j.step = "sk" /\ j.key = k
      /\ job'[p] = j /\ \A q \in Children \ {p} : job'[q] = job[q]
  BY <1>2 DEF Jobs, Inv, JobOK
<1> HIDE DEF j
<1>4. JobOK'
  BY <1>2, <1>3, Zenon DEF Inv, JobOK, Rotating
<1>5. TypeOK'
  <2>1. overlap' \in BOOLEAN
    BY <1>2
  <2>2. \A q \in Children : job'[q] \in Jobs
    BY <1>4 DEF JobOK
  <2>3. skFile' \in Files /\ unused' \subseteq KeyPairs
    BY <1>1, <1>2, Types, Zenon DEF Files, Inv
  <2> QED BY <1>2, <2>1, <2>2, <2>3, Types DEF Inv, TypeOK, Jobs
<1>6. ASSUME ~overlap' PROVE Calm'
  <2>1. ~overlap /\ \A q \in Children \ {p} : job[q] = Idle
    BY <1>2, <1>6, Zenon DEF NotAlone
  <2>2. Calm
    BY <2>1 DEF Inv
  <2>3. \A q \in Children \ {p} : ~Rotating(q) /\ job[q].step = "idle"
    BY <2>1, Values DEF Rotating
  <2>4. job[p].step # "loadpk"
    BY <1>1, Values DEF Begin
  <2> QED BY <1>2, <1>3, <2>1, <2>2, <2>3, <2>4, Values DEF Calm, Rotating
<1>7. ReadyOK'
  BY <1>2, <1>3, Persons, ReadyStays, Zenon
<1> QED BY <1>4, <1>5, <1>6, <1>7 DEF Inv

\* A job moves on to step s.
LEMMA StepMoves ==
    ASSUME Inv, NEW p \in Children, NEW s, Step(p, s),
           s \in {"pkopen", "pk", "loadsk", "loadpk", "verify"},
           s \in {"pkopen", "pk"} => Rotating(p),
           s = "verify" => ~Rotating(p)
    PROVE  /\ JobOK' /\ (\A q \in Children : Rotating(q)' <=> Rotating(q))
           /\ job'[p].step = s /\ job'[p].key = job[p].key
           /\ \A q \in Children \ {p} : job'[q] = job[q]
<1> DEFINE j == [job[p] EXCEPT !.step = s]
<1>1. job' = [job EXCEPT ![p] = j] /\ job[p] \in Jobs /\ job \in [Children -> Jobs]
  BY DEF Step, Inv, JobOK
<1>2. j \in Jobs /\ j.step = s /\ j.kind = job[p].kind /\ j.key = job[p].key
  BY <1>1 DEF Jobs
<1> HIDE DEF j
<1>3. job'[p] = j /\ \A q \in Children \ {p} : job'[q] = job[q]
  BY <1>1
<1>4. \A q \in Children : Rotating(q)' <=> Rotating(q)
  BY <1>2, <1>3 DEF Rotating
<1>5. JobOK'
  <2>1. job' \in [Children -> Jobs]
    BY <1>1, <1>2
  <2>2. ASSUME NEW q \in Children
        PROVE  /\ job'[q].step \in {"sk", "pkopen", "pk"} => Rotating(q)'
               /\ Rotating(q)' => /\ q \in Backends /\ job'[q].key \in KeyPairs
                                  /\ job'[q].step \notin {"idle", "verify"}
    BY <1>2, <1>3, <1>4 DEF Inv, JobOK
  <2> QED BY <2>1, <2>2 DEF JobOK
<1> QED BY <1>2, <1>3, <1>4, <1>5

\* A job ends.
LEMMA JobEnds ==
    ASSUME Inv, NEW p \in Children, job' = [job EXCEPT ![p] = Idle]
    PROVE  /\ JobOK' /\ job'[p] = Idle /\ ~Rotating(p)'
           /\ \A q \in Children \ {p} : job'[q] = job[q] /\ (Rotating(q)' <=> Rotating(q))
<1>1. /\ job \in [Children -> Jobs] /\ job'[p] = Idle
      /\ \A q \in Children \ {p} : job'[q] = job[q]
  BY DEF Inv, JobOK
<1>2. ~Rotating(p)' /\ \A q \in Children \ {p} : Rotating(q)' <=> Rotating(q)
  BY <1>1, Values DEF Rotating
<1>3. job' \in [Children -> Jobs]
  BY <1>1, Values
<1> QED BY <1>1, <1>2, <1>3, Values DEF Inv, JobOK

\* The types after a step that keeps the jobs in order.
LEMMA TypesAfter ==
    ASSUME JobOK', skFile' \in Files, pkFile' \in Files, unused' \subseteq KeyPairs,
           mem' \in [Procs -> Pairs], signing' \in [Procs -> BOOLEAN],
           verdict' \in [Receivers -> {"none", "pending", "error", "valid", "failed"}],
           overlap' \in BOOLEAN
    PROVE  TypeOK'
<1>1. \A q \in Children :
        /\ job'[q].kind \in {"idle", "rotate", "receive"}
        /\ job'[q].step \in {"idle", "sk", "pkopen", "pk", "loadsk", "loadpk", "verify"}
        /\ job'[q].key \in {"null"} \cup KeyPairs
  BY DEF JobOK, Jobs
<1> QED BY <1>1, Types DEF TypeOK, Files, Halves, Pairs

\* A failed rotation: from here on nothing is claimed of the pairs.
LEMMA Aborts ==
    ASSUME Inv, NEW p \in Children, NEW m \in Pairs, Abort(p, m),
           skFile' \in Files, pkFile' \in Files, unused' = unused
    PROVE  Inv'
<1>1. /\ job' = [job EXCEPT ![p] = Idle] /\ overlap' = TRUE
      /\ UNCHANGED <<signing, walsig, verdict>>
  BY DEF Abort
<1>2. mem' \in [Procs -> Pairs]
  <2>1. [m EXCEPT !.live = m.sk = "null" /\ m.pk = "null"] \in Pairs
    BY Zenon DEF Pairs
  <2> QED BY <2>1, Persons, Types DEF Abort, Inv
<1>3. JobOK' /\ job'[p] = Idle /\ \A q \in Children \ {p} : job'[q] = job[q]
  BY <1>1, JobEnds, Zenon
<1>4. TypeOK'
  BY <1>1, <1>2, <1>3, Types, TypesAfter DEF Inv
<1>5. ReadyOK'
  <2>1. \A q \in Children \ {p} : mem'[q] = mem[q]
    BY Persons, Types, Zenon DEF Abort, Inv
  <2> QED BY <1>3, <2>1, Values, ReadyStays, Zenon
<1> QED BY <1>1, <1>3, <1>4, <1>5 DEF Inv

\* The write of the secret key file preserves the invariant.
LEMMA StepWriteSk ==
    ASSUME Inv, NEW p \in Children, WriteSk(p)
    PROVE  Inv'
<1>1. /\ Rotating(p) /\ job[p].step = "sk" /\ job[p].key \in KeyPairs
      /\ UNCHANGED <<pkFile, unused>> /\ mem[p] \in Pairs
  BY Persons, Types DEF WriteSk, Inv, JobOK
<1>2. CASE skFile' = "short" /\ Abort(p, mem[p])
  BY <1>1, <1>2, Aborts, Types DEF Inv, Files
<1>3. CASE /\ skFile' = job[p].key /\ Step(p, "pkopen")
           /\ UNCHANGED <<mem, signing, walsig, verdict, overlap>>
  <2>1. /\ JobOK' /\ (\A q \in Children : Rotating(q)' <=> Rotating(q))
        /\ job'[p].step = "pkopen" /\ job'[p].key = job[p].key
        /\ \A q \in Children \ {p} : job'[q] = job[q]
    BY <1>1, <1>3, StepMoves, Zenon
  <2>2. TypeOK'
    BY <1>1, <1>3, <2>1, Values, Types, TypesAfter, Zenon DEF Inv
  <2>3. ASSUME ~overlap PROVE Calm'
    <3>1. Calm /\ \A q \in Children \ {p} : job[q] = Idle
      BY <1>1, <2>3 DEF Inv, Calm
    <3> QED BY <1>1, <1>3, <2>1, <3>1, Values DEF Calm
  <2>4. ReadyOK'
    BY <1>3, <2>1, ReadyStays, Zenon
  <2> QED BY <1>3, <2>1, <2>2, <2>3, <2>4 DEF Inv
<1> QED BY <1>2, <1>3 DEF WriteSk

\* The truncation of the public key file does too.
LEMMA StepOpenPk ==
    ASSUME Inv, NEW p \in Children, OpenPk(p)
    PROVE  Inv'
<1>1. /\ Rotating(p) /\ job[p].step = "pkopen" /\ pkFile' = "empty" /\ Step(p, "pk")
      /\ UNCHANGED <<skFile, unused, mem, signing, walsig, verdict, overlap>>
  BY DEF OpenPk, Inv, JobOK
<1>2. /\ JobOK' /\ (\A q \in Children : Rotating(q)' <=> Rotating(q))
      /\ job'[p].step = "pk" /\ job'[p].key = job[p].key
      /\ \A q \in Children \ {p} : job'[q] = job[q]
  BY <1>1, StepMoves
<1>3. TypeOK'
  BY <1>1, <1>2, Types, TypesAfter, Zenon DEF Inv, Files
<1>4. ASSUME ~overlap PROVE Calm'
  <2>1. Calm /\ \A q \in Children \ {p} : job[q] = Idle
    BY <1>1, <1>4, Zenon DEF Inv, Calm
  <2> QED BY <1>1, <1>2, <2>1, Values, ZenonT(40) DEF Calm
<1>5. ReadyOK'
  BY <1>1, <1>2, ReadyStays, Zenon
<1> QED BY <1>1, <1>2, <1>3, <1>4, <1>5 DEF Inv

\* The write of the public key file does too.
LEMMA StepWritePk ==
    ASSUME Inv, NEW p \in Children, WritePk(p)
    PROVE  Inv'
<1>1. /\ Rotating(p) /\ job[p].step = "pk" /\ job[p].key \in KeyPairs
      /\ UNCHANGED <<skFile, unused>> /\ mem[p] \in Pairs /\ p \in Procs
  BY Persons, Types DEF WritePk, Inv, JobOK
<1>2. CASE pkFile' = "short" /\ Abort(p, mem[p])
  BY <1>1, <1>2, Aborts, Types, Zenon DEF Inv, Files
<1>3. CASE /\ pkFile' = job[p].key /\ Step(p, "loadsk")
           /\ mem' = [mem EXCEPT ![p] = LoadedKeys(job[p].key, job[p].key)]
           /\ UNCHANGED <<signing, walsig, verdict, overlap>>
  <2>1. /\ JobOK' /\ (\A q \in Children : Rotating(q)' <=> Rotating(q))
        /\ job'[p].step = "loadsk" /\ job'[p].key = job[p].key
        /\ \A q \in Children \ {p} : job'[q] = job[q]
    BY <1>1, <1>3, StepMoves, Zenon
  <2>2. /\ mem' \in [Procs -> Pairs] /\ (mem'[p].loaded => mem'[p].sk = mem'[p].pk)
        /\ \A q \in Procs \ {p} : mem'[q] = mem[q]
    <3>1. mem \in [Procs -> Pairs]
      BY Types, SMTT(30), Z3T(30) DEF Inv
    <3> QED BY <1>1, <1>3, <3>1, Loads
  <2>3. TypeOK'
    BY <1>1, <1>3, <2>1, <2>2, Values, Types, TypesAfter, Zenon DEF Inv
  <2>4. ASSUME ~overlap PROVE Calm'
    <3>1. Calm /\ \A q \in Children \ {p} : job[q] = Idle
      BY <1>1, <2>4 DEF Inv, Calm
    <3> QED BY <1>1, <1>3, <2>1, <2>2, <3>1, Values, SMTT(30), Z3T(30) DEF Calm
  <2>5. ReadyOK'
    BY <2>1, <2>2, Persons, ReadyStays, Zenon
  <2> QED BY <1>3, <2>1, <2>3, <2>4, <2>5, Zenon DEF Inv
<1> QED BY <1>2, <1>3 DEF WritePk

-----------------------------------------------------------------------------
\* A load that fails in a WAL receiver, leaving m: in a calm state it fails
\* with nothing loaded, or does not fail.
LEMMA LoadFails ==
    ASSUME Inv, NEW p \in Children, NEW m \in Pairs, LoadError(p, m),
           UNCHANGED fileVars, overlap \/ m.sk = m.pk
    PROVE  Inv'
<1>1. UNCHANGED <<skFile, pkFile, unused>> /\ skFile \in Files /\ pkFile \in Files
  BY Types DEF fileVars, Inv
<1>2. CASE Rotating(p) /\ Abort(p, m)
  BY <1>1, <1>2, Aborts
<1>3. CASE /\ ~Rotating(p) /\ mem' = [mem EXCEPT ![p] = m]
           /\ job' = [job EXCEPT ![p] = Idle]
           /\ verdict' = [verdict EXCEPT ![p] = "error"]
           /\ UNCHANGED <<signing, walsig, overlap>>
  <2>1. /\ JobOK' /\ job'[p] = Idle /\ ~Rotating(p)'
        /\ \A q \in Children \ {p} : job'[q] = job[q] /\ (Rotating(q)' <=> Rotating(q))
    BY <1>3, JobEnds, Zenon
  <2>2. /\ mem' \in [Procs -> Pairs] /\ mem'[p] = m
        /\ \A q \in Procs \ {p} : mem'[q] = mem[q]
    BY <1>3, Persons, Types DEF Inv
  <2>3. verdict' \in [Receivers -> {"none", "pending", "error", "valid", "failed"}]
    BY <1>3, Types, Zenon DEF Inv
  <2>4. TypeOK'
    BY <1>1, <1>3, <2>1, <2>2, <2>3, Types, TypesAfter DEF Inv
  <2>5. ASSUME ~overlap PROVE Calm'
    <3>1. Calm /\ m.sk = m.pk
      BY <2>5 DEF Inv
    <3> QED BY <1>1, <1>3, <2>1, <2>2, <3>1, Values DEF Calm
  <2>6. ReadyOK'
    BY <2>1, <2>2, Persons, Values, ReadyStays, Zenon
  <2> QED BY <1>3, <2>1, <2>4, <2>5, <2>6 DEF Inv
<1> QED BY <1>2, <1>3 DEF LoadError

\* Reading the secret key preserves the invariant.
LEMMA StepLoadSk ==
    ASSUME Inv, NEW p \in Children, LoadSk(p)
    PROVE  Inv'
<1> DEFINE freed == [mem[p] EXCEPT !.sk = "null", !.pk = "null", !.live = TRUE]
           m == [freed EXCEPT !.sk = skFile]
<1>1. /\ job[p].step = "loadsk" /\ UNCHANGED fileVars /\ mem[p] \in Pairs
      /\ mem \in [Procs -> Pairs] /\ p \in Procs /\ skFile \in Files
  BY Persons, Types DEF LoadSk, Inv
<1>2. freed \in Pairs /\ freed.sk = freed.pk
  BY <1>1, Zenon DEF Pairs, Halves
<1>3. Readable(skFile) => m \in Pairs /\ m.sk = skFile
  BY <1>1, <1>2, Values, Zenon DEF Pairs
<1>4. CASE ~Readable(skFile) /\ LoadError(p, freed)
  <2> HIDE DEF freed
  <2> QED BY <1>1, <1>2, <1>4, LoadFails, Zenon
<1>5. CASE /\ Readable(skFile) /\ mem' = [mem EXCEPT ![p] = m]
           /\ Step(p, "loadpk") /\ UNCHANGED <<signing, walsig, verdict, overlap>>
  <2> HIDE DEF freed, m
  <2>1. /\ JobOK' /\ (\A q \in Children : Rotating(q)' <=> Rotating(q))
        /\ job'[p].step = "loadpk" /\ job'[p].key = job[p].key
        /\ \A q \in Children \ {p} : job'[q] = job[q]
    BY <1>5, StepMoves, Zenon
  <2>2. /\ mem' \in [Procs -> Pairs] /\ mem'[p].sk = skFile
        /\ \A q \in Procs \ {p} : mem'[q] = mem[q]
    BY <1>1, <1>3, <1>5, SMTT(30), Z3T(30)
  <2>3. TypeOK'
    BY <1>1, <1>5, <2>1, <2>2, Types, TypesAfter, Zenon DEF Inv, fileVars
  <2>4. ASSUME ~overlap PROVE Calm'
    <3>1. Calm /\ \A q \in Children : q \in Procs
      BY <2>4, Persons DEF Inv
    <3>2. job[p] # Idle
      BY <1>1, Values, SMTT(30), Z3T(30)
    <3>3. \A q \in Children \ {p} : ~Rotating(q)
      BY <3>1, <3>2, Zenon DEF Calm
    <3> QED BY <1>1, <1>5, <2>1, <2>2, <3>1, <3>3 DEF Calm, fileVars
  <2>5. ReadyOK'
    BY <2>1, <2>2, Persons, ReadyStays, Zenon
  <2> QED BY <1>5, <2>1, <2>3, <2>4, <2>5 DEF Inv
<1> QED BY <1>4, <1>5 DEF LoadSk

\* Reading the public key, and the end of the load, does too.
LEMMA StepLoadPk ==
    ASSUME Inv, NEW p \in Children, LoadPk(p)
    PROVE  Inv'
<1> DEFINE m == LoadedKeys(mem[p].sk, pkFile)
<1>1. /\ job[p].step = "loadpk" /\ UNCHANGED fileVars /\ mem[p] \in Pairs
      /\ mem \in [Procs -> Pairs] /\ p \in Procs /\ p \in Children
  BY Persons, Types, Zenon DEF LoadPk, Inv
<1>2. ~overlap => /\ skFile = pkFile /\ skFile \in KeyPairs /\ mem[p].sk = pkFile
                  /\ Readable(pkFile)
  BY <1>1, CalmFiles, Values, Zenon DEF Inv, Calm
<1>3. CASE ~Readable(pkFile) /\ LoadError(p, mem[p])
  BY <1>1, <1>2, <1>3, LoadFails
<1>4. m \in Pairs /\ Inherited(m) \in Pairs /\ m.loaded \in BOOLEAN
      /\ (m.loaded => m.sk = mem[p].sk /\ m.pk = pkFile)
  BY Loads, Zenon DEF Pairs
<1>5. /\ Inherited(m).loaded => Inherited(m).sk = mem[p].sk /\ Inherited(m).pk = pkFile
  BY <1>4, Inherits, SMTT(30), Z3T(30)
<1>6. /\ m.live /\ (m.loaded => Complete(m.sk) /\ Complete(m.pk))
      /\ ~overlap => m.pk = pkFile
  BY <1>2, Zenon DEF LoadedKeys, Complete, NoKeys
<1> HIDE DEF m
<1>7. ASSUME NEW n \in Pairs, n.loaded => n.sk = mem[p].sk /\ n.pk = pkFile,
             job'[p].step = "verify" => n = m,
             mem' = [mem EXCEPT ![p] = n],
             signing' = [signing EXCEPT ![p] = @ /\ m.loaded],
             UNCHANGED <<walsig, verdict, overlap>>,
             JobOK', job'[p].step # "loadpk",
             Rotating(p)' => Rotating(p) /\ job'[p] = job[p],
             Rotating(p) => ~Rotating(p)',
             \A q \in Children \ {p} : job'[q] = job[q] /\ (Rotating(q)' <=> Rotating(q))
      PROVE  Inv'
  <2>1. /\ mem' \in [Procs -> Pairs] /\ mem'[p] = n
        /\ \A q \in Procs \ {p} : mem'[q] = mem[q]
    BY <1>1, <1>7
  <2>2. signing' \in [Procs -> BOOLEAN]
    BY <1>4, <1>7, Types, Zenon DEF Inv
  <2>3. TypeOK'
    BY <1>1, <1>7, <2>1, <2>2, Types, TypesAfter, Zenon DEF Inv, fileVars
  <2>4. ASSUME ~overlap PROVE Calm'
    <3>1. Calm /\ skFile = pkFile /\ skFile \in KeyPairs /\ mem[p].sk = pkFile
      BY <1>2, <2>4 DEF Inv
    <3>2. \A q \in Children \ {p} : ~Rotating(q)
      <4>1. job[p] # Idle BY <1>1, Values
      <4> QED BY <3>1, <4>1 DEF Calm
    <3>3. \A q \in Children : ~Rotating(q)'
      BY <1>7, <3>2
    <3>4. job'[p].step = "verify" => mem'[p].pk = pkFile
      BY <1>7, <1>6, <2>1, <2>4, Zenon
    <3> QED BY <1>1, <1>7, <2>1, <3>1, <3>2, <3>3, <3>4, Persons DEF Calm, fileVars
  <2>5. ReadyOK'
    <3>1. ASSUME NEW q \in Children, q # p, job'[q].step = "verify"
          PROVE  /\ mem'[q].live
                 /\ mem'[q].loaded => Complete(mem'[q].sk) /\ Complete(mem'[q].pk)
      BY <1>7, <2>1, <3>1, Persons, Zenon DEF Inv, ReadyOK
    <3>2. ASSUME job'[p].step = "verify"
          PROVE  /\ mem'[p].live
                 /\ mem'[p].loaded => Complete(mem'[p].sk) /\ Complete(mem'[p].pk)
      BY <1>7, <1>6, <2>1, <3>2, Zenon
    <3> QED BY <3>1, <3>2, Zenon DEF ReadyOK, Complete
  <2> QED BY <1>7, <2>3, <2>4, <2>5, Zenon DEF Inv
<1>8. CASE /\ signing' = [signing EXCEPT ![p] = @ /\ m.loaded]
           /\ Rotating(p) /\ mem' = [mem EXCEPT ![p] = Inherited(m)]
           /\ job' = [job EXCEPT ![p] = Idle] /\ UNCHANGED <<walsig, verdict, overlap>>
  <2>1. /\ JobOK' /\ job'[p] = Idle /\ ~Rotating(p)'
        /\ \A q \in Children \ {p} : job'[q] = job[q] /\ (Rotating(q)' <=> Rotating(q))
    BY <1>8, JobEnds, Zenon
  <2> QED BY <1>4, <1>5, <1>7, <1>8, <2>1, Values, Zenon
<1>9. CASE /\ signing' = [signing EXCEPT ![p] = @ /\ m.loaded]
           /\ ~Rotating(p) /\ mem' = [mem EXCEPT ![p] = m]
           /\ Step(p, "verify") /\ UNCHANGED <<walsig, verdict, overlap>>
  <2>1. /\ JobOK' /\ (\A q \in Children : Rotating(q)' <=> Rotating(q))
        /\ job'[p].step = "verify"
        /\ \A q \in Children \ {p} : job'[q] = job[q]
    BY <1>9, StepMoves
  <2> QED BY <1>1, <1>4, <1>7, <1>9, <2>1, Zenon
<1> QED BY <1>3, <1>8, <1>9 DEF LoadPk, m

-----------------------------------------------------------------------------
\* A WAL receiver that closes a segment preserves the invariant.
LEMMA StepReceive ==
    ASSUME Inv, NEW p \in Receivers, Receive(p)
    PROVE  Inv'
<1> DEFINE j == [kind |-> "receive", step |-> "loadsk", key |-> "null"]
<1>1. /\ p \in Children /\ job[p] = Idle /\ job' = [job EXCEPT ![p] = j]
      /\ overlap' = (overlap \/ NotAlone(p, "receive"))
      /\ verdict' = [verdict EXCEPT ![p] = "pending"]
      /\ UNCHANGED <<fileVars, mem, signing, walsig>>
  BY Persons, Zenon DEF Receive, Begin
<1>2. /\ j \in Jobs /\ j.kind = "receive" /\ j.step = "loadsk"
      /\ job'[p] = j /\ \A q \in Children \ {p} : job'[q] = job[q]
  BY <1>1, Zenon DEF Jobs, Inv, JobOK
<1> HIDE DEF j
<1>3. ~Rotating(p)' /\ ~Rotating(p)
      /\ \A q \in Children \ {p} : Rotating(q)' <=> Rotating(q)
  BY <1>1, <1>2, Values DEF Rotating
<1>4. JobOK'
  <2>1. job' \in [Children -> Jobs]
    BY <1>1, <1>2 DEF Inv, JobOK
  <2> QED BY <1>2, <1>3, <2>1 DEF Inv, JobOK
<1>5. TypeOK'
  <2>1. overlap' \in BOOLEAN
    BY <1>1
  <2>2. verdict' \in [Receivers -> {"none", "pending", "error", "valid", "failed"}]
    BY <1>1, Types, SMTT(30), Z3T(30) DEF Inv
  <2> QED BY <1>1, <1>4, <2>1, <2>2, Types, TypesAfter DEF Inv, fileVars
<1>6. ASSUME ~overlap' PROVE Calm'
  <2>1. ~overlap /\ \A q \in Children \ {p} : ~Rotating(q)
    BY <1>1, <1>6, Values, Zenon DEF NotAlone, Rotating
  <2>2. Calm
    BY <2>1 DEF Inv
  <2> QED BY <1>1, <1>2, <1>3, <2>1, <2>2, Values DEF Calm, fileVars
<1>7. ReadyOK'
  BY <1>1, <1>2, ReadyStays, Zenon
<1> QED BY <1>1, <1>4, <1>5, <1>6, <1>7 DEF Inv

\* The verification of a segment does too.
LEMMA StepVerify ==
    ASSUME Inv, NEW p \in Children, VerifySegment(p)
    PROVE  Inv'
<1>1. /\ job[p].step = "verify" /\ job' = [job EXCEPT ![p] = Idle]
      /\ UNCHANGED <<fileVars, mem, signing, walsig, overlap>>
  BY DEF VerifySegment
<1>2. /\ JobOK' /\ job'[p] = Idle /\ ~Rotating(p)'
      /\ \A q \in Children \ {p} : job'[q] = job[q] /\ (Rotating(q)' <=> Rotating(q))
  BY <1>1, JobEnds, Zenon
<1>3. ~Rotating(p)
  BY <1>1 DEF Inv, JobOK
<1>4. verdict' \in [Receivers -> {"none", "pending", "error", "valid", "failed"}]
  BY Types, Zenon DEF Inv, VerifySegment
<1>5. TypeOK'
  BY <1>1, <1>2, <1>4, Types, TypesAfter, SMTT(30), Z3T(30) DEF Inv, fileVars
<1>6. ASSUME ~overlap PROVE Calm'
  <2>1. Calm
    BY <1>6, Zenon DEF Inv
  <2> QED BY <1>1, <1>2, <1>3, <2>1, Values DEF Calm, fileVars
<1>7. ReadyOK'
  BY <1>1, <1>2, Values, ReadyStays, Zenon
<1> QED BY <1>1, <1>2, <1>5, <1>6, <1>7 DEF Inv

\* The children are replaced, by forks of a postmaster whose halves match
\* unless a rotation has failed or is cut off.
LEMMA StepForkAll ==
    ASSUME Inv, NEW m \in Pairs, NEW on \in BOOLEAN, ForkAll(m, on),
           ~overlap /\ (\A p \in Children : ~Rotating(p)) /\ m.loaded => m.sk = m.pk
    PROVE  Inv'
<1>1. /\ mem' = [p \in Procs |-> IF p = Postmaster THEN m ELSE Inherited(m)]
      /\ overlap' = (overlap \/ \E p \in Backends : Rotating(p))
      /\ signing' = [p \in Procs |-> on] /\ job' = [p \in Children |-> Idle]
      /\ verdict' = [p \in Receivers |-> "none"] /\ UNCHANGED <<fileVars, walsig>>
  BY DEF ForkAll
<1>2. mem' \in [Procs -> Pairs]
      /\ \A p \in Procs : /\ mem'[p].sk = m.sk /\ mem'[p].pk = m.pk
                           /\ mem'[p].loaded = m.loaded
  BY <1>1, Inherits, Zenon
<1>3. \A p \in Children : job'[p] = Idle /\ ~Rotating(p)'
  BY <1>1, Values, Zenon DEF Rotating
<1>4. JobOK'
  BY <1>1, <1>3, Values DEF JobOK
<1>5. overlap' \in BOOLEAN
  BY <1>1, Zenon
<1>6. TypeOK'
  <2>1. signing' \in [Procs -> BOOLEAN]
    BY <1>1
  <2>2. verdict' \in [Receivers -> {"none", "pending", "error", "valid", "failed"}]
    BY <1>1, SMTT(30), Z3T(30)
  <2> QED BY <1>1, <1>2, <1>4, <1>5, <2>1, <2>2, Types, TypesAfter, Zenon DEF Inv, fileVars
<1>7. ASSUME ~overlap' PROVE Calm'
  <2>1. ~overlap /\ \A p \in Children : ~Rotating(p)
    BY <1>1, <1>7, Zenon DEF Inv, JobOK
  <2>2. Calm /\ (m.loaded => m.sk = m.pk)
    BY <2>1 DEF Inv
  <2> QED BY <1>1, <1>2, <1>3, <2>1, <2>2, Values, Zenon DEF Calm, fileVars
<1>8. ReadyOK'
  BY <1>3, Values, ReadyStays, Zenon
<1> QED BY <1>1, <1>4, <1>6, <1>7, <1>8, Zenon DEF Inv

\* A crash of a child and a server start preserve the invariant.
LEMMA StepRestart ==
    ASSUME Inv, ChildCrash \/ Restart
    PROVE  Inv'
<1>1. CASE ChildCrash
  <2>1. mem[Postmaster] \in Pairs /\ signing[Postmaster] \in BOOLEAN
    BY Persons, Types, Zenon DEF Inv
  <2>2. ~overlap /\ mem[Postmaster].loaded => mem[Postmaster].sk = mem[Postmaster].pk
    BY Persons DEF Inv, Calm
  <2> QED BY <1>1, <2>1, <2>2, StepForkAll DEF ChildCrash
<1>2. CASE Restart
  <2>1. Preflight \in Pairs
    BY Loads, Values, Zenon DEF Preflight
  <2>2. ~overlap /\ (\A p \in Children : ~Rotating(p)) /\ Preflight.loaded
          => Preflight.sk = Preflight.pk
    BY Loads, Values DEF Preflight, Inv, Calm
  <2>3. (Preflight.loaded \/ ~Readable(skFile) \/ ~Readable(pkFile)) \in BOOLEAN
    OBVIOUS
  <2> QED BY <1>2, <2>1, <2>2, <2>3, StepForkAll, Zenon DEF Restart
<1> QED BY <1>1, <1>2

\* A fork of one child does too.
LEMMA StepFork ==
    ASSUME Inv, NEW p \in Children, Fork(p)
    PROVE  Inv'
<1>1. /\ job[p] = Idle /\ p \in Procs /\ p # Postmaster
      /\ UNCHANGED <<fileVars, job, walsig, verdict, overlap>>
      /\ mem \in [Procs -> Pairs] /\ mem[Postmaster] \in Pairs
  BY Persons, Types, Zenon DEF Fork, Inv
<1>2. /\ mem' \in [Procs -> Pairs] /\ mem'[p].sk = mem[Postmaster].sk
      /\ mem'[p].pk = mem[Postmaster].pk /\ mem'[p].loaded = mem[Postmaster].loaded
      /\ \A q \in Procs \ {p} : mem'[q] = mem[q]
  BY <1>1, Inherits DEF Fork
<1>3. signing' \in [Procs -> BOOLEAN]
  BY Persons, Types DEF Fork, Inv
<1>4. JobOK' /\ \A q \in Children : Rotating(q)' <=> Rotating(q)
  BY <1>1, Zenon DEF Inv, JobOK, Rotating
<1>5. TypeOK'
  BY <1>1, <1>2, <1>3, <1>4, Types, TypesAfter, SMTT(30), Z3T(30) DEF Inv, fileVars
<1>6. ASSUME ~overlap PROVE Calm'
  <2>1. Calm
    BY <1>6 DEF Inv
  <2> QED BY <1>1, <1>2, <1>4, <2>1, Persons, Values, ZenonT(40) DEF Calm, fileVars
<1>7. ReadyOK'
  BY <1>1, <1>2, Persons, Values, ReadyStays, Zenon
<1> QED BY <1>1, <1>4, <1>5, <1>6, <1>7, Zenon DEF Inv

\* Signing changes the signature file only.
LEMMA StepSign ==
    ASSUME Inv, NEW p \in Backends, SignData(p)
    PROVE  Inv'
<1>1. UNCHANGED <<fileVars, mem, signing, job, verdict, overlap>>
  BY DEF SignData
<1>2. ReadyOK'
  BY <1>1, ReadyStays, Zenon
<1>3. JobOK' /\ \A q \in Children : Rotating(q)' <=> Rotating(q)
  BY <1>1 DEF Inv, JobOK, Rotating
<1>4. TypeOK'
  BY <1>1, <1>3, Types, TypesAfter DEF Inv, fileVars
<1>5. ~overlap => Calm'
  BY <1>1, <1>3 DEF Inv, Calm, fileVars
<1> QED BY <1>1, <1>2, <1>3, <1>4, <1>5, Zenon DEF Inv

\* A server that starts with a key pair in its files satisfies the invariant.
LEMMA InvInit == Init => Inv
<1> SUFFICES ASSUME Init PROVE Inv
  OBVIOUS
<1>1. Preflight \in Pairs /\ (Preflight.loaded => Preflight.sk = Preflight.pk)
  BY Loads, Values, SMTT(30), Z3T(30) DEF Preflight, Init
<1>2. mem \in [Procs -> Pairs]
      /\ \A p \in Procs : mem[p].loaded => mem[p].sk = mem[p].pk
  BY <1>1, Inherits DEF Init
<1>3. \A p \in Children : job[p] = Idle /\ ~Rotating(p)
  BY Values DEF Init, Rotating
<1>4. JobOK
  BY <1>3, Values DEF Init, JobOK
<1>5. TypeOK
  <2>1. \A p \in Children :
          /\ job[p].kind \in {"idle", "rotate", "receive"}
          /\ job[p].step \in {"idle", "sk", "pkopen", "pk", "loadsk", "loadpk", "verify"}
          /\ job[p].key \in {"null"} \cup KeyPairs
    BY <1>3, Values, Zenon DEF Jobs
  <2> QED BY <1>2, <2>1, Types, Values, Zenon DEF Init
<1>6. Calm
  BY <1>2, <1>3, Values DEF Init, Calm
<1>7. ReadyOK
  BY <1>3, Values, Zenon DEF ReadyOK
<1> QED BY <1>4, <1>5, <1>6, <1>7 DEF Inv

\* Every step preserves the invariant.
LEMMA InvStep == Inv /\ [Next]_vars => Inv'
<1> SUFFICES ASSUME Inv, [Next]_vars PROVE Inv'
  OBVIOUS
<1>1. ASSUME NEW p \in Backends, RotateBegin(p) PROVE Inv'
  BY <1>1, StepRotateBegin
<1>2. ASSUME NEW p \in Backends, SignData(p) PROVE Inv'
  BY <1>2, StepSign
<1>3. ASSUME NEW p \in Receivers, Receive(p) PROVE Inv'
  BY <1>3, StepReceive
<1>4. ASSUME NEW p \in Children, Run(p) PROVE Inv'
  BY <1>4, StepWriteSk, StepOpenPk, StepWritePk, StepLoadSk, StepLoadPk, StepVerify DEF Run
<1>5. ASSUME NEW p \in Children, Fork(p) PROVE Inv'
  BY <1>5, StepFork
<1>6. CASE ChildCrash \/ Restart
  BY <1>6, StepRestart
<1>7. CASE UNCHANGED vars
  <2>1. UNCHANGED <<skFile, pkFile, unused, mem, signing, job, walsig, verdict, overlap>>
    BY <1>7 DEF vars, fileVars
  <2>2. JobOK' /\ \A q \in Children : Rotating(q)' <=> Rotating(q)
    BY <2>1, Zenon DEF Inv, JobOK, Rotating
  <2>3. TypeOK'
    BY <2>1, <2>2, Types, TypesAfter, SMTT(30), Z3T(30) DEF Inv
  <2>4. ~overlap => Calm'
    BY <2>1, <2>2 DEF Inv, Calm
  <2>5. ReadyOK'
    BY <2>1, ReadyStays, Zenon
  <2> QED BY <2>1, <2>2, <2>3, <2>4, <2>5 DEF Inv
<1> QED BY <1>1, <1>2, <1>3, <1>4, <1>5, <1>6, <1>7 DEF Next

-----------------------------------------------------------------------------
\* The inductive invariant holds throughout.
THEOREM WalKeysInvariant == Spec => []Inv
  BY InvInit, InvStep, PTL DEF Spec

\* Whatever a WAL receiver was forked with, whatever earlier loads left behind
\* and however many processes rotate, it judges signatures with whole keys in
\* memory of its own, and with those in the files unless a rotation failed or ran
\* meanwhile (XLogWalRcvClose, pqc_wal_load_signing_keys).
THEOREM SignaturesJudgedByCurrentKeys == Spec => JudgedByCurrentKeys
<1> DEFINE A == \A p \in Receivers :
                  /\ verdict'[p] # verdict[p] /\ verdict'[p] \in {"valid", "failed"}
                  /\ walsig # NoSig
                  => /\ mem[p].live /\ Complete(mem[p].sk) /\ Complete(mem[p].pk)
                     /\ ~overlap => mem[p].pk = pkFile
<1>1. Inv /\ [Next]_vars => [A]_vars
  <2> SUFFICES ASSUME Inv, Next, NEW p \in Receivers, verdict'[p] # verdict[p],
                      verdict'[p] \in {"valid", "failed"}, walsig # NoSig
               PROVE  /\ mem[p].live /\ Complete(mem[p].sk) /\ Complete(mem[p].pk)
                      /\ ~overlap => mem[p].pk = pkFile
    BY Zenon
  <2>1. verdict \in [Receivers -> {"none", "pending", "error", "valid", "failed"}]
    BY Types, Zenon DEF Inv
  <2>2. \A x : verdict' # [verdict EXCEPT ![x] = "pending"]
    BY <2>1, SMTT(30), Z3T(30)
  <2>3. \A x : verdict' # [verdict EXCEPT ![x] = "error"]
    BY <2>1, SMTT(30), Z3T(30)
  <2>4. verdict' # verdict /\ verdict' # [q \in Receivers |-> "none"]
    BY SMTT(30), Z3T(30)
  <2>5. PICK q \in Children : VerifySegment(q)
    <3>1. ~ChildCrash /\ ~Restart
      BY <2>4, Zenon DEF ChildCrash, Restart, ForkAll
    <3>2. \A q \in Backends : ~RotateBegin(q) /\ ~SignData(q)
      BY <2>4, Zenon DEF RotateBegin, SignData
    <3>3. \A q \in Receivers : ~Receive(q)
      BY <2>2, Zenon DEF Receive
    <3>4. \A q \in Children : ~Fork(q)
      BY <2>4, Zenon DEF Fork
    <3>5. \A q \in Children : /\ ~WriteSk(q) /\ ~OpenPk(q) /\ ~WritePk(q)
                              /\ ~LoadSk(q) /\ ~LoadPk(q)
      BY <2>3, <2>4, Zenon DEF WriteSk, OpenPk, WritePk, LoadSk, LoadPk, LoadError, Abort
    <3> QED BY <3>1, <3>2, <3>3, <3>4, <3>5, Zenon DEF Next, Run
  <2>6. q = p
    BY <2>1, <2>5, SMTT(30), Z3T(30) DEF VerifySegment
  <2>7. p \in Children /\ job[p].step = "verify"
    BY <2>5, <2>6, Zenon DEF VerifySegment
  <2>8. mem[p].loaded
    <3> SUFFICES ASSUME ~mem[p].loaded PROVE FALSE
      BY Zenon
    <3>1. verdict' = [verdict EXCEPT ![p] = "error"]
      BY <2>5, <2>6, Zenon DEF VerifySegment
    <3> QED BY <2>3, <3>1, Zenon
  <2> QED BY <2>7, <2>8, Zenon DEF Inv, ReadyOK, Calm
<1> QED BY <1>1, WalKeysInvariant, PTL DEF Spec, JudgedByCurrentKeys

\* As long as rotations succeed and run alone, crashes and restarts included,
\* the two halves every process has loaded are of one pair
\* (pqc_wal_generate_signing_keys, pqc_wal_load_signing_keys).
THEOREM LoadedPairsMatch == Spec => []PairMatches
<1>1. Inv => PairMatches
  BY DEF Inv, Calm, PairMatches
<1> QED BY <1>1, WalKeysInvariant, PTL
=============================================================================
