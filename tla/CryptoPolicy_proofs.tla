------------------------ MODULE CryptoPolicy_proofs ------------------------
(***************************************************************************)
(* Proofs about CryptoPolicy, for any number of sessions, any nesting of   *)
(* transactions and functions, and any contents of the files.              *)
(***************************************************************************)
EXTENDS CryptoPolicy, TLAPS

-----------------------------------------------------------------------------
\* Loading a setting.

\* What a load that takes g to h keeps: the stack but for the values it will
\* restore, every value that was SET, and every value that is the default, which
\* stays the default.
Follows(v, source, g, w, source2, h) ==
    /\ source = SESSION => w = v /\ source2 = source
    /\ v = g.reset /\ source = g.resetSource => w = h.reset /\ source2 = h.resetSource

Tracks(g, h) ==
    /\ Follows(g.val, g.source, g, h.val, h.source, h)
    /\ Len(h.stack) = Len(g.stack)
    /\ \A i \in 1 .. Len(g.stack) :
        /\ h.stack[i].level = g.stack[i].level
        /\ h.stack[i].state = g.stack[i].state
        /\ h.stack[i].masked = g.stack[i].masked
        /\ Follows(g.stack[i].prior, g.stack[i].source, g,
                   h.stack[i].prior, h.stack[i].source, h)

\* The types of the fields of a variable.
LEMMA GucFields ==
    ASSUME NEW V, NEW M \in Nat, NEW g \in Gucs(V, M)
    PROVE  /\ g.val \in V /\ g.source \in GucSources
           /\ g.reset \in V /\ g.resetSource \in DEFAULT .. OVERRIDE
           /\ g.stack \in Seq(StackEntries(V, M))
           /\ Len(g.stack) \in Nat /\ DOMAIN g.stack = 1 .. Len(g.stack)
           /\ \A i \in 1 .. Len(g.stack) :
                /\ g.stack[i] \in StackEntries(V, M)
                /\ g.stack[i].level \in 1 .. M
                /\ g.stack[i].state \in {"SAVE", "SET", "LOCAL", "SET_LOCAL"}
                /\ g.stack[i].prior \in V /\ g.stack[i].source \in GucSources
                /\ g.stack[i].masked \in V \cup {Null}
<1>1. /\ g.val \in V /\ g.source \in GucSources
      /\ g.reset \in V /\ g.resetSource \in DEFAULT .. OVERRIDE
      /\ g.stack \in Seq(StackEntries(V, M))
    BY DEF Gucs
<1>2. /\ Len(g.stack) \in Nat /\ DOMAIN g.stack = 1 .. Len(g.stack)
      /\ \A i \in 1 .. Len(g.stack) : g.stack[i] \in StackEntries(V, M)
    BY <1>1
<1>3. \A e \in StackEntries(V, M) :
        /\ e.level \in 1 .. M /\ e.state \in {"SAVE", "SET", "LOCAL", "SET_LOCAL"}
        /\ e.prior \in V /\ e.source \in GucSources /\ e.masked \in V \cup {Null}
    BY DEF StackEntries
<1> QED
    BY <1>1, <1>2, <1>3, Zenon

\* Only values below a new default give way to it, in the stack too.
LEMMA MakeDefaultStackFacts ==
    ASSUME NEW V, NEW M \in Nat, NEW stack \in Seq(StackEntries(V, M)), NEW v \in V,
           NEW src \in DEFAULT .. OVERRIDE
    PROVE  LET new == MakeDefaultStack(stack, v, src) IN
           /\ new \in Seq(StackEntries(V, M)) /\ Len(new) = Len(stack)
           /\ \A i \in 1 .. Len(stack) :
                /\ new[i].level = stack[i].level /\ new[i].state = stack[i].state
                /\ new[i].masked = stack[i].masked
                /\ new[i].prior = IF stack[i].source > src THEN stack[i].prior ELSE v
                /\ new[i].source = IF stack[i].source > src THEN stack[i].source ELSE src
<1>1. src \in GucSources
    BY DEF GucSources, DEFAULT, OVERRIDE, SESSION
<1>2. \A e \in StackEntries(V, M) :
        LET n == MakeDefaultEntry(e, v, src) IN
        /\ n \in StackEntries(V, M)
        /\ n.level = e.level /\ n.state = e.state /\ n.masked = e.masked
        /\ n.prior = IF e.source > src THEN e.prior ELSE v
        /\ n.source = IF e.source > src THEN e.source ELSE src
    BY <1>1, Zenon DEF MakeDefaultEntry, StackEntries
<1> QED
    BY <1>2 DEF MakeDefaultStack

\* The fields of the result of SetDefault.
LEMMA SetDefaultFacts ==
    ASSUME NEW V, NEW M \in Nat, NEW g \in Gucs(V, M), NEW v \in V,
           NEW src \in DEFAULT .. OVERRIDE
    PROVE  LET h == SetDefault(g, v, src) IN
           /\ h \in Gucs(V, M)
           /\ h.val = (IF g.source > src THEN g.val ELSE v)
           /\ h.source = (IF g.source > src THEN g.source ELSE src)
           /\ h.reset = (IF g.resetSource > src THEN g.reset ELSE v)
           /\ h.resetSource = (IF g.resetSource > src THEN g.resetSource ELSE src)
           /\ h.stack = MakeDefaultStack(g.stack, v, src)
<1>1. MakeDefaultStack(g.stack, v, src) \in Seq(StackEntries(V, M))
    BY MakeDefaultStackFacts DEF Gucs
<1>2. src \in GucSources
    BY DEF GucSources, DEFAULT, OVERRIDE, SESSION
<1> QED
    BY <1>1, <1>2, Zenon DEF SetDefault, MakeDefault, Gucs

\* A new default tracks: what equals the old one follows it.
LEMMA SetDefaultTracks ==
    ASSUME NEW V, NEW M \in Nat, NEW g \in Gucs(V, M), NEW v \in V,
           NEW src \in DEFAULT .. OVERRIDE
    PROVE  Tracks(g, SetDefault(g, v, src))
<1> DEFINE h == SetDefault(g, v, src)
<1>1. /\ h.val = (IF g.source > src THEN g.val ELSE v)
      /\ h.source = (IF g.source > src THEN g.source ELSE src)
      /\ h.reset = (IF g.resetSource > src THEN g.reset ELSE v)
      /\ h.resetSource = (IF g.resetSource > src THEN g.resetSource ELSE src)
      /\ h.stack = MakeDefaultStack(g.stack, v, src)
    BY SetDefaultFacts
<1>2. g.stack \in Seq(StackEntries(V, M))
    BY DEF Gucs
<1>3. /\ Len(h.stack) = Len(g.stack)
      /\ \A i \in 1 .. Len(g.stack) :
            /\ h.stack[i].level = g.stack[i].level
            /\ h.stack[i].state = g.stack[i].state
            /\ h.stack[i].masked = g.stack[i].masked
            /\ h.stack[i].prior = IF g.stack[i].source > src THEN g.stack[i].prior ELSE v
            /\ h.stack[i].source = IF g.stack[i].source > src THEN g.stack[i].source ELSE src
    BY <1>1, <1>2, MakeDefaultStackFacts
<1>4. ~(SESSION <= src) /\ SESSION > src
    BY DEF DEFAULT, OVERRIDE, SESSION
<1> HIDE DEF h
<1>5. \A w, s, w2, s2 :
        /\ w2 = (IF s > src THEN w ELSE v) /\ s2 = (IF s > src THEN s ELSE src)
        => Follows(w, s, g, w2, s2, h)
    BY <1>1, <1>4 DEF Follows
<1> QED
    BY <1>1, <1>3, <1>5, Zenon DEF Tracks, h

\* Loads follow one another.
LEMMA TracksTransitive ==
    ASSUME NEW f, NEW g, NEW h, Tracks(f, g), Tracks(g, h)
    PROVE  Tracks(f, h)
<1>1. \A v, s, w, t, x, u :
        Follows(v, s, f, w, t, g) /\ Follows(w, t, g, x, u, h) => Follows(v, s, f, x, u, h)
    BY DEF Follows
<1> QED
    BY <1>1, Zenon DEF Tracks

\* A load that changes nothing tracks.
LEMMA TracksReflexive == \A g : Tracks(g, g)
BY Zenon DEF Tracks, Follows

\* The fields of a setting that was in the file, when it counts no longer as such.
LEMMA NotFileStackFacts ==
    ASSUME NEW V, NEW M \in Nat, NEW stack \in Seq(StackEntries(V, M))
    PROVE  LET new == NotFileStack(stack) IN
           /\ new \in Seq(StackEntries(V, M)) /\ Len(new) = Len(stack)
           /\ \A i \in 1 .. Len(stack) :
                /\ new[i].level = stack[i].level /\ new[i].state = stack[i].state
                /\ new[i].masked = stack[i].masked /\ new[i].prior = stack[i].prior
                /\ new[i].source = NotFile(stack[i].source)
<1>1. \A src \in GucSources : NotFile(src) \in GucSources
    BY DEF NotFile, GucSources, DEFAULT, SESSION
<1>2. \A e \in StackEntries(V, M) :
        LET n == NotFileEntry(e) IN
        /\ n \in StackEntries(V, M)
        /\ n.level = e.level /\ n.state = e.state
        /\ n.masked = e.masked /\ n.prior = e.prior /\ n.source = NotFile(e.source)
    BY <1>1, Zenon DEF NotFileEntry, StackEntries
<1> QED
    BY <1>2 DEF NotFileStack

\* A setting that has left the file tracks, too.
LEMMA RemovedFromFileTracks ==
    ASSUME NEW V, NEW M \in Nat, NEW g \in Gucs(V, M), NEW boot \in V
    PROVE  /\ RemovedFromFile(g, boot) \in Gucs(V, M)
           /\ Tracks(g, RemovedFromFile(g, boot))
<1>1. CASE g.resetSource # FILE
    BY <1>1, TracksReflexive DEF RemovedFromFile
<1>2. CASE g.resetSource = FILE
    <2> DEFINE h == [g EXCEPT !.resetSource = DEFAULT, !.source = NotFile(@),
                              !.stack = NotFileStack(@)]
               k == SetDefault(h, boot, DEFAULT)
    <2>1. RemovedFromFile(g, boot) = k
        BY <1>2 DEF RemovedFromFile
    <2>2. g.stack \in Seq(StackEntries(V, M)) /\ g.source \in GucSources
        BY DEF Gucs
    <2>3. NotFileStack(g.stack) \in Seq(StackEntries(V, M))
        BY <2>2, NotFileStackFacts
    <2>4. NotFile(g.source) \in GucSources /\ DEFAULT \in DEFAULT .. OVERRIDE
        BY <2>2 DEF NotFile, GucSources, DEFAULT, OVERRIDE, SESSION
    <2>5. /\ h \in Gucs(V, M)
          /\ h.val = g.val /\ h.source = NotFile(g.source) /\ h.reset = g.reset
          /\ h.resetSource = DEFAULT /\ h.stack = NotFileStack(g.stack)
        BY <2>3, <2>4, Zenon DEF Gucs
    <2> HIDE DEF h
    <2>6. k \in Gucs(V, M) /\ Tracks(h, k)
        BY <2>4, <2>5, SetDefaultFacts, SetDefaultTracks
    <2>7. \A w, s, w2, s2 : Follows(w, NotFile(s), h, w2, s2, k) => Follows(w, s, g, w2, s2, k)
        BY <1>2, <2>5 DEF Follows, NotFile, DEFAULT, FILE, SESSION
    <2>8. /\ Len(h.stack) = Len(g.stack)
          /\ \A i \in 1 .. Len(g.stack) :
                /\ h.stack[i].level = g.stack[i].level /\ h.stack[i].state = g.stack[i].state
                /\ h.stack[i].masked = g.stack[i].masked /\ h.stack[i].prior = g.stack[i].prior
                /\ h.stack[i].source = NotFile(g.stack[i].source)
        BY <2>2, <2>5, NotFileStackFacts
    <2>9. Tracks(g, k)
        BY <2>5, <2>6, <2>7, <2>8, ZenonT(40) DEF Tracks
    <2> QED
        BY <2>1, <2>6, <2>9
<1> QED
    BY <1>1, <1>2
-----------------------------------------------------------------------------
\* The values the file, the policies and the sessions bring.

\* "custom" leaves every setting alone.
LEMMA CustomSetsNothing == \A x \in Params : Cascade("custom")[x] = Null
BY DEF Cascade

\* Every value a setting may be given is in its type, and Null is none.
LEMMA ValuesFacts ==
    /\ \A x \in Params : BootVal[x] \in Values(x) /\ Null \notin Values(x)
    /\ \A p \in Policies, x \in Params : Cascade(p)[x] # Null => Cascade(p)[x] \in Values(x)
    /\ \A f \in Files, x \in Params : f.set[x] \notin {Null, Invalid} => f.set[x] \in Values(x)
    /\ SetValues \subseteq Values(PE) /\ PE \in Params
<1>1. ASSUME NEW x \in Params PROVE BootVal[x] \in Values(x) /\ Null \notin Values(x)
    <2>1. BootVal[x] \in {BootVal[y] : y \in Params}
        BY Zenon
    <2>2. BootVal[x] # Null /\ BootVal[x] # Invalid
        BY <2>1, PolicyAssumption, Zenon
    <2> QED
        BY <2>2, Zenon DEF Values
<1>2. ASSUME NEW p \in Policies, NEW x \in Params, Cascade(p)[x] # Null
      PROVE  Cascade(p)[x] \in Values(x)
    <2>1. Cascade(p)[x] # Invalid
        BY PolicyAssumption, Zenon
    <2> QED
        BY <1>2, <2>1, Zenon DEF Values
<1>3. ASSUME NEW f \in Files, NEW x \in Params, f.set[x] \notin {Null, Invalid}
      PROVE  f.set[x] \in Values(x)
    <2>1. f.set[x] \in FileValues[x]
        BY <1>3, Zenon DEF Files
    <2> QED
        BY <1>3, <2>1, Zenon DEF Values
<1>4. SetValues \subseteq Values(PE)
    BY PolicyAssumption DEF Values
<1> QED
    BY <1>1, <1>2, <1>3, <1>4 DEF PE, Params

\* Loading the file keeps a setting well-formed, and what was SET or is the
\* default stays so.
LEMMA LoadSettingTracks ==
    ASSUME NEW M \in Nat, NEW f \in Files, NEW x \in Params, NEW g \in Gucs(Values(x), M)
    PROVE  LoadSetting(g, f, x) \in Gucs(Values(x), M) /\ Tracks(g, LoadSetting(g, f, x))
<1> DEFINE Ok(h) == h \in Gucs(Values(x), M) /\ Tracks(g, h)
<1>1. FILE \in DEFAULT .. OVERRIDE /\ OVERRIDE \in DEFAULT .. OVERRIDE
    BY DEF FILE, DEFAULT, OVERRIDE
<1>2. ASSUME NEW h, Ok(h), NEW v \in Values(x), NEW src \in DEFAULT .. OVERRIDE
      PROVE  Ok(SetDefault(h, v, src))
    BY <1>2, SetDefaultFacts, SetDefaultTracks, TracksTransitive
<1>3. ASSUME NEW h, Ok(h) PROVE Ok(FileSetting(h, f, x))
    BY <1>1, <1>2, <1>3, ValuesFacts DEF FileSetting
<1>4. ASSUME NEW h, Ok(h), f.policy \notin {Null, Invalid}
      PROVE  Ok(CascadeSetting(h, f.policy, x))
    <2>1. f.policy \in Policies
        BY <1>4, PolicyAssumption DEF Files
    <2> QED
        BY <1>1, <1>2, <1>4, <2>1, ValuesFacts DEF CascadeSetting
<1>5. Ok(g)
    BY TracksReflexive
<1>6. Ok(RemovedFromFile(g, BootVal[x]))
    BY RemovedFromFileTracks, ValuesFacts
<1> HIDE DEF Ok
<1> DEFINE kept == IF f.set[x] = Null THEN RemovedFromFile(g, BootVal[x]) ELSE g
           Hook(h) == IF f.policy \in {Null, Invalid} THEN h
                      ELSE CascadeSetting(h, f.policy, x)
<1>7. Ok(kept)
    BY <1>5, <1>6
<1>8. ASSUME NEW h, Ok(h) PROVE Ok(Hook(h))
    BY <1>4, <1>8
<1>9. LoadSetting(g, f, x) = IF f.policyFirst THEN FileSetting(Hook(kept), f, x)
                             ELSE Hook(FileSetting(kept, f, x))
    BY DEF LoadSetting
<1> HIDE DEF kept, Hook
<1>10. Ok(FileSetting(Hook(kept), f, x)) /\ Ok(Hook(FileSetting(kept, f, x)))
    BY <1>3, <1>7, <1>8
<1>11. Ok(LoadSetting(g, f, x))
    BY <1>9, <1>10
<1> QED
    BY <1>11 DEF Ok

-----------------------------------------------------------------------------
\* The policy's hold on a setting.

\* What makes PolicyInForce inductive: the policy's value is the default, with the
\* priority of an override, and so is every value that was not SET, the ones a
\* transaction will restore included.
Held(v, source, c) == source <= OVERRIDE => source = OVERRIDE /\ v = c
Imposed(p, g, x) ==
    Cascade(p)[x] # Null =>
        /\ g.reset = Cascade(p)[x] /\ g.resetSource = OVERRIDE
        /\ Held(g.val, g.source, Cascade(p)[x])
        /\ \A i \in 1 .. Len(g.stack) :
            Held(g.stack[i].prior, g.stack[i].source, Cascade(p)[x])

\* A default of lower priority does not displace the policy.
LEMMA ImposedSetDefault ==
    ASSUME NEW V, NEW M \in Nat, NEW g \in Gucs(V, M), NEW v \in V,
           NEW src \in DEFAULT .. USER, NEW p, NEW x, Imposed(p, g, x)
    PROVE  Imposed(p, SetDefault(g, v, src), x)
<1> DEFINE h == SetDefault(g, v, src)
<1>1. src \in DEFAULT .. OVERRIDE
    BY DEF DEFAULT, USER, OVERRIDE
<1>2. /\ h.val = (IF g.source > src THEN g.val ELSE v)
      /\ h.source = (IF g.source > src THEN g.source ELSE src)
      /\ h.reset = (IF g.resetSource > src THEN g.reset ELSE v)
      /\ h.resetSource = (IF g.resetSource > src THEN g.resetSource ELSE src)
      /\ h.stack = MakeDefaultStack(g.stack, v, src)
    BY <1>1, SetDefaultFacts
<1>3. /\ g.stack \in Seq(StackEntries(V, M)) /\ g.source \in GucSources
      /\ \A i \in 1 .. Len(g.stack) : g.stack[i].source \in GucSources
    BY GucFields
<1>4. /\ Len(h.stack) = Len(g.stack)
      /\ \A i \in 1 .. Len(g.stack) :
            /\ h.stack[i].prior = IF g.stack[i].source > src THEN g.stack[i].prior ELSE v
            /\ h.stack[i].source = IF g.stack[i].source > src THEN g.stack[i].source ELSE src
    BY <1>1, <1>2, <1>3, MakeDefaultStackFacts
<1> HIDE DEF h
<1>5. ASSUME NEW w, NEW c, NEW s \in GucSources, Held(w, s, c)
      PROVE  (IF s > src THEN w ELSE v) = w /\ (IF s > src THEN s ELSE src) = s
    BY <1>5 DEF Held, GucSources, DEFAULT, USER, OVERRIDE, SESSION
<1>6. OVERRIDE > src
    BY DEF DEFAULT, USER, OVERRIDE
<1>7. ASSUME Cascade(p)[x] # Null
      PROVE  /\ h.reset = g.reset /\ h.resetSource = g.resetSource
             /\ h.val = g.val /\ h.source = g.source
             /\ \A i \in 1 .. Len(g.stack) : /\ h.stack[i].prior = g.stack[i].prior
                                             /\ h.stack[i].source = g.stack[i].source
    BY <1>2, <1>3, <1>4, <1>5, <1>6, <1>7 DEF Imposed
<1>8. Imposed(p, h, x)
    BY <1>4, <1>7 DEF Imposed
<1> QED
    BY <1>8 DEF h

\* The assign hook of crypto_policy imposes the policy.
LEMMA CascadeImposes ==
    ASSUME NEW M \in Nat, NEW x \in Params, NEW g \in Gucs(Values(x), M), NEW p \in Policies
    PROVE  Imposed(p, CascadeSetting(g, p, x), x)
<1> SUFFICES ASSUME Cascade(p)[x] # Null
             PROVE  Imposed(p, SetDefault(g, Cascade(p)[x], OVERRIDE), x)
    BY DEF CascadeSetting, Imposed
<1> DEFINE v == Cascade(p)[x]
           h == SetDefault(g, v, OVERRIDE)
<1>1. v \in Values(x) /\ OVERRIDE \in DEFAULT .. OVERRIDE
    BY ValuesFacts DEF DEFAULT, OVERRIDE
<1> HIDE DEF v
<1>2. /\ h.val = (IF g.source > OVERRIDE THEN g.val ELSE v)
      /\ h.source = (IF g.source > OVERRIDE THEN g.source ELSE OVERRIDE)
      /\ h.reset = (IF g.resetSource > OVERRIDE THEN g.reset ELSE v)
      /\ h.resetSource = (IF g.resetSource > OVERRIDE THEN g.resetSource ELSE OVERRIDE)
      /\ h.stack = MakeDefaultStack(g.stack, v, OVERRIDE)
    BY <1>1, SetDefaultFacts
<1>3. /\ g.stack \in Seq(StackEntries(Values(x), M)) /\ g.source \in GucSources
      /\ \A i \in 1 .. Len(g.stack) : g.stack[i].source \in GucSources
      /\ ~(g.resetSource > OVERRIDE)
    BY GucFields DEF DEFAULT, OVERRIDE
<1>4. /\ Len(h.stack) = Len(g.stack)
      /\ \A i \in 1 .. Len(g.stack) :
            /\ h.stack[i].prior = IF g.stack[i].source > OVERRIDE THEN g.stack[i].prior ELSE v
            /\ h.stack[i].source =
                    IF g.stack[i].source > OVERRIDE THEN g.stack[i].source ELSE OVERRIDE
    BY <1>1, <1>2, <1>3, MakeDefaultStackFacts, SMTT(30), Z3T(30)
<1> HIDE DEF h
<1>5. ASSUME NEW w, NEW s \in GucSources, NEW w2, NEW s2,
             w2 = (IF s > OVERRIDE THEN w ELSE v), s2 = (IF s > OVERRIDE THEN s ELSE OVERRIDE)
      PROVE  Held(w2, s2, v)
    BY <1>5 DEF Held, GucSources, DEFAULT, OVERRIDE, SESSION
<1>6. h.reset = v /\ h.resetSource = OVERRIDE
    BY <1>2, <1>3
<1>7. /\ Held(h.val, h.source, v)
      /\ \A i \in 1 .. Len(h.stack) : Held(h.stack[i].prior, h.stack[i].source, v)
    BY <1>2, <1>3, <1>4, <1>5, Zenon
<1>8. Imposed(p, h, x)
    BY <1>6, <1>7 DEF Imposed, v
<1> QED
    BY <1>8 DEF h, v

\* A setting that has left the file was not the policy's.
LEMMA ImposedRemoved ==
    ASSUME NEW g, NEW boot, NEW p, NEW x, Imposed(p, g, x)
    PROVE  Imposed(p, RemovedFromFile(g, boot), x)
BY DEF Imposed, RemovedFromFile, FILE, OVERRIDE

\* After the file is loaded its policy is imposed, wherever in the file it stands;
\* the policy in force stays imposed when the file's is refused.
LEMMA LoadSettingImposes ==
    ASSUME NEW M \in Nat, NEW f \in Files, NEW x \in Params, NEW g \in Gucs(Values(x), M),
           NEW p \in Policies, Imposed(p, g, x)
    PROVE  Imposed(LoadedPolicy(p, f), LoadSetting(g, f, x), x)
<1> DEFINE kept == IF f.set[x] = Null THEN RemovedFromFile(g, BootVal[x]) ELSE g
           G == Gucs(Values(x), M)
<1>1. kept \in G /\ Imposed(p, kept, x)
    BY RemovedFromFileTracks, ImposedRemoved, ValuesFacts, Zenon
<1>2. ASSUME NEW q, NEW h \in G, Imposed(q, h, x)
      PROVE  Imposed(q, FileSetting(h, f, x), x)
    <2>1. FILE \in DEFAULT .. USER
        BY DEF DEFAULT, FILE, USER
    <2> QED
        BY <1>2, <2>1, ImposedSetDefault, ValuesFacts DEF FileSetting
<1>3. ASSUME NEW h \in G PROVE FileSetting(h, f, x) \in G
    <2>1. FILE \in DEFAULT .. OVERRIDE
        BY DEF DEFAULT, FILE, OVERRIDE
    <2> QED
        BY <2>1, SetDefaultFacts, ValuesFacts DEF FileSetting
<1>4. ASSUME NEW h \in G, NEW q \in Policies PROVE CascadeSetting(h, q, x) \in G
    <2>1. OVERRIDE \in DEFAULT .. OVERRIDE
        BY DEF DEFAULT, OVERRIDE
    <2> QED
        BY <2>1, SetDefaultFacts, ValuesFacts DEF CascadeSetting
<1>5. CASE f.policy = Null
    <2>1. LoadedPolicy(p, f) = "custom"
        BY <1>5 DEF LoadedPolicy
    <2> QED
        BY <2>1, CustomSetsNothing DEF Imposed
<1>6. CASE f.policy = Invalid /\ f.policy # Null
    <2>1. LoadedPolicy(p, f) = p
        BY <1>6 DEF LoadedPolicy
    <2>2. LoadSetting(g, f, x) = FileSetting(kept, f, x)
        BY <1>6 DEF LoadSetting
    <2> HIDE DEF kept
    <2> QED
        BY <1>1, <1>2, <2>1, <2>2
<1>7. CASE f.policy \notin {Null, Invalid}
    <2>1. LoadedPolicy(p, f) = f.policy
        BY <1>7, Zenon DEF LoadedPolicy
    <2>2. LoadSetting(g, f, x) =
            IF f.policyFirst THEN FileSetting(CascadeSetting(kept, f.policy, x), f, x)
            ELSE CascadeSetting(FileSetting(kept, f, x), f.policy, x)
        BY <1>7, Zenon DEF LoadSetting
    <2>3. f.policy \in Policies
        BY <1>7, PolicyAssumption DEF Files
    <2> HIDE DEF kept
    <2>4. Imposed(f.policy, FileSetting(CascadeSetting(kept, f.policy, x), f, x), x)
        BY <1>1, <1>2, <1>4, <2>3, CascadeImposes
    <2>5. Imposed(f.policy, CascadeSetting(FileSetting(kept, f, x), f.policy, x), x)
        BY <1>1, <1>3, <2>3, CascadeImposes
    <2> QED
        BY <2>1, <2>2, <2>4, <2>5
<1> QED
    BY <1>5, <1>6, <1>7, Zenon

-----------------------------------------------------------------------------
\* The stack: what SET, the end of a transaction and its failure make of it.

\* Taking the top off, and replacing it.
LEMMA PopFacts ==
    ASSUME NEW S, NEW s \in Seq(S), NEW n \in 1 .. Len(s)
    PROVE  /\ SubSeq(s, 1, n - 1) \in Seq(S) /\ Len(SubSeq(s, 1, n - 1)) = n - 1
           /\ \A i \in 1 .. n - 1 : SubSeq(s, 1, n - 1)[i] = s[i]
OBVIOUS

\* A stack is empty just when it has no entries.
LEMMA EmptyFacts ==
    ASSUME NEW S, NEW s \in Seq(S)
    PROVE  s = <<>> <=> Len(s) = 0
OBVIOUS

\* Level n has an entry on the stack, the top one.
HasEntry(g, n) == Len(g.stack) # 0 /\ ~(g.stack[Len(g.stack)].level < n)

\* What SET makes of the value g: it puts an entry on the stack when its level has
\* none, and otherwise notes in the level's entry what kind of SET there was.
NewEntry(g, action, n) ==
    [level |-> n, state |-> action, prior |-> g.val, source |-> g.source, masked |-> Null]
IsSet(g, h, v, action, n) ==
    LET len == Len(g.stack) IN
    /\ h.reset = g.reset /\ h.resetSource = g.resetSource
    /\ h.val = (IF v = Null THEN g.reset ELSE v)
    /\ h.source = (IF v = Null THEN g.resetSource ELSE SESSION)
    /\ HasEntry(g, n) =>
        /\ Len(h.stack) = len
        /\ \A i \in 1 .. len - 1 : h.stack[i] = g.stack[i]
        /\ h.stack[len] = SameLevel(g.stack[len], action, g.val)
    /\ ~HasEntry(g, n) =>
        /\ Len(h.stack) = len + 1
        /\ \A i \in 1 .. len : h.stack[i] = g.stack[i]
        /\ h.stack[len + 1] = NewEntry(g, action, n)

\* push_old_value, then the value of the SET, RESET or SET option.
LEMMA SetInteractiveFacts ==
    ASSUME NEW V, NEW M \in Nat, NEW g \in Gucs(V, M), NEW v \in V \cup {Null},
           NEW action \in {"SAVE", "SET", "LOCAL"}, NEW n \in 1 .. M, Null \notin V
    PROVE  /\ SetInteractive(g, v, action, n) \in Gucs(V, M)
           /\ IsSet(g, SetInteractive(g, v, action, n), v, action, n)
<1> DEFINE len == Len(g.stack)
           k == PushOldValue(g, action, n)
           new == NewEntry(g, action, n)
           top == SameLevel(g.stack[len], action, g.val)
           E == StackEntries(V, M)
<1>1. /\ g.val \in V /\ g.source \in GucSources
      /\ g.reset \in V /\ g.resetSource \in DEFAULT .. OVERRIDE
      /\ g.stack \in Seq(E) /\ len \in Nat
      /\ \A i \in 1 .. len : g.stack[i] \in E
    BY GucFields
<1>2. g.stack = <<>> <=> len = 0
    BY <1>1, EmptyFacts
<1>3. k.stack = IF HasEntry(g, n) THEN [g.stack EXCEPT ![len] = top] ELSE Append(g.stack, new)
    BY <1>2 DEF PushOldValue, HasEntry, Last, Gucs, NewEntry
<1>4. \A e \in E : SameLevel(e, action, g.val) \in E
    BY <1>1, Zenon DEF SameLevel, StackEntries
<1>5. HasEntry(g, n) => len \in 1 .. len /\ top \in E
    BY <1>1, <1>4 DEF HasEntry
<1>6. new \in E
    BY <1>1 DEF StackEntries, NewEntry
<1>7. k = [g EXCEPT !.stack = k.stack]
    BY <1>2, Zenon DEF PushOldValue, Gucs
<1> HIDE DEF k, top, new
<1>8. /\ k.stack \in Seq(E)
      /\ HasEntry(g, n) =>
            /\ Len(k.stack) = len
            /\ \A i \in 1 .. len - 1 : k.stack[i] = g.stack[i]
            /\ k.stack[len] = top
      /\ ~HasEntry(g, n) =>
            /\ Len(k.stack) = len + 1
            /\ \A i \in 1 .. len : k.stack[i] = g.stack[i]
            /\ k.stack[len + 1] = new
    BY <1>1, <1>3, <1>5, <1>6, SMTT(30), Z3T(30)
<1>9. /\ k \in Gucs(V, M) /\ k.reset = g.reset /\ k.resetSource = g.resetSource
      /\ g.resetSource \in GucSources /\ SESSION \in GucSources
    BY <1>1, <1>7, <1>8, SMTT(30), Z3T(30) DEF Gucs, GucSources, DEFAULT, OVERRIDE, SESSION
<1> DEFINE h == SetInteractive(g, v, action, n)
<1>10. h = [k EXCEPT !.val = IF v = Null THEN g.reset ELSE v,
                     !.source = IF v = Null THEN g.resetSource ELSE SESSION]
    BY DEF SetInteractive, k
<1>11. /\ h \in Gucs(V, M) /\ h.stack = k.stack
       /\ h.reset = g.reset /\ h.resetSource = g.resetSource
       /\ h.val = (IF v = Null THEN g.reset ELSE v)
       /\ h.source = (IF v = Null THEN g.resetSource ELSE SESSION)
    BY <1>1, <1>9, <1>10, Zenon DEF Gucs
<1> HIDE DEF h, len
<1> QED
    BY <1>8, <1>11, Zenon DEF IsSet, h, top, new, len

\* h has the entries of g below m.
Popped(g, h, m) ==
    Len(h.stack) = m - 1 /\ \A i \in 1 .. m - 1 : h.stack[i] = g.stack[i]

\* The end of a level brings back the value before it, leaves the present one,
\* or hands the entry over to the level around it.
LEMMA CommitFacts ==
    ASSUME NEW V, NEW M \in Nat, NEW g \in Gucs(V, M), NEW n \in 1 .. M,
           HasEntry(g, n), g.stack[Len(g.stack)].state = "SET_LOCAL" =>
                                g.stack[Len(g.stack)].masked # Null
    PROVE  LET h == CommitGUC(g, n)
               len == Len(g.stack)
               e == g.stack[len]
               alone == len = 1 \/ g.stack[len - 1].level < n - 1
           IN
           /\ h \in Gucs(V, M) /\ h.reset = g.reset /\ h.resetSource = g.resetSource
           /\ e.state = "SAVE" \/ (n = 1 /\ e.state = "LOCAL") =>
                Popped(g, h, len) /\ h.val = e.prior /\ h.source = e.source
           /\ n = 1 /\ e.state = "SET" =>
                Popped(g, h, len) /\ h.val = g.val /\ h.source = g.source
           /\ n = 1 /\ e.state = "SET_LOCAL" =>
                Popped(g, h, len) /\ h.val = e.masked /\ h.source = SESSION
           /\ n # 1 /\ e.state # "SAVE" => h.val = g.val /\ h.source = g.source
           /\ n # 1 /\ e.state # "SAVE" /\ alone =>
                /\ Len(h.stack) = len
                /\ \A i \in 1 .. len - 1 : h.stack[i] = g.stack[i]
                /\ h.stack[len] = [e EXCEPT !.level = n - 1]
           /\ n # 1 /\ e.state # "SAVE" /\ ~alone =>
                /\ Len(h.stack) = len - 1
                /\ \A i \in 1 .. len - 2 : h.stack[i] = g.stack[i]
                /\ h.stack[len - 1] = MergeEntries(g.stack[len - 1], e)
<1> DEFINE h == CommitGUC(g, n)
           len == Len(g.stack)
           e == g.stack[len]
           rest == Front(g.stack)
           E == StackEntries(V, M)
           alone == len = 1 \/ g.stack[len - 1].level < n - 1
<1>1. /\ g.val \in V /\ g.source \in GucSources
      /\ g.stack \in Seq(E) /\ len \in Nat
      /\ \A i \in 1 .. len : g.stack[i] \in E
    BY GucFields
<1>2. len \in 1 .. len /\ len # 0 /\ e \in E /\ ~(e.level < n)
    BY <1>1 DEF HasEntry
<1>3. /\ e.prior \in V /\ e.source \in GucSources /\ e.masked \in V \cup {Null}
      /\ e.state \in {"SAVE", "SET", "LOCAL", "SET_LOCAL"}
    BY <1>2, Zenon DEF StackEntries
<1>4. rest \in Seq(E) /\ Len(rest) = len - 1 /\ \A i \in 1 .. len - 1 : rest[i] = g.stack[i]
    BY <1>1, <1>2, PopFacts, Zenon DEF Front
<1>5. Last(g.stack) = e /\ g.stack # <<>>
    BY <1>1, <1>2, EmptyFacts DEF Last
<1>6. SESSION \in GucSources
    BY DEF GucSources, DEFAULT, SESSION
<1> HIDE DEF h, len, e, rest, E
<1>7. CASE e.state = "SAVE" \/ (n = 1 /\ e.state = "LOCAL")
    <2>1. h = [g EXCEPT !.val = e.prior, !.source = e.source, !.stack = rest]
        BY <1>2, <1>5, <1>7 DEF CommitGUC, h, rest
    <2>2. /\ h \in Gucs(V, M) /\ h.reset = g.reset /\ h.resetSource = g.resetSource
          /\ h.val = e.prior /\ h.source = e.source /\ h.stack = rest
        BY <1>3, <1>4, <2>1, Zenon DEF Gucs, E
    <2>4. Popped(g, h, len)
        BY <1>4, <2>2 DEF Popped
    <2> QED
        BY <1>7, <2>2, <2>4, Zenon DEF h, len, e
<1>8. CASE n = 1 /\ e.state = "SET"
    <2>1. h = [g EXCEPT !.stack = rest]
        BY <1>2, <1>5, <1>8 DEF CommitGUC, h, rest
    <2>2. /\ h \in Gucs(V, M) /\ h.reset = g.reset /\ h.resetSource = g.resetSource
          /\ h.val = g.val /\ h.source = g.source /\ h.stack = rest
        BY <1>1, <1>4, <2>1, Zenon DEF Gucs, E
    <2>4. Popped(g, h, len)
        BY <1>4, <2>2 DEF Popped
    <2> QED
        BY <1>8, <2>2, <2>4, Zenon DEF h, len, e
<1>9. CASE n = 1 /\ e.state = "SET_LOCAL"
    <2>1. h = [g EXCEPT !.val = e.masked, !.source = SESSION, !.stack = rest]
        BY <1>2, <1>5, <1>9, Zenon DEF CommitGUC, h, rest
    <2>2. e.masked \in V
        BY <1>3, <1>9 DEF e, len
    <2>3. /\ h \in Gucs(V, M) /\ h.reset = g.reset /\ h.resetSource = g.resetSource
          /\ h.val = e.masked /\ h.source = SESSION /\ h.stack = rest
        BY <1>4, <1>6, <2>1, <2>2, Zenon DEF Gucs, E
    <2>4. Popped(g, h, len)
        BY <1>4, <2>3 DEF Popped
    <2> QED
        BY <1>9, <2>3, <2>4, Zenon DEF h, len, e
<1>10. ASSUME n # 1, e.state # "SAVE"
       PROVE  h = IF rest = <<>> \/ Last(rest).level < n - 1
                  THEN [g EXCEPT !.stack = [g.stack EXCEPT ![len] = [e EXCEPT !.level = n - 1]]]
                  ELSE [g EXCEPT !.stack = [rest EXCEPT ![Len(rest)] = MergeEntries(Last(rest), e)]]
    BY <1>2, <1>5, <1>10, Zenon DEF CommitGUC, h, rest, len
<1>11. /\ rest = <<>> <=> len = 1
       /\ len # 1 => Last(rest) = g.stack[len - 1] /\ len - 1 \in 1 .. len - 1
    <2>1. rest = <<>> <=> Len(rest) = 0
        BY <1>4, EmptyFacts, Zenon
    <2>2. len \in Nat /\ len # 0 /\ Last(rest) = rest[Len(rest)]
        BY <1>1, <1>2 DEF Last, len
    <2> QED
        BY <1>4, <2>1, <2>2
<1>12. CASE n # 1 /\ e.state # "SAVE" /\ alone
    <2> DEFINE low == [e EXCEPT !.level = n - 1]
    <2>1. low \in E
        BY <1>2, <1>12, SMTT(30), Z3T(30) DEF StackEntries, E
    <2> HIDE DEF low
    <2> DEFINE s == [g.stack EXCEPT ![len] = low]
    <2>2. /\ s \in Seq(E) /\ Len(s) = len /\ s[len] = low
          /\ \A i \in 1 .. len - 1 : s[i] = g.stack[i]
        BY <1>1, <1>2, <2>1 DEF len
    <2>3. h = [g EXCEPT !.stack = s]
        BY <1>10, <1>11, <1>12, Zenon DEF low
    <2> HIDE DEF s
    <2>4. /\ h \in Gucs(V, M) /\ h.reset = g.reset /\ h.resetSource = g.resetSource
          /\ h.val = g.val /\ h.source = g.source /\ h.stack = s
        BY <1>1, <2>2, <2>3, Zenon DEF Gucs, E
    <2> QED
        BY <1>12, <2>2, <2>4, Zenon DEF h, len, e, low
<1>13. CASE n # 1 /\ e.state # "SAVE" /\ ~alone
    <2> DEFINE both == MergeEntries(g.stack[len - 1], e)
               s == [rest EXCEPT ![len - 1] = both]
    <2>1. g.stack[len - 1] \in E
        BY <1>1, <1>11, <1>13
    <2>2. both \in E
        BY <1>2, <1>3, <1>13, <2>1, Zenon DEF MergeEntries, StackEntries, E
    <2> HIDE DEF both
    <2>3. /\ s \in Seq(E) /\ Len(s) = len - 1 /\ s[len - 1] = both
          /\ \A i \in 1 .. len - 2 : s[i] = g.stack[i]
        BY <1>1, <1>2, <1>4, <1>11, <1>13, <2>2
    <2>4. h = [g EXCEPT !.stack = s]
        BY <1>4, <1>10, <1>11, <1>13 DEF both
    <2> HIDE DEF s
    <2>5. /\ h \in Gucs(V, M) /\ h.reset = g.reset /\ h.resetSource = g.resetSource
          /\ h.val = g.val /\ h.source = g.source /\ h.stack = s
        BY <1>1, <2>3, <2>4, Zenon DEF Gucs, E
    <2> QED
        BY <1>13, <2>3, <2>5, Zenon DEF h, len, e, both
<1> QED
    BY <1>3, <1>7, <1>8, <1>9, <1>12, <1>13, Zenon

\* A set of natural numbers that is not empty has a least element.  The steps that
\* undo levels rest on this; LeastExists, at the end, proves it.
HasLeast == \A S \in SUBSET Nat : S # {} => \E m \in S : \A j \in S : m <= j

\* Entry i is what the failure of level k brings back.
Oldest(g, i, k) ==
    ~(g.stack[i].level < k) /\ \A j \in 1 .. i - 1 : g.stack[j].level < k

\* Level n and those in it have ended, and what they changed is undone.
Ended(g, h, n) ==
    /\ h.reset = g.reset /\ h.resetSource = g.resetSource
    /\ \/ h = g /\ \A i \in 1 .. Len(g.stack) : g.stack[i].level < n
       \/ \E m \in 1 .. Len(g.stack) :
            /\ Oldest(g, m, n) /\ Popped(g, h, m)
            /\ h.val = g.stack[m].prior /\ h.source = g.stack[m].source

\* AtEOXact_GUC restores what the oldest entry of the levels that fail remembers.
LEMMA AbortFacts ==
    ASSUME HasLeast, NEW V, NEW M \in Nat, NEW g \in Gucs(V, M), NEW n \in 1 .. M
    PROVE  AbortGUC(g, n) \in Gucs(V, M) /\ Ended(g, AbortGUC(g, n), n)
<1> DEFINE ended == {i \in DOMAIN g.stack : g.stack[i].level >= n}
           m == CHOOSE i \in ended : \A j \in ended : i <= j
           h == AbortGUC(g, n)
           rest == SubSeq(g.stack, 1, m - 1)
<1>1. /\ g.stack \in Seq(StackEntries(V, M)) /\ Len(g.stack) \in Nat
      /\ DOMAIN g.stack = 1 .. Len(g.stack)
      /\ \A i \in 1 .. Len(g.stack) :
            /\ g.stack[i].level \in Nat
            /\ g.stack[i].prior \in V /\ g.stack[i].source \in GucSources
    BY GucFields
<1>2. CASE ended = {}
    <2>1. h = g
        BY <1>2 DEF AbortGUC
    <2>2. \A i \in 1 .. Len(g.stack) : g.stack[i].level < n
        BY <1>1, <1>2
    <2> QED
        BY <2>1, <2>2, Zenon DEF Ended
<1>3. CASE ended # {}
    <2>1. ended \subseteq Nat
        BY <1>1
    <2>2. m \in ended /\ \A j \in ended : m <= j
        BY <1>3, <2>1, Zenon DEF HasLeast
    <2>3. h = [g EXCEPT !.val = g.stack[m].prior, !.source = g.stack[m].source, !.stack = rest]
        BY <1>3, Zenon DEF AbortGUC
    <2> HIDE DEF m, h
    <2>4. /\ m \in 1 .. Len(g.stack) /\ ~(g.stack[m].level < n)
          /\ \A i \in 1 .. m - 1 : g.stack[i].level < n
        <3>1. m \in 1 .. Len(g.stack) /\ g.stack[m].level >= n
            BY <1>1, <2>2, Zenon
        <3>2. \A i \in 1 .. Len(g.stack) : g.stack[i].level >= n => m <= i
            BY <1>1, <2>2, Zenon
        <3>3. \A i \in 1 .. m - 1 : i \in 1 .. Len(g.stack) /\ ~(m <= i)
            BY <1>1, <3>1
        <3>4. \A i \in 1 .. Len(g.stack) : g.stack[i].level >= n <=> ~(g.stack[i].level < n)
            BY <1>1
        <3> QED
            BY <3>1, <3>2, <3>3, <3>4, Zenon
    <2>5. /\ rest \in Seq(StackEntries(V, M)) /\ Len(rest) = m - 1
          /\ \A i \in 1 .. m - 1 : rest[i] = g.stack[i]
        BY <1>1, <2>4, PopFacts
    <2> HIDE DEF rest
    <2>6. /\ h \in Gucs(V, M) /\ h.reset = g.reset /\ h.resetSource = g.resetSource
          /\ h.val = g.stack[m].prior /\ h.source = g.stack[m].source /\ h.stack = rest
        BY <1>1, <2>3, <2>4, <2>5, Zenon DEF Gucs
    <2>7. Popped(g, h, m)
        BY <2>5, <2>6 DEF Popped
    <2> QED
        BY <2>4, <2>6, <2>7, Zenon DEF Ended, Oldest, h
<1> QED
    BY <1>2, <1>3

-----------------------------------------------------------------------------
\* A command of the session, as to the policy: values that were SET, the default
\* and values that were already there are all it brings.
Known(v, source, g) ==
    \/ source = SESSION
    \/ v = g.reset /\ source = g.resetSource
    \/ v = g.val /\ source = g.source
    \/ \E i \in 1 .. Len(g.stack) : v = g.stack[i].prior /\ source = g.stack[i].source

Restores(g, h) ==
    /\ h.reset = g.reset /\ h.resetSource = g.resetSource
    /\ Known(h.val, h.source, g)
    /\ \A i \in 1 .. Len(h.stack) : Known(h.stack[i].prior, h.stack[i].source, g)

\* Such a command does not displace the policy.
LEMMA ImposedRestores ==
    ASSUME NEW g, NEW h, NEW p, NEW x, Imposed(p, g, x), Restores(g, h)
    PROVE  Imposed(p, h, x)
<1> SUFFICES ASSUME Cascade(p)[x] # Null PROVE Imposed(p, h, x)
    BY DEF Imposed
<1> DEFINE c == Cascade(p)[x]
<1>1. ~(SESSION <= OVERRIDE)
    BY DEF SESSION, OVERRIDE
<1>2. ASSUME NEW v, NEW s, Known(v, s, g) PROVE Held(v, s, c)
    BY <1>1, <1>2, Zenon DEF Known, Held, Imposed
<1> QED
    BY <1>2, Zenon DEF Imposed, Restores

\* SET, RESET and the SET option of a function bring a value that was SET or the
\* default; push_old_value remembers the value in force.
LEMMA SetRestores ==
    ASSUME NEW V, NEW M \in Nat, NEW g \in Gucs(V, M), NEW v \in V \cup {Null},
           NEW action \in {"SAVE", "SET", "LOCAL"}, NEW n \in 1 .. M, Null \notin V
    PROVE  Restores(g, SetInteractive(g, v, action, n))
<1> DEFINE h == SetInteractive(g, v, action, n)
           len == Len(g.stack)
<1>1. /\ len \in Nat /\ \A i \in 1 .. len : g.stack[i] \in StackEntries(V, M)
    BY GucFields
<1>2. /\ h.reset = g.reset /\ h.resetSource = g.resetSource
      /\ h.val = (IF v = Null THEN g.reset ELSE v)
      /\ h.source = (IF v = Null THEN g.resetSource ELSE SESSION)
      /\ HasEntry(g, n) =>
            /\ Len(h.stack) = len
            /\ \A i \in 1 .. len - 1 : h.stack[i] = g.stack[i]
            /\ h.stack[len] = SameLevel(g.stack[len], action, g.val)
      /\ ~HasEntry(g, n) =>
            /\ Len(h.stack) = len + 1
            /\ \A i \in 1 .. len : h.stack[i] = g.stack[i]
            /\ h.stack[len + 1] = NewEntry(g, action, n)
    <2>1. IsSet(g, h, v, action, n)
        BY SetInteractiveFacts, Zenon
    <2> HIDE DEF h
    <2> QED
        BY <2>1, Zenon DEF IsSet
<1> HIDE DEF h
<1>3. \A e \in StackEntries(V, M) : LET new == SameLevel(e, action, g.val) IN
        new.prior = e.prior /\ new.source = e.source
    BY Zenon DEF SameLevel, StackEntries
<1>4. Known(h.val, h.source, g)
    BY <1>2, SMTT(30), Z3T(30) DEF Known
<1>5. ASSUME NEW i \in 1 .. Len(h.stack) PROVE Known(h.stack[i].prior, h.stack[i].source, g)
    <2>1. CASE i \in 1 .. len /\ h.stack[i] = g.stack[i]
        BY <2>1, Zenon DEF Known
    <2>2. CASE HasEntry(g, n) /\ i = len
        <3>1. len \in 1 .. len
            BY <1>1, <2>2 DEF HasEntry
        <3>2. h.stack[len].prior = g.stack[len].prior /\ h.stack[len].source = g.stack[len].source
            BY <1>1, <1>2, <1>3, <2>2, <3>1, Zenon
        <3> QED
            BY <2>2, <3>1, <3>2, Zenon DEF Known
    <2>3. CASE ~HasEntry(g, n) /\ i = len + 1
        BY <1>2, <2>3 DEF Known, NewEntry
    <2>4. CASE HasEntry(g, n)
        <3>1. i \in 1 .. len
            BY <1>2, <2>4, Zenon
        <3>2. i = len \/ i \in 1 .. len - 1
            BY <1>1, <3>1
        <3> QED
            BY <1>2, <2>1, <2>2, <2>4, <3>1, <3>2, Zenon
    <2>5. CASE ~HasEntry(g, n)
        <3>1. i \in 1 .. len + 1
            BY <1>2, <2>5, Zenon
        <3>2. i = len + 1 \/ i \in 1 .. len
            BY <1>1, <3>1
        <3> QED
            BY <1>2, <2>1, <2>3, <2>5, <3>2, Zenon
    <2> QED
        BY <2>4, <2>5, Zenon
<1> QED
    BY <1>2, <1>4, <1>5, Zenon DEF Restores, h

\* The end of a level brings back the value its entry remembers or masks, or keeps
\* the one in force.
LEMMA CommitRestores ==
    ASSUME NEW V, NEW M \in Nat, NEW g \in Gucs(V, M), NEW n \in 1 .. M,
           HasEntry(g, n) /\ g.stack[Len(g.stack)].state = "SET_LOCAL" =>
                g.stack[Len(g.stack)].masked # Null
    PROVE  CommitGUC(g, n) \in Gucs(V, M) /\ Restores(g, CommitGUC(g, n))
<1> DEFINE h == CommitGUC(g, n)
           len == Len(g.stack)
           e == g.stack[len]
<1>1. /\ g.stack \in Seq(StackEntries(V, M)) /\ len \in Nat
      /\ \A i \in 1 .. len : g.stack[i] \in StackEntries(V, M)
    BY GucFields
<1>2. CASE ~HasEntry(g, n)
    <2>1. h = g
        BY <1>1, <1>2, EmptyFacts DEF CommitGUC, HasEntry, Last
    <2> QED
        BY <2>1, Zenon DEF Restores, Known
<1>3. CASE HasEntry(g, n)
    <2>1. len \in 1 .. len
        BY <1>1, <1>3 DEF HasEntry
    <2>2. e.state \in {"SAVE", "SET", "LOCAL", "SET_LOCAL"}
        BY <1>1, <2>1, Zenon DEF StackEntries
    <2> DEFINE alone == len = 1 \/ g.stack[len - 1].level < n - 1
    <2>3. /\ h \in Gucs(V, M) /\ h.reset = g.reset /\ h.resetSource = g.resetSource
          /\ e.state = "SAVE" \/ (n = 1 /\ e.state = "LOCAL") =>
                Popped(g, h, len) /\ h.val = e.prior /\ h.source = e.source
          /\ n = 1 /\ e.state = "SET" =>
                Popped(g, h, len) /\ h.val = g.val /\ h.source = g.source
          /\ n = 1 /\ e.state = "SET_LOCAL" =>
                Popped(g, h, len) /\ h.val = e.masked /\ h.source = SESSION
          /\ n # 1 /\ e.state # "SAVE" => h.val = g.val /\ h.source = g.source
          /\ n # 1 /\ e.state # "SAVE" /\ alone =>
                /\ Len(h.stack) = len
                /\ \A i \in 1 .. len - 1 : h.stack[i] = g.stack[i]
                /\ h.stack[len] = [e EXCEPT !.level = n - 1]
          /\ n # 1 /\ e.state # "SAVE" /\ ~alone =>
                /\ Len(h.stack) = len - 1
                /\ \A i \in 1 .. len - 2 : h.stack[i] = g.stack[i]
                /\ h.stack[len - 1] = MergeEntries(g.stack[len - 1], e)
        BY <1>3, CommitFacts, SMTT(30), Z3T(30)
    <2> HIDE DEF h, e, alone
    <2>4. Known(h.val, h.source, g)
        BY <2>1, <2>2, <2>3, Zenon DEF Known, e
    <2>5. ASSUME NEW i \in 1 .. Len(h.stack)
          PROVE  /\ i \in 1 .. len
                 /\ h.stack[i].prior = g.stack[i].prior /\ h.stack[i].source = g.stack[i].source
        <3>1. CASE Popped(g, h, len)
            BY <1>1, <3>1, SMTT(30), Z3T(30) DEF Popped
        <3>2. CASE n # 1 /\ e.state # "SAVE" /\ alone
            <4>1. e \in StackEntries(V, M)
                BY <1>1, <2>1 DEF e
            <4>2. [e EXCEPT !.level = n - 1].prior = e.prior /\ [e EXCEPT !.level = n - 1].source = e.source
                BY <4>1 DEF StackEntries
            <4>3. /\ h.stack[len].prior = g.stack[len].prior
                  /\ h.stack[len].source = g.stack[len].source
                BY <2>3, <3>2, <4>2, Zenon DEF e
            <4>4. i \in 1 .. len /\ (i = len \/ i \in 1 .. len - 1)
                BY <1>1, <2>3, <3>2
            <4> QED
                BY <2>3, <3>2, <4>3, <4>4, Zenon
        <3>3. CASE n # 1 /\ e.state # "SAVE" /\ ~alone
            <4>1. len - 1 \in 1 .. len
                <5>1. len # 1 /\ len # 0
                    BY <1>3, <3>3, Zenon DEF alone, HasEntry
                <5>2. \A l \in Nat : l # 1 /\ l # 0 => l - 1 \in 1 .. l
                    OBVIOUS
                <5> QED
                    BY <1>1, <5>1, <5>2, Zenon
            <4>2. ASSUME NEW d \in StackEntries(V, M)
                  PROVE  /\ MergeEntries(d, e).prior = d.prior
                         /\ MergeEntries(d, e).source = d.source
                BY <2>2, <3>3 DEF MergeEntries, StackEntries
            <4>3. /\ h.stack[len - 1].prior = g.stack[len - 1].prior
                  /\ h.stack[len - 1].source = g.stack[len - 1].source
                BY <1>1, <2>3, <3>3, <4>1, <4>2, Zenon
            <4>4. i \in 1 .. len /\ (i = len - 1 \/ i \in 1 .. len - 2)
                BY <1>1, <2>3, <3>3, SMTT(30), Z3T(30)
            <4> QED
                BY <2>3, <3>3, <4>3, <4>4, Zenon
        <3> QED
            BY <2>2, <2>3, <3>1, <3>2, <3>3
    <2> QED
        BY <2>3, <2>4, <2>5, Zenon DEF Restores, Known, h
<1> QED
    BY <1>2, <1>3, Zenon

\* The failure of a level brings back a value an entry remembers.
LEMMA AbortRestores ==
    ASSUME HasLeast, NEW V, NEW M \in Nat, NEW g \in Gucs(V, M), NEW n \in 1 .. M
    PROVE  AbortGUC(g, n) \in Gucs(V, M) /\ Restores(g, AbortGUC(g, n))
<1> DEFINE h == AbortGUC(g, n)
<1>1. h \in Gucs(V, M) /\ Ended(g, h, n)
    BY AbortFacts, Zenon
<1> HIDE DEF h
<1>2. CASE h = g
    BY <1>1, <1>2, Zenon DEF Restores, Known, h
<1>3. ASSUME NEW m \in 1 .. Len(g.stack),
             Popped(g, h, m), h.val = g.stack[m].prior, h.source = g.stack[m].source
      PROVE  Restores(g, h)
    <2>1. \A i \in 1 .. Len(h.stack) : i \in 1 .. Len(g.stack) /\ h.stack[i] = g.stack[i]
        BY <1>3, GucFields DEF Popped
    <2> QED
        BY <1>1, <1>3, <2>1, Zenon DEF Restores, Known, Ended
<1> QED
    BY <1>1, <1>2, <1>3, Zenon DEF Ended, h

-----------------------------------------------------------------------------
\* The scope of SET: the state of a session.

Kinds == {"xact", "func"}
Layers ==
    [set : SetValues \cup {Null, "pinned"}, local : SetValues \cup {Null, "default"},
     save : BOOLEAN]

\* A value and its source are those of the layer that counts.
Top(l) == IF l.local # Null THEN l.local ELSE l.set
Yields(l, v, source, g) ==
    Top(l) # "pinned" =>
        IF Top(l) \in {Null, "default"} THEN v = g.reset /\ source = g.resetSource
        ELSE v = Top(l) /\ source = SESSION

\* Outside a transaction no SET LOCAL is in force.
Bottom(l) == l.local = Null /\ ~l.save

\* The layers that level k has led to so far.
Inner(k, layers, outer) == IF k = Len(outer) THEN layers ELSE outer[k + 1]

\* What the entry of a level tells of the SET commands in it: o are the layers
\* at its start, l those it has led to.
Tells(e, kind, o, l) ==
    /\ e.state = "SAVE" => kind = "func" /\ l.save /\ l.set = o.set /\ l.local # Null
    /\ e.state = "LOCAL" =>
        kind = "xact" /\ l.save = o.save /\ l.set = o.set /\ l.local # Null
    /\ e.state = "SET" => ~l.save /\ l.local = Null
    /\ e.state = "SET_LOCAL" =>
        /\ ~l.save /\ l.local # Null /\ e.masked # Null
        /\ l.set \notin {Null, "pinned"} => e.masked = l.set

\* Entries are of open levels, in the order of the levels.
Nested(g, levels, layers, outer) ==
    /\ levels \in Seq(Kinds) /\ Len(levels) \in 0 .. MaxLevel
    /\ layers \in Layers /\ outer \in Seq(Layers) /\ Len(outer) = Len(levels)
    /\ Len(levels) = 0 => Bottom(layers)
    /\ Len(levels) # 0 => levels[1] = "xact" /\ Bottom(outer[1])
    /\ \A i \in 1 .. Len(g.stack) : g.stack[i].level \in 1 .. Len(levels)
    /\ \A i, j \in 1 .. Len(g.stack) : i < j => g.stack[i].level < g.stack[j].level

\* Every entry tells what it should.
Told(g, levels, layers, outer) ==
    \A i \in 1 .. Len(g.stack) :
        LET k == g.stack[i].level IN
        Tells(g.stack[i], levels[k], outer[k], Inner(k, layers, outer))

\* A level without an entry is a transaction, and nothing was SET in it.
Silent(g, levels, layers, outer) ==
    \A k \in 1 .. Len(levels) :
        (\A i \in 1 .. Len(g.stack) : g.stack[i].level # k) =>
            levels[k] = "xact" /\ Inner(k, layers, outer) = outer[k]

\* Whichever level fails, the value in force when it began returns.
Undone(g, levels, layers, outer) ==
    /\ Yields(layers, g.val, g.source, g)
    /\ \A k \in 1 .. Len(levels) :
        /\ \A i \in 1 .. Len(g.stack) :
            Oldest(g, i, k) => Yields(outer[k], g.stack[i].prior, g.stack[i].source, g)
        /\ (\A i \in 1 .. Len(g.stack) : g.stack[i].level < k) =>
            Yields(outer[k], g.val, g.source, g)

Scoped(g, levels, layers, outer) ==
    /\ Nested(g, levels, layers, outer) /\ Told(g, levels, layers, outer)
    /\ Silent(g, levels, layers, outer) /\ Undone(g, levels, layers, outer)

\* Loading the file disturbs none of it.
LEMMA TracksScoped ==
    ASSUME NEW g, NEW h, NEW levels, NEW layers, NEW outer,
           Scoped(g, levels, layers, outer), Tracks(g, h)
    PROVE  Scoped(h, levels, layers, outer)
<1>1. ASSUME NEW l, NEW v, NEW s, NEW w, NEW t, Yields(l, v, s, g), Follows(v, s, g, w, t, h)
      PROVE  Yields(l, w, t, h)
    BY <1>1 DEF Yields, Follows
<1>2. /\ Len(h.stack) = Len(g.stack)
      /\ \A i \in 1 .. Len(g.stack) :
            /\ h.stack[i].level = g.stack[i].level
            /\ h.stack[i].state = g.stack[i].state
            /\ h.stack[i].masked = g.stack[i].masked
    BY Zenon DEF Tracks
<1>3. Nested(h, levels, layers, outer)
    BY <1>2, Zenon DEF Scoped, Nested
<1>4. Told(h, levels, layers, outer)
    <2> SUFFICES ASSUME NEW i \in 1 .. Len(h.stack)
                 PROVE  LET k == h.stack[i].level IN
                        Tells(h.stack[i], levels[k], outer[k], Inner(k, layers, outer))
        BY Zenon DEF Told
    <2> DEFINE k == g.stack[i].level
    <2>1. i \in 1 .. Len(g.stack)
        BY <1>2, Zenon
    <2>2. Tells(g.stack[i], levels[k], outer[k], Inner(k, layers, outer))
        BY <2>1, Zenon DEF Scoped, Told
    <2> HIDE DEF k
    <2>3. Tells(h.stack[i], levels[k], outer[k], Inner(k, layers, outer))
        BY <1>2, <2>1, <2>2, Zenon DEF Tells
    <2> QED
        BY <1>2, <2>1, <2>3, Zenon DEF k
<1>5. Silent(h, levels, layers, outer)
    BY <1>2, ZenonT(40) DEF Scoped, Silent
<1>6. ASSUME NEW i \in 1 .. Len(g.stack), NEW k, Oldest(h, i, k) PROVE Oldest(g, i, k)
    BY <1>2, <1>6, SMTT(30), Z3T(30) DEF Oldest
<1>7. Undone(h, levels, layers, outer)
    <2>1. Yields(layers, h.val, h.source, h)
        BY <1>1, Zenon DEF Scoped, Undone, Tracks
    <2>2. ASSUME NEW k \in 1 .. Len(levels), NEW i \in 1 .. Len(h.stack), Oldest(h, i, k)
          PROVE  Yields(outer[k], h.stack[i].prior, h.stack[i].source, h)
        <3>1. i \in 1 .. Len(g.stack) /\ Oldest(g, i, k)
            BY <1>2, <1>6, <2>2, Zenon
        <3>2. Yields(outer[k], g.stack[i].prior, g.stack[i].source, g)
            BY <3>1, Zenon DEF Scoped, Undone
        <3> QED
            BY <1>1, <3>1, <3>2, Zenon DEF Tracks
    <2>3. ASSUME NEW k \in 1 .. Len(levels), \A i \in 1 .. Len(h.stack) : h.stack[i].level < k
          PROVE  Yields(outer[k], h.val, h.source, h)
        <3>1. Yields(outer[k], g.val, g.source, g)
            BY <1>2, <2>3, Zenon DEF Scoped, Undone
        <3> QED
            BY <1>1, <3>1, Zenon DEF Tracks
    <2> QED
        BY <2>1, <2>2, <2>3, Zenon DEF Undone
<1> QED
    BY <1>3, <1>4, <1>5, <1>7, Zenon DEF Scoped

\* The shape of a session's state.
LEMMA ScopedFields ==
    ASSUME NEW g, NEW levels, NEW layers, NEW outer, Scoped(g, levels, layers, outer)
    PROVE  /\ levels \in Seq(Kinds) /\ Len(levels) \in Nat /\ Len(levels) <= MaxLevel
           /\ outer \in Seq(Layers) /\ Len(outer) = Len(levels) /\ layers \in Layers
           /\ \A i \in 1 .. Len(g.stack) : g.stack[i].level \in 1 .. Len(levels)
           /\ \A i, j \in 1 .. Len(g.stack) : i < j => g.stack[i].level < g.stack[j].level
<1>1. Nested(g, levels, layers, outer)
    BY Zenon DEF Scoped
<1>2. Len(levels) \in 0 .. MaxLevel
    BY <1>1, Zenon DEF Nested
<1>3. Len(levels) \in Nat /\ Len(levels) <= MaxLevel
    BY <1>2, PolicyAssumption
<1> QED
    BY <1>1, <1>3, Zenon DEF Nested

\* BEGIN or SAVEPOINT.
LEMMA BeginScoped ==
    ASSUME NEW M \in Nat, NEW V, NEW g \in Gucs(V, M), NEW levels, NEW layers, NEW outer,
           Scoped(g, levels, layers, outer), Len(levels) < MaxLevel
    PROVE  Scoped(g, Append(levels, "xact"), layers, Append(outer, layers))
<1> DEFINE n == Len(levels)
           levels2 == Append(levels, "xact")
           outer2 == Append(outer, layers)
<1>1. /\ levels \in Seq(Kinds) /\ outer \in Seq(Layers) /\ Len(outer) = n
      /\ layers \in Layers /\ n \in Nat
      /\ \A i \in 1 .. Len(g.stack) : g.stack[i].level \in 1 .. n
    BY ScopedFields, Zenon
<1>2. /\ levels2 \in Seq(Kinds) /\ Len(levels2) = n + 1
      /\ outer2 \in Seq(Layers) /\ Len(outer2) = n + 1
      /\ levels2[n + 1] = "xact" /\ outer2[n + 1] = layers
      /\ Inner(n + 1, layers, outer2) = layers
      /\ \A k \in 1 .. n : /\ levels2[k] = levels[k] /\ outer2[k] = outer[k]
                           /\ Inner(k, layers, outer2) = Inner(k, layers, outer)
    <2>1. "xact" \in Kinds
        BY DEF Kinds
    <2>2. levels2 = Append(levels, "xact") /\ outer2 = Append(outer, layers)
        OBVIOUS
    <2> HIDE DEF levels2, outer2
    <2> QED
        BY <1>1, <2>1, <2>2 DEF Inner
<1> HIDE DEF levels2, outer2
<1>3. Nested(g, levels2, layers, outer2)
    <2>1. n + 1 \in 0 .. MaxLevel /\ n + 1 # 0
        BY <1>1, PolicyAssumption
    <2>2. levels2[1] = "xact" /\ Bottom(outer2[1])
        <3>1. CASE n = 0
            BY <1>2, <3>1, SMTT(30), Z3T(30) DEF Scoped, Nested
        <3>2. CASE n # 0
            <4>1. 1 \in 1 .. n
                BY <1>1, <3>2
            <4> QED
                BY <1>2, <3>2, <4>1, Zenon DEF Scoped, Nested
        <3> QED
            BY <3>1, <3>2, Zenon
    <2>3. \A i \in 1 .. Len(g.stack) : g.stack[i].level \in 1 .. n + 1
        BY <1>1, SMTT(30), Z3T(30)
    <2> QED
        BY <1>1, <1>2, <2>1, <2>2, <2>3, Zenon DEF Scoped, Nested
<1>4. Told(g, levels2, layers, outer2)
    BY <1>1, <1>2, Zenon DEF Scoped, Told
<1>5. \A k \in 1 .. n + 1 : k \in 1 .. n \/ k = n + 1
    BY <1>1
<1>6. Silent(g, levels2, layers, outer2)
    BY <1>2, <1>5, ZenonT(40) DEF Scoped, Silent
<1>7. Undone(g, levels2, layers, outer2)
    <2>1. \A i \in 1 .. Len(g.stack) : g.stack[i].level < n + 1
        BY <1>1
    <2> QED
        BY <1>2, <1>5, <2>1, Zenon DEF Scoped, Undone, Oldest
<1> QED
    BY <1>3, <1>4, <1>6, <1>7, Zenon DEF Scoped, levels2, outer2

\* When level n has ended, the layers are those in force when it began.
LEMMA EndedScoped ==
    ASSUME NEW V, NEW M \in Nat, NEW g \in Gucs(V, M), NEW h, NEW levels, NEW layers, NEW outer,
           Scoped(g, levels, layers, outer), NEW n \in 1 .. Len(levels), Ended(g, h, n)
    PROVE  Scoped(h, SubSeq(levels, 1, n - 1), outer[n], SubSeq(outer, 1, n - 1))
<1> DEFINE N == Len(levels)
           len == Len(g.stack)
           lv == SubSeq(levels, 1, n - 1)
           ou == SubSeq(outer, 1, n - 1)
<1>1. /\ levels \in Seq(Kinds) /\ outer \in Seq(Layers) /\ Len(outer) = N
      /\ layers \in Layers /\ N \in Nat /\ N <= MaxLevel
      /\ \A i \in 1 .. len : g.stack[i].level \in 1 .. N
      /\ \A i, j \in 1 .. len : i < j => g.stack[i].level < g.stack[j].level
    BY ScopedFields, Zenon
<1>2. len \in Nat
    BY GucFields, Zenon
<1>3. /\ lv \in Seq(Kinds) /\ Len(lv) = n - 1 /\ \A k \in 1 .. n - 1 : lv[k] = levels[k]
      /\ ou \in Seq(Layers) /\ Len(ou) = n - 1 /\ \A k \in 1 .. n - 1 : ou[k] = outer[k]
    BY <1>1, PopFacts, ZenonT(40)
<1>4. /\ outer[n] \in Layers
      /\ \A k \in 1 .. n - 1 : Inner(k, outer[n], ou) = Inner(k, layers, outer)
    BY <1>1, <1>3, SMTT(30), Z3T(30) DEF Inner
<1>5. n \in Nat /\ n >= 1 /\ n <= N
    BY <1>1
<1> HIDE DEF N, lv, ou, len
<1>6. /\ Len(h.stack) \in Nat
      /\ \A i \in 1 .. Len(h.stack) :
            i \in 1 .. len /\ h.stack[i] = g.stack[i] /\ g.stack[i].level \in 1 .. n - 1
      /\ \A i \in 1 .. len : g.stack[i].level < n => i \in 1 .. Len(h.stack)
    <2>1. CASE h = g /\ \A i \in 1 .. len : g.stack[i].level < n
        BY <1>1, <1>2, <1>5, <2>1, SMTT(30), Z3T(30) DEF len
    <2>2. ASSUME NEW m \in 1 .. len, Oldest(g, m, n), Popped(g, h, m)
          PROVE  /\ Len(h.stack) \in Nat
                 /\ \A i \in 1 .. Len(h.stack) :
                        i \in 1 .. len /\ h.stack[i] = g.stack[i] /\ g.stack[i].level \in 1 .. n - 1
                 /\ \A i \in 1 .. len : g.stack[i].level < n => i \in 1 .. Len(h.stack)
        BY <1>1, <1>2, <1>5, <2>2, SMTT(30), Z3T(30) DEF Oldest, Popped
    <2> QED
        BY <2>1, <2>2, Zenon DEF Ended, len
<1>7. Nested(h, lv, outer[n], ou)
    <2>1. n - 1 \in 0 .. MaxLevel
        BY <1>1, <1>5, PolicyAssumption
    <2>2. N # 0 /\ (n - 1 = 0 => n = 1) /\ (n - 1 # 0 => 1 \in 1 .. n - 1)
        BY <1>1, <1>5
    <2>3. levels[1] = "xact" /\ Bottom(outer[1])
        BY <2>2, Zenon DEF Scoped, Nested, N
    <2> QED
        BY <1>1, <1>3, <1>4, <1>6, <2>1, <2>2, <2>3, Zenon DEF Nested
<1>8. Told(h, lv, outer[n], ou)
    BY <1>3, <1>4, <1>6, ZenonT(40) DEF Scoped, Told, len
<1>9. \A k \in 1 .. n - 1 : k \in 1 .. N /\ k < n
    BY <1>1, <1>5
<1>10. Silent(h, lv, outer[n], ou)
    <2> SUFFICES ASSUME NEW k \in 1 .. n - 1, \A i \in 1 .. Len(h.stack) : h.stack[i].level # k
                 PROVE  lv[k] = "xact" /\ Inner(k, outer[n], ou) = ou[k]
        BY <1>3, Zenon DEF Silent
    <2>1. \A i \in 1 .. len : g.stack[i].level # k
        BY <1>6, <1>9, Zenon
    <2> QED
        BY <1>3, <1>4, <1>9, <2>1, Zenon DEF Scoped, Silent, len, N
<1>11. \A l, v, t : Yields(l, v, t, g) => Yields(l, v, t, h)
    BY Zenon DEF Ended, Yields
<1>12. n \in 1 .. N
    BY Zenon DEF N
<1>13. Undone(h, lv, outer[n], ou)
    <2>1. ASSUME NEW k \in 1 .. n - 1, NEW i \in 1 .. Len(h.stack), Oldest(h, i, k)
          PROVE  Yields(ou[k], h.stack[i].prior, h.stack[i].source, h)
        <3>1. \A j \in 1 .. i - 1 : j \in 1 .. Len(h.stack)
            BY <1>6
        <3>2. i \in 1 .. len /\ Oldest(g, i, k)
            BY <1>6, <2>1, <3>1, Zenon DEF Oldest
        <3>3. Yields(outer[k], g.stack[i].prior, g.stack[i].source, g)
            BY <1>9, <3>2, Zenon DEF Scoped, Undone, len, N
        <3> QED
            BY <1>3, <1>6, <1>11, <3>3, Zenon
    <2>2. CASE h = g /\ \A i \in 1 .. len : g.stack[i].level < n
        <3>1. Yields(outer[n], h.val, h.source, h)
            BY <1>12, <2>2, Zenon DEF Scoped, Undone, len, N
        <3>2. ASSUME NEW k \in 1 .. n - 1, \A i \in 1 .. Len(h.stack) : h.stack[i].level < k
              PROVE  Yields(ou[k], h.val, h.source, h)
            BY <1>3, <1>9, <2>2, <3>2, Zenon DEF Scoped, Undone, N
        <3> QED
            BY <1>3, <2>1, <3>1, <3>2, Zenon DEF Undone
    <2>3. ASSUME NEW m \in 1 .. len, Oldest(g, m, n), Popped(g, h, m),
                 h.val = g.stack[m].prior, h.source = g.stack[m].source
          PROVE  Undone(h, lv, outer[n], ou)
        <3>1. Yields(outer[n], h.val, h.source, h)
            BY <1>11, <1>12, <2>3, Zenon DEF Scoped, Undone, len, N
        <3>2. ASSUME NEW k \in 1 .. n - 1, \A i \in 1 .. Len(h.stack) : h.stack[i].level < k
              PROVE  Yields(ou[k], h.val, h.source, h)
            <4>1. ~(g.stack[m].level < k)
                BY <1>1, <1>5, <2>3, SMTT(30), Z3T(30) DEF Oldest
            <4>2. \A j \in 1 .. m - 1 : g.stack[j].level < k
                BY <1>6, <2>3, <3>2, Zenon DEF Popped
            <4>3. Yields(outer[k], g.stack[m].prior, g.stack[m].source, g)
                BY <1>9, <4>1, <4>2, Zenon DEF Scoped, Undone, Oldest, len, N
            <4> QED
                BY <1>3, <1>11, <2>3, <4>3, Zenon
        <3> QED
            BY <1>3, <2>1, <3>1, <3>2, Zenon DEF Undone
    <2> QED
        BY <2>2, <2>3, Zenon DEF Ended, len
<1> QED
    BY <1>7, <1>8, <1>10, <1>13, Zenon DEF Scoped, lv, ou

\* The newest entry of h is of level n, which is the innermost: it replaces that
\* of g, or is the first of the level.
Placed(g, h, n) ==
    LET m == Len(h.stack) IN
    /\ h.reset = g.reset /\ h.resetSource = g.resetSource
    /\ m # 0 /\ h.stack[m].level = n
    /\ \A i \in 1 .. m - 1 : h.stack[i] = g.stack[i]
    /\ \/ /\ m = Len(g.stack) /\ g.stack[m].level = n
          /\ h.stack[m].prior = g.stack[m].prior /\ h.stack[m].source = g.stack[m].source
       \/ /\ m = Len(g.stack) + 1 /\ \A i \in 1 .. m - 1 : g.stack[i].level < n
          /\ h.stack[m].prior = g.val /\ h.stack[m].source = g.source

\* Such an entry undoes what its level does from now on as well.
LEMMA PlacedScoped ==
    ASSUME NEW V, NEW M \in Nat, NEW g \in Gucs(V, M), NEW h, NEW levels, NEW layers, NEW outer,
           Scoped(g, levels, layers, outer), NEW n \in Nat, n = Len(levels), n # 0,
           NEW lv \in Seq(Kinds), Len(lv) = n, lv[1] = "xact",
           \A k \in 1 .. n - 1 : lv[k] = levels[k],
           NEW layers2 \in Layers, Placed(g, h, n), Len(h.stack) \in Nat,
           Tells(h.stack[Len(h.stack)], lv[n], outer[n], layers2),
           Yields(layers2, h.val, h.source, h)
    PROVE  Scoped(h, lv, layers2, outer)
<1> DEFINE len == Len(g.stack)
           m == Len(h.stack)
<1>1. /\ levels \in Seq(Kinds) /\ outer \in Seq(Layers) /\ Len(outer) = n
      /\ layers \in Layers /\ n <= MaxLevel
      /\ \A i \in 1 .. len : g.stack[i].level \in 1 .. n
      /\ \A i, j \in 1 .. len : i < j => g.stack[i].level < g.stack[j].level
    <2>1. /\ levels \in Seq(Kinds) /\ outer \in Seq(Layers) /\ Len(outer) = Len(levels)
          /\ layers \in Layers /\ Len(levels) <= MaxLevel
          /\ \A i \in 1 .. len : g.stack[i].level \in 1 .. Len(levels)
          /\ \A i, j \in 1 .. len : i < j => g.stack[i].level < g.stack[j].level
        BY ScopedFields, ZenonT(40)
    <2> HIDE DEF len
    <2> QED
        BY <2>1
<1>2. len \in Nat
    BY GucFields, Zenon
<1> HIDE DEF len, m
<1>3. /\ m \in Nat /\ m # 0 /\ h.stack[m].level = n
      /\ \A i \in 1 .. m - 1 :
            i \in 1 .. len /\ h.stack[i] = g.stack[i] /\ g.stack[i].level \in 1 .. n - 1
      /\ \A i \in 1 .. m : i \in 1 .. m - 1 \/ i = m
      /\ \A i \in 1 .. len : i \in 1 .. m - 1 \/ g.stack[i].level = n
    <2>1. /\ m \in Nat /\ m # 0 /\ h.stack[m].level = n
          /\ \A i \in 1 .. m - 1 : h.stack[i] = g.stack[i]
        BY Zenon DEF m, Placed
    <2>2. CASE m = len /\ g.stack[m].level = n
        BY <1>1, <1>2, <2>1, <2>2, SMTT(30), Z3T(30)
    <2>3. CASE m = len + 1 /\ \A i \in 1 .. m - 1 : g.stack[i].level < n
        BY <1>1, <1>2, <2>1, <2>3, SMTT(30), Z3T(30)
    <2> QED
        BY <2>2, <2>3, Zenon DEF m, len, Placed
<1>4. Nested(h, lv, layers2, outer)
    <2>1. n \in 0 .. MaxLevel /\ n \in 1 .. n
        BY <1>1, PolicyAssumption, SMTT(30), Z3T(30)
    <2>2. \A i \in 1 .. m : h.stack[i].level \in 1 .. n
        <3>1. \A k \in 1 .. n - 1 : k \in 1 .. n
            OBVIOUS
        <3> QED
            BY <1>3, <2>1, <3>1, Zenon
    <2>3. ASSUME NEW i \in 1 .. m, NEW j \in 1 .. m, i < j
          PROVE  h.stack[i].level < h.stack[j].level
        <3>1. i \in 1 .. m - 1 /\ i \in 1 .. len
            BY <1>3, <2>3
        <3>2. CASE j = m
            <4>1. \A k \in 1 .. n - 1 : k < n
                OBVIOUS
            <4> QED
                BY <1>3, <3>1, <3>2, <4>1, Zenon
        <3>3. CASE j \in 1 .. m - 1
            BY <1>1, <1>3, <2>3, <3>1, <3>3, Zenon
        <3> QED
            BY <1>3, <3>2, <3>3, Zenon
    <2> QED
        BY <1>1, <2>1, <2>2, <2>3, Zenon DEF Scoped, Nested, m
<1>5. Inner(n, layers2, outer) = layers2
    BY <1>1, Zenon DEF Inner
<1>6. \A k \in 1 .. n - 1 : Inner(k, layers2, outer) = Inner(k, layers, outer)
    BY <1>1 DEF Inner
<1>7. Told(h, lv, layers2, outer)
    <2> SUFFICES ASSUME NEW i \in 1 .. m
                 PROVE  Tells(h.stack[i], lv[h.stack[i].level], outer[h.stack[i].level],
                              Inner(h.stack[i].level, layers2, outer))
        BY Zenon DEF Told, m
    <2>1. CASE i = m
        BY <1>3, <1>5, <2>1, Zenon DEF m
    <2>2. CASE i \in 1 .. m - 1
        BY <1>3, <1>6, <2>2, Zenon DEF Scoped, Told, len
    <2> QED
        BY <1>3, <2>1, <2>2, Zenon
<1>8. \A k \in 1 .. n : (k \in 1 .. n - 1 \/ k = n) /\ ~(n < k)
    OBVIOUS
<1>9. Silent(h, lv, layers2, outer)
    <2> SUFFICES ASSUME NEW k \in 1 .. n, \A i \in 1 .. m : h.stack[i].level # k
                 PROVE  lv[k] = "xact" /\ Inner(k, layers2, outer) = outer[k]
        BY Zenon DEF Silent, m
    <2>1. m \in 1 .. m /\ \A i \in 1 .. m - 1 : i \in 1 .. m
        BY <1>3
    <2>2. k \in 1 .. n - 1 /\ k # n
        BY <1>3, <1>8, <2>1, Zenon
    <2>3. \A i \in 1 .. len : g.stack[i].level # k
        BY <1>3, <2>1, <2>2, Zenon
    <2> QED
        BY <1>6, <2>2, <2>3, Zenon DEF Scoped, Silent, len
<1>10. \A l, v, t : Yields(l, v, t, g) => Yields(l, v, t, h)
    BY Zenon DEF Placed, Yields
<1>11. Undone(h, lv, layers2, outer)
    <2>1. ASSUME NEW k \in 1 .. n, NEW i \in 1 .. m, Oldest(h, i, k)
          PROVE  Yields(outer[k], h.stack[i].prior, h.stack[i].source, h)
        <3>1. CASE i \in 1 .. m - 1
            <4>1. \A j \in 1 .. i - 1 : j \in 1 .. m - 1
                BY <1>3, <3>1
            <4>2. Oldest(g, i, k)
                BY <1>3, <2>1, <3>1, <4>1, Zenon DEF Oldest
            <4> QED
                BY <1>3, <1>10, <3>1, <4>2, Zenon DEF Scoped, Undone, len
        <3>2. CASE i = m
            <4>1. \A j \in 1 .. m - 1 : g.stack[j].level < k
                BY <1>3, <2>1, <3>2, Zenon DEF Oldest
            <4>2. CASE /\ m = len /\ g.stack[m].level = n
                       /\ h.stack[m].prior = g.stack[m].prior
                       /\ h.stack[m].source = g.stack[m].source
                <5>1. Oldest(g, m, k) /\ m \in 1 .. len
                    BY <1>8, <3>2, <4>1, <4>2, Zenon DEF Oldest
                <5> QED
                    BY <1>10, <3>2, <4>2, <5>1, Zenon DEF Scoped, Undone, len
            <4>3. CASE m = len + 1 /\ h.stack[m].prior = g.val /\ h.stack[m].source = g.source
                <5>1. \A j \in 1 .. len : g.stack[j].level < k
                    BY <1>2, <4>1, <4>3
                <5> QED
                    BY <1>10, <3>2, <4>3, <5>1, Zenon DEF Scoped, Undone, len
            <4> QED
                BY <4>2, <4>3, Zenon DEF Placed, m, len
        <3> QED
            BY <1>3, <3>1, <3>2, Zenon
    <2>2. ASSUME NEW k \in 1 .. n, \A i \in 1 .. m : h.stack[i].level < k
          PROVE  FALSE
        <3>1. m \in 1 .. m
            BY <1>3
        <3> QED
            BY <1>3, <1>8, <2>2, <3>1, Zenon
    <2> QED
        BY <2>1, <2>2, Zenon DEF Undone, m
<1> QED
    BY <1>4, <1>7, <1>9, <1>11, Zenon DEF Scoped

\* No level is open.
LEMMA EmptyScoped ==
    ASSUME NEW g, NEW l \in Layers, Len(g.stack) = 0, Bottom(l),
           Yields(l, g.val, g.source, g)
    PROVE  Scoped(g, <<>>, l, <<>>)
<1>1. <<>> \in Seq(Kinds) /\ <<>> \in Seq(Layers) /\ Len(<<>>) = 0 /\ 0 \in 0 .. MaxLevel
    BY PolicyAssumption
<1>2. \A i \in 1 .. 0 : FALSE
    OBVIOUS
<1> QED
    BY <1>1, <1>2, Zenon DEF Scoped, Nested, Told, Silent, Undone

\* SET values are none of the marks in the layers.
LEMMA SetValueFacts ==
    /\ \A v \in SetValues : v \notin {Null, "default", "pinned"}
    /\ Null \notin {"default", "pinned"}
BY PolicyAssumption, Zenon

\* n is the innermost level, and what is known of its entry, the newest, if it has
\* one.
AtLevel(V, M, g, levels, layers, outer, n) ==
    /\ M \in Nat /\ g \in Gucs(V, M) /\ Scoped(g, levels, layers, outer)
    /\ n \in Nat /\ n = Len(levels) /\ n # 0
Innermost(g, levels, layers, outer, n) ==
    /\ HasEntry(g, n) =>
        /\ Len(g.stack) \in 1 .. Len(g.stack) /\ g.stack[Len(g.stack)].level = n
        /\ Oldest(g, Len(g.stack), n)
        /\ Tells(g.stack[Len(g.stack)], levels[n], outer[n], layers)
    /\ ~HasEntry(g, n) =>
        /\ \A i \in 1 .. Len(g.stack) : g.stack[i].level < n
        /\ levels[n] = "xact" /\ layers = outer[n]
    /\ n \in 1 .. MaxLevel

\* Entries are in the order of the levels.
LEMMA InnermostEntry ==
    ASSUME NEW V, NEW M, NEW g, NEW levels, NEW layers, NEW outer, NEW n,
           AtLevel(V, M, g, levels, layers, outer, n)
    PROVE  Innermost(g, levels, layers, outer, n)
<1> M \in Nat /\ g \in Gucs(V, M) /\ Scoped(g, levels, layers, outer)
    BY Zenon DEF AtLevel
<1> n \in Nat /\ n = Len(levels) /\ n # 0
    BY Zenon DEF AtLevel
<1> DEFINE len == Len(g.stack)
<1>1. /\ Len(outer) = n /\ n <= MaxLevel
      /\ \A i \in 1 .. len : g.stack[i].level \in 1 .. n
      /\ \A i, j \in 1 .. len : i < j => g.stack[i].level < g.stack[j].level
    <2>1. /\ Len(outer) = Len(levels) /\ Len(levels) <= MaxLevel
          /\ \A i \in 1 .. len : g.stack[i].level \in 1 .. Len(levels)
          /\ \A i, j \in 1 .. len : i < j => g.stack[i].level < g.stack[j].level
        BY ScopedFields, Zenon
    <2> HIDE DEF len
    <2> QED
        BY <2>1
<1>2. len \in Nat
    BY GucFields, Zenon
<1>3. Inner(n, layers, outer) = layers
    BY <1>1, Zenon DEF Inner
<1> HIDE DEF len
<1>4. n \in 1 .. MaxLevel /\ n \in 1 .. n
    BY <1>1, PolicyAssumption
<1>5. CASE HasEntry(g, n)
    <2>1. len # 0 /\ ~(g.stack[len].level < n)
        BY <1>5, Zenon DEF HasEntry, len
    <2>2. len \in 1 .. len
        BY <1>2, <2>1, SMTT(30), Z3T(30)
    <2>3. g.stack[len].level = n
        BY <1>1, <2>1, <2>2
    <2>4. \A j \in 1 .. len - 1 : g.stack[j].level < n
        <3>1. \A j \in 1 .. len - 1 : j \in 1 .. len /\ j < len
            BY <1>2
        <3> QED
            BY <1>1, <2>2, <2>3, <3>1, Zenon
    <2>5. Oldest(g, len, n)
        BY <2>1, <2>4, Zenon DEF Oldest
    <2>6. Tells(g.stack[len], levels[n], outer[n], layers)
        BY <1>3, <2>2, <2>3, Zenon DEF Scoped, Told, len
    <2> QED
        BY <1>4, <1>5, <2>2, <2>3, <2>5, <2>6, Zenon DEF Innermost, len
<1>6. CASE ~HasEntry(g, n)
    <2>1. \A i \in 1 .. len : g.stack[i].level < n
        <3> SUFFICES ASSUME NEW i \in 1 .. len PROVE g.stack[i].level < n
            OBVIOUS
        <3>1. len # 0 /\ len \in 1 .. len /\ (i = len \/ i < len)
            BY <1>2
        <3>2. g.stack[len].level < n
            BY <1>6, <3>1, Zenon DEF HasEntry, len
        <3>3. CASE i = len
            BY <3>2, <3>3, Zenon
        <3>4. CASE i < len
            <4>1. g.stack[i].level < g.stack[len].level
                BY <1>1, <3>1, <3>4, Zenon
            <4>2. \A a, b \in 1 .. n : a < b /\ b < n => a < n
                BY SMTT(30), Z3T(30)
            <4> QED
                BY <1>1, <3>1, <3>2, <4>1, <4>2, Zenon
        <3> QED
            BY <3>1, <3>3, <3>4, Zenon
    <2>2. \A i \in 1 .. len : g.stack[i].level # n
        BY <1>1, <2>1
    <2>3. levels[n] = "xact" /\ layers = outer[n]
        BY <1>3, <1>4, <2>2, Zenon DEF Scoped, Silent, len
    <2> QED
        BY <1>4, <1>6, <2>1, <2>3, Zenon DEF Innermost, len
<1> QED
    BY <1>5, <1>6

\* The value in force before a SET LOCAL is that of the SET in force, if any.
LEMMA MaskedFacts ==
    ASSUME NEW l \in Layers, NEW v, NEW t, NEW g, Yields(l, v, t, g), l.local = Null,
           l.set \notin {Null, "pinned"}
    PROVE  v = l.set
<1>1. l.set \in SetValues
    BY DEF Layers
<1>2. Top(l) = l.set
    BY Zenon DEF Top
<1> QED
    BY <1>1, <1>2, SetValueFacts, Zenon DEF Yields

\* push_old_value leaves one entry of the innermost level, which remembers the
\* value in force before the first SET in it.
IsPlaced(g, h, v, action, n) ==
    LET len == Len(g.stack)
        top == h.stack[Len(h.stack)]
    IN
    /\ h.val = (IF v = Null THEN g.reset ELSE v)
    /\ h.source = (IF v = Null THEN g.resetSource ELSE SESSION)
    /\ Len(h.stack) \in Nat
    /\ /\ HasEntry(g, n) => g.stack[len].level = n
       /\ ~HasEntry(g, n) => \A i \in 1 .. len : g.stack[i].level < n
       => Placed(g, h, n)
    /\ HasEntry(g, n) => top = SameLevel(g.stack[len], action, g.val)
    /\ ~HasEntry(g, n) => top = NewEntry(g, action, n)

\* The steps of SET leave the stack in that way.
LEMMA InteractivePlaced ==
    ASSUME NEW V, NEW M \in Nat, NEW g \in Gucs(V, M), NEW v \in V \cup {Null},
           NEW action \in {"SAVE", "SET", "LOCAL"}, NEW n \in 1 .. M, Null \notin V
    PROVE  IsPlaced(g, SetInteractive(g, v, action, n), v, action, n)
<1> DEFINE h == SetInteractive(g, v, action, n)
           len == Len(g.stack)
           new == NewEntry(g, action, n)
<1>1. len \in Nat /\ n \in Nat /\ n # 0
    BY GucFields, SMTT(30), Z3T(30)
<1>2. /\ h.reset = g.reset /\ h.resetSource = g.resetSource
      /\ h.val = (IF v = Null THEN g.reset ELSE v)
      /\ h.source = (IF v = Null THEN g.resetSource ELSE SESSION)
      /\ HasEntry(g, n) =>
            /\ Len(h.stack) = len
            /\ \A i \in 1 .. len - 1 : h.stack[i] = g.stack[i]
            /\ h.stack[len] = SameLevel(g.stack[len], action, g.val)
      /\ ~HasEntry(g, n) =>
            /\ Len(h.stack) = len + 1
            /\ \A i \in 1 .. len : h.stack[i] = g.stack[i]
            /\ h.stack[len + 1] = new
    <2>1. IsSet(g, h, v, action, n)
        BY SetInteractiveFacts, Zenon
    <2> HIDE DEF h
    <2> QED
        BY <2>1, Zenon DEF IsSet
<1>3. HasEntry(g, n) => len \in 1 .. len
    BY <1>1 DEF HasEntry
<1>4. new.level = n /\ new.prior = g.val /\ new.source = g.source
    BY DEF NewEntry
<1> HIDE DEF h, len, new
<1>5. CASE HasEntry(g, n)
    <2>1. g.stack[len] \in StackEntries(V, M)
        BY <1>1, <1>3, <1>5, GucFields, Zenon DEF len
    <2>2. \A e \in StackEntries(V, M) :
            LET d == SameLevel(e, action, g.val) IN
            d.level = e.level /\ d.prior = e.prior /\ d.source = e.source
        BY DEF SameLevel, StackEntries
    <2>3. /\ h.stack[len].level = g.stack[len].level
          /\ h.stack[len].prior = g.stack[len].prior
          /\ h.stack[len].source = g.stack[len].source
        BY <1>2, <1>3, <1>5, <2>1, <2>2, Zenon
    <2>4. len # 0
        BY <1>1, <1>3, <1>5
    <2>5. g.stack[len].level = n => Placed(g, h, n)
        BY <1>2, <1>3, <1>5, <2>3, <2>4, Zenon DEF Placed, len
    <2> QED
        BY <1>1, <1>2, <1>5, <2>5, Zenon DEF IsPlaced, h, len
<1>6. CASE ~HasEntry(g, n)
    <2>1. len + 1 \in Nat /\ len + 1 # 0 /\ (len + 1) - 1 = len
        BY <1>1
    <2>2. (\A i \in 1 .. len : g.stack[i].level < n) => Placed(g, h, n)
        BY <1>2, <1>3, <1>4, <1>6, <2>1, Zenon DEF Placed, len
    <2> QED
        BY <1>2, <1>6, <2>1, <2>2, Zenon DEF IsPlaced, h, len, new
<1> QED
    BY <1>5, <1>6, Zenon

\* SET, RESET, SET LOCAL and SET LOCAL TO DEFAULT.
LEMMA SetScoped ==
    ASSUME NEW V, NEW M \in Nat, NEW g \in Gucs(V, M), NEW levels, NEW layers, NEW outer,
           Scoped(g, levels, layers, outer), NEW n \in 1 .. M, n = Len(levels),
           NEW v \in SetValues \cup {Null}, NEW action \in {"SET", "LOCAL"},
           SetValues \subseteq V, Null \notin V
    PROVE  Scoped(SetInteractive(g, v, action, n), levels, AfterSet(layers, v, action), outer)
<1> DEFINE h == SetInteractive(g, v, action, n)
           len == Len(g.stack)
           top == h.stack[Len(h.stack)]
           layers2 == AfterSet(layers, v, action)
           new == NewEntry(g, action, n)
<1>1. action \in {"SAVE", "SET", "LOCAL"} /\ v \in V \cup {Null} /\ n \in Nat /\ n # 0
    BY SMTT(30), Z3T(30)
<1>2. Innermost(g, levels, layers, outer, n)
    <2>1. AtLevel(V, M, g, levels, layers, outer, n)
        BY <1>1, Zenon DEF AtLevel
    <2> QED
        BY <2>1, InnermostEntry, Zenon
<1>3. /\ h.val = (IF v = Null THEN g.reset ELSE v)
      /\ h.source = (IF v = Null THEN g.resetSource ELSE SESSION)
      /\ Len(h.stack) \in Nat /\ Placed(g, h, n)
      /\ HasEntry(g, n) => top = SameLevel(g.stack[len], action, g.val)
      /\ ~HasEntry(g, n) => top = new
    <2>1. /\ HasEntry(g, n) => g.stack[Len(g.stack)].level = n
          /\ ~HasEntry(g, n) => \A i \in 1 .. Len(g.stack) : g.stack[i].level < n
        BY <1>2, Zenon DEF Innermost
    <2>2. IsPlaced(g, h, v, action, n)
        BY <1>1, InteractivePlaced, Zenon
    <2> HIDE DEF h
    <2> QED
        BY <2>1, <2>2, Zenon DEF IsPlaced
<1>4. new.state = action /\ new.masked = Null
    BY DEF NewEntry
<1> HIDE DEF h, len, new, top, layers2
<1>5. layers \in Layers /\ levels \in Seq(Kinds) /\ levels[1] = "xact"
    BY <1>1, Zenon DEF Scoped, Nested
<1>6. /\ layers2 \in Layers
      /\ action = "SET" => layers2.set = v /\ layers2.local = Null /\ ~layers2.save
      /\ action = "LOCAL" =>
            /\ layers2.set = layers.set /\ layers2.save = layers.save
            /\ layers2.local = IF v = Null THEN "default" ELSE v
    <2>1. CASE action = "SET"
        <3>1. layers2 = [set |-> v, local |-> Null, save |-> FALSE]
            BY <2>1 DEF layers2, AfterSet
        <3> QED
            BY <2>1, <3>1 DEF Layers
    <2>2. CASE action = "LOCAL" /\ v = Null
        <3>1. layers2 = [layers EXCEPT !.local = "default"]
            BY <2>2 DEF layers2, AfterSet
        <3> QED
            BY <1>5, <2>2, <3>1, Zenon DEF Layers
    <2>3. CASE action = "LOCAL" /\ v # Null
        <3>1. layers2 = [layers EXCEPT !.local = v]
            BY <2>3 DEF layers2, AfterSet
        <3> QED
            BY <1>5, <2>3, <3>1, Zenon DEF Layers
    <2> QED
        BY <2>1, <2>2, <2>3, Zenon
<1>7. action = "LOCAL" => layers2.local # Null
    BY <1>6, SetValueFacts, Zenon
<1>8. Yields(layers2, h.val, h.source, h)
    <2>1. h.reset = g.reset /\ h.resetSource = g.resetSource
        BY <1>3, Zenon DEF Placed
    <2>2. CASE v = Null
        <3>1. Top(layers2) \in {Null, "default"}
            BY <1>6, <2>2, SetValueFacts, Zenon DEF Top
        <3> QED
            BY <1>3, <2>1, <2>2, <3>1, Zenon DEF Yields
    <2>3. CASE v # Null
        <3>1. Top(layers2) = v
            BY <1>6, <2>3 DEF Top
        <3>2. v \notin {Null, "default", "pinned"}
            BY <2>3, SetValueFacts, Zenon
        <3> QED
            BY <1>3, <2>1, <2>3, <3>1, <3>2, Zenon DEF Yields
    <2> QED
        BY <2>2, <2>3, Zenon
<1>9. Tells(top, levels[n], outer[n], layers2)
    <2>1. CASE ~HasEntry(g, n)
        <3>1. top.state = action /\ levels[n] = "xact" /\ layers = outer[n]
            <4>1. levels[n] = "xact" /\ layers = outer[n]
                BY <1>2, <2>1, Zenon DEF Innermost
            <4>2. top.state = action
                BY <1>3, <1>4, <2>1, Zenon
            <4> QED
                BY <4>1, <4>2, Zenon
        <3> QED
            BY <1>6, <1>7, <3>1, Zenon DEF Tells
    <2>2. CASE HasEntry(g, n)
        <3> DEFINE e == g.stack[len]
        <3>1. Tells(e, levels[n], outer[n], layers) /\ len \in 1 .. len
            BY <1>2, <2>2, Zenon DEF Innermost, len
        <3>2. e \in StackEntries(V, M) /\ g.val \in V
            BY <3>1, GucFields DEF len
        <3>3. top = SameLevel(e, action, g.val)
            BY <1>3, <2>2, Zenon
        <3> HIDE DEF e
        <3>4. CASE action = "SET"
            <4>1. top = [e EXCEPT !.state = "SET", !.masked = Null]
                BY <3>3, <3>4, Zenon DEF SameLevel
            <4>2. top.state = "SET"
                BY <3>2, <4>1, Zenon DEF StackEntries
            <4> QED
                BY <1>6, <3>4, <4>2, Zenon DEF Tells
        <3>5. CASE action = "LOCAL" /\ e.state = "SET"
            <4>1. top = [e EXCEPT !.state = "SET_LOCAL", !.masked = g.val]
                BY <3>3, <3>5, Zenon DEF SameLevel
            <4>2. top.state = "SET_LOCAL" /\ top.masked = g.val
                BY <3>2, <4>1, Zenon DEF StackEntries
            <4>3. ~layers.save /\ layers.local = Null
                BY <3>1, <3>5, Zenon DEF Tells
            <4>4. Yields(layers, g.val, g.source, g)
                BY Zenon DEF Scoped, Undone
            <4>5. layers.set \notin {Null, "pinned"} => g.val = layers.set
                BY <1>5, <4>3, <4>4, MaskedFacts, Zenon
            <4>6. g.val # Null
                BY <3>2, Zenon
            <4> QED
                BY <1>6, <1>7, <3>5, <4>2, <4>3, <4>5, <4>6, Zenon DEF Tells
        <3>6. CASE action = "LOCAL" /\ e.state # "SET"
            <4>1. top = e
                BY <3>3, <3>6, Zenon DEF SameLevel
            <4> QED
                BY <1>6, <1>7, <3>1, <3>6, <4>1, Zenon DEF Tells
        <3> QED
            BY <3>4, <3>5, <3>6, Zenon
    <2> QED
        BY <2>1, <2>2, Zenon
<1> QED
    BY <1>1, <1>3, <1>5, <1>6, <1>8, <1>9, PlacedScoped, Zenon DEF top, h, layers2

\* A function with a SET option is entered.
LEMMA EnterScoped ==
    ASSUME NEW V, NEW M \in Nat, NEW g \in Gucs(V, M), NEW levels, NEW layers, NEW outer,
           Scoped(g, levels, layers, outer), NEW n \in 2 .. M, n = Len(levels) + 1,
           n <= MaxLevel, NEW v \in SetValues, SetValues \subseteq V, Null \notin V
    PROVE  Scoped(SetInteractive(g, v, "SAVE", n), Append(levels, "func"),
                  [layers EXCEPT !.local = v, !.save = TRUE], Append(outer, layers))
<1> DEFINE h == SetInteractive(g, v, "SAVE", n)
           len == Len(g.stack)
           lv == Append(levels, "func")
           begun == Append(levels, "xact")
           ou == Append(outer, layers)
           layers2 == [layers EXCEPT !.local = v, !.save = TRUE]
           top == h.stack[Len(h.stack)]
           new == NewEntry(g, "SAVE", n)
<1>1. /\ levels \in Seq(Kinds) /\ outer \in Seq(Layers) /\ Len(outer) = Len(levels)
      /\ layers \in Layers /\ Len(levels) \in Nat
      /\ \A i \in 1 .. len : g.stack[i].level \in 1 .. Len(levels)
    BY ScopedFields, Zenon
<1>2. len \in Nat
    BY GucFields, Zenon
<1>3. Len(levels) < MaxLevel /\ n \in Nat /\ n # 0 /\ 1 \in 1 .. n - 1 /\ v # Null
    BY <1>1, PolicyAssumption
<1>4. Scoped(g, begun, layers, ou)
    BY <1>3, BeginScoped, Zenon
<1>5. /\ lv \in Seq(Kinds) /\ Len(lv) = n /\ lv[n] = "func"
      /\ Len(begun) = n /\ \A k \in 1 .. n - 1 : lv[k] = begun[k]
      /\ ou[n] = layers
    BY <1>1, <1>3 DEF Kinds
<1>6. lv[1] = "xact"
    <2>1. begun[1] = "xact"
        BY <1>3, <1>4, <1>5, Zenon DEF Scoped, Nested
    <2> QED
        BY <1>3, <1>5, <2>1, Zenon
<1>7. \A i \in 1 .. len : g.stack[i].level < n
    BY <1>1, SMTT(30), Z3T(30)
<1>8. ~HasEntry(g, n)
    BY <1>2, <1>7, SMTT(30), Z3T(30) DEF HasEntry
<1>9. /\ h.val = v /\ h.source = SESSION /\ Len(h.stack) \in Nat
      /\ (~HasEntry(g, n) => \A i \in 1 .. len : g.stack[i].level < n)
         /\ (HasEntry(g, n) => g.stack[len].level = n) => Placed(g, h, n)
      /\ ~HasEntry(g, n) => top = new
    <2>1. "SAVE" \in {"SAVE", "SET", "LOCAL"} /\ v \in V \cup {Null} /\ n \in 1 .. M
        OBVIOUS
    <2>2. IsPlaced(g, h, v, "SAVE", n)
        BY <2>1, InteractivePlaced, Zenon
    <2> HIDE DEF h
    <2> QED
        BY <1>3, <2>2, Zenon DEF IsPlaced
<1>10. new.state = "SAVE"
    BY DEF NewEntry
<1>11. /\ layers2 \in Layers /\ layers2.set = layers.set /\ layers2.local = v
       /\ layers2.save = TRUE
    BY <1>1, Zenon DEF Layers
<1> HIDE DEF h, len, lv, begun, ou, layers2, top, new
<1>12. Placed(g, h, n) /\ top.state = "SAVE"
    BY <1>7, <1>8, <1>9, <1>10, Zenon
<1>13. Tells(top, lv[n], ou[n], layers2)
    BY <1>3, <1>5, <1>11, <1>12 DEF Tells
<1>14. Yields(layers2, h.val, h.source, h)
    <2>1. Top(layers2) = v
        BY <1>3, <1>11, Zenon DEF Top
    <2>2. v \notin {Null, "default", "pinned"}
        BY SetValueFacts, ZenonT(40)
    <2> QED
        BY <1>9, <2>1, <2>2, Zenon DEF Yields
<1>15. Scoped(h, lv, layers2, ou)
    BY <1>3, <1>4, <1>5, <1>6, <1>9, <1>11, <1>12, <1>13, <1>14, PlacedScoped, ZenonT(40) DEF top
<1> QED
    BY <1>15, Zenon DEF h, lv, ou, layers2

\* ROLLBACK, ROLLBACK TO or an error.
LEMMA AbortScoped ==
    ASSUME HasLeast, NEW V, NEW M \in Nat, NEW g \in Gucs(V, M), NEW levels, NEW layers, NEW outer,
           Scoped(g, levels, layers, outer), NEW n \in 1 .. M, n \in 1 .. Len(levels)
    PROVE  Scoped(AbortGUC(g, n), SubSeq(levels, 1, n - 1), outer[n], SubSeq(outer, 1, n - 1))
<1>1. Ended(g, AbortGUC(g, n), n)
    BY AbortFacts, Zenon
<1> QED
    BY <1>1, EndedScoped, Zenon

\* What an entry that outlives its level tells of the level around it, where
\* nothing was SET before.
LEMMA TellsOuter ==
    ASSUME NEW e, NEW l, NEW o, NEW kind, Tells(e, kind, o, l), e.state # "SAVE",
           NEW d, d.state = e.state, d.masked = e.masked
    PROVE  Tells(d, "xact", o, l)
BY DEF Tells

\* Two entries of adjacent levels: the inner one, e, began with the layers mid.
Adjacent(V, M, prev, kind, o, e, kind2, mid, l, g) ==
    /\ Tells(prev, kind, o, mid) /\ Tells(e, kind2, mid, l) /\ e.state # "SAVE"
    /\ mid \in Layers /\ l \in Layers /\ Yields(mid, e.prior, e.source, g)
    /\ e \in StackEntries(V, M) /\ prev \in StackEntries(V, M) /\ Null \notin V

Joined(d, prev, kind, o, l) ==
    /\ Tells(d, kind, o, l)
    /\ d.level = prev.level /\ d.prior = prev.prior /\ d.source = prev.source

\* What the entry of the level around it tells once the two are one: a SET LOCAL
\* in the inner level masks the SET in the outer one.
LEMMA TellsMerged ==
    ASSUME NEW V, NEW M, NEW e, NEW prev, NEW g, NEW l, NEW mid, NEW o, NEW kind, NEW kind2,
           Adjacent(V, M, prev, kind, o, e, kind2, mid, l, g)
    PROVE  Joined(MergeEntries(prev, e), prev, kind, o, l)
<1> DEFINE d == MergeEntries(prev, e)
<1>1. /\ Tells(prev, kind, o, mid) /\ Tells(e, kind2, mid, l) /\ e.state # "SAVE"
      /\ mid \in Layers /\ l \in Layers /\ Yields(mid, e.prior, e.source, g)
      /\ e \in StackEntries(V, M) /\ prev \in StackEntries(V, M) /\ Null \notin V
    BY Zenon DEF Adjacent
<1>2. /\ e.state \in {"SAVE", "SET", "LOCAL", "SET_LOCAL"} /\ e.prior \in V
      /\ prev.state \in {"SAVE", "SET", "LOCAL", "SET_LOCAL"}
    BY <1>1 DEF StackEntries
<1>3. CASE e.state = "SET"
    <2>1. d = [prev EXCEPT !.state = "SET", !.masked = Null]
        BY <1>3 DEF MergeEntries
    <2>2. /\ d.state = "SET"
          /\ d.level = prev.level /\ d.prior = prev.prior /\ d.source = prev.source
        BY <1>1, <2>1 DEF StackEntries
    <2> HIDE DEF d
    <2>3. Tells(d, kind, o, l)
        BY <1>3, <1>1, <2>2, Zenon DEF Tells
    <2> QED
        BY <2>2, <2>3, Zenon DEF Joined, d
<1>4. CASE e.state = "SET_LOCAL"
    <2>1. d = [prev EXCEPT !.state = "SET_LOCAL", !.masked = e.masked]
        BY <1>4, Zenon DEF MergeEntries
    <2>2. /\ d.state = "SET_LOCAL" /\ d.masked = e.masked
          /\ d.level = prev.level /\ d.prior = prev.prior /\ d.source = prev.source
        BY <1>1, <2>1, Zenon DEF StackEntries
    <2> HIDE DEF d
    <2>3. Tells(d, kind, o, l)
        BY <1>4, <1>1, <2>2, Zenon DEF Tells
    <2> QED
        BY <2>2, <2>3, Zenon DEF Joined, d
<1>5. CASE e.state = "LOCAL" /\ prev.state = "SET"
    <2>1. d = [prev EXCEPT !.state = "SET_LOCAL", !.masked = e.prior]
        BY <1>5, Zenon DEF MergeEntries
    <2>2. /\ d.state = "SET_LOCAL" /\ d.masked = e.prior
          /\ d.level = prev.level /\ d.prior = prev.prior /\ d.source = prev.source
        BY <1>1, <2>1, Zenon DEF StackEntries
    <2> HIDE DEF d
    <2>3. ~mid.save /\ mid.local = Null /\ l.save = mid.save /\ l.set = mid.set /\ l.local # Null
        BY <1>5, <1>1, Zenon DEF Tells
    <2>4. l.set \notin {Null, "pinned"} => e.prior = l.set
        BY <1>1, <2>3, MaskedFacts, Zenon
    <2>5. e.prior # Null
        BY <1>1, <1>2, ZenonT(40)
    <2>6. Tells(d, kind, o, l)
        BY <2>2, <2>3, <2>4, <2>5, Zenon DEF Tells
    <2> QED
        BY <2>2, <2>6, Zenon DEF Joined, d
<1>6. CASE e.state = "LOCAL" /\ prev.state # "SET"
    <2>1. d = prev
        BY <1>6, Zenon DEF MergeEntries
    <2>2. Tells(prev, kind, o, l)
        BY <1>2, <1>6, <1>1, Zenon DEF Tells
    <2> QED
        BY <2>1, <2>2, Zenon DEF Joined
<1> QED
    BY <1>2, <1>3, <1>4, <1>5, <1>6, <1>1

\* How AtEOXact_GUC turns the newest entry, of level n, into one of level p around it.
Alone(g, p) == Len(g.stack) = 1 \/ g.stack[Len(g.stack) - 1].level < p
Lowered(g, h, p) ==
    LET len == Len(g.stack) IN
    /\ h.reset = g.reset /\ h.resetSource = g.resetSource
    /\ h.val = g.val /\ h.source = g.source /\ Len(h.stack) \in Nat
    /\ Alone(g, p) =>
        /\ Len(h.stack) = len
        /\ \A i \in 1 .. len - 1 : h.stack[i] = g.stack[i]
        /\ h.stack[len] = [g.stack[len] EXCEPT !.level = p]
    /\ ~Alone(g, p) =>
        /\ Len(h.stack) = len - 1
        /\ \A i \in 1 .. len - 2 : h.stack[i] = g.stack[i]
        /\ h.stack[len - 1] = MergeEntries(g.stack[len - 1], g.stack[len])

\* RELEASE, or the return of a function whose SET option a SET has overridden:
\* the entry of the level becomes one of the level around it.
LEMMA CommitInner ==
    ASSUME NEW V, NEW M \in Nat, NEW g \in Gucs(V, M), NEW levels, NEW layers, NEW outer,
           Scoped(g, levels, layers, outer), NEW n \in Nat, n = Len(levels),
           NEW p \in Nat, p # 0, n = p + 1, Null \notin V,
           Len(g.stack) \in 1 .. Len(g.stack), Oldest(g, Len(g.stack), n),
           Tells(g.stack[Len(g.stack)], levels[n], outer[n], layers),
           g.stack[Len(g.stack)].state # "SAVE", NEW h, Lowered(g, h, p)
    PROVE  Scoped(h, SubSeq(levels, 1, p), layers, SubSeq(outer, 1, p))
<1> DEFINE len == Len(g.stack)
           e == g.stack[len]
           alone == Alone(g, p)
           lv == SubSeq(levels, 1, p)
           ou == SubSeq(outer, 1, p)
           rest == SubSeq(g.stack, 1, len - 1)
           f == [val |-> e.prior, source |-> e.source, reset |-> g.reset,
                 resetSource |-> g.resetSource, stack |-> rest]
           top == h.stack[Len(h.stack)]
<1>1. n # 0 /\ n \in 1 .. n /\ p \in 1 .. p /\ n - 1 = p
    BY SMTT(30), Z3T(30)
<1>2. /\ len \in 1 .. len /\ Oldest(g, len, n)
      /\ Tells(e, levels[n], outer[n], layers)
    OBVIOUS
<1>3. /\ levels \in Seq(Kinds) /\ outer \in Seq(Layers) /\ Len(outer) = Len(levels)
      /\ layers \in Layers
      /\ \A i \in 1 .. len : g.stack[i].level \in 1 .. Len(levels)
      /\ \A i, j \in 1 .. len : i < j => g.stack[i].level < g.stack[j].level
    BY ScopedFields, ZenonT(40)
<1>4. /\ g.stack \in Seq(StackEntries(V, M)) /\ len \in Nat
      /\ \A i \in 1 .. len : g.stack[i] \in StackEntries(V, M)
      /\ g.reset \in V /\ g.resetSource \in DEFAULT .. OVERRIDE
    BY GucFields, Zenon
<1>5. e \in StackEntries(V, M) /\ e.prior \in V /\ e.source \in GucSources
    BY <1>2, <1>4, Zenon DEF StackEntries
<1>6. /\ rest \in Seq(StackEntries(V, M)) /\ Len(rest) = len - 1
      /\ \A i \in 1 .. len - 1 : rest[i] = g.stack[i]
    BY <1>2, <1>4, PopFacts, Zenon
<1>7. /\ lv \in Seq(Kinds) /\ Len(lv) = p /\ \A k \in 1 .. p : lv[k] = levels[k]
      /\ ou \in Seq(Layers) /\ \A k \in 1 .. p : ou[k] = outer[k]
      /\ outer[n] \in Layers
    <2>1. /\ Len(outer) = n /\ SubSeq(levels, 1, n - 1) = lv
          /\ SubSeq(outer, 1, n - 1) = ou
        BY <1>1, <1>3, Zenon
    <2>2. n \in 1 .. Len(levels) /\ n \in 1 .. Len(outer)
        BY <1>1, <2>1, Zenon
    <2>3. /\ lv \in Seq(Kinds) /\ Len(lv) = p /\ \A k \in 1 .. p : lv[k] = levels[k]
          /\ ou \in Seq(Layers) /\ \A k \in 1 .. p : ou[k] = outer[k]
        BY <1>1, <1>3, <2>1, <2>2, PopFacts, ZenonT(40)
    <2>4. outer[n] \in Layers
        BY <1>3, <2>2, SMTT(30), Z3T(30)
    <2> QED
        BY <2>3, <2>4, Zenon
<1>8. /\ f.val = e.prior /\ f.source = e.source /\ f.reset = g.reset
      /\ f.resetSource = g.resetSource /\ f.stack = rest
    BY Zenon
<1> HIDE DEF rest
<1>9. f \in Gucs(V, M)
    BY <1>4, <1>5, <1>6, Zenon DEF Gucs
<1> HIDE DEF len, e, alone, lv, ou, f, top
<1>10. Ended(g, f, n)
    BY <1>2, <1>6, <1>8, Zenon DEF Ended, Popped, len, e
<1>11. Scoped(f, lv, outer[n], ou)
    <2>1. n \in 1 .. Len(levels)
        BY <1>1, Zenon
    <2> QED
        BY <1>1, <1>10, <2>1, EndedScoped, Zenon DEF lv, ou
<1>12. lv[1] = "xact"
    BY <1>1, <1>7, <1>11, Zenon DEF Scoped, Nested
<1>13. Yields(layers, h.val, h.source, h) /\ Yields(outer[n], e.prior, e.source, g)
    <2>1. Yields(layers, g.val, g.source, g)
        BY Zenon DEF Scoped, Undone
    <2>2. Yields(outer[n], e.prior, e.source, g)
        BY <1>1, <1>2, ZenonT(40) DEF Scoped, Undone, len, e
    <2> QED
        BY <2>1, <2>2, Zenon DEF Yields, Lowered
<1>14. \A i \in 1 .. len - 1 : i \in 1 .. len /\ g.stack[i].level < n
    <2>1. \A i \in 1 .. len - 1 : i \in 1 .. len
        BY <1>4
    <2> QED
        BY <1>2, <2>1, Zenon DEF Oldest
<1>15. h.reset = f.reset /\ h.resetSource = f.resetSource /\ Len(h.stack) \in Nat
    BY <1>8, ZenonT(40) DEF Lowered
<1>16. Innermost(f, lv, outer[n], ou, p)
    <2>1. AtLevel(V, M, f, lv, outer[n], ou, p)
        BY <1>7, <1>9, <1>11, Zenon DEF AtLevel
    <2> QED
        BY <2>1, InnermostEntry, Zenon
<1>17. CASE alone
    <2>1. /\ Len(h.stack) = len /\ h.stack[len] = [e EXCEPT !.level = p]
          /\ \A i \in 1 .. len - 1 : h.stack[i] = g.stack[i]
        BY <1>17, Zenon DEF Lowered, alone, len, e
    <2>2. /\ top.level = p /\ top.prior = e.prior /\ top.source = e.source
          /\ top.state = e.state /\ top.masked = e.masked
        <3>1. top = [e EXCEPT !.level = p]
            BY <2>1, ZenonT(40) DEF top
        <3> HIDE DEF top
        <3> QED
            BY <1>5, <3>1, Zenon DEF StackEntries
    <2>3. \A i \in 1 .. len - 1 : g.stack[i].level < p
        <3> SUFFICES ASSUME NEW i \in 1 .. len - 1 PROVE g.stack[i].level < p
            BY Zenon
        <3>1. len # 1 /\ len - 1 \in 1 .. len /\ i \in 1 .. len /\ (i = len - 1 \/ i < len - 1)
            BY <1>4, SMTT(30), Z3T(30)
        <3>2. g.stack[len - 1].level < p
            BY <1>17, <3>1, Zenon DEF Alone, alone, len
        <3>3. i < len - 1 => g.stack[i].level < g.stack[len - 1].level
            BY <1>3, <3>1, ZenonT(40)
        <3>4. g.stack[i].level \in Nat /\ g.stack[len - 1].level \in Nat
            BY <1>3, <3>1, SMTT(30), Z3T(30)
        <3>5. \A a, b \in Nat : a < b /\ b < p => a < p
            BY SMTT(30), Z3T(30)
        <3> QED
            BY <3>1, <3>2, <3>3, <3>4, <3>5, Zenon
    <2>4. len # 0 /\ len = (len - 1) + 1
        BY <1>2, <1>4, SMTT(30), Z3T(30)
    <2>5. Placed(f, h, p)
        BY <1>6, <1>8, <1>15, <2>1, <2>2, <2>3, <2>4, ZenonT(40) DEF Placed, top
    <2>6. lv[p] = "xact" /\ outer[n] = ou[p]
        <3>1. ~HasEntry(f, p)
            <4>1. CASE len = 1
                BY <1>6, <1>8, <4>1 DEF HasEntry
            <4>2. CASE len # 1
                <5>1. len - 1 \in 1 .. len - 1
                    BY <1>4, <2>4, <4>2, SMTT(30), Z3T(30)
                <5> QED
                    BY <1>6, <1>8, <2>3, <5>1, Zenon DEF HasEntry
            <4> QED
                BY <4>1, <4>2, Zenon
        <3> QED
            BY <1>16, <3>1, Zenon DEF Innermost
    <2>7. Tells(top, lv[p], ou[p], layers)
        BY <1>2, <2>2, <2>6, TellsOuter, ZenonT(40) DEF e, len
    <2> QED
        BY <1>1, <1>3, <1>7, <1>9, <1>11, <1>12, <1>13, <1>15, <2>5, <2>7, PlacedScoped, Zenon DEF top, lv, ou
<1>18. CASE ~alone
    <2> DEFINE prev == g.stack[len - 1]
    <2>1. len # 1 /\ ~(prev.level < p)
        BY <1>18, Zenon DEF Alone, alone, len
    <2>2. /\ len - 1 \in 1 .. len - 1 /\ len - 1 \in 1 .. len /\ len - 1 # 0
          /\ (len - 1) - 1 = len - 2
          /\ \A i \in 1 .. len - 2 : i \in 1 .. len - 1
        BY <1>2, <1>4, <2>1, SMTT(30), Z3T(30)
    <2>3. /\ Len(h.stack) = len - 1 /\ top = MergeEntries(prev, e)
          /\ \A i \in 1 .. len - 2 : h.stack[i] = g.stack[i]
        BY <1>18, Zenon DEF Lowered, alone, len, e, top
    <2>4. prev \in StackEntries(V, M)
        BY <1>4, <2>2, Zenon
    <2>5. HasEntry(f, p) /\ f.stack[Len(f.stack)] = prev
        BY <1>6, <1>8, <2>1, <2>2, ZenonT(40) DEF HasEntry
    <2>6. prev.level = p /\ Tells(prev, lv[p], ou[p], outer[n])
        BY <1>16, <2>5, Zenon DEF Innermost
    <2> HIDE DEF prev
    <2>7. /\ top.level = p /\ top.prior = prev.prior /\ top.source = prev.source
          /\ Tells(top, lv[p], ou[p], layers)
        <3>1. e.state # "SAVE"
            BY Zenon DEF e, len
        <3>2. outer[n] \in Layers /\ layers \in Layers /\ Yields(outer[n], e.prior, e.source, g)
            BY <1>3, <1>7, <1>13, Zenon
        <3>3. Tells(e, levels[n], outer[n], layers) /\ e \in StackEntries(V, M)
            BY <1>2, <1>5, Zenon
        <3>4. /\ Tells(MergeEntries(prev, e), lv[p], ou[p], layers)
              /\ MergeEntries(prev, e).level = prev.level
              /\ MergeEntries(prev, e).prior = prev.prior
              /\ MergeEntries(prev, e).source = prev.source
            <4>1. Adjacent(V, M, prev, lv[p], ou[p], e, levels[n], outer[n], layers, g)
                BY <2>4, <2>6, <3>1, <3>2, <3>3, Zenon DEF Adjacent
            <4>2. Joined(MergeEntries(prev, e), prev, lv[p], ou[p], layers)
                BY <4>1, TellsMerged, Zenon
            <4> QED
                BY <4>2, Zenon DEF Joined
        <3> QED
            BY <2>3, <2>6, <3>4, Zenon
    <2>8. Placed(f, h, p)
        BY <1>6, <1>8, <1>15, <2>2, <2>3, <2>5, <2>6, <2>7, ZenonT(40) DEF Placed, top
    <2> QED
        BY <1>1, <1>3, <1>7, <1>9, <1>11, <1>12, <1>13, <1>15, <2>7, <2>8, PlacedScoped, Zenon DEF top, lv, ou
<1> QED
    BY <1>17, <1>18, Zenon

\* The layers when SET LOCAL is no longer in force.
LEMMA NoLocal ==
    ASSUME NEW l \in Layers
    PROVE  /\ [l EXCEPT !.local = Null] \in Layers
           /\ [l EXCEPT !.local = Null].set = l.set
           /\ [l EXCEPT !.local = Null].local = Null
           /\ [l EXCEPT !.local = Null].save = l.save
           /\ [l EXCEPT !.local = Null, !.set = "pinned"] \in Layers
           /\ [l EXCEPT !.local = Null, !.set = "pinned"].set = "pinned"
           /\ [l EXCEPT !.local = Null, !.set = "pinned"].local = Null
           /\ [l EXCEPT !.local = Null, !.set = "pinned"].save = l.save
BY Zenon DEF Layers

\* Layers with equal fields are equal.
LEMMA SameLayers ==
    ASSUME NEW l \in Layers, NEW o \in Layers,
           l.set = o.set, l.local = o.local, l.save = o.save
    PROVE  l = o
BY DEF Layers

\* The layers that a transaction that has SET nothing for good leaves.
LEMMA SameAsBefore ==
    ASSUME NEW l \in Layers, NEW o \in Layers, l.set = o.set, l.save = o.save, Bottom(o)
    PROVE  [l EXCEPT !.local = Null] = o
<1> DEFINE n == [l EXCEPT !.local = Null]
<1>1. n \in Layers /\ n.set = l.set /\ n.local = Null /\ n.save = l.save
    BY NoLocal, Zenon
<1> HIDE DEF n
<1>2. n.set = o.set /\ n.local = o.local /\ n.save = o.save
    BY <1>1, Zenon DEF Bottom
<1>3. n = o
    BY <1>1, <1>2, SameLayers, Zenon
<1> QED
    BY <1>3, Zenon DEF n

\* COMMIT of a level in which nothing was SET.
LEMMA CommitNothing ==
    ASSUME NEW V, NEW M \in Nat, NEW g \in Gucs(V, M), NEW n \in 1 .. M, ~HasEntry(g, n)
    PROVE  CommitGUC(g, n) = g
<1>1. Len(g.stack) \in Nat /\ g.stack \in Seq(StackEntries(V, M))
    BY GucFields, Zenon
<1>2. g.stack = <<>> \/ Last(g.stack).level < n
    BY <1>1, EmptyFacts, Zenon DEF HasEntry, Last
<1> QED
    BY <1>2, Zenon DEF CommitGUC

\* What AtEOXact_GUC makes of the entry of a level that ends well.
Committed(g, h, n) ==
    LET e == g.stack[Len(g.stack)] IN
    /\ h.reset = g.reset /\ h.resetSource = g.resetSource
    /\ e.state = "SAVE" \/ (n = 1 /\ e.state = "LOCAL") =>
        Popped(g, h, Len(g.stack)) /\ h.val = e.prior /\ h.source = e.source
    /\ n = 1 /\ e.state = "SET" =>
        Popped(g, h, Len(g.stack)) /\ h.val = g.val /\ h.source = g.source
    /\ n = 1 /\ e.state = "SET_LOCAL" =>
        Popped(g, h, Len(g.stack)) /\ h.val = e.masked /\ h.source = SESSION
    /\ n # 1 /\ e.state # "SAVE" => Lowered(g, h, n - 1)

\* COMMIT of a level in which something was SET.
LEMMA CommitOutcome ==
    ASSUME NEW V, NEW M \in Nat, NEW g \in Gucs(V, M), NEW n \in 1 .. M,
           HasEntry(g, n), g.stack[Len(g.stack)].state = "SET_LOCAL" =>
                                g.stack[Len(g.stack)].masked # Null
    PROVE  Committed(g, CommitGUC(g, n), n)
<1> DEFINE h == CommitGUC(g, n)
           len == Len(g.stack)
           e == g.stack[len]
           alone == len = 1 \/ g.stack[len - 1].level < n - 1
<1>1. /\ h \in Gucs(V, M) /\ h.reset = g.reset /\ h.resetSource = g.resetSource
      /\ e.state = "SAVE" \/ (n = 1 /\ e.state = "LOCAL") =>
            Popped(g, h, len) /\ h.val = e.prior /\ h.source = e.source
      /\ n = 1 /\ e.state = "SET" =>
            Popped(g, h, len) /\ h.val = g.val /\ h.source = g.source
      /\ n = 1 /\ e.state = "SET_LOCAL" =>
            Popped(g, h, len) /\ h.val = e.masked /\ h.source = SESSION
      /\ n # 1 /\ e.state # "SAVE" => h.val = g.val /\ h.source = g.source
      /\ n # 1 /\ e.state # "SAVE" /\ alone =>
            /\ Len(h.stack) = len
            /\ \A i \in 1 .. len - 1 : h.stack[i] = g.stack[i]
            /\ h.stack[len] = [e EXCEPT !.level = n - 1]
      /\ n # 1 /\ e.state # "SAVE" /\ ~alone =>
            /\ Len(h.stack) = len - 1
            /\ \A i \in 1 .. len - 2 : h.stack[i] = g.stack[i]
            /\ h.stack[len - 1] = MergeEntries(g.stack[len - 1], e)
    BY CommitFacts, SMTT(30), Z3T(30)
<1> HIDE DEF h
<1>2. Len(h.stack) \in Nat
    BY <1>1, GucFields, Zenon
<1>3. n # 1 /\ e.state # "SAVE" => Lowered(g, h, n - 1)
    BY <1>1, <1>2, Zenon DEF Lowered, Alone
<1> HIDE DEF len, e, alone
<1>4. Committed(g, h, n)
    BY <1>1, <1>3, Zenon DEF Committed, e, len
<1> QED
    BY <1>4, Zenon DEF h

\* COMMIT, RELEASE and the return of a function.
LEMMA CommitScoped ==
    ASSUME NEW V, NEW M \in Nat, NEW g \in Gucs(V, M), NEW levels, NEW layers, NEW outer,
           Scoped(g, levels, layers, outer), NEW n \in 1 .. M, n = Len(levels), Null \notin V
    PROVE  Scoped(CommitGUC(g, n), SubSeq(levels, 1, n - 1),
                  AfterCommit(g, levels[n], layers, outer[n], n), SubSeq(outer, 1, n - 1))
<1> DEFINE h == CommitGUC(g, n)
           len == Len(g.stack)
           e == g.stack[len]
           after == AfterCommit(g, levels[n], layers, outer[n], n)
<1>1. n \in Nat /\ n # 0 /\ n \in 1 .. n
    BY SMTT(30), Z3T(30)
<1>2. /\ HasEntry(g, n) =>
            len \in 1 .. len /\ Oldest(g, len, n) /\ Tells(e, levels[n], outer[n], layers)
      /\ ~HasEntry(g, n) =>
            /\ \A i \in 1 .. len : g.stack[i].level < n
            /\ levels[n] = "xact" /\ layers = outer[n]
    <2>1. AtLevel(V, M, g, levels, layers, outer, n)
        BY <1>1, Zenon DEF AtLevel
    <2>2. Innermost(g, levels, layers, outer, n)
        BY <2>1, InnermostEntry, Zenon
    <2> QED
        BY <2>2, Zenon DEF Innermost
<1>3. /\ levels \in Seq(Kinds) /\ outer \in Seq(Layers) /\ Len(outer) = n /\ layers \in Layers
      /\ levels[1] = "xact" /\ Bottom(outer[1])
    BY <1>1, Zenon DEF Scoped, Nested
<1>4. outer[n] \in Layers /\ n \in 1 .. Len(levels)
    BY <1>1, <1>3
<1>5. len \in Nat /\ g.stack \in Seq(StackEntries(V, M))
    BY GucFields, Zenon
<1>6. g.stack # <<>> <=> len # 0
    BY <1>5, EmptyFacts, Zenon
<1>7. Last(g.stack) = e
    BY DEF Last
<1> HIDE DEF h, len, e, after
<1>8. CASE ~HasEntry(g, n)
    <2>1. h = g
        BY <1>8, CommitNothing, Zenon DEF h
    <2>2. Ended(g, h, n)
        BY <1>2, <1>8, <2>1, Zenon DEF Ended, len
    <2>3. after = outer[n]
        <3>1. CASE n = 1
            <4>1. len = 0
                <5>1. \A i \in 1 .. len : FALSE
                    BY <1>2, <1>8, <3>1, ScopedFields, SMTT(30), Z3T(30) DEF len
                <5> QED
                    BY <1>5, <5>1, SMTT(30), Z3T(30)
            <4>2. after = [layers EXCEPT !.local = Null]
                BY <1>2, <1>6, <1>8, <3>1, <4>1, SMTT(30), Z3T(30) DEF after, AfterCommit
            <4> QED
                BY <1>2, <1>3, <1>4, <1>8, <3>1, <4>2, SameAsBefore, Zenon
        <3>2. CASE n # 1
            BY <1>2, <1>8, <3>2, SMTT(30), Z3T(30) DEF after, AfterCommit
        <3> QED
            BY <3>1, <3>2, Zenon
    <2> QED
        BY <1>4, <2>2, <2>3, EndedScoped, Zenon DEF h, after
<1>9. CASE HasEntry(g, n)
    <2>1. /\ len \in 1 .. len /\ Oldest(g, len, n) /\ Tells(e, levels[n], outer[n], layers)
          /\ len # 0
        <3>1. len \in 1 .. len => len # 0
            BY <1>5
        <3> QED
            BY <1>2, <1>9, <3>1, Zenon
    <2>2. Committed(g, h, n)
        <3>1. e.state = "SET_LOCAL" => e.masked # Null
            BY <2>1, Zenon DEF Tells
        <3> QED
            BY <1>9, <3>1, CommitOutcome, Zenon DEF h, e, len
    <2>3. e.state \in {"SAVE", "SET", "LOCAL", "SET_LOCAL"}
        BY <2>1, GucFields, Zenon DEF e, len
    <2>4. CASE e.state = "SAVE" \/ (n = 1 /\ e.state = "LOCAL")
        <3>1. Ended(g, h, n)
            BY <2>1, <2>2, <2>4, Zenon DEF Ended, Committed, e, len
        <3>2. ASSUME e.state = "SAVE" PROVE after = outer[n]
            BY <2>1, <3>2, Zenon DEF Tells, after, AfterCommit
        <3>3. ASSUME n = 1, e.state = "LOCAL" PROVE after = outer[n]
            <4>1. after = [layers EXCEPT !.local = Null]
                BY <1>3, <1>7, <3>3 DEF after, AfterCommit
            <4>2. layers.set = outer[n].set /\ layers.save = outer[n].save
                BY <2>1, <3>3, Zenon DEF Tells
            <4> QED
                BY <1>3, <1>4, <3>3, <4>1, <4>2, SameAsBefore, Zenon
        <3>4. after = outer[n]
            BY <2>4, <3>2, <3>3, Zenon
        <3> QED
            BY <1>4, <3>1, <3>4, EndedScoped, Zenon DEF h, after
    <2>5. CASE n = 1 /\ e.state \in {"SET", "SET_LOCAL"}
        <3>1. len = 1
            <4>1. \A i \in 1 .. len - 1 : FALSE
                BY <1>5, <2>1, <2>5, ScopedFields, SMTT(30), Z3T(30) DEF len, Oldest
            <4> QED
                BY <1>5, <2>1, <4>1, SMTT(30), Z3T(30)
        <3>2. Len(h.stack) = 0 /\ h.reset = g.reset /\ h.resetSource = g.resetSource
            BY <2>2, <2>5, <3>1, SMTT(30), Z3T(30) DEF Committed, Popped, e, len
        <3>3. SubSeq(levels, 1, n - 1) = <<>> /\ SubSeq(outer, 1, n - 1) = <<>>
            BY <1>3, <2>5, SMTT(30), Z3T(30)
        <3>4. ~layers.save /\ levels[n] # "func"
            BY <1>3, <2>1, <2>5, SMTT(30), Z3T(30) DEF Tells
        <3>5. after \in Layers /\ Bottom(after) /\ Yields(after, h.val, h.source, h)
            <4>1. CASE e.state = "SET"
                <5>1. after = [layers EXCEPT !.local = Null]
                    BY <1>7, <2>5, <3>4, <4>1, SMTT(30), Z3T(30) DEF after, AfterCommit
                <5>2. layers.local = Null
                    BY <2>1, <4>1, Zenon DEF Tells
                <5>3. after.local = layers.local /\ after.set = layers.set /\ after.save = layers.save
                      /\ after \in Layers
                    BY <1>3, <5>1, <5>2, NoLocal, Zenon
                <5>4. after = layers
                    BY <1>3, <5>3, SameLayers, Zenon
                <5>5. Yields(layers, g.val, g.source, g)
                    BY Zenon DEF Scoped, Undone
                <5>6. h.val = g.val /\ h.source = g.source
                    BY <2>2, <2>5, <4>1, Zenon DEF Committed, e, len
                <5> QED
                    BY <3>2, <3>4, <5>2, <5>3, <5>4, <5>5, <5>6, Zenon DEF Bottom, Yields
            <4>2. CASE e.state = "SET_LOCAL"
                <5>1. h.val = e.masked /\ h.source = SESSION
                    BY <2>2, <2>5, <4>2, Zenon DEF Committed, e, len
                <5>2. layers.set \notin {Null, "pinned"} => e.masked = layers.set
                    BY <2>1, <4>2, Zenon DEF Tells
                <5>3. CASE layers.set = Null
                    <6>1. after = [layers EXCEPT !.local = Null, !.set = "pinned"]
                        BY <1>6, <1>7, <2>1, <2>5, <3>4, <4>2, <5>3, SMTT(30), Z3T(30) DEF after, AfterCommit
                    <6>2. /\ after.local = Null /\ after.set = "pinned"
                          /\ after.save = layers.save /\ after \in Layers
                        BY <1>3, <6>1, NoLocal, Zenon
                    <6> QED
                        BY <3>4, <6>2, Zenon DEF Bottom, Yields, Top
                <5>4. CASE layers.set # Null
                    <6>1. after = [layers EXCEPT !.local = Null]
                        BY <2>5, <3>4, <5>4 DEF after, AfterCommit
                    <6>2. /\ after.local = Null /\ after.set = layers.set
                          /\ after.save = layers.save /\ after \in Layers
                        BY <1>3, <6>1, NoLocal, Zenon
                    <6>3. layers.set \notin {Null, "default"}
                        BY <1>3, <5>4, SetValueFacts, Zenon DEF Layers
                    <6> QED
                        BY <3>4, <5>1, <5>2, <6>2, <6>3, Zenon DEF Bottom, Yields, Top
                <5> QED
                    BY <5>3, <5>4
            <4> QED
                BY <2>5, <4>1, <4>2
        <3> QED
            BY <3>2, <3>3, <3>5, EmptyScoped, Zenon DEF h, after
    <2>6. CASE n # 1 /\ e.state # "SAVE"
        <3> DEFINE p == n - 1
        <3>1. p \in Nat /\ p # 0 /\ n = p + 1
            BY <1>1, <2>6
        <3>2. Lowered(g, h, p)
            BY <2>2, <2>6, Zenon DEF Committed, e, len
        <3>3. after = layers
            BY <2>1, <2>3, <2>6, SMTT(30), Z3T(30) DEF after, AfterCommit, Tells
        <3> HIDE DEF p
        <3>4. Scoped(h, SubSeq(levels, 1, p), layers, SubSeq(outer, 1, p))
            BY <1>1, <2>1, <2>6, <3>1, <3>2, CommitInner, Zenon DEF e, len
        <3> QED
            BY <3>3, <3>4, Zenon DEF p, h, after
    <2> QED
        BY <2>3, <2>4, <2>5, <2>6, SMTT(30), Z3T(30)
<1> QED
    BY <1>8, <1>9

-----------------------------------------------------------------------------
\* The invariant.

Sess ==
    [policy : Policies \cup {"none"}, guc : Gucs(Values(PE), MaxLevel), levels : Seq(Kinds),
     pending : BOOLEAN, layers : Layers, outer : Seq(Layers)]

\* A session is scoped and has its policy imposed on it; there is nothing to an
\* unused one.
SessionInv(r) ==
    /\ r \in Sess
    /\ Scoped(r.guc, r.levels, r.layers, r.outer)
    /\ IF r.policy = "none" THEN r = NoSession ELSE Imposed(r.policy, r.guc, PE)

\* The postmaster has no transaction: its values are the defaults.
ServerInv(p, g, x) ==
    /\ g \in Gucs(Values(x), MaxLevel) /\ Len(g.stack) = 0
    /\ g.val = g.reset /\ g.source = g.resetSource /\ Imposed(p, g, x)

PolicyInv ==
    /\ file \in Files /\ edits \in 0 .. MaxEdits /\ pmPolicy \in Policies
    /\ DOMAIN pm = Params /\ \A x \in Params : ServerInv(pmPolicy, pm[x], x)
    /\ sess \in [Sessions -> Sess] /\ \A s \in Sessions : SessionInv(sess[s])

\* One session changes.
OneSession(s, r) == s \in Sessions /\ SessionInv(r) /\ sess' = [sess EXCEPT ![s] = r]

\* A step of one session, of which the others take no notice.
LEMMA OneSessionInv ==
    ASSUME PolicyInv, NEW s, NEW r, OneSession(s, r), UNCHANGED <<fileVars, pmVars>>
    PROVE  PolicyInv'
<1>1. sess' \in [Sessions -> Sess] /\ \A t \in Sessions : SessionInv(sess'[t])
    BY DEF OneSession, SessionInv, PolicyInv
<1>2. SessionInv(r)
    BY DEF OneSession
<1> QED
    BY <1>1, Zenon DEF PolicyInv, fileVars, pmVars

\* A session in use after a command.
LEMMA CommandInv ==
    ASSUME NEW r \in Sess, NEW levels, NEW outer, NEW g \in Gucs(Values(PE), MaxLevel), NEW layers,
           Scoped(g, levels, layers, outer), r.policy # "none", Imposed(r.policy, g, PE)
    PROVE  /\ SessionInv([r EXCEPT !.levels = levels, !.outer = outer, !.guc = g, !.layers = layers])
           /\ levels = r.levels /\ outer = r.outer =>
                SessionInv([r EXCEPT !.guc = g, !.layers = layers])
           /\ g = r.guc /\ layers = r.layers =>
                SessionInv([r EXCEPT !.levels = levels, !.outer = outer])
<1>1. levels \in Seq(Kinds) /\ outer \in Seq(Layers) /\ layers \in Layers
    BY ScopedFields, Zenon
<1> DEFINE a == [r EXCEPT !.levels = levels, !.outer = outer, !.guc = g, !.layers = layers]
           b == [r EXCEPT !.guc = g, !.layers = layers]
           c == [r EXCEPT !.levels = levels, !.outer = outer]
<1>2. /\ a \in Sess /\ a.levels = levels /\ a.outer = outer /\ a.guc = g /\ a.layers = layers
      /\ a.policy = r.policy
    BY <1>1, Zenon DEF Sess
<1>3. /\ b \in Sess /\ b.levels = r.levels /\ b.outer = r.outer /\ b.guc = g /\ b.layers = layers
      /\ b.policy = r.policy
    BY <1>1, Zenon DEF Sess
<1>4. /\ c \in Sess /\ c.levels = levels /\ c.outer = outer /\ c.guc = r.guc /\ c.layers = r.layers
      /\ c.policy = r.policy
    BY <1>1, Zenon DEF Sess
<1> HIDE DEF a, b, c
<1>5. SessionInv(a)
    BY <1>2, Zenon DEF SessionInv
<1>6. levels = r.levels /\ outer = r.outer => SessionInv(b)
    BY <1>3, Zenon DEF SessionInv
<1>7. g = r.guc /\ layers = r.layers => SessionInv(c)
    BY <1>4, Zenon DEF SessionInv
<1> QED
    BY <1>5, <1>6, <1>7, Zenon DEF a, b, c

\* The fields of a session.
LEMMA SessFields ==
    ASSUME NEW r \in Sess
    PROVE  /\ r.policy \in Policies \cup {"none"} /\ r.guc \in Gucs(Values(PE), MaxLevel)
           /\ r.levels \in Seq(Kinds) /\ Len(r.levels) \in Nat /\ r.pending \in BOOLEAN
           /\ r.layers \in Layers /\ r.outer \in Seq(Layers)
BY SMTT(30), Z3T(30) DEF Sess

\* No level is open in an unused session.
LEMMA UnusedFields ==
    /\ NoSession.policy = "none" /\ NoSession.levels = <<>> /\ Len(NoSession.levels) = 0
    /\ NoSession.pending = FALSE /\ NoSession.layers = NoLayers /\ NoSession.outer = <<>>
    /\ NoSession.guc = InitializeOneGUCOption(BootVal[PE])
BY DEF NoSession

\* The values Set and the like deal with.
LEMMA SessionValues ==
    /\ MaxLevel \in Nat /\ PE \in Params /\ BootVal[PE] \in Values(PE)
    /\ SetValues \subseteq Values(PE) /\ Null \notin Values(PE)
    /\ "none" \notin Policies /\ "custom" \in Policies
BY ValuesFacts, PolicyAssumption DEF Policies

\* BEGIN or SAVEPOINT.
LEMMA BeginInv ==
    ASSUME NEW r, SessionInv(r), r.policy # "none", Len(r.levels) < MaxLevel
    PROVE  SessionInv([r EXCEPT !.levels = Append(r.levels, "xact"),
                                !.outer = Append(r.outer, r.layers)])
<1>1. r \in Sess /\ Scoped(r.guc, r.levels, r.layers, r.outer) /\ Imposed(r.policy, r.guc, PE)
    BY Zenon DEF SessionInv
<1>2. r.guc \in Gucs(Values(PE), MaxLevel) /\ MaxLevel \in Nat
    BY <1>1, SessFields, SessionValues, Zenon
<1>3. Scoped(r.guc, Append(r.levels, "xact"), r.layers, Append(r.outer, r.layers))
    BY <1>1, <1>2, BeginScoped, Zenon
<1> QED
    BY <1>1, <1>2, <1>3, CommandInv, Zenon

\* A function with a SET option is entered.
LEMMA EnterInv ==
    ASSUME NEW r, SessionInv(r), Len(r.levels) \in 1 .. MaxLevel - 1, NEW v \in SetValues
    PROVE  SessionInv([r EXCEPT !.levels = Append(r.levels, "func"),
                                !.outer = Append(r.outer, r.layers),
                                !.guc = SetInteractive(r.guc, v, "SAVE", Len(r.levels) + 1),
                                !.layers = [r.layers EXCEPT !.local = v, !.save = TRUE]])
<1> DEFINE n == Len(r.levels) + 1
           h == SetInteractive(r.guc, v, "SAVE", n)
<1>1. r.policy # "none"
    BY UnusedFields DEF SessionInv
<1>2. r \in Sess /\ Scoped(r.guc, r.levels, r.layers, r.outer) /\ Imposed(r.policy, r.guc, PE)
    BY <1>1, Zenon DEF SessionInv
<1>3. r.guc \in Gucs(Values(PE), MaxLevel) /\ MaxLevel \in Nat
    BY <1>2, SessFields, SessionValues, Zenon
<1>4. n \in 2 .. MaxLevel /\ n \in 1 .. MaxLevel /\ n <= MaxLevel
    BY <1>3, SMTT(30), Z3T(30)
<1>5. /\ v \in Values(PE) \cup {Null} /\ Null \notin Values(PE) /\ SetValues \subseteq Values(PE)
      /\ "SAVE" \in {"SAVE", "SET", "LOCAL"}
    BY SessionValues
<1>6. n = Len(r.levels) + 1
    OBVIOUS
<1> HIDE DEF n
<1>7. Scoped(h, Append(r.levels, "func"), [r.layers EXCEPT !.local = v, !.save = TRUE],
             Append(r.outer, r.layers))
    BY <1>2, <1>3, <1>4, <1>5, <1>6, EnterScoped, Zenon
<1>8. h \in Gucs(Values(PE), MaxLevel)
    BY <1>3, <1>4, <1>5, SetInteractiveFacts, Zenon
<1>9. Restores(r.guc, h)
    BY <1>3, <1>4, <1>5, SetRestores, Zenon
<1> HIDE DEF h
<1>10. Imposed(r.policy, h, PE)
    BY <1>2, <1>9, ImposedRestores, Zenon
<1> QED
    BY <1>1, <1>2, <1>7, <1>8, <1>10, CommandInv, Zenon DEF h, n

\* SET, RESET, SET LOCAL and SET LOCAL TO DEFAULT.
LEMMA SetInv ==
    ASSUME NEW r, SessionInv(r), Len(r.levels) > 0, NEW v \in SetValues \cup {Null},
           NEW action \in {"SET", "LOCAL"}
    PROVE  SessionInv([r EXCEPT !.guc = SetInteractive(r.guc, v, action, Len(r.levels)),
                                !.layers = AfterSet(r.layers, v, action)])
<1> DEFINE n == Len(r.levels)
           h == SetInteractive(r.guc, v, action, n)
           layers == AfterSet(r.layers, v, action)
<1>1. r.policy # "none"
    BY UnusedFields DEF SessionInv
<1>2. r \in Sess /\ Scoped(r.guc, r.levels, r.layers, r.outer) /\ Imposed(r.policy, r.guc, PE)
    BY <1>1, Zenon DEF SessionInv
<1>3. r.guc \in Gucs(Values(PE), MaxLevel) /\ MaxLevel \in Nat
    BY <1>2, SessFields, SessionValues, Zenon
<1>4. n \in 1 .. MaxLevel
    <2>1. n \in Nat /\ n <= MaxLevel
        BY <1>2, ScopedFields, Zenon
    <2> QED
        BY <1>3, <2>1
<1>5. /\ v \in Values(PE) \cup {Null} /\ Null \notin Values(PE) /\ SetValues \subseteq Values(PE)
      /\ action \in {"SAVE", "SET", "LOCAL"}
    BY SessionValues, Zenon
<1>6. n = Len(r.levels)
    OBVIOUS
<1> HIDE DEF n
<1>7. Scoped(h, r.levels, layers, r.outer)
    BY <1>2, <1>3, <1>4, <1>5, <1>6, SetScoped, Zenon
<1>8. h \in Gucs(Values(PE), MaxLevel)
    BY <1>3, <1>4, <1>5, SetInteractiveFacts, ZenonT(40)
<1>9. Restores(r.guc, h)
    BY <1>3, <1>4, <1>5, SetRestores, Zenon
<1> HIDE DEF h, layers
<1>10. Imposed(r.policy, h, PE)
    BY <1>2, <1>9, ImposedRestores, Zenon
<1>11. SessionInv([r EXCEPT !.guc = h, !.layers = layers])
    BY <1>1, <1>2, <1>7, <1>8, <1>10, CommandInv, Zenon
<1> QED
    BY <1>11, Zenon DEF h, n, layers

\* COMMIT, RELEASE and the return of a function.
LEMMA CommitInv ==
    ASSUME NEW r, SessionInv(r), NEW n, n = Len(r.levels), n > 0
    PROVE  SessionInv([r EXCEPT !.levels = Front(r.levels), !.outer = Front(r.outer),
                                !.guc = CommitGUC(r.guc, n),
                                !.layers = AfterCommit(r.guc, r.levels[n], r.layers, r.outer[n], n)])
<1> DEFINE h == CommitGUC(r.guc, n)
           layers == AfterCommit(r.guc, r.levels[n], r.layers, r.outer[n], n)
<1>1. r.policy # "none"
    BY UnusedFields DEF SessionInv
<1>2. r \in Sess /\ Scoped(r.guc, r.levels, r.layers, r.outer) /\ Imposed(r.policy, r.guc, PE)
    BY <1>1, Zenon DEF SessionInv
<1>3. /\ r.guc \in Gucs(Values(PE), MaxLevel) /\ MaxLevel \in Nat /\ Null \notin Values(PE)
    BY <1>2, SessFields, SessionValues, Zenon
<1>4. n \in Nat /\ n # 0 /\ n \in 1 .. MaxLevel
    <2>1. Len(r.levels) \in Nat /\ Len(r.levels) <= MaxLevel
        BY <1>2, ScopedFields, Zenon
    <2> QED
        BY <1>3, <2>1
<1>5. Front(r.levels) = SubSeq(r.levels, 1, n - 1) /\ Front(r.outer) = SubSeq(r.outer, 1, n - 1)
    <2>1. Len(r.outer) = n
        BY <1>2, ScopedFields, Zenon
    <2> QED
        BY <2>1, Zenon DEF Front
<1>6. Scoped(h, Front(r.levels), layers, Front(r.outer))
    <2>1. Scoped(h, SubSeq(r.levels, 1, n - 1), layers, SubSeq(r.outer, 1, n - 1))
        BY <1>2, <1>3, <1>4, CommitScoped, Zenon
    <2> QED
        BY <1>5, <2>1, Zenon
<1>7. h \in Gucs(Values(PE), MaxLevel) /\ Restores(r.guc, h)
    <2>1. HasEntry(r.guc, n) /\ r.guc.stack[Len(r.guc.stack)].state = "SET_LOCAL" =>
            r.guc.stack[Len(r.guc.stack)].masked # Null
        <3>1. HasEntry(r.guc, n) =>
                Tells(r.guc.stack[Len(r.guc.stack)], r.levels[n], r.outer[n], r.layers)
            <4>1. AtLevel(Values(PE), MaxLevel, r.guc, r.levels, r.layers, r.outer, n)
                BY <1>2, <1>3, <1>4, Zenon DEF AtLevel
            <4> QED
                BY <4>1, InnermostEntry, Zenon DEF Innermost
        <3> QED
            BY <3>1, Zenon DEF Tells
    <2> QED
        BY <1>3, <1>4, <2>1, CommitRestores, Zenon
<1> HIDE DEF h, layers
<1>8. Imposed(r.policy, h, PE)
    BY <1>2, <1>7, ImposedRestores, Zenon
<1> QED
    BY <1>1, <1>2, <1>6, <1>7, <1>8, CommandInv, ZenonT(40) DEF h, layers

\* ROLLBACK, ROLLBACK TO or an error.
LEMMA AbortInv ==
    ASSUME HasLeast, NEW r, SessionInv(r), NEW n \in 1 .. Len(r.levels)
    PROVE  SessionInv([r EXCEPT !.levels = SubSeq(r.levels, 1, n - 1),
                                !.outer = SubSeq(r.outer, 1, n - 1),
                                !.guc = AbortGUC(r.guc, n), !.layers = r.outer[n]])
<1> DEFINE h == AbortGUC(r.guc, n)
<1>1. r.policy # "none"
    <2>1. r = NoSession => 1 .. Len(r.levels) = {}
        BY UnusedFields
    <2> QED
        BY <2>1, Zenon DEF SessionInv
<1>2. r \in Sess /\ Scoped(r.guc, r.levels, r.layers, r.outer) /\ Imposed(r.policy, r.guc, PE)
    BY <1>1, Zenon DEF SessionInv
<1>3. /\ r.guc \in Gucs(Values(PE), MaxLevel) /\ MaxLevel \in Nat
    BY <1>2, SessFields, SessionValues, Zenon
<1>4. n \in 1 .. MaxLevel
    <2>1. Len(r.levels) \in Nat /\ Len(r.levels) <= MaxLevel
        BY <1>2, ScopedFields, Zenon
    <2> QED
        BY <1>3, <2>1
<1>5. Scoped(h, SubSeq(r.levels, 1, n - 1), r.outer[n], SubSeq(r.outer, 1, n - 1))
    BY <1>2, <1>3, <1>4, AbortScoped, Zenon
<1>6. h \in Gucs(Values(PE), MaxLevel) /\ Restores(r.guc, h)
    BY <1>3, <1>4, AbortRestores, Zenon
<1> HIDE DEF h
<1>7. Imposed(r.policy, h, PE)
    BY <1>2, <1>6, ImposedRestores, Zenon
<1> QED
    BY <1>1, <1>2, <1>5, <1>6, <1>7, CommandInv, Zenon DEF h

\* The policy after a file is loaded.
LEMMA LoadedPolicyType ==
    ASSUME NEW p \in Policies, NEW f \in Files
    PROVE  LoadedPolicy(p, f) \in Policies
<1>1. f.policy \in FilePolicies \cup {Null}
    BY DEF Files
<1>2. "custom" \in Policies /\ FilePolicies \subseteq Policies \cup {Invalid}
    BY SessionValues, PolicyAssumption, Zenon
<1> QED
    BY <1>1, <1>2, Zenon DEF LoadedPolicy

\* A session reloads the file.
LEMMA ReloadInv ==
    ASSUME NEW r, SessionInv(r), r.pending, NEW f \in Files
    PROVE  SessionInv([r EXCEPT !.pending = FALSE, !.policy = LoadedPolicy(r.policy, f),
                                !.guc = LoadSetting(r.guc, f, PE)])
<1> DEFINE h == LoadSetting(r.guc, f, PE)
           p == LoadedPolicy(r.policy, f)
           r2 == [r EXCEPT !.pending = FALSE, !.policy = p, !.guc = h]
<1>1. r.policy # "none"
    BY UnusedFields DEF SessionInv
<1>2. r \in Sess /\ Scoped(r.guc, r.levels, r.layers, r.outer) /\ Imposed(r.policy, r.guc, PE)
    BY <1>1, Zenon DEF SessionInv
<1>3. /\ r.guc \in Gucs(Values(PE), MaxLevel) /\ MaxLevel \in Nat /\ PE \in Params
      /\ r.policy \in Policies
    <2>1. r.policy \in Policies \cup {"none"}
        BY <1>2, SessFields, Zenon
    <2>2. r.guc \in Gucs(Values(PE), MaxLevel) /\ MaxLevel \in Nat /\ PE \in Params
        BY <1>2, SessFields, SessionValues, Zenon
    <2> QED
        BY <1>1, <2>1, <2>2, Zenon
<1>4. p \in Policies /\ p # "none"
    BY <1>3, LoadedPolicyType, SessionValues, Zenon
<1>5. h \in Gucs(Values(PE), MaxLevel) /\ Tracks(r.guc, h)
    BY <1>3, LoadSettingTracks, Zenon
<1>6. Imposed(p, h, PE)
    BY <1>2, <1>3, LoadSettingImposes, Zenon
<1> HIDE DEF h, p
<1>7. Scoped(h, r.levels, r.layers, r.outer)
    BY <1>2, <1>5, TracksScoped, Zenon
<1>8. /\ r2 \in Sess /\ r2.policy = p /\ r2.guc = h /\ r2.levels = r.levels
      /\ r2.layers = r.layers /\ r2.outer = r.outer
    BY <1>2, <1>4, <1>5, Zenon DEF Sess
<1> HIDE DEF r2
<1>9. SessionInv(r2)
    BY <1>4, <1>6, <1>7, <1>8, Zenon DEF SessionInv
<1> QED
    BY <1>9, Zenon DEF r2, p, h

\* A variable that has its default, nothing being SET: a session that begins.
LEMMA FreshScoped ==
    ASSUME NEW g, Len(g.stack) = 0, g.val = g.reset, g.source = g.resetSource
    PROVE  Scoped(g, <<>>, NoLayers, <<>>) /\ NoLayers \in Layers
<1>1. NoLayers \in Layers /\ NoLayers.set = Null /\ NoLayers.local = Null /\ ~NoLayers.save
    BY DEF NoLayers, Layers
<1>2. Bottom(NoLayers) /\ Top(NoLayers) = Null
    BY <1>1, Zenon DEF Bottom, Top
<1>3. Yields(NoLayers, g.val, g.source, g)
    BY <1>2, Zenon DEF Yields
<1> QED
    BY <1>1, <1>2, <1>3, EmptyScoped, Zenon

\* A variable as the program starts.
LEMMA BootFacts ==
    ASSUME NEW V, NEW M \in Nat, NEW b \in V
    PROVE  LET g == InitializeOneGUCOption(b) IN
           /\ g \in Gucs(V, M) /\ Len(g.stack) = 0
           /\ g.val = g.reset /\ g.source = g.resetSource
BY DEF InitializeOneGUCOption, Gucs, GucSources, DEFAULT, SESSION, OVERRIDE

\* An unused session.
LEMMA UnusedInv == SessionInv(NoSession)
<1> DEFINE g == InitializeOneGUCOption(BootVal[PE])
<1>1. /\ g \in Gucs(Values(PE), MaxLevel) /\ Len(g.stack) = 0
      /\ g.val = g.reset /\ g.source = g.resetSource
    BY SessionValues, BootFacts, Zenon
<1> HIDE DEF g
<1>2. Scoped(g, <<>>, NoLayers, <<>>) /\ NoLayers \in Layers
    BY <1>1, FreshScoped, ZenonT(40)
<1>3. NoSession \in Sess
    <2>1. /\ "none" \in Policies \cup {"none"} /\ FALSE \in BOOLEAN
          /\ <<>> \in Seq(Kinds) /\ <<>> \in Seq(Layers)
        OBVIOUS
    <2> QED
        BY <1>1, <1>2, <2>1, ZenonT(40) DEF NoSession, Sess, g
<1> QED
    BY <1>2, <1>3, UnusedFields, Zenon DEF SessionInv, g

\* A session begins with the postmaster's settings and those of its role.
LEMMA ConnectInv ==
    ASSUME NEW p \in Policies, NEW g, ServerInv(p, g, PE), NEW role \in SetValues \cup {Null}
    PROVE  SessionInv([NoSession EXCEPT !.policy = p,
                            !.guc = IF role = Null THEN g ELSE SetDefault(g, role, USER)])
<1> DEFINE h == IF role = Null THEN g ELSE SetDefault(g, role, USER)
           r == [NoSession EXCEPT !.policy = p, !.guc = h]
<1>1. /\ g \in Gucs(Values(PE), MaxLevel) /\ Len(g.stack) = 0
      /\ g.val = g.reset /\ g.source = g.resetSource /\ Imposed(p, g, PE) /\ MaxLevel \in Nat
    BY SessionValues, Zenon DEF ServerInv
<1>2. USER \in DEFAULT .. OVERRIDE /\ USER \in DEFAULT .. USER
    BY SMTT(30), Z3T(30) DEF USER, DEFAULT, OVERRIDE
<1>3. h \in Gucs(Values(PE), MaxLevel) /\ Tracks(g, h) /\ Imposed(p, h, PE)
    <2>1. CASE role = Null
        BY <1>1, <2>1, TracksReflexive, Zenon
    <2>2. CASE role # Null
        <3>1. role \in Values(PE)
            BY <2>2, SessionValues, Zenon
        <3>2. h = SetDefault(g, role, USER)
            BY <2>2, Zenon
        <3>3. SetDefault(g, role, USER) \in Gucs(Values(PE), MaxLevel)
            BY <1>1, <1>2, <3>1, SetDefaultFacts, Zenon
        <3>4. Tracks(g, SetDefault(g, role, USER))
            BY <1>1, <1>2, <3>1, SetDefaultTracks, Zenon
        <3>5. Imposed(p, SetDefault(g, role, USER), PE)
            BY <1>1, <1>2, <3>1, ImposedSetDefault, Zenon
        <3> QED
            BY <3>2, <3>3, <3>4, <3>5, Zenon
    <2> QED
        BY <2>1, <2>2, Zenon
<1> HIDE DEF h
<1>4. Scoped(h, <<>>, NoLayers, <<>>)
    <2>1. Len(h.stack) = 0 /\ h.val = h.reset /\ h.source = h.resetSource
        BY <1>1, <1>3, Zenon DEF Tracks, Follows
    <2> QED
        BY <2>1, FreshScoped, Zenon
<1>5. /\ r \in Sess /\ r.policy = p /\ r.guc = h /\ r.levels = <<>> /\ r.layers = NoLayers
      /\ r.outer = <<>>
    <2>1. NoSession \in Sess
        BY UnusedInv, Zenon DEF SessionInv
    <2> HIDE DEF h
    <2>2. /\ r \in Sess /\ r.policy = p /\ r.guc = h /\ r.levels = NoSession.levels
          /\ r.layers = NoSession.layers /\ r.outer = NoSession.outer
        BY <1>3, <2>1, Zenon DEF Sess
    <2> QED
        BY <2>2, UnusedFields, Zenon
<1> HIDE DEF r
<1>6. p # "none"
    BY SessionValues
<1>7. SessionInv(r)
    BY <1>3, <1>4, <1>5, <1>6, Zenon DEF SessionInv
<1> QED
    BY <1>7, Zenon DEF r, h

\* The postmaster loads a file, at its start or later.
LEMMA ServerLoads ==
    ASSUME NEW p \in Policies, NEW x \in Params, NEW g, ServerInv(p, g, x), NEW f \in Files
    PROVE  ServerInv(LoadedPolicy(p, f), LoadSetting(g, f, x), x)
<1> DEFINE h == LoadSetting(g, f, x)
<1>1. /\ g \in Gucs(Values(x), MaxLevel) /\ Len(g.stack) = 0
      /\ g.val = g.reset /\ g.source = g.resetSource /\ Imposed(p, g, x) /\ MaxLevel \in Nat
    BY SessionValues, Zenon DEF ServerInv
<1>2. h \in Gucs(Values(x), MaxLevel) /\ Tracks(g, h)
    BY <1>1, LoadSettingTracks, Zenon
<1>3. Imposed(LoadedPolicy(p, f), h, x)
    BY <1>1, LoadSettingImposes, Zenon
<1> HIDE DEF h
<1>4. Len(h.stack) = 0 /\ h.val = h.reset /\ h.source = h.resetSource
    BY <1>1, <1>2, Zenon DEF Tracks, Follows
<1> QED
    BY <1>2, <1>3, <1>4, Zenon DEF ServerInv, h

\* The postmaster starts with the boot values and loads the file.
LEMMA ServerStarts ==
    ASSUME NEW f \in Files
    PROVE  /\ LoadedPolicy("custom", f) \in Policies /\ DOMAIN Startup(f) = Params
           /\ \A x \in Params : ServerInv(LoadedPolicy("custom", f), Startup(f)[x], x)
<1>1. "custom" \in Policies /\ MaxLevel \in Nat
    BY SessionValues, Zenon
<1>2. ASSUME NEW x \in Params
      PROVE  ServerInv("custom", InitializeOneGUCOption(BootVal[x]), x)
    <2> DEFINE g == InitializeOneGUCOption(BootVal[x])
    <2>1. BootVal[x] \in Values(x)
        BY ValuesFacts, Zenon
    <2>2. /\ g \in Gucs(Values(x), MaxLevel) /\ Len(g.stack) = 0
          /\ g.val = g.reset /\ g.source = g.resetSource
        BY <1>1, <2>1, BootFacts, Zenon
    <2>3. Imposed("custom", g, x)
        BY CustomSetsNothing, Zenon DEF Imposed
    <2> QED
        BY <2>2, <2>3, Zenon DEF ServerInv
<1>3. /\ DOMAIN Startup(f) = Params
      /\ \A x \in Params : Startup(f)[x] = LoadSetting(InitializeOneGUCOption(BootVal[x]), f, x)
    BY DEF Startup
<1>4. \A x \in Params : ServerInv(LoadedPolicy("custom", f), Startup(f)[x], x)
    BY <1>1, <1>2, <1>3, ServerLoads, Zenon
<1> QED
    BY <1>1, <1>3, <1>4, LoadedPolicyType, Zenon

\* All sessions are unused.
LEMMA AllUnused ==
    ASSUME NEW t, t = [s \in Sessions |-> NoSession]
    PROVE  t \in [Sessions -> Sess] /\ \A s \in Sessions : SessionInv(t[s])
<1>1. NoSession \in Sess /\ SessionInv(NoSession)
    BY UnusedInv, Zenon DEF SessionInv
<1> QED
    BY <1>1

\* The server starts, the file being valid.
LEMMA InvInit == Init => PolicyInv
<1> SUFFICES ASSUME Init PROVE PolicyInv
    BY Zenon
<1>1. file \in Files /\ edits \in 0 .. MaxEdits
    BY PolicyAssumption DEF Init
<1>2. /\ pmPolicy \in Policies /\ DOMAIN pm = Params
      /\ \A x \in Params : ServerInv(pmPolicy, pm[x], x)
    BY <1>1, ServerStarts, Zenon DEF Init
<1>3. sess \in [Sessions -> Sess] /\ \A s \in Sessions : SessionInv(sess[s])
    BY AllUnused, Zenon DEF Init
<1> QED
    BY <1>1, <1>2, <1>3, Zenon DEF PolicyInv

\* Every step of the postmaster and of the sessions preserves the invariant.
LEMMA InvNext ==
    ASSUME HasLeast
    PROVE  PolicyInv /\ [Next]_vars => PolicyInv'
<1> SUFFICES ASSUME PolicyInv, [Next]_vars PROVE PolicyInv'
    OBVIOUS
<1>1. /\ file \in Files /\ edits \in 0 .. MaxEdits /\ pmPolicy \in Policies /\ DOMAIN pm = Params
      /\ \A x \in Params : ServerInv(pmPolicy, pm[x], x)
      /\ sess \in [Sessions -> Sess] /\ \A s \in Sessions : SessionInv(sess[s])
    BY Zenon DEF PolicyInv
<1>2. CASE EditFile
    <2>1. edits' \in 0 .. MaxEdits
        BY <1>1, <1>2, PolicyAssumption, SMTT(30), Z3T(30) DEF EditFile
    <2>2. file' \in Files /\ pmPolicy' = pmPolicy /\ pm' = pm /\ sess' = sess
        BY <1>2 DEF EditFile, pmVars
    <2> QED
        BY <1>1, <2>1, <2>2, Zenon DEF PolicyInv
<1>3. CASE PostmasterReload
    <2>1. file' = file /\ edits' = edits
        BY <1>3 DEF PostmasterReload, fileVars
    <2>2. pmPolicy' \in Policies /\ DOMAIN pm' = Params
        BY <1>1, <1>3, LoadedPolicyType DEF PostmasterReload
    <2>3. \A x \in Params : ServerInv(pmPolicy', pm'[x], x)
        <3>1. /\ pmPolicy' = LoadedPolicy(pmPolicy, file)
              /\ \A x \in Params : pm'[x] = LoadSetting(pm[x], file, x)
            BY <1>3 DEF PostmasterReload
        <3> QED
            BY <1>1, <3>1, ServerLoads, Zenon
    <2>4. \A s \in Sessions : sess'[s] = [sess[s] EXCEPT !.pending = Connected(s)]
        BY <1>3 DEF PostmasterReload
    <2>5. ASSUME NEW s \in Sessions PROVE SessionInv(sess'[s])
        <3> DEFINE r == sess[s]
                   c == Connected(s)
                   r2 == [r EXCEPT !.pending = c]
        <3>1. r \in Sess /\ Scoped(r.guc, r.levels, r.layers, r.outer)
            BY <1>1, Zenon DEF SessionInv
        <3>2. c \in BOOLEAN /\ (c <=> r.policy # "none")
            BY DEF Connected
        <3>3. IF r.policy = "none" THEN r = NoSession ELSE Imposed(r.policy, r.guc, PE)
            BY <1>1, Zenon DEF SessionInv
        <3> HIDE DEF r, c
        <3>4. /\ r2 \in Sess /\ r2.policy = r.policy /\ r2.guc = r.guc /\ r2.levels = r.levels
              /\ r2.layers = r.layers /\ r2.outer = r.outer /\ r2.pending = c
            BY <3>1, <3>2, Zenon DEF Sess
        <3>5. c = r.pending => r2 = r
            BY <3>1, Zenon DEF Sess
        <3>6. r.policy = "none" => c = r.pending
            BY <3>2, <3>3, UnusedFields, Zenon
        <3> HIDE DEF r2
        <3>7. SessionInv(r2)
            BY <3>1, <3>3, <3>4, <3>5, <3>6, Zenon DEF SessionInv
        <3> QED
            BY <2>4, <3>7, Zenon DEF r2, r, c
    <2>6. sess' \in [Sessions -> Sess]
        <3>1. \A s \in Sessions : sess'[s] \in Sess
            BY <2>5, Zenon DEF SessionInv
        <3> QED
            BY <1>3, <3>1, Zenon DEF PostmasterReload
    <2> QED
        BY <1>1, <2>1, <2>2, <2>3, <2>5, <2>6, Zenon DEF PolicyInv
<1>4. CASE Restart
    <2>1. file' = file /\ edits' = edits
        BY <1>4, Zenon DEF Restart, fileVars
    <2>2. /\ pmPolicy' \in Policies /\ DOMAIN pm' = Params
          /\ \A x \in Params : ServerInv(pmPolicy', pm'[x], x)
        BY <1>1, <1>4, ServerStarts, Zenon DEF Restart
    <2>3. sess' \in [Sessions -> Sess] /\ \A s \in Sessions : SessionInv(sess'[s])
        BY <1>4, AllUnused, Zenon DEF Restart
    <2> QED
        BY <1>1, <2>1, <2>2, <2>3, Zenon DEF PolicyInv
<1>5. ASSUME NEW s \in Sessions, NEW role \in SetValues \cup {Null}, Connect(s, role)
      PROVE  PolicyInv'
    <2> DEFINE r == [NoSession EXCEPT !.policy = pmPolicy,
                        !.guc = IF role = Null THEN pm[PE] ELSE SetDefault(pm[PE], role, USER)]
    <2>1. sess[s] = NoSession
        BY <1>1, <1>5, Zenon DEF Connect, Connected, SessionInv
    <2>2. sess' = [sess EXCEPT ![s] = [sess[s] EXCEPT !.policy = pmPolicy,
                        !.guc = IF role = Null THEN pm[PE] ELSE SetDefault(pm[PE], role, USER)]]
        BY <1>5, Zenon DEF Connect
    <2>3. SessionInv(r)
        BY <1>1, SessionValues, ConnectInv, Zenon
    <2>4. OneSession(s, r)
        BY <2>1, <2>2, <2>3, Zenon DEF OneSession
    <2> HIDE DEF r
    <2> QED
        BY <1>5, <2>4, OneSessionInv, Zenon DEF Connect
<1>6. ASSUME NEW s \in Sessions, Disconnect(s) PROVE PolicyInv'
    BY <1>6, UnusedInv, OneSessionInv, Zenon DEF Disconnect, OneSession
<1>7. ASSUME NEW s \in Sessions, Reload(s) PROVE PolicyInv'
    <2> DEFINE r == [sess[s] EXCEPT !.pending = FALSE, !.policy = LoadedPolicy(sess[s].policy, file),
                                    !.guc = LoadSetting(sess[s].guc, file, PE)]
    <2>1. sess' = [sess EXCEPT ![s] = r]
        BY <1>7, Zenon DEF Reload
    <2>2. SessionInv(r)
        BY <1>1, <1>7, ReloadInv, Zenon DEF Reload
    <2> HIDE DEF r
    <2> QED
        BY <1>7, <2>1, <2>2, OneSessionInv, Zenon DEF OneSession, Reload
<1>8. ASSUME NEW s \in Sessions, BeginXact(s) PROVE PolicyInv'
    <2> DEFINE r == [sess[s] EXCEPT !.levels = Append(sess[s].levels, "xact"),
                                    !.outer = Append(sess[s].outer, sess[s].layers)]
    <2>1. sess' = [sess EXCEPT ![s] = r]
        BY <1>8, Zenon DEF BeginXact
    <2>2. SessionInv(r)
        BY <1>1, <1>8, BeginInv, Zenon DEF BeginXact, Connected, Level
    <2> HIDE DEF r
    <2> QED
        BY <1>8, <2>1, <2>2, OneSessionInv, Zenon DEF OneSession, BeginXact
<1>9. ASSUME NEW s \in Sessions, NEW v \in SetValues, EnterFunction(s, v) PROVE PolicyInv'
    <2> DEFINE r == [sess[s] EXCEPT
                        !.levels = Append(sess[s].levels, "func"),
                        !.outer = Append(sess[s].outer, sess[s].layers),
                        !.guc = SetInteractive(sess[s].guc, v, "SAVE", Len(sess[s].levels) + 1),
                        !.layers = [sess[s].layers EXCEPT !.local = v, !.save = TRUE]]
    <2>1. sess' = [sess EXCEPT ![s] = r]
        BY <1>9, Zenon DEF EnterFunction, Level
    <2>2. SessionInv(r)
        BY <1>1, <1>9, EnterInv, Zenon DEF EnterFunction, Level
    <2> HIDE DEF r
    <2> QED
        BY <1>9, <2>1, <2>2, OneSessionInv, Zenon DEF OneSession, EnterFunction
<1>10. ASSUME NEW s \in Sessions, NEW v \in SetValues \cup {Null},
              NEW action \in {"SET", "LOCAL"}, Set(s, v, action)
       PROVE  PolicyInv'
    <2> DEFINE r == [sess[s] EXCEPT
                        !.guc = SetInteractive(sess[s].guc, v, action, Len(sess[s].levels)),
                        !.layers = AfterSet(sess[s].layers, v, action)]
    <2>1. sess' = [sess EXCEPT ![s] = r]
        BY <1>10, Zenon DEF Set, Level
    <2>2. SessionInv(r)
        BY <1>1, <1>10, SetInv, Zenon DEF Set, Level
    <2> HIDE DEF r
    <2> QED
        BY <1>10, <2>1, <2>2, OneSessionInv, Zenon DEF OneSession, Set
<1>11. ASSUME NEW s \in Sessions, ResetAll(s) PROVE PolicyInv'
    <2>1. Null \in SetValues \cup {Null} /\ "SET" \in {"SET", "LOCAL"}
        OBVIOUS
    <2> QED
        BY <1>10, <1>11, <2>1, Zenon DEF ResetAll
<1>12. ASSUME NEW s \in Sessions, CommitLevel(s) PROVE PolicyInv'
    <2> DEFINE n == Len(sess[s].levels)
               r == [sess[s] EXCEPT
                        !.levels = Front(sess[s].levels), !.outer = Front(sess[s].outer),
                        !.guc = CommitGUC(sess[s].guc, n),
                        !.layers = AfterCommit(sess[s].guc, sess[s].levels[n], sess[s].layers,
                                               sess[s].outer[n], n)]
    <2>1. sess' = [sess EXCEPT ![s] = r] /\ n > 0
        BY <1>12, Zenon DEF CommitLevel, Level
    <2>2. SessionInv(r)
        BY <1>1, <2>1, CommitInv, Zenon
    <2> HIDE DEF r
    <2> QED
        BY <1>12, <2>1, <2>2, OneSessionInv, Zenon DEF OneSession, CommitLevel
<1>13. ASSUME NEW s \in Sessions, NEW n \in 1 .. Level(s), AbortLevel(s, n) PROVE PolicyInv'
    <2> DEFINE r == [sess[s] EXCEPT
                        !.levels = SubSeq(sess[s].levels, 1, n - 1),
                        !.outer = SubSeq(sess[s].outer, 1, n - 1),
                        !.guc = AbortGUC(sess[s].guc, n), !.layers = sess[s].outer[n]]
    <2>1. sess' = [sess EXCEPT ![s] = r]
        BY <1>13, Zenon DEF AbortLevel
    <2>2. SessionInv(r)
        BY <1>1, AbortInv, Zenon DEF Level
    <2> HIDE DEF r
    <2> QED
        BY <1>13, <2>1, <2>2, OneSessionInv, Zenon DEF OneSession, AbortLevel
<1>14. CASE UNCHANGED vars
    BY <1>1, <1>14, Zenon DEF PolicyInv, vars, fileVars, pmVars
<1> QED
    BY <1>2, <1>3, <1>4, <1>5, <1>6, <1>7, <1>8, <1>9, <1>10, <1>11, <1>12, <1>13, <1>14, ZenonT(40)
        DEF Next, Command

-----------------------------------------------------------------------------
\* The theorems.

LOCAL INSTANCE FiniteSetTheorems
LOCAL INSTANCE WellFoundedInduction

\* The natural numbers are well-founded: the segments 0 .. x of the elements x of a
\* set are finite sets, of which one includes no other.
LEMMA LeastExists ==
    HasLeast
<1> SUFFICES ASSUME NEW S \in SUBSET Nat, S # {}
             PROVE  \E m \in S : \A j \in S : m <= j
    BY Zenon DEF HasLeast
<1> DEFINE segs == {0 .. x : x \in S}
<1>1. segs \subseteq FiniteSubsetsOf(Nat)
    <2>1. \A x \in Nat : IsFiniteSet(0 .. x)
        BY FS_Interval, SMTT(30), Z3T(30)
    <2>2. \A x \in S : x \in Nat /\ 0 .. x \subseteq Nat
        OBVIOUS
    <2> QED
        BY <2>1, <2>2, ZenonT(40) DEF FiniteSubsetsOf
<1>2. segs # {}
    BY Zenon
<1>3. PICK seg \in segs : \A t \in segs : ~(<<t, seg>> \in StrictSubsetOrdering(Nat))
    BY <1>1, <1>2, FS_StrictSubsetOrderingWellFounded, WFMin, ZenonT(40)
<1>4. PICK m \in S : seg = 0 .. m
    OBVIOUS
<1>5. ASSUME NEW y \in S, y < m PROVE FALSE
    <2>1. 0 .. y \in segs
        OBVIOUS
    <2>2. 0 .. y \subseteq 0 .. m /\ m \in 0 .. m /\ m \notin 0 .. y
        BY <1>5, SMTT(30), Z3T(30)
    <2>3. 0 .. y \subseteq Nat /\ 0 .. m \subseteq Nat
        OBVIOUS
    <2>4. <<0 .. y, seg>> \in StrictSubsetOrdering(Nat)
        BY <1>4, <2>2, <2>3, ZenonT(40) DEF StrictSubsetOrdering
    <2> QED
        BY <1>3, <2>1, <2>4, ZenonT(40)
<1>6. \A y \in S : m <= y
    BY <1>5, SMTT(30), Z3T(30)
<1> QED
    BY <1>6, Zenon

\* The invariant holds in every state of every behaviour: whatever the file holds
\* and whenever it is edited and reloaded, in any number of sessions.
THEOREM CryptoPolicyInvariant == Spec => []PolicyInv
<1>1. Init => PolicyInv
    BY InvInit, SMTT(30), Z3T(30)
<1>2. PolicyInv /\ [Next]_vars => PolicyInv'
    BY InvNext, LeastExists, SMTT(30), Z3T(30)
<1> QED
    BY <1>1, <1>2, PTL DEF Spec

\* The variables keep their types, the stack of guc.c included: AtEOXact_GUC never
\* restores a masked value that push_old_value has not recorded.
THEOREM CryptoPolicyTypes == Spec => []TypeOK
<1>1. PolicyInv => TypeOK
    <2> SUFFICES ASSUME PolicyInv PROVE TypeOK
        BY Zenon
    <2>1. \A s \in Sessions :
            /\ sess[s].policy \in Policies \cup {"none"}
            /\ sess[s].guc \in Gucs(Values(PE), MaxLevel)
            /\ sess[s].levels \in Seq({"xact", "func"}) /\ sess[s].pending \in BOOLEAN
        BY SessFields, ZenonT(40) DEF PolicyInv, SessionInv, Kinds
    <2>2. DOMAIN sess = Sessions
        BY ZenonT(40) DEF PolicyInv
    <2> QED
        BY <2>1, <2>2, ZenonT(40) DEF PolicyInv, ServerInv, TypeOK
<1> QED
    BY <1>1, CryptoPolicyInvariant, PTL

\* A policy is always in force as a whole, in the postmaster and in every session
\* that has loaded it: assign_crypto_policy has priority over the file and the
\* role whatever the order, and no end of a transaction brings back a value from
\* before the policy.
THEOREM PolicyAlwaysInForce == Spec => []PolicyInForce
<1>1. ASSUME NEW p, NEW g, NEW x, Imposed(p, g, x) PROVE InForce(p, g, x)
    BY <1>1, Zenon DEF Imposed, InForce, Held
<1>2. PolicyInv => PolicyInForce
    <2> SUFFICES ASSUME PolicyInv PROVE PolicyInForce
        OBVIOUS
    <2>1. \A x \in Params : InForce(pmPolicy, pm[x], x)
        BY <1>1, ZenonT(40) DEF PolicyInv, ServerInv
    <2>2. ASSUME NEW x \in Params PROVE pm[x].source <= OVERRIDE
        <3>1. pm[x] \in Gucs(Values(x), MaxLevel) /\ pm[x].source = pm[x].resetSource
            BY Zenon DEF PolicyInv, ServerInv
        <3>2. pm[x].resetSource \in DEFAULT .. OVERRIDE
            BY <3>1, GucFields, SessionValues, ZenonT(40)
        <3> QED
            BY <3>1, <3>2, SMTT(30), Z3T(30) DEF DEFAULT, OVERRIDE
    <2>3. \A s \in Sessions : Connected(s) => InForce(sess[s].policy, sess[s].guc, PE)
        BY <1>1, ZenonT(40) DEF PolicyInv, SessionInv, Connected
    <2> QED
        BY <2>1, <2>2, <2>3, ZenonT(40) DEF PolicyInForce
<1> QED
    BY <1>2, CryptoPolicyInvariant, PTL

\* SET and SET LOCAL are always scoped as SQL has it, however deep transactions and
\* functions are nested, whichever way each of them ends, and whenever the session
\* reloads the file in between.
THEOREM SetAlwaysScoped == Spec => []SetIsScoped
<1>1. PolicyInv => SetIsScoped
    <2> SUFFICES ASSUME PolicyInv, NEW s \in Sessions, Top(sess[s].layers) # "pinned"
                 PROVE  sess[s].guc.val = IF Top(sess[s].layers) \in {Null, "default"}
                                          THEN sess[s].guc.reset ELSE Top(sess[s].layers)
        BY Zenon DEF SetIsScoped, Top
    <2>1. Yields(sess[s].layers, sess[s].guc.val, sess[s].guc.source, sess[s].guc)
        BY Zenon DEF PolicyInv, SessionInv, Scoped, Undone
    <2> QED
        BY <2>1, Zenon DEF Yields
<1> QED
    BY <1>1, CryptoPolicyInvariant, PTL
=============================================================================
