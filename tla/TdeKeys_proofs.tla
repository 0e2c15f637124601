--------------------------- MODULE TdeKeys_proofs ---------------------------
(***************************************************************************)
(* Proofs about the keys of TDE: the TDEK cache, for every number of       *)
(* slots, tablespaces and keys, and the master key above it, for any       *)
(* number of backends and generations.                                     *)
(***************************************************************************)
EXTENDS TdeKeyCache, TdeMasterKey, FiniteSetTheorems, WellFoundedInduction, TLAPS

\* A scan of slots from the lowest index finds a member of any nonempty set
\* of slots, and no member precedes it.
LEMMA FirstInSet ==
    ASSUME NEW S, S \subseteq Nat, S # {}
    PROVE  First(S) \in S /\ \A j \in S : First(S) <= j
<1> DEFINE segs == {0 .. x : x \in S}
<1>1. segs \subseteq FiniteSubsetsOf(Nat)
  <2>1. \A x \in Nat : IsFiniteSet(0 .. x)
    BY FS_Interval
  <2> QED BY <2>1 DEF FiniteSubsetsOf
<1>2. segs # {}
  BY Zenon
<1>3. PICK g \in segs : \A h \in segs : ~(<<h, g>> \in StrictSubsetOrdering(Nat))
  BY <1>1, <1>2, FS_StrictSubsetOrderingWellFounded, WFMin, Zenon
<1>4. PICK m \in S : g = 0 .. m
  OBVIOUS
<1>5. ASSUME NEW y \in S, y < m PROVE FALSE
  <2>1. 0 .. y \in segs
    OBVIOUS
  <2>2. 0 .. y \subseteq 0 .. m /\ m \in 0 .. m /\ m \notin 0 .. y
    BY <1>5
  <2>3. 0 .. y \subseteq Nat /\ 0 .. m \subseteq Nat
    OBVIOUS
  <2>4. <<0 .. y, g>> \in StrictSubsetOrdering(Nat)
    BY <1>4, <2>2, <2>3, Zenon DEF StrictSubsetOrdering
  <2> QED BY <1>3, <2>1, <2>4, Zenon
<1>6. \A y \in S : m <= y
  BY <1>5
<1> QED BY <1>6, Zenon DEF First

\* The inductive invariant.
Inv == TypeOK /\ OneSlotPerTablespace /\ UsedSlotsHoldKeys

\* tde_keycache_insert writes one slot: a used one, or the one just past the
\* used part.  No other used slot belongs to the same tablespace.
LEMMA TargetSlotFacts ==
    ASSUME TypeOK, OneSlotPerTablespace, NEW e \in Insertable,
           NEW i, i = TargetSlot(cache, e), i # 0
    PROVE  /\ i \in Slots
           /\ i <= cache.num_entries + 1
           /\ \A j \in Used(cache) : j # i => cache.entries[j].spc_oid # e.spc_oid
<1> DEFINE own == OwnSlots(cache, e.spc_oid)
           inact == InactiveSlots(cache)
<1>1. cache.num_entries \in 0 .. MaxCachedKeys /\ MaxCachedKeys \in Nat
  BY CacheAssumption DEF TypeOK
<1>2. own \subseteq Used(cache) /\ inact \subseteq Used(cache)
  BY DEF OwnSlots, InactiveSlots
<1>3. Used(cache) \subseteq Slots /\ Used(cache) \subseteq Nat
  BY <1>1 DEF Used, Slots
<1>4. CASE own # {}
  <2>1. i = First(own)
    BY <1>4 DEF TargetSlot
  <2>2. i \in own
    BY <1>2, <1>3, <1>4, <2>1, FirstInSet, Zenon
  <2> QED BY <1>1, <1>2, <1>3, <2>2 DEF OwnSlots, OneSlotPerTablespace, Used
<1>5. CASE own = {}
  <2>1. \A j \in Used(cache) : cache.entries[j].spc_oid # e.spc_oid
    BY <1>5 DEF OwnSlots
  <2>2. CASE cache.num_entries < MaxCachedKeys
    BY <1>1, <1>5, <2>1, <2>2 DEF TargetSlot, Slots
  <2>3. CASE ~(cache.num_entries < MaxCachedKeys)
    <3>1. inact # {} /\ i = First(inact)
      BY <1>5, <2>3 DEF TargetSlot
    <3>2. i \in Used(cache)
      BY <1>2, <1>3, <3>1, FirstInSet
    <3> QED BY <1>1, <1>3, <2>1, <3>2 DEF Used
  <2> QED BY <2>2, <2>3
<1> QED BY <1>4, <1>5

\* A successful tde_keycache_insert preserves the invariant of the structure.
LEMMA InsertPreserves ==
    ASSUME Inv, NEW e \in Insertable, attached,
           NEW i, i = TargetSlot(cache, e), i # 0,
           cache' = InsertAt(cache, i, e), reply' = Done, attached' = attached
    PROVE  Inv'
<1> DEFINE n == cache.num_entries
<1>1. n \in 0 .. MaxCachedKeys /\ MaxCachedKeys \in Nat
  BY CacheAssumption DEF Inv, TypeOK
<1>2. /\ i \in Slots
      /\ i <= n + 1
      /\ \A j \in Used(cache) : j # i => cache.entries[j].spc_oid # e.spc_oid
  BY TargetSlotFacts DEF Inv
<1>3. cache.entries \in [Slots -> Entry] /\ e \in Entry
  BY DEF Inv, TypeOK, Insertable, Entry
<1>4. /\ cache'.num_entries = IF i > n THEN i ELSE n
      /\ cache'.entries = [cache.entries EXCEPT ![i] = e]
  BY DEF InsertAt
<1>5. cache'.num_entries \in 0 .. MaxCachedKeys
  BY <1>1, <1>2, <1>4 DEF Slots
<1>6. cache'.entries \in [Slots -> Entry]
  BY <1>3, <1>4, Zenon
<1>7. cache' \in [num_entries : 0 .. MaxCachedKeys, entries : [Slots -> Entry]]
  BY <1>5, <1>6 DEF InsertAt
<1>8. Used(cache') = Used(cache) \cup {i}
  BY <1>1, <1>2, <1>4 DEF Used, Slots
<1>9. cache'.entries[i] = e /\ \A j \in Slots : j # i => cache'.entries[j] = cache.entries[j]
  BY <1>2, <1>3, <1>4
<1>10. Used(cache) \subseteq Slots
  BY <1>1 DEF Used, Slots
<1>11. TypeOK'
  <2>1. \A j \in Slots \ Used(cache') : cache'.entries[j] = ZeroEntry
    BY <1>8, <1>9, Zenon DEF Inv, TypeOK
  <2> QED BY <1>7, <2>1 DEF Inv, TypeOK
<1>12. OneSlotPerTablespace'
  BY <1>2, <1>8, <1>9, <1>10 DEF Inv, OneSlotPerTablespace
<1>13. UsedSlotsHoldKeys'
  <2>1. e.key \in Keys
    BY DEF Insertable
  <2> QED BY <1>8, <1>9, <1>10, <2>1, Zenon DEF Inv, UsedSlotsHoldKeys
<1> QED BY <1>11, <1>12, <1>13 DEF Inv

\* The empty structure satisfies the invariant.
LEMMA EmptyCacheInv ==
    /\ EmptyCache \in [num_entries : 0 .. MaxCachedKeys, entries : [Slots -> Entry]]
    /\ Used(EmptyCache) = {}
    /\ \A i \in Slots : EmptyCache.entries[i] = ZeroEntry
  BY CacheAssumption DEF EmptyCache, Used, Entry, ZeroEntry

\* A lookup answers with one of the stored keys or with a miss.
LEMMA LookupType ==
    ASSUME Inv, NEW s \in Oids
    PROVE  LookupIn(cache, s) \in {Miss} \cup [kind : {"hit"}, key : Keys]
<1> DEFINE hits == HitSlots(cache, s)
<1>1. hits \subseteq Used(cache)
  BY DEF HitSlots
<1>2. Used(cache) \subseteq Nat
  BY DEF Inv, TypeOK, Used
<1>3. hits # {} => cache.entries[First(hits)].key \in Keys
  BY <1>1, <1>2, FirstInSet DEF Inv, UsedSlotsHoldKeys
<1> QED BY <1>3 DEF LookupIn, Hit

\* The invariant holds before the cache exists.
LEMMA InvInit == Init => Inv
  BY EmptyCacheInv, Zenon DEF Init, Inv, TypeOK, OneSlotPerTablespace,
     UsedSlotsHoldKeys, Done

\* Every operation of the cache preserves the invariant.
LEMMA InvNext == Inv /\ [Next]_vars => Inv'
<1> SUFFICES ASSUME Inv, [Next]_vars PROVE Inv'
  OBVIOUS
<1>1. CASE ShmemInit
  <2>1. CASE cache' = cache
    BY <1>1, <2>1, Zenon DEF ShmemInit, Inv, TypeOK, OneSlotPerTablespace,
       UsedSlotsHoldKeys, Used
  <2>2. CASE cache' = EmptyCache
    BY <1>1, <2>2, EmptyCacheInv, Zenon DEF ShmemInit, Inv, TypeOK,
       OneSlotPerTablespace, UsedSlotsHoldKeys
  <2> QED BY <1>1, <2>1, <2>2 DEF ShmemInit
<1>2. ASSUME NEW s \in Oids, Lookup(s) PROVE Inv'
  <2>1. reply' \in {Miss, Done, Error} \cup [kind : {"hit"}, key : Keys]
    BY <1>2, LookupType DEF Lookup
  <2> QED BY <1>2, <2>1 DEF Lookup, Inv, TypeOK, OneSlotPerTablespace,
             UsedSlotsHoldKeys, Used
<1>3. ASSUME NEW e \in Insertable, Insert(e) PROVE Inv'
  <2>1. CASE attached /\ TargetSlot(cache, e) # 0
    BY <1>3, <2>1, InsertPreserves DEF Insert
  <2>2. CASE ~(attached /\ TargetSlot(cache, e) # 0)
    BY <1>3, <2>2 DEF Insert, Inv, TypeOK, OneSlotPerTablespace,
       UsedSlotsHoldKeys, Used
  <2> QED BY <2>1, <2>2
<1>4. CASE Invalidate
  <2>1. CASE attached
    BY <1>4, <2>1, EmptyCacheInv, Zenon DEF Invalidate, Inv, TypeOK,
       OneSlotPerTablespace, UsedSlotsHoldKeys
  <2>2. CASE ~attached
    BY <1>4, <2>2, Zenon DEF Invalidate, Inv, TypeOK, OneSlotPerTablespace,
       UsedSlotsHoldKeys, Used
  <2> QED BY <2>1, <2>2
<1>5. CASE UNCHANGED vars
  BY <1>5 DEF vars, Inv, TypeOK, OneSlotPerTablespace, UsedSlotsHoldKeys, Used
<1> QED BY <1>1, <1>2, <1>3, <1>4, <1>5 DEF Next

\* Whatever the number of slots, tablespaces and keys, and whatever calls are
\* made in whatever order, the cache stays well typed, no tablespace owns two
\* slots and no used slot holds wiped bytes (tde_keycache_insert and
\* tde_keycache_invalidate).
THEOREM CacheInvariant == Spec => []Inv
<1> QED BY InvInit, InvNext, PTL DEF Spec

\* The property the run checks: one slot per tablespace.
THEOREM OneSlotAlways == Spec => []OneSlotPerTablespace
<1>1. Inv => OneSlotPerTablespace
  BY SMTT(30), Z3T(30) DEF Inv
<1> QED BY <1>1, CacheInvariant, PTL

-----------------------------------------------------------------------------
\* The array implements the bounded map of KeyStore.

Held(e) == [kind |-> "held", key |-> e.key, active |-> e.active]
Absent == [kind |-> "absent"]

\* What the refinement needs of an array: one slot per tablespace.
ArrayOK(c) ==
    /\ KeyArray(c)
    /\ \A i, j \in Used(c) : c.entries[i].spc_oid = c.entries[j].spc_oid => i = j

\* The map holds what the slot of a tablespace holds, and nothing else.
LEMMA StoreFacts ==
    ASSUME NEW c, ArrayOK(c), NEW s \in Oids
    PROVE  /\ \A i \in Used(c) : c.entries[i].spc_oid = s =>
                StoreOf(c)[s] = Held(c.entries[i])
           /\ OwnSlots(c, s) = {} => StoreOf(c)[s] = Absent
<1>1. ASSUME NEW i \in Used(c), c.entries[i].spc_oid = s
      PROVE  StoreOf(c)[s] = Held(c.entries[i])
  <2>1. OwnSlots(c, s) = {i}
    BY <1>1 DEF OwnSlots, ArrayOK
  <2>2. i \in Nat
    BY DEF Used, ArrayOK, KeyArray
  <2>3. First({i}) = i
    BY <2>2, FirstInSet
  <2> QED BY <2>1, <2>3 DEF StoreOf, Held
<1> QED BY <1>1 DEF StoreOf, Absent

\* KeyStore counts with the Cardinality of FiniteSets.
LEMMA SameCardinality ==
    ASSUME NEW S
    PROVE  Abstract!Cardinality(S) = Cardinality(S)
  BY DEF Abstract!Cardinality, Cardinality

\* As many tablespaces have an entry in the map as slots are in use.
LEMMA OccupiedCount ==
    ASSUME ArrayOK(cache)
    PROVE  /\ Abstract!Occupied = {cache.entries[i].spc_oid : i \in Used(cache)}
           /\ Cardinality(Abstract!Occupied) = cache.num_entries
<1> DEFINE owners == {cache.entries[i].spc_oid : i \in Used(cache)}
           n == cache.num_entries
           f == [i \in 1 .. n |-> cache.entries[i].spc_oid]
<1>1. n \in Nat /\ Used(cache) = 1 .. n
      /\ \A i \in Used(cache) : cache.entries[i] \in Entry /\ cache.entries[i].spc_oid \in Oids
  BY CacheAssumption DEF ArrayOK, KeyArray, Used, Slots, Entry
<1>2. Abstract!Occupied = owners
  <2>1. ASSUME NEW s \in Oids PROVE StoreOf(cache)[s] # Abstract!Absent <=> s \in owners
    <3>1. CASE OwnSlots(cache, s) = {}
      BY <3>1, StoreFacts, Zenon DEF OwnSlots, Absent, Abstract!Absent
    <3>2. CASE OwnSlots(cache, s) # {}
      <4>1. PICK i \in Used(cache) : cache.entries[i].spc_oid = s
        BY <3>2 DEF OwnSlots
      <4>2. StoreOf(cache)[s] = Held(cache.entries[i])
        BY <4>1, StoreFacts, Zenon
      <4> QED BY <4>1, <4>2 DEF Held, Abstract!Absent
    <3> QED BY <3>1, <3>2, SMTT(30), Z3T(30)
  <2> QED BY <1>1, <2>1, Zenon DEF Abstract!Occupied
<1>3. f \in Bijection(1 .. n, owners)
  <2>1. f \in [1 .. n -> owners]
    BY <1>1, Zenon
  <2>2. \A i, j \in 1 .. n : f[i] = f[j] => i = j
    BY <1>1, Zenon DEF ArrayOK
  <2>3. \A s \in owners : \E i \in 1 .. n : f[i] = s
    BY <1>1
  <2> HIDE DEF f, owners
  <2> QED BY <2>1, <2>2, <2>3, Zenon DEF Bijection, Injection, Surjection, IsInjective
<1>4. ExistsBijection(1 .. n, owners)
  <2> HIDE DEF f, owners
  <2> QED BY <1>3 DEF ExistsBijection
<1>5. Cardinality(owners) = n
  <2> HIDE DEF owners, n
  <2> QED BY <1>1, <1>4, FS_CountingElements
<1> QED BY <1>2, <1>5

\* tde_keycache_insert, seen on the map: the tablespace's entry is replaced, and
\* the entry of the tablespace whose slot was reused is gone.
LEMMA InsertStore ==
    ASSUME NEW c, ArrayOK(c), NEW e \in Insertable, NEW i \in Slots, NEW d,
           d = InsertAt(c, i, e), ArrayOK(d), Used(d) = Used(c) \cup {i}
    PROVE  StoreOf(d) =
             [s \in Oids |->
                IF s = e.spc_oid THEN Held(e)
                ELSE IF i \in Used(c) /\ c.entries[i].spc_oid = s THEN Absent
                ELSE StoreOf(c)[s]]
<1>1. /\ d.entries[i] = e /\ i \in Used(d) /\ e.spc_oid \in Oids
      /\ \A j \in Slots \ {i} : d.entries[j] = c.entries[j]
      /\ Used(c) \subseteq Slots
  BY CacheAssumption, SMTT(30), Z3T(30) DEF InsertAt, ArrayOK, KeyArray, Insertable, Used, Slots
<1>2. ASSUME NEW s \in Oids
      PROVE  StoreOf(d)[s] = IF s = e.spc_oid THEN Held(e)
                ELSE IF i \in Used(c) /\ c.entries[i].spc_oid = s THEN Absent
                ELSE StoreOf(c)[s]
  <2>1. CASE s = e.spc_oid
    BY <1>1, <2>1, StoreFacts, SMTT(30), Z3T(30)
  <2>2. CASE s # e.spc_oid /\ i \in Used(c) /\ c.entries[i].spc_oid = s
    <3>1. OwnSlots(d, s) = {}
      BY <1>1, <2>2, SMTT(30), Z3T(30) DEF OwnSlots, ArrayOK
    <3> QED BY <2>2, <3>1, StoreFacts, Zenon
  <2>3. CASE s # e.spc_oid /\ ~(i \in Used(c) /\ c.entries[i].spc_oid = s)
    <3>1. CASE OwnSlots(c, s) = {}
      <4>1. OwnSlots(d, s) = {}
        BY <1>1, <2>3, <3>1, Zenon DEF OwnSlots
      <4> QED BY <2>3, <3>1, <4>1, StoreFacts, Zenon
    <3>2. CASE OwnSlots(c, s) # {}
      <4>1. PICK j \in Used(c) : c.entries[j].spc_oid = s
        BY <3>2 DEF OwnSlots
      <4>2. j # i /\ d.entries[j] = c.entries[j] /\ j \in Used(d)
        BY <1>1, <2>3, <4>1, SMTT(30), Z3T(30)
      <4>3. StoreOf(c)[s] = Held(c.entries[j]) /\ StoreOf(d)[s] = Held(c.entries[j])
        BY <4>1, <4>2, StoreFacts, ZenonT(40)
      <4> QED BY <2>3, <4>3
    <3> QED BY <3>1, <3>2, SMTT(30), Z3T(30)
  <2> QED BY <2>1, <2>2, <2>3, SMTT(30), Z3T(30)
<1>3. StoreOf(d) = [s \in Oids |-> StoreOf(d)[s]]
  BY Zenon DEF StoreOf
<1> QED BY <1>2, <1>3, Zenon

\* The inactive entries of the map are those of the inactive slots.
LEMMA InactiveOwners ==
    ASSUME ArrayOK(cache)
    PROVE  /\ \A i \in InactiveSlots(cache) : cache.entries[i].spc_oid \in Abstract!Inactive
           /\ InactiveSlots(cache) = {} => Abstract!Inactive = {}
<1>1. \A i \in Used(cache) : cache.entries[i].spc_oid \in Oids /\ cache.entries[i] \in Entry
  BY CacheAssumption DEF ArrayOK, KeyArray, Used, Slots, Entry
<1>2. \A i \in Used(cache) : StoreOf(cache)[cache.entries[i].spc_oid] = Held(cache.entries[i])
  BY <1>1, StoreFacts, Zenon
<1>3. \A i \in Used(cache) : Held(cache.entries[i]).active = cache.entries[i].active
  BY DEF Held
<1>4. Abstract!Occupied = {cache.entries[i].spc_oid : i \in Used(cache)}
  BY OccupiedCount
<1> QED BY <1>2, <1>3, <1>4 DEF InactiveSlots, Abstract!Inactive

\* tde_keycache_lookup answers what the map holds.
LEMMA LookupStore ==
    ASSUME ArrayOK(cache), attached, NEW s \in Oids, Lookup(s)
    PROVE  Abstract!Get(s)
<1>1. reply' = LookupIn(cache, s) /\ attached' = attached /\ StoreOf(cache)' = StoreOf(cache)
  BY Zenon DEF Lookup
<1>2. CASE OwnSlots(cache, s) = {}
  <2>1. StoreOf(cache)[s] = Absent /\ LookupIn(cache, s) = Miss
    BY <1>2, StoreFacts, Zenon DEF LookupIn, HitSlots, OwnSlots
  <2> QED BY <1>1, <2>1, Zenon DEF Abstract!Get, Abstract!Absent, Absent, Abstract!Miss, Miss
<1>3. CASE OwnSlots(cache, s) # {}
  <2>1. PICK i \in Used(cache) : cache.entries[i].spc_oid = s
    BY <1>3, Zenon DEF OwnSlots
  <2>2. StoreOf(cache)[s] = Held(cache.entries[i])
    BY <2>1, StoreFacts, Zenon
  <2>3. /\ StoreOf(cache)[s] # Abstract!Absent
        /\ StoreOf(cache)[s].key = cache.entries[i].key
        /\ StoreOf(cache)[s].active = cache.entries[i].active
    BY <2>2 DEF Held, Abstract!Absent
  <2>4. HitSlots(cache, s) = IF cache.entries[i].active THEN {i} ELSE {}
    BY <2>1 DEF HitSlots, ArrayOK
  <2>5. First({i}) = i
    <3>1. i \in Nat BY DEF Used, ArrayOK, KeyArray
    <3> QED BY <3>1, FirstInSet
  <2>6. LookupIn(cache, s) = IF cache.entries[i].active THEN Hit(cache.entries[i].key) ELSE Miss
    BY <2>4, <2>5 DEF LookupIn
  <2> QED BY <1>1, <2>3, <2>6, Zenon DEF Abstract!Get, Hit, Abstract!Miss, Miss
<1> QED BY <1>2, <1>3

\* A successful tde_keycache_insert puts the entry into the map: where the
\* tablespace's entry is, where there is room, or instead of an inactive one.
LEMMA InsertPuts ==
    ASSUME Inv, ArrayOK(cache), attached, NEW e \in Insertable,
           NEW i, i = TargetSlot(cache, e), i # 0,
           cache' = InsertAt(cache, i, e), reply' = Done, attached' = attached,
           ArrayOK(cache')
    PROVE  Abstract!Put(e.spc_oid, e.key, e.active)
<1> DEFINE s == e.spc_oid
           n == cache.num_entries
<1>1. /\ i \in Slots /\ i <= n + 1
      /\ \A j \in Used(cache) : j # i => cache.entries[j].spc_oid # s
  BY TargetSlotFacts, Zenon DEF Inv
<1>2. n \in Nat /\ n <= MaxCachedKeys /\ MaxCachedKeys \in Nat /\ s \in Oids
  BY CacheAssumption DEF Inv, TypeOK, Insertable
<1>3. Used(cache') = Used(cache) \cup {i}
  BY <1>1, <1>2, SMTT(30), Z3T(30) DEF Used, Slots, InsertAt
<1>4. StoreOf(cache') =
        [t \in Oids |-> IF t = s THEN Held(e)
                        ELSE IF i \in Used(cache) /\ cache.entries[i].spc_oid = t THEN Absent
                        ELSE StoreOf(cache)[t]]
  BY <1>1, <1>3, InsertStore
<1>5. Held(e) = Abstract!Held(e.key, e.active) /\ Absent = Abstract!Absent
      /\ Done = Abstract!Done
  BY SMTT(30), Z3T(30) DEF Held, Abstract!Held, Absent, Abstract!Absent, Done, Abstract!Done
<1>6. StoreOf(cache) \in [Oids -> {StoreOf(cache)[t] : t \in Oids}]
  BY Zenon DEF StoreOf
<1>7. Abstract!Cardinality(Abstract!Occupied) = n
  BY OccupiedCount, SameCardinality, Zenon
<1>8. CASE OwnSlots(cache, s) # {}
  <2>1. PICK j \in Used(cache) : cache.entries[j].spc_oid = s
    BY <1>8, Zenon DEF OwnSlots
  <2>2. j = i /\ StoreOf(cache)[s] = Held(cache.entries[j])
    BY <1>1, <1>2, <2>1, StoreFacts, Zenon
  <2>3. StoreOf(cache)[s] # Abstract!Absent
    BY <2>2 DEF Held, Abstract!Absent
  <2>4. StoreOf(cache') = [StoreOf(cache) EXCEPT ![s] = Held(e)]
    BY <1>4, <1>6, <2>1, <2>2, Zenon
  <2> QED BY <1>5, <2>3, <2>4, Zenon DEF Abstract!Put
<1>9. CASE OwnSlots(cache, s) = {} /\ n < MaxCachedKeys
  <2>1. i = n + 1 /\ i \notin Used(cache)
    BY <1>2, <1>9 DEF TargetSlot, Used
  <2>2. StoreOf(cache') = [StoreOf(cache) EXCEPT ![s] = Held(e)]
    BY <1>4, <1>6, <2>1, Zenon
  <2> QED BY <1>5, <1>7, <1>9, <2>2, Zenon DEF Abstract!Put
<1>10. CASE OwnSlots(cache, s) = {} /\ ~(n < MaxCachedKeys)
  <2> DEFINE v == cache.entries[i].spc_oid
  <2>1. InactiveSlots(cache) # {} /\ i = First(InactiveSlots(cache))
    BY <1>10, Zenon DEF TargetSlot
  <2>2. i \in InactiveSlots(cache)
    <3>1. InactiveSlots(cache) \subseteq Nat
      BY <1>2, SMTT(30), Z3T(30) DEF InactiveSlots, Used
    <3> QED BY <2>1, <3>1, FirstInSet, Zenon
  <2>3. i \in Used(cache) /\ v \in Abstract!Inactive /\ v \in Oids /\ v # s
    BY <1>10, <2>2, InactiveOwners, Zenon DEF InactiveSlots, Abstract!Inactive, Abstract!Occupied, OwnSlots
  <2>4. StoreOf(cache') = [StoreOf(cache) EXCEPT ![v] = Absent, ![s] = Held(e)]
    BY <1>4, <1>6, <2>3, Zenon
  <2>5. StoreOf(cache)[s] = Absent /\ n = MaxCachedKeys
    BY <1>2, <1>10, StoreFacts
  <2> QED BY <1>5, <1>7, <2>3, <2>4, <2>5, Zenon DEF Abstract!Put
<1> QED BY <1>8, <1>9, <1>10, Zenon

\* "TDE key cache is full" is raised only when every slot is another
\* tablespace's and active.
LEMMA InsertFails ==
    ASSUME Inv, ArrayOK(cache), NEW e \in Insertable, UNCHANGED <<cache, attached>>,
           reply' = Error, ~attached \/ TargetSlot(cache, e) = 0
    PROVE  Abstract!PutFails(e.spc_oid)
<1>1. StoreOf(cache)' = StoreOf(cache) /\ Error = Abstract!Error /\ Absent = Abstract!Absent
  BY Zenon DEF Error, Abstract!Error, Absent, Abstract!Absent
<1>2. CASE ~attached
  BY <1>1, <1>2, Zenon DEF Abstract!PutFails
<1>3. CASE TargetSlot(cache, e) = 0
  <2>1. Used(cache) \subseteq Nat \ {0} /\ cache.num_entries \in Nat
        /\ cache.num_entries <= MaxCachedKeys /\ MaxCachedKeys \in Nat
    BY CacheAssumption DEF Used, Inv, TypeOK
  <2>2. \A S \in {OwnSlots(cache, e.spc_oid), InactiveSlots(cache)} : S # {} => First(S) # 0
    <3>1. /\ OwnSlots(cache, e.spc_oid) \subseteq Nat \ {0}
          /\ InactiveSlots(cache) \subseteq Nat \ {0}
      BY <2>1 DEF OwnSlots, InactiveSlots
    <3>2. ASSUME NEW S, S \subseteq Nat \ {0}, S # {} PROVE First(S) # 0
      BY <3>2, FirstInSet, Zenon
    <3> QED BY <3>1, <3>2
  <2>3. /\ OwnSlots(cache, e.spc_oid) = {} /\ InactiveSlots(cache) = {}
        /\ cache.num_entries = MaxCachedKeys
    BY <1>3, <2>1, <2>2 DEF TargetSlot
  <2>4. e.spc_oid \in Oids
    BY SMTT(30), Z3T(30) DEF Insertable
  <2>5. StoreOf(cache)[e.spc_oid] = Absent
    BY <2>3, <2>4, StoreFacts, Zenon
  <2>6. Abstract!Cardinality(Abstract!Occupied) = MaxCachedKeys /\ Abstract!Inactive = {}
    BY <2>3, OccupiedCount, SameCardinality, InactiveOwners
  <2> QED BY <1>1, <2>5, <2>6, Zenon DEF Abstract!PutFails
<1> QED BY <1>2, <1>3, Zenon

\* Before the segment exists the model's cache is empty: attaching finds it so.
Fresh == ~attached => cache = EmptyCache

\* So it is initially.
LEMMA FreshInit == Init => Fresh
  BY DEF Init, Fresh

\* And no function fills a cache that does not exist.
LEMMA FreshNext == Fresh /\ [Next]_vars => Fresh'
  BY DEF Fresh, Next, vars, ShmemInit, Lookup, Insert, Invalidate

\* Every call of a cache function is a step of the map.
LEMMA StepRefines ==
    Inv /\ Inv' /\ Fresh /\ [Next]_vars => [Abstract!Next]_(Abstract!vars)
<1> SUFFICES ASSUME Inv, Inv', Fresh, [Next]_vars
             PROVE  Abstract!Next \/ UNCHANGED Abstract!vars
  BY SMTT(30), Z3T(30)
<1>1. ArrayOK(cache) /\ ArrayOK(cache')
  BY DEF Inv, TypeOK, OneSlotPerTablespace, UsedSlotsHoldKeys, ArrayOK, KeyArray
<1>2. Done = Abstract!Done /\ Error = Abstract!Error /\ Absent = Abstract!Absent
  BY DEF Done, Abstract!Done, Error, Abstract!Error, Absent, Abstract!Absent
<1>3. StoreOf(EmptyCache) = [s \in Oids |-> Abstract!Absent]
  <2>1. \A s \in Oids : OwnSlots(EmptyCache, s) = {}
    BY EmptyCacheInv DEF OwnSlots
  <2> QED BY <2>1 DEF StoreOf, Abstract!Absent
<1>4. CASE ShmemInit
  <2>1. cache' = cache
    BY <1>4 DEF ShmemInit, Fresh
  <2>2. Abstract!Attach
    BY <1>2, <1>4, <2>1 DEF ShmemInit, Abstract!Attach
  <2> QED BY <2>2 DEF Abstract!Next
<1>5. ASSUME NEW s \in Oids, Lookup(s) PROVE Abstract!Next
  <2>1. Abstract!Get(s)
    <3>1. CASE attached
      BY <1>1, <1>5, <3>1, LookupStore, SMTT(30), Z3T(30)
    <3>2. CASE ~attached
      BY <1>2, <1>5, <3>2 DEF Lookup, Abstract!Get
    <3> QED BY <3>1, <3>2
  <2> QED BY <2>1 DEF Abstract!Next
<1>6. ASSUME NEW e \in Insertable, Insert(e) PROVE Abstract!Next
  <2>1. e.spc_oid \in Oids /\ e.key \in Keys /\ e.active \in BOOLEAN
    BY DEF Insertable
  <2>2. CASE attached /\ TargetSlot(cache, e) # 0
    <3>1. Abstract!Put(e.spc_oid, e.key, e.active)
      BY <1>1, <1>6, <2>2, InsertPuts DEF Insert
    <3> QED BY <2>1, <3>1 DEF Abstract!Next
  <2>3. CASE ~(attached /\ TargetSlot(cache, e) # 0)
    <3>1. Abstract!PutFails(e.spc_oid)
      BY <1>1, <1>6, <2>3, InsertFails DEF Insert
    <3> QED BY <2>1, <3>1 DEF Abstract!Next
  <2> QED BY <2>2, <2>3
<1>7. CASE Invalidate
  <2>1. cache' = EmptyCache
    BY <1>7 DEF Invalidate, Fresh
  <2>2. Abstract!Wipe
    BY <1>2, <1>3, <1>7, <2>1 DEF Invalidate, Abstract!Wipe
  <2> QED BY <2>2 DEF Abstract!Next
<1>8. CASE UNCHANGED vars
  BY <1>8 DEF vars, Abstract!vars
<1> QED BY <1>4, <1>5, <1>6, <1>7, <1>8, SMTT(30), Z3T(30) DEF Next

\* The array of tde_keycache.c implements the bounded map of KeyStore, whatever
\* its size: no lookup answers with another tablespace's key or an inactive
\* one, no insert drops another tablespace's active key, and "cache is full"
\* is raised only when all slots are active and taken.
THEOREM CacheRefinesStore == Spec => ImplementsKeyStore
<1>1. Init => Abstract!Init
  <2>1. \A s \in Oids : OwnSlots(EmptyCache, s) = {}
    BY EmptyCacheInv, Zenon DEF OwnSlots
  <2>2. StoreOf(EmptyCache) = [s \in Oids |-> Abstract!Absent]
    BY <2>1, Zenon DEF StoreOf, Abstract!Absent
  <2> QED BY <2>2 DEF Init, Abstract!Init, Done, Abstract!Done
<1>2. Spec => []Fresh
  BY FreshInit, FreshNext, PTL DEF Spec
<1> QED BY <1>1, <1>2, StepRefines, CacheInvariant, PTL
        DEF Spec, ImplementsKeyStore, Abstract!Spec

-----------------------------------------------------------------------------
\* The master key, whose state the cache does not share.

\* What makes MemoryKeyWasStored inductive: a start loads what the file holds,
\* and a power failure brings back what it held earlier.
FilesWereStored ==
    /\ file \in Gens => file \in stored
    /\ durable \in Gens => durable \in stored

\* A job that is not idle carries a generation.
JobsCarryGens ==
    \A w \in Writers : IF job[w].step = "idle" THEN job[w] = Idle
                                               ELSE job[w].gen \in Gens

MasterInv ==
    /\ MasterTypeOK /\ MemoryKeyWasStored /\ ToolHandsOverSecret
    /\ FilesWereStored /\ JobsCarryGens

\* No generation is one of the markers None, NoFile and Torn.
LEMMA GensFacts ==
    /\ None \notin Gens /\ NoFile \notin Gens /\ Torn \notin Gens
    /\ None # NoFile /\ None # Torn
BY MasterKeyAssumption DEF None, NoFile, Torn, Gens

\* A cluster without a master key satisfies MasterInv.
LEMMA MasterInvInit == MasterInit => MasterInv
<1> SUFFICES ASSUME MasterInit PROVE MasterInv
    BY Zenon
<1>1. MasterTypeOK
    BY MasterKeyAssumption, SMTT(30), Z3T(30) DEF MasterInit, MasterTypeOK, Idle, None, NoFile, Torn, Gens
<1> QED
    BY <1>1, GensFacts
    DEF MasterInit, MasterInv, MemoryKeyWasStored, ToolHandsOverSecret, FilesWereStored,
        JobsCarryGens, Idle

\* Each action preserves MasterInv; ToolBegin and RotateBegin share OpenKeyFile.
LEMMA MasterInvNext == MasterInv /\ [MasterNext]_masterVars => MasterInv'
<1> SUFFICES ASSUME MasterInv, [MasterNext]_masterVars PROVE MasterInv'
    OBVIOUS
<1> USE GensFacts DEF MasterInv, MasterTypeOK, MemoryKeyWasStored, ToolHandsOverSecret,
        FilesWereStored, JobsCarryGens, diskVars, adminVars, Procs, Writers, Idle
<1>1. ASSUME NEW w \in Writers, OpenKeyFile(w),
             UNCHANGED <<adminVars, MasterKey, unreported>>
      PROVE  MasterInv'
    <2>1. lastGen + 1 \in Gens /\ lastGen + 1 \in 0 .. MaxGen
        BY <1>1, MasterKeyAssumption, SMTT(30), Z3T(30) DEF OpenKeyFile, Gens
    <2> QED
        BY <1>1, <2>1, SMTT(30), Z3T(30) DEF OpenKeyFile
<1>2. CASE ToolWrite
    <2>1. secured' \in Gens \cup {None}
        BY <1>2, Zenon DEF ToolWrite, Secure
    <2> QED
        BY <1>2, <2>1, SMTT(30), Z3T(30) DEF ToolWrite, Fill, Step
<1>3. CASE ToolPrint
    BY <1>3, SMTT(30), Z3T(30) DEF ToolPrint, Finish
<1>4. CASE ToolFails
    BY <1>4, SMTT(30), Z3T(30) DEF ToolFails, Finish
<1>5. ASSUME NEW p \in Backends, RotateFsync(p) PROVE MasterInv'
    BY <1>5, MasterKeyAssumption, SMTT(30), Z3T(30) DEF RotateFsync, Step
<1>6. ASSUME NEW p \in Backends, RotateClose(p) PROVE MasterInv'
    BY <1>6, MasterKeyAssumption, ZenonT(40) DEF RotateClose, Fill, Finish
<1>7. ASSUME NEW p \in Backends, RotateFails(p) PROVE MasterInv'
    BY <1>7, MasterKeyAssumption, SMTT(30), Z3T(30) DEF RotateFails, Fill, Finish
<1>8. ASSUME NEW g \in secrets, SetProvider(g) PROVE MasterInv'
    BY <1>8, Zenon DEF SetProvider
<1>9. CASE StartServer
    BY <1>9, Zenon DEF StartServer, Unwraps
<1>10. ASSUME NEW p \in Backends, Fork(p) PROVE MasterInv'
    BY <1>10, Zenon DEF Fork
<1>11. CASE CrashRestart
    BY <1>11, MasterKeyAssumption, SMTT(30), Z3T(30) DEF CrashRestart, DropJobs
<1>12. CASE Stop
    BY <1>12, MasterKeyAssumption, SMTT(30), Z3T(30) DEF Stop, DropJobs
<1>13. CASE Writeback
    BY <1>13, Zenon DEF Writeback
<1>14. CASE PowerFailure
    BY <1>14, SMTT(30), Z3T(30) DEF PowerFailure, DropJobs
<1>15. ASSUME NEW p \in Backends, RotateFsyncWarns(p) PROVE MasterInv'
    BY <1>15, MasterKeyAssumption, SMTT(30), Z3T(30) DEF RotateFsyncWarns, Step
<1>16. CASE UNCHANGED masterVars
    BY <1>16, Zenon DEF masterVars
<1> QED
    BY <1>1, <1>2, <1>3, <1>4, <1>5, <1>6, <1>7, <1>8, <1>9, <1>10, <1>11,
       <1>12, <1>13, <1>14, <1>15, <1>16, ZenonT(40)
    DEF MasterNext, Generate, Operate, ToolBegin, RotateBegin

\* The inductive invariant of the master key's life.
THEOREM MasterKeyInvariant == MasterSpec => []MasterInv
BY MasterInvInit, MasterInvNext, PTL DEF MasterSpec

\* No process ever works with a master key that was never in the key file.
THEOREM MemoryKeyAlwaysStored == MasterSpec => []MemoryKeyWasStored
BY MasterKeyInvariant, PTL DEF MasterInv

\* The administrator has the secret key of every file a completed run of
\* pg_tde_master_key wrote.
THEOREM ToolAlwaysHandsOver == MasterSpec => []ToolHandsOverSecret
BY MasterKeyInvariant, PTL DEF MasterInv

\* What makes ToolKeyDurable inductive: no rotation is at the file.
SecuredOK ==
    secured # None => /\ file = secured /\ durable = secured
                      /\ \A p \in Backends : job[p] = Idle

\* A step that leaves the file and secured alone and starts no rotation.
LEMMA SecuredStays ==
    ASSUME SecuredOK, UNCHANGED <<file, durable, secured>>,
           \A p \in Backends : job[p] = Idle => job'[p] = Idle
    PROVE  SecuredOK'
BY Zenon DEF SecuredOK

\* Each action preserves SecuredOK.
LEMMA SecuredStep == MasterInv /\ SecuredOK /\ [MasterNext]_masterVars => SecuredOK'
<1> SUFFICES ASSUME MasterInv, SecuredOK, [MasterNext]_masterVars PROVE SecuredOK'
    OBVIOUS
<1>1. /\ job \in [Writers -> [step : {"idle", "open", "close", "print"},
                             gen : Gens \cup {None}]]
      /\ Tool \in Writers /\ Tool \notin Backends /\ \A p \in Backends : p \in Writers
    BY MasterKeyAssumption, Zenon DEF MasterInv, MasterTypeOK, Writers
<1>2. Idle.step = "idle"
    BY Zenon DEF Idle
<1>3. ASSUME NEW w \in Writers, OpenKeyFile(w) PROVE SecuredOK'
    BY <1>3, Zenon DEF OpenKeyFile, SecuredOK
<1>4. CASE ToolWrite
    <2>1. \A p \in Backends : job'[p] = job[p]
        BY <1>1, <1>4, Zenon DEF ToolWrite, Step
    <2>2. CASE secured' = None
        BY <2>2, Zenon DEF SecuredOK
    <2>3. CASE durable' = job[Tool].gen /\ Secure(job[Tool].gen) /\ secured' # None
        <3>1. secured' = job[Tool].gen /\ \A p \in Backends : job[p] = Idle
            BY <2>3, Zenon DEF Secure
        <3>2. file' = job[Tool].gen
            BY <1>4, Zenon DEF ToolWrite, Fill
        <3> QED BY <2>1, <2>3, <3>1, <3>2, Zenon DEF SecuredOK
    <2> QED BY <1>4, <2>2, <2>3, Zenon DEF ToolWrite
<1>5. CASE ToolPrint \/ ToolFails
    <2>1. \A p \in Backends : job'[p] = job[p]
        BY <1>1, <1>5, Zenon DEF ToolPrint, ToolFails, Finish
    <2> QED BY <1>5, <2>1, SecuredStays, Zenon DEF ToolPrint, ToolFails, diskVars
<1>6. ASSUME NEW p \in Backends,
             \/ RotateFsync(p) \/ RotateFsyncWarns(p) \/ RotateClose(p) \/ RotateFails(p)
      PROVE  SecuredOK'
    <2>1. job[p] # Idle
        BY <1>2, <1>6, Zenon DEF RotateFsync, RotateFsyncWarns, RotateClose, RotateFails
    <2>2. secured = None /\ secured' = secured
        BY <1>6, <2>1, Zenon
        DEF SecuredOK, RotateFsync, RotateFsyncWarns, RotateClose, RotateFails, diskVars
    <2> QED BY <2>2, Zenon DEF SecuredOK
<1>7. CASE (\E g \in secrets : SetProvider(g)) \/ StartServer \/ \E p \in Backends : Fork(p)
    BY <1>7, SecuredStays, Zenon DEF SetProvider, StartServer, Fork, diskVars
<1>8. CASE CrashRestart \/ Stop
    <2>1. \A p \in Backends : job'[p] = Idle
        BY <1>1, <1>8, Zenon DEF CrashRestart, Stop, DropJobs
    <2> QED BY <1>8, <2>1, SecuredStays, Zenon DEF CrashRestart, Stop, diskVars
<1>9. CASE Writeback
    BY <1>9, Zenon DEF Writeback, SecuredOK
<1>10. CASE PowerFailure
    <2>1. \A p \in Backends : job'[p] = Idle
        BY <1>1, <1>10, Zenon DEF PowerFailure, DropJobs
    <2> QED BY <1>10, <2>1, Zenon DEF PowerFailure, SecuredOK
<1>11. CASE UNCHANGED masterVars
    BY <1>11, SecuredStays, Zenon DEF masterVars, diskVars
<1>12. Tool \in Writers /\ \A p \in Backends : p \in Writers
    BY <1>1, Zenon
<1> QED
    BY <1>3, <1>4, <1>5, <1>6, <1>7, <1>8, <1>9, <1>10, <1>11, <1>12, ZenonT(40)
    DEF MasterNext, Generate, Operate, ToolBegin, RotateBegin

\* What a run of pg_tde_master_key put in the place of another master key is
\* there, and on disk, whatever crashes or loses power, until the next
\* generation begins.
THEOREM ToolKeyOutlivesCrashes == MasterSpec => []ToolKeyDurable
<1>1. MasterInit => SecuredOK
    BY Zenon DEF MasterInit, SecuredOK
<1>2. SecuredOK => ToolKeyDurable
    BY Zenon DEF SecuredOK, ToolKeyDurable
<1> QED
    BY <1>1, <1>2, SecuredStep, MasterKeyInvariant, PTL DEF MasterSpec
=============================================================================
