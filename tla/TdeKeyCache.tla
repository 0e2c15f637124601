---------------------------- MODULE TdeKeyCache ----------------------------
(***************************************************************************)
(* The shared-memory cache of tablespace data encryption keys (TDEKs) as   *)
(* its callers meet it: one action per function of                         *)
(* src/backend/crypto/tde/tde_keycache.c.  Every function holds the LWLock *)
(* of the structure from its first read to its last write and calls        *)
(* nothing in between that releases it, so every call is one step.         *)
(***************************************************************************)
EXTENDS TdeKeyArray

VARIABLES
    attached,         \* TdeKeyCacheShmem # NULL
    cache,            \* the TdeKeyCache structure
    reply             \* what the last call gave its caller

vars == <<attached, cache, reply>>

-----------------------------------------------------------------------------
Init ==
    /\ attached = FALSE
    /\ cache = EmptyCache
    /\ reply = Done

\* tde_keycache_shmem_init: attaching to an existing segment leaves its
\* content alone, and a child process attaches to a filled cache.
ShmemInit ==
    /\ attached' = TRUE
    /\ cache' = IF attached THEN cache ELSE EmptyCache
    /\ reply' = Done

Lookup(s) ==
    /\ reply' = IF attached THEN LookupIn(cache, s) ELSE Error
    /\ UNCHANGED <<attached, cache>>

Insert(e) ==
    LET i == TargetSlot(cache, e) IN
    /\ \/ /\ attached /\ i # 0
          /\ cache' = InsertAt(cache, i, e)
          /\ reply' = Done
       \/ /\ ~attached \/ i = 0
          /\ reply' = Error
          /\ UNCHANGED cache
    /\ UNCHANGED attached

Invalidate ==
    /\ \/ /\ attached
          /\ cache' = EmptyCache
          /\ reply' = Done
       \/ /\ ~attached
          /\ reply' = Error
          /\ UNCHANGED cache
    /\ UNCHANGED attached

Next ==
    \/ ShmemInit
    \/ \E s \in Oids : Lookup(s)
    \/ \E e \in Insertable : Insert(e)
    \/ Invalidate

Spec == Init /\ [][Next]_vars

-----------------------------------------------------------------------------
\* Type invariant: the array, its fill count and the reply have their types,
\* and slots past num_entries are wiped (memset in tde_keycache_shmem_init,
\* explicit_bzero in tde_keycache_invalidate).
TypeOK ==
    /\ attached \in BOOLEAN
    /\ cache \in [num_entries : 0 .. MaxCachedKeys, entries : [Slots -> Entry]]
    /\ reply \in {Miss, Done, Error} \cup [kind : {"hit"}, key : Keys]
    /\ \A i \in Slots \ Used(cache) : cache.entries[i] = ZeroEntry

\* No tablespace ever owns two used slots.  tde_keycache_insert relies on its
\* scan finding the one slot of the tablespace, and tde_keycache_lookup stops
\* at the first match: a second slot would keep an outdated key alive behind
\* the current one ("Each tablespace has at most one active TDEK", tde.h).
OneSlotPerTablespace ==
    \A i, j \in Used(cache) :
        cache.entries[i].spc_oid = cache.entries[j].spc_oid => i = j

\* A used slot holds real key bytes, never the zeroes of a wiped slot.
UsedSlotsHoldKeys ==
    \A i \in Used(cache) : cache.entries[i].key \in Keys

\* The refinement mapping: the map entry of s is what its slot holds.
StoreOf(c) ==
    [s \in Oids |->
        IF OwnSlots(c, s) = {}
        THEN [kind |-> "absent"]
        ELSE LET e == c.entries[First(OwnSlots(c, s))]
             IN  [kind |-> "held", key |-> e.key, active |-> e.active]]

Abstract == INSTANCE KeyStore
    WITH Capacity <- MaxCachedKeys, store <- StoreOf(cache)

\* Slots, scans and the reuse of inactive slots implement the bounded map:
\* lookups answer with the one active key, an insert for one tablespace never
\* drops the active key of another, and "cache is full" is raised only when
\* every slot holds an active key of another tablespace.
ImplementsKeyStore == Abstract!Spec
=============================================================================
