--------------------------- MODULE TdeKeyArray ---------------------------
(***************************************************************************)
(* The shared-memory cache of tablespace data encryption keys (TDEKs),     *)
(* src/backend/crypto/tde/tde_keycache.c,                                  *)
(* as a data structure: an array of TDE_MAX_CACHED_KEYS slots of which the *)
(* first num_entries are in use, and the scans over it.  The key bytes and *)
(* the version travel together and decide nothing: both are "key" here.    *)
(***************************************************************************)
EXTENDS Naturals

CONSTANTS
    Oids,             \* tablespace OIDs, the WAL's InvalidOid among them
    InvalidOid,       \* 0, also what a wiped slot holds
    Keys,             \* key bytes
    ZeroKey,          \* the bytes of a wiped slot
    MaxCachedKeys     \* TDE_MAX_CACHED_KEYS (256)

ASSUME CacheAssumption ==
    /\ MaxCachedKeys \in Nat \ {0}
    /\ InvalidOid \in Oids
    /\ ZeroKey \notin Keys

Slots == 1 .. MaxCachedKeys

\* A TdeKeyEntry in a slot.
Entry == [spc_oid : Oids, key : Keys \cup {ZeroKey}, active : BOOLEAN]

ZeroEntry == [spc_oid |-> InvalidOid, key |-> ZeroKey, active |-> FALSE]

\* The entries a caller may pass to tde_keycache_insert.
Insertable == [spc_oid : Oids, key : Keys, active : BOOLEAN]

\* The structure after memset(0) in tde_keycache_shmem_init and after
\* explicit_bzero in tde_keycache_invalidate.
EmptyCache == [num_entries |-> 0, entries |-> [i \in Slots |-> ZeroEntry]]

-----------------------------------------------------------------------------
\* The scans of the used part of the array.

Used(c) == 1 .. c.num_entries

First(S) == CHOOSE i \in S : \A j \in S : i <= j

\* Mutant: lookup ignores the active flag.
HitSlotsAnyState(c, s) == {i \in Used(c) : c.entries[i].spc_oid = s}

\* Slots that tde_keycache_lookup would return for tablespace s.
HitSlots(c, s) ==
    {i \in Used(c) : c.entries[i].spc_oid = s /\ c.entries[i].active}

\* Slots that tde_keycache_insert would update for tablespace s.
OwnSlots(c, s) == {i \in Used(c) : c.entries[i].spc_oid = s}

InactiveSlots(c) == {i \in Used(c) : ~c.entries[i].active}

Miss == [kind |-> "miss"]
Done == [kind |-> "ok"]
Error == [kind |-> "error"]
Hit(k) == [kind |-> "hit", key |-> k]

\* The outcome of tde_keycache_lookup on a cache that exists.
LookupIn(c, s) ==
    IF HitSlots(c, s) = {}
    THEN Miss
    ELSE Hit(c.entries[First(HitSlots(c, s))].key)

\* Mutant: the scan for the tablespace's own slot is dropped, every insert
\* takes a fresh or an inactive slot.
TargetSlotNoScan(c, e) ==
    IF c.num_entries < MaxCachedKeys THEN c.num_entries + 1
    ELSE IF InactiveSlots(c) # {} THEN First(InactiveSlots(c))
    ELSE 0

\* Mutant: the bound test of the append is off by one.
TargetSlotOverrun(c, e) ==
    IF OwnSlots(c, e.spc_oid) # {} THEN First(OwnSlots(c, e.spc_oid))
    ELSE IF c.num_entries <= MaxCachedKeys THEN c.num_entries + 1
    ELSE 0

\* The slot tde_keycache_insert writes, 0 when it raises "cache is full".
TargetSlot(c, e) ==
    IF OwnSlots(c, e.spc_oid) # {} THEN First(OwnSlots(c, e.spc_oid))
    ELSE IF c.num_entries < MaxCachedKeys THEN c.num_entries + 1
    ELSE IF InactiveSlots(c) # {} THEN First(InactiveSlots(c))
    ELSE 0

\* The structure after tde_keycache_insert wrote e to slot i.
InsertAt(c, i, e) ==
    [num_entries |-> IF i > c.num_entries THEN i ELSE c.num_entries,
     entries |-> [c.entries EXCEPT ![i] = e]]

\* An array with its fill count, whose used slots hold real keys.
KeyArray(c) ==
    /\ c \in [num_entries : 0 .. MaxCachedKeys, entries : [Slots -> Entry]]
    /\ \A i \in Used(c) : c.entries[i].key \in Keys
=============================================================================
