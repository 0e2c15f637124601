-------------------------- MODULE TdePageIO_proofs --------------------------
(***************************************************************************)
(* Proofs about TdePageIO, for any number of pages, tablespaces, keys,     *)
(* processes and content versions, with checksums and without.             *)
(***************************************************************************)
EXTENDS TdePageIO, FiniteSetTheorems, WellFoundedInduction, TLAPS

Buffers == [img : Image, dirty : BOOLEAN, valid : BOOLEAN]
Transfers == [op : {"flush", "read"}, page : Pages, img : Image]

Settings ==
    /\ conf \in BOOLEAN /\ attached \in BOOLEAN
    /\ tde_enabled \in [Holders -> BOOLEAN]
    /\ usedKeys \subseteq Keys
    /\ outcome \in [Procs -> {"none", "ok", "error"}]

Shape ==
    /\ KeyArray(cache)
    /\ buf \in [Pages -> Buffers] /\ disk \in [Pages -> Image]
    /\ latest \in [Pages -> Versions]
    /\ task \in [Procs -> {Idle} \cup Transfers]

\* A map that did not verify, before its first change.
Zeroed(b, u) == b \in MapPages /\ ~u.dirty /\ u.img = ZeroPage

\* What page b's buffer u, its stored image d and the version v a reader must
\* see have to do with each other.
PageOK(b, u, d, v) ==
    /\ u.dirty => u.valid
    /\ u.valid => \/ u.img.ver = v /\ (v = 0 => u.img.sum = NoSum)
                  \/ Zeroed(b, u)
    /\ u.valid => (Checksums => u.img.mask = {})
    /\ ~u.dirty => d.ver = v
    /\ Checksums => /\ d.mask = {} \/ \E k \in Keys : d.mask = {k}
                    /\ d.ver = 0 => d.sum = NoSum
                    /\ d.ver # 0 => d.sum = [ver |-> d.ver, mask |-> {}]

\* A transfer between its lookups works on what is still there.
TaskOK(t) ==
    /\ t.op = "flush" => /\ buf[t.page].valid /\ buf[t.page].dirty
                         /\ t.img = WithChecksum(buf[t.page].img)
    /\ t.op = "read" => ~buf[t.page].valid /\ t.img = disk[t.page]

PagesOK == \A b \in Pages : PageOK(b, buf[b], disk[b], latest[b])
TasksOK == \A p \in Procs : TaskOK(task[p])
Exclusive ==
    \A p, q \in Procs :
        p # q /\ task[p] # Idle /\ task[q] # Idle => task[p].page # task[q].page

Inv == Settings /\ Shape /\ PagesOK /\ TasksOK /\ Exclusive

-----------------------------------------------------------------------------
\* The scans of the TDEK array, for an array of any size in any state.

\* A scan of slots from the lowest index finds a member of any nonempty set
\* of slots, and no member precedes it.
LEMMA FirstInSet ==
    ASSUME NEW S, S \subseteq Nat, S # {}
    PROVE  First(S) \in S /\ \A j \in S : First(S) <= j
<1> DEFINE segs == {0 .. x : x \in S}
<1>1. segs \subseteq FiniteSubsetsOf(Nat)
  <2>1. \A x \in Nat : IsFiniteSet(0 .. x)
    BY FS_Interval
  <2> QED BY <2>1 DEF FiniteSubsetsOf
<1>2. segs # {}
  BY Zenon
<1>3. PICK g \in segs : \A h \in segs : ~(<<h, g>> \in StrictSubsetOrdering(Nat))
  BY <1>1, <1>2, FS_StrictSubsetOrderingWellFounded, WFMin, Zenon
<1>4. PICK m \in S : g = 0 .. m
  OBVIOUS
<1>5. ASSUME NEW y \in S, y < m PROVE FALSE
  <2>1. 0 .. y \in segs
    OBVIOUS
  <2>2. 0 .. y \subseteq 0 .. m /\ m \in 0 .. m /\ m \notin 0 .. y
    BY <1>5
  <2>3. 0 .. y \subseteq Nat /\ 0 .. m \subseteq Nat
    OBVIOUS
  <2>4. <<0 .. y, g>> \in StrictSubsetOrdering(Nat)
    BY <1>4, <2>2, <2>3, Zenon DEF StrictSubsetOrdering
  <2> QED BY <1>3, <2>1, <2>4, Zenon
<1>6. \A y \in S : m <= y
  BY <1>5
<1> QED BY <1>6, Zenon DEF First

\* memset in tde_keycache_shmem_init, explicit_bzero in tde_keycache_invalidate.
LEMMA EmptyArray == KeyArray(EmptyCache)
  BY CacheAssumption DEF KeyArray, EmptyCache, Used, Entry, ZeroEntry

\* tde_keycache_lookup answers with a stored key or with a miss.
LEMMA LookupAnswers ==
    ASSUME NEW c, KeyArray(c), NEW s, LookupIn(c, s) # Miss
    PROVE  \E k \in Keys : LookupIn(c, s) = Hit(k)
<1> DEFINE hits == HitSlots(c, s)
<1>1. hits \subseteq Used(c) /\ Used(c) \subseteq Nat
  BY DEF HitSlots, KeyArray, Used
<1>2. hits # {}
  BY DEF LookupIn
<1>3. c.entries[First(hits)].key \in Keys
  BY <1>1, <1>2, FirstInSet, Zenon DEF KeyArray
<1> QED BY <1>2, <1>3 DEF LookupIn

\* tde_keycache_insert stays in the array, which holds real keys afterwards.
LEMMA InsertKeepsArray ==
    ASSUME NEW c, KeyArray(c), NEW e \in Insertable,
           NEW i, i = TargetSlot(c, e), i # 0
    PROVE  KeyArray(InsertAt(c, i, e))
<1>1. c.num_entries \in 0 .. MaxCachedKeys /\ MaxCachedKeys \in Nat
  BY CacheAssumption DEF KeyArray
<1>2. Used(c) \subseteq Slots /\ Used(c) \subseteq Nat
  BY <1>1 DEF Used, Slots
<1>3. i \in Slots /\ i <= c.num_entries + 1
  <2>1. CASE i \in Used(c)
    BY <2>1, <1>1, <1>2 DEF Used
  <2>2. CASE i = c.num_entries + 1 /\ c.num_entries < MaxCachedKeys
    BY <2>2, <1>1 DEF Slots
  <2>3. \A S \in {OwnSlots(c, e.spc_oid), InactiveSlots(c)} : S # {} => First(S) \in Used(c)
    <3>1. OwnSlots(c, e.spc_oid) \subseteq Used(c) /\ InactiveSlots(c) \subseteq Used(c)
      BY DEF OwnSlots, InactiveSlots
    <3> QED BY <1>2, <3>1, FirstInSet, Zenon
  <2> QED BY <2>1, <2>2, <2>3 DEF TargetSlot
<1> DEFINE d == InsertAt(c, i, e)
<1>4. /\ d.num_entries = IF i > c.num_entries THEN i ELSE c.num_entries
      /\ d.entries = [c.entries EXCEPT ![i] = e]
  BY DEF InsertAt
<1>5. e \in Entry /\ e.key \in Keys /\ c.entries \in [Slots -> Entry]
  BY DEF Insertable, Entry, KeyArray
<1>6. d \in [num_entries : 0 .. MaxCachedKeys, entries : [Slots -> Entry]]
  <2>1. d.num_entries \in 0 .. MaxCachedKeys BY <1>1, <1>3, <1>4 DEF Slots
  <2>2. d.entries \in [Slots -> Entry] BY <1>4, <1>5, Zenon
  <2> QED BY <2>1, <2>2, Zenon DEF InsertAt
<1>7. Used(d) \subseteq Used(c) \cup {i} /\ Used(d) \subseteq Slots
  BY <1>1, <1>3, <1>4 DEF Used, Slots
<1>8. \A j \in Used(d) : d.entries[j].key \in Keys
  BY <1>3, <1>4, <1>5, <1>7, Zenon DEF KeyArray
<1> QED BY <1>6, <1>8 DEF KeyArray

-----------------------------------------------------------------------------
\* PageSetChecksumCopy and AES-CTR, on images.
LEMMA ChecksumFacts ==
    ASSUME NEW i \in Image
    PROVE  /\ WithChecksum(i) \in Image
           /\ WithChecksum(i).ver = i.ver /\ WithChecksum(i).mask = i.mask
           /\ i.ver = 0 => WithChecksum(i).sum = i.sum
           /\ Checksums /\ i.ver # 0 =>
                WithChecksum(i).sum = [ver |-> i.ver, mask |-> i.mask]
  BY DEF WithChecksum, PageIsNew, Image, SumOf

\* AES-CTR with a key changes the payload and leaves the header alone.
LEMMA CryptFacts ==
    ASSUME NEW i \in Image, NEW k \in Keys
    PROVE  /\ Crypt(i, k) \in Image
           /\ Crypt(i, k).ver = i.ver /\ Crypt(i, k).sum = i.sum
           /\ Crypt(i, k).mask # i.mask
           /\ i.mask = {} => Crypt(i, k).mask = {k}
  BY DEF Crypt, Image

\* An all-zero page, an unused buffer and an idle process.
LEMMA ZeroFacts ==
    /\ ZeroPage \in Image /\ ZeroPage.ver = 0 /\ ZeroPage.mask = {} /\ ZeroPage.sum = NoSum
    /\ NoBuffer \in Buffers /\ ~NoBuffer.dirty /\ ~NoBuffer.valid
    /\ Idle.op = "idle" /\ Idle \notin Transfers
    /\ \A t \in Transfers : t.op # "idle"
  BY PageAssumption DEF ZeroPage, NoBuffer, Image, Versions, Buffers, Idle, Transfers

\* A flush of a dirty buffer, in plain text and encrypted.
LEMMA FlushedPage ==
    ASSUME NEW b \in Pages, NEW u \in Buffers, NEW d \in Image, NEW v \in Versions,
           PageOK(b, u, d, v), u.valid, u.dirty,
           NEW w \in Buffers, w.img = u.img, w.valid, ~w.dirty,
           NEW e, \/ e = WithChecksum(u.img)
                  \/ \E k \in Keys : e = Crypt(WithChecksum(u.img), k)
    PROVE  e \in Image /\ PageOK(b, w, e, v)
  <1> DEFINE i == WithChecksum(u.img)
  <1>1. u.img \in Image BY DEF Buffers
  <1>2. /\ i \in Image /\ i.ver = v /\ (v = 0 => i.sum = NoSum)
        /\ Checksums => i.mask = {}
        /\ Checksums /\ v # 0 => i.sum = [ver |-> v, mask |-> {}]
    BY <1>1, ChecksumFacts, Zenon DEF PageOK, Zeroed
  <1> HIDE DEF i
  <1>3. /\ w.img.ver = v /\ (v = 0 => w.img.sum = NoSum)
        /\ Checksums => w.img.mask = {}
    BY Zenon DEF PageOK, Zeroed
  <1>4. CASE e = i
    BY <1>2, <1>3, <1>4, Zenon DEF PageOK
  <1>5. CASE \E k \in Keys : e = Crypt(i, k)
    <2>1. PICK k \in Keys : e = Crypt(i, k) BY <1>5
    <2>2. /\ e \in Image /\ e.ver = v /\ e.sum = i.sum
          /\ Checksums => e.mask = {k}
      BY <1>2, <2>1, CryptFacts, Zenon
    <2> QED BY <1>2, <1>3, <2>2, Zenon DEF PageOK
  <1> QED BY <1>4, <1>5 DEF i

\* A page that is verified after a read, decrypted or not.
LEMMA ReadPage ==
    ASSUME NEW b \in Pages, NEW u \in Buffers, NEW d \in Image, NEW v \in Versions,
           PageOK(b, u, d, v), ~u.valid,
           NEW e, e = d \/ \E k \in Keys : e = Crypt(d, k), PageIsVerified(e)
    PROVE  Loaded(e, FALSE) \in Buffers /\ PageOK(b, Loaded(e, FALSE), d, v)
  <1>1. ~u.dirty /\ d.ver = v
    BY DEF PageOK, Buffers
  <1>2. e \in Image /\ e.ver = v /\ e.sum = d.sum
    BY <1>1, CryptFacts
  <1>3. (v = 0 => e.sum = NoSum) /\ (Checksums => e.mask = {})
    <2>1. CASE v = 0
      BY <1>2, <2>1, ZeroFacts DEF PageIsVerified, PageIsNew
    <2>2. CASE v # 0 /\ Checksums
      <3>1. e.sum = [ver |-> e.ver, mask |-> e.mask]
        BY <1>2, <2>2, ZeroFacts DEF PageIsVerified, PageIsNew, SumOf
      <3>2. e.sum = [ver |-> v, mask |-> {}]
        BY <1>1, <1>2, <2>2 DEF PageOK
      <3> QED BY <2>2, <3>1, <3>2
    <2> QED BY <2>1, <2>2
  <1>4. /\ Loaded(e, FALSE) \in Buffers /\ Loaded(e, FALSE).img = e
        /\ Loaded(e, FALSE).dirty = FALSE /\ Loaded(e, FALSE).valid = TRUE
    BY <1>2, Zenon DEF Loaded, Buffers
  <1> HIDE DEF Loaded
  <1> QED BY <1>1, <1>2, <1>3, <1>4, Zenon DEF PageOK

\* A map that is not verified after a read.
LEMMA ZeroedPage ==
    ASSUME NEW b \in MapPages, NEW u \in Buffers, NEW d \in Image, NEW v \in Versions,
           PageOK(b, u, d, v), ~u.valid
    PROVE  Loaded(ZeroPage, FALSE) \in Buffers /\ PageOK(b, Loaded(ZeroPage, FALSE), d, v)
  <1> DEFINE w == Loaded(ZeroPage, FALSE)
  <1>1. ~u.dirty
    BY Zenon DEF PageOK, Buffers
  <1>2. w \in Buffers /\ w.img = ZeroPage /\ w.dirty = FALSE /\ w.valid = TRUE
    BY ZeroFacts, Zenon DEF Loaded, Buffers
  <1> HIDE DEF w
  <1>3. PageOK(b, w, d, v)
    BY <1>1, <1>2, ZeroFacts, Zenon DEF PageOK, Zeroed
  <1> QED BY <1>2, <1>3 DEF w

-----------------------------------------------------------------------------
\* A step that changes one page, which no transfer of another process is at.
LEMMA OnePage ==
    ASSUME Inv, NEW b \in Pages,
           \A c \in Pages \ {b} :
               buf'[c] = buf[c] /\ disk'[c] = disk[c] /\ latest'[c] = latest[c],
           PageOK(b, buf'[b], disk'[b], latest'[b]),
           \A q \in Procs : task'[q] = Idle \/ (task'[q] = task[q] /\ task[q].page # b)
    PROVE  PagesOK' /\ TasksOK' /\ Exclusive'
  <1>1. PagesOK'
    BY DEF Inv, PagesOK
  <1>2. TasksOK'
    <2> SUFFICES ASSUME NEW q \in Procs PROVE TaskOK(task[q])'
      BY Zenon DEF TasksOK
    <2>1. CASE task'[q] = Idle
      BY <2>1, ZeroFacts, Zenon DEF TaskOK
    <2>2. CASE task'[q] # Idle
      <3>1. task'[q] = task[q] /\ task[q].page \in Pages \ {b}
        BY <2>2, Zenon DEF Inv, Shape, Transfers
      <3> QED BY <3>1, SMTT(30), Z3T(30) DEF Inv, TasksOK, TaskOK
    <2> QED BY <2>1, <2>2, Zenon
  <1>3. Exclusive'
    BY DEF Inv, Exclusive
  <1> QED BY <1>1, <1>2, <1>3, Zenon

\* A step that changes no page.
LEMMA NoPage ==
    ASSUME Inv, UNCHANGED pageVars,
           \A q \in Procs : task'[q] = Idle \/ task'[q] = task[q]
    PROVE  PagesOK' /\ TasksOK' /\ Exclusive'
  <1>1. PagesOK'
    BY DEF Inv, PagesOK, pageVars
  <1>2. TasksOK'
    <2> SUFFICES ASSUME NEW q \in Procs PROVE TaskOK(task[q])'
      BY DEF TasksOK
    <2>1. CASE task'[q] = Idle
      BY <2>1, ZeroFacts, SMTT(30), Z3T(30) DEF TaskOK
    <2>2. CASE task'[q] # Idle
      BY <2>2, Zenon DEF Inv, TasksOK, TaskOK, pageVars
    <2> QED BY <2>1, <2>2
  <1>3. Exclusive'
    BY DEF Inv, Exclusive
  <1> QED BY <1>1, <1>2, <1>3

\* The first lookup found a key: a transfer is under way.
LEMMA BeginTransfer ==
    ASSUME Inv, UNCHANGED pageVars, NEW p \in Procs, NEW t \in Transfers,
           ~InTransfer(t.page), TaskOK(t), task' = [task EXCEPT ![p] = t]
    PROVE  PagesOK' /\ TasksOK' /\ Exclusive' /\ task' \in [Procs -> {Idle} \cup Transfers]
  <1>1. task'[p] = t /\ \A q \in Procs : q # p => task'[q] = task[q]
    BY DEF Inv, Shape
  <1>2. PagesOK'
    BY SMTT(30), Z3T(30) DEF Inv, PagesOK, pageVars
  <1>3. TasksOK'
    BY <1>1 DEF Inv, TasksOK, TaskOK, pageVars
  <1>4. Exclusive'
    BY <1>1 DEF Inv, Exclusive, InTransfer
  <1>5. task' \in [Procs -> {Idle} \cup Transfers]
    BY DEF Inv, Shape
  <1> QED BY <1>2, <1>3, <1>4, <1>5

\* Without I/O in progress on a page no process is at it.
LEMMA NotInTransfer ==
    ASSUME NEW b, ~InTransfer(b), NEW q \in Procs
    PROVE  task[q] = Idle \/ task[q].page # b
  BY DEF InTransfer

\* A change of a page in the pool preserves the invariant.
LEMMA StepModify ==
    ASSUME Inv, NEW b \in Pages, Modify(b)
    PROVE  Inv'
  <1> DEFINE i == [buf[b].img EXCEPT !.ver = latest[b] + 1]
             u == Loaded(i, TRUE)
  <1>1. /\ buf[b] \in Buffers /\ buf[b].valid /\ disk[b] \in Image
        /\ latest[b] \in Versions /\ latest[b] < MaxVersion
        /\ ~InTransfer(b) /\ PageOK(b, buf[b], disk[b], latest[b])
    BY SMTT(30), Z3T(30) DEF Modify, Inv, Shape, PagesOK
  <1>2. latest[b] + 1 \in Versions /\ latest[b] + 1 # 0
    BY <1>1, PageAssumption DEF Versions
  <1>3. i \in Image /\ i.ver = latest[b] + 1 /\ i.mask = buf[b].img.mask
    BY <1>1, <1>2, Zenon DEF Buffers, Image
  <1> HIDE DEF i
  <1>4. /\ u \in Buffers /\ u.img = i /\ u.dirty /\ u.valid
        /\ PageOK(b, u, disk[b], latest[b] + 1)
    <2>1. u \in Buffers /\ u.img = i /\ u.dirty = TRUE /\ u.valid = TRUE
      BY <1>3 DEF Loaded, Buffers
    <2> HIDE DEF u
    <2>2. ~Zeroed(b, u)
      BY <2>1, Zenon DEF Zeroed
    <2> QED BY <1>1, <1>2, <1>3, <2>1, <2>2, SMTT(30), Z3T(30) DEF PageOK
  <1>5. /\ latest' = [latest EXCEPT ![b] = latest[b] + 1]
        /\ buf' = [buf EXCEPT ![b] = u]
        /\ UNCHANGED <<disk, confVars, keyVars, task, outcome>>
    BY DEF Modify, u, i
  <1> HIDE DEF u
  <1>6. Shape' /\ Settings'
    BY <1>2, <1>4, <1>5, SMTT(30), Z3T(30) DEF Inv, Shape, Settings, confVars, keyVars
  <1>7. PagesOK' /\ TasksOK' /\ Exclusive'
    <2>1. /\ buf'[b] = u /\ disk'[b] = disk[b] /\ latest'[b] = latest[b] + 1
          /\ \A c \in Pages \ {b} :
               buf'[c] = buf[c] /\ disk'[c] = disk[c] /\ latest'[c] = latest[c]
      BY <1>5, SMTT(30), Z3T(30) DEF Inv, Shape
    <2>2. \A q \in Procs : task'[q] = Idle \/ (task'[q] = task[q] /\ task[q].page # b)
      BY <1>1, <1>5, NotInTransfer, SMTT(30), Z3T(30)
    <2> QED BY <1>4, <2>1, <2>2, OnePage, Zenon
  <1> QED BY <1>6, <1>7 DEF Inv

\* A zeroed target buffer of RelationCopyStorageUsingBuffer does too.
LEMMA StepCopyZero ==
    ASSUME Inv, NEW b \in Pages, CopyZeroPage(b)
    PROVE  Inv'
  <1> DEFINE u == Loaded(ZeroPage, TRUE)
  <1>1. /\ buf[b] \in Buffers /\ ~buf[b].valid /\ disk[b] = ZeroPage
        /\ ~InTransfer(b) /\ PageOK(b, buf[b], disk[b], latest[b])
        /\ buf' = [buf EXCEPT ![b] = u]
        /\ UNCHANGED <<disk, latest, confVars, keyVars, task, outcome>>
    BY DEF CopyZeroPage, Inv, Shape, PagesOK
  <1>2. u \in Buffers /\ u.img = ZeroPage /\ u.dirty = TRUE /\ u.valid = TRUE
    BY ZeroFacts, SMTT(30), Z3T(30) DEF Loaded, Buffers
  <1> HIDE DEF u
  <1>3. PageOK(b, u, disk[b], latest[b])
    <2>1. ~buf[b].dirty /\ latest[b] = 0 BY <1>1, ZeroFacts, Zenon DEF PageOK, Buffers
    <2> QED BY <1>1, <1>2, <2>1, ZeroFacts, Zenon DEF PageOK
  <1>4. Shape' /\ Settings'
    BY <1>1, <1>2, Zenon DEF Inv, Shape, Settings, confVars, keyVars
  <1>5. PagesOK' /\ TasksOK' /\ Exclusive'
    <2>1. /\ buf'[b] = u /\ disk'[b] = disk[b] /\ latest'[b] = latest[b]
          /\ \A c \in Pages \ {b} :
               buf'[c] = buf[c] /\ disk'[c] = disk[c] /\ latest'[c] = latest[c]
      BY <1>1, Zenon DEF Inv, Shape
    <2>2. \A q \in Procs : task'[q] = Idle \/ (task'[q] = task[q] /\ task[q].page # b)
      BY <1>1, NotInTransfer, Zenon
    <2> QED BY <1>3, <2>1, <2>2, OnePage, Zenon
  <1> QED BY <1>4, <1>5 DEF Inv

\* A reuse of a clean buffer does too.
LEMMA StepEvict ==
    ASSUME Inv, NEW b \in Pages, Evict(b)
    PROVE  Inv'
  <1>1. /\ ~buf[b].dirty /\ ~InTransfer(b) /\ PageOK(b, buf[b], disk[b], latest[b])
        /\ buf' = [buf EXCEPT ![b] = NoBuffer]
        /\ UNCHANGED <<disk, latest, confVars, keyVars, task, outcome>>
    BY Zenon DEF Evict, Inv, PagesOK
  <1>2. PageOK(b, NoBuffer, disk[b], latest[b])
    BY <1>1, ZeroFacts, Zenon DEF PageOK
  <1>3. Shape' /\ Settings'
    BY <1>1, ZeroFacts, Zenon DEF Inv, Shape, Settings, confVars, keyVars
  <1>4. PagesOK' /\ TasksOK' /\ Exclusive'
    <2>1. /\ buf'[b] = NoBuffer /\ disk'[b] = disk[b] /\ latest'[b] = latest[b]
          /\ \A c \in Pages \ {b} :
               buf'[c] = buf[c] /\ disk'[c] = disk[c] /\ latest'[c] = latest[c]
      BY <1>1, Zenon DEF Inv, Shape
    <2>2. \A q \in Procs : task'[q] = Idle \/ (task'[q] = task[q] /\ task[q].page # b)
      BY <1>1, NotInTransfer, Zenon
    <2> QED BY <1>2, <2>1, <2>2, OnePage, Zenon
  <1> QED BY <1>3, <1>4 DEF Inv

\* A write of smgr_bulk_flush does too.
LEMMA StepBulkWrite ==
    ASSUME Inv, NEW b \in Pages, BulkWrite(b)
    PROVE  Inv'
  <1> DEFINE n == latest[b] + 1
             z == [ZeroPage EXCEPT !.ver = n]
             i == WithChecksum(z)
  <1>1. /\ buf[b] \in Buffers /\ ~buf[b].valid /\ ~InTransfer(b)
        /\ latest[b] \in Versions /\ latest[b] < MaxVersion
        /\ PageOK(b, buf[b], disk[b], latest[b])
        /\ latest' = [latest EXCEPT ![b] = n] /\ disk' = [disk EXCEPT ![b] = i]
        /\ UNCHANGED <<buf, confVars, keyVars, task, outcome>>
    BY DEF BulkWrite, Inv, Shape, PagesOK
  <1>2. n \in Versions /\ n # 0
    BY <1>1, PageAssumption DEF Versions
  <1>3. z \in Image /\ z.ver = n /\ z.mask = {}
    BY <1>2, ZeroFacts, Zenon DEF Image, ZeroPage
  <1>4. i \in Image /\ i.ver = n /\ i.mask = {} /\ (Checksums => i.sum = [ver |-> n, mask |-> {}])
    <2> HIDE DEF z, n
    <2> QED BY <1>2, <1>3, ChecksumFacts, Zenon
  <1> HIDE DEF i, z
  <1>5. PageOK(b, buf[b], i, n)
    BY <1>1, <1>2, <1>4, Zenon DEF PageOK, Buffers
  <1>6. Shape' /\ Settings'
    BY <1>1, <1>2, <1>4, Zenon DEF Inv, Shape, Settings, confVars, keyVars
  <1>7. PagesOK' /\ TasksOK' /\ Exclusive'
    <2>1. /\ buf'[b] = buf[b] /\ disk'[b] = i /\ latest'[b] = n
          /\ \A c \in Pages \ {b} :
               buf'[c] = buf[c] /\ disk'[c] = disk[c] /\ latest'[c] = latest[c]
      BY <1>1, Zenon DEF Inv, Shape
    <2>2. \A q \in Procs : task'[q] = Idle \/ (task'[q] = task[q] /\ task[q].page # b)
      BY <1>1, NotInTransfer, Zenon
    <2> HIDE DEF n
    <2> QED BY <1>5, <2>1, <2>2, OnePage, Zenon
  <1> QED BY <1>6, <1>7 DEF Inv

-----------------------------------------------------------------------------
\* The write of a dirty page, plain or encrypted, by a process that leaves no
\* transfer of the page behind.
LEMMA StepStore ==
    ASSUME Inv, NEW b \in Pages, buf[b].valid, buf[b].dirty, NEW e,
           \/ e = WithChecksum(buf[b].img)
           \/ \E k \in Keys : e = Crypt(WithChecksum(buf[b].img), k),
           Store(b, e),
           \A q \in Procs : task'[q] = Idle \/ (task'[q] = task[q] /\ task[q].page # b)
    PROVE  /\ PagesOK' /\ TasksOK' /\ Exclusive'
           /\ buf' \in [Pages -> Buffers] /\ disk' \in [Pages -> Image] /\ latest' = latest
  <1> DEFINE w == [buf[b] EXCEPT !.dirty = FALSE]
  <1>1. /\ buf[b] \in Buffers /\ disk[b] \in Image /\ latest[b] \in Versions
        /\ PageOK(b, buf[b], disk[b], latest[b])
    BY DEF Inv, Shape, PagesOK
  <1>2. /\ disk' = [disk EXCEPT ![b] = e] /\ buf' = [buf EXCEPT ![b] = w]
        /\ latest' = latest
    BY DEF Store
  <1>3. w \in Buffers /\ w.img = buf[b].img /\ w.valid /\ ~w.dirty
    BY <1>1, Zenon DEF Buffers
  <1> HIDE DEF w
  <1>4. e \in Image /\ PageOK(b, w, e, latest[b])
    BY <1>1, <1>3, FlushedPage, Zenon
  <1>5. /\ buf'[b] = w /\ disk'[b] = e /\ latest'[b] = latest[b]
        /\ \A c \in Pages \ {b} :
             buf'[c] = buf[c] /\ disk'[c] = disk[c] /\ latest'[c] = latest[c]
    BY <1>2, Zenon DEF Inv, Shape
  <1>6. PagesOK' /\ TasksOK' /\ Exclusive'
    BY <1>4, <1>5, OnePage, Zenon
  <1>7. buf' \in [Pages -> Buffers] /\ disk' \in [Pages -> Image]
    BY <1>2, <1>3, <1>4 DEF Inv, Shape
  <1> QED BY <1>2, <1>6, <1>7

\* The end of a read, by a process that leaves no transfer of the page behind.
LEMMA StepFinishRead ==
    ASSUME Inv, NEW p \in Procs, NEW b \in Pages, ~buf[b].valid, NEW e,
           e = disk[b] \/ \E k \in Keys : e = Crypt(disk[b], k),
           FinishRead(p, b, e),
           \A q \in Procs : task'[q] = Idle \/ (task'[q] = task[q] /\ task[q].page # b)
    PROVE  /\ PagesOK' /\ TasksOK' /\ Exclusive'
           /\ buf' \in [Pages -> Buffers] /\ UNCHANGED <<disk, latest>>
           /\ outcome' \in [Procs -> {"none", "ok", "error"}]
  <1>1. /\ buf[b] \in Buffers /\ disk[b] \in Image /\ latest[b] \in Versions
        /\ PageOK(b, buf[b], disk[b], latest[b])
    BY DEF Inv, Shape, PagesOK
  <1>2. UNCHANGED <<disk, latest>> /\ outcome' \in [Procs -> {"none", "ok", "error"}]
    BY Zenon DEF FinishRead, Succeed, Fail, Inv, Settings
  <1>3. CASE PageIsVerified(e) /\ buf' = [buf EXCEPT ![b] = Loaded(e, FALSE)]
    <2>1. Loaded(e, FALSE) \in Buffers /\ PageOK(b, Loaded(e, FALSE), disk[b], latest[b])
      BY <1>1, <1>3, ReadPage, Zenon
    <2>2. /\ buf'[b] = Loaded(e, FALSE) /\ disk'[b] = disk[b] /\ latest'[b] = latest[b]
          /\ \A c \in Pages \ {b} :
               buf'[c] = buf[c] /\ disk'[c] = disk[c] /\ latest'[c] = latest[c]
      BY <1>2, <1>3 DEF Inv, Shape
    <2>3. PagesOK' /\ TasksOK' /\ Exclusive'
      BY <2>1, <2>2, OnePage, Zenon
    <2>4. buf' \in [Pages -> Buffers]
      BY <1>3, <2>1, Zenon DEF Inv, Shape
    <2> QED BY <1>2, <2>3, <2>4, Zenon
  <1>4. CASE b \in MapPages /\ buf' = [buf EXCEPT ![b] = Loaded(ZeroPage, FALSE)]
    <2> DEFINE w == Loaded(ZeroPage, FALSE)
    <2>1. w \in Buffers /\ PageOK(b, w, disk[b], latest[b])
      BY <1>1, <1>4, ZeroedPage, Zenon
    <2> HIDE DEF w
    <2>2. buf' = [buf EXCEPT ![b] = w]
      BY <1>4 DEF w
    <2>3. /\ buf'[b] = w /\ disk'[b] = disk[b] /\ latest'[b] = latest[b]
          /\ \A c \in Pages \ {b} :
               buf'[c] = buf[c] /\ disk'[c] = disk[c] /\ latest'[c] = latest[c]
      BY <1>2, <2>2, Zenon DEF Inv, Shape
    <2>4. PagesOK' /\ TasksOK' /\ Exclusive'
      BY <2>1, <2>3, OnePage, Zenon
    <2>5. buf' \in [Pages -> Buffers]
      BY <2>1, <2>2, Zenon DEF Inv, Shape
    <2> QED BY <1>2, <2>4, <2>5, Zenon
  <1>5. CASE buf' = buf
    <2>1. PagesOK' /\ TasksOK' /\ Exclusive'
      BY <1>2, <1>5, NoPage, SMTT(30), Z3T(30) DEF pageVars
    <2> QED BY <1>2, <1>5, <2>1, SMTT(30), Z3T(30) DEF Inv, Shape
  <1> QED BY <1>3, <1>4, <1>5, Zenon DEF FinishRead

\* FlushBuffer up to its first lookup preserves the invariant.
LEMMA StepFlush ==
    ASSUME Inv, NEW p \in Procs, NEW b \in Pages, FlushBuffer(p, b)
    PROVE  Inv'
  <1> DEFINE img == WithChecksum(buf[b].img)
             t == [op |-> "flush", page |-> b, img |-> img]
  <1>1. /\ buf[b] \in Buffers /\ buf[b].valid /\ buf[b].dirty /\ ~InTransfer(b)
        /\ UNCHANGED <<confVars, keyVars>>
    BY DEF FlushBuffer, Inv, Shape
  <1>2. img \in Image
    BY <1>1, ChecksumFacts, Zenon DEF Buffers
  <1>3. \A q \in Procs : task[q] = Idle \/ task[q].page # b
    BY <1>1, NotInTransfer
  <1>4. CASE Store(b, img) /\ Succeed(p) /\ UNCHANGED task
    <2>1. /\ PagesOK' /\ TasksOK' /\ Exclusive'
          /\ buf' \in [Pages -> Buffers] /\ disk' \in [Pages -> Image] /\ latest' = latest
      <3>1. \A q \in Procs : task'[q] = Idle \/ (task'[q] = task[q] /\ task[q].page # b)
        BY <1>3, <1>4, Zenon
      <3> QED BY <1>1, <1>4, <3>1, StepStore, Zenon
    <2>2. Settings' /\ Shape'
      BY <1>1, <1>4, <2>1, Zenon DEF Inv, Shape, Settings, confVars, keyVars, Succeed
    <2> QED BY <2>1, <2>2, SMTT(30), Z3T(30) DEF Inv
  <1>5. CASE Fail(p) /\ UNCHANGED <<pageVars, task>>
    <2>1. PagesOK' /\ TasksOK' /\ Exclusive'
      BY <1>5, NoPage, Zenon
    <2>2. Settings' /\ Shape'
      BY <1>1, <1>5, Zenon DEF Inv, Shape, Settings, confVars, keyVars, pageVars, Fail
    <2> QED BY <2>1, <2>2, Zenon DEF Inv
  <1>6. CASE task' = [task EXCEPT ![p] = t] /\ UNCHANGED <<pageVars, outcome>>
    <2>1. t \in Transfers /\ t.page = b /\ t.op = "flush" /\ t.img = img
      BY <1>2, Zenon DEF Transfers
    <2>2. TaskOK(t)
      BY <1>1, <2>1, Zenon DEF TaskOK
    <2>3. PagesOK' /\ TasksOK' /\ Exclusive' /\ task' \in [Procs -> {Idle} \cup Transfers]
      <3> HIDE DEF t
      <3> QED BY <1>1, <1>6, <2>1, <2>2, BeginTransfer, Zenon
    <2>4. Settings' /\ Shape'
      BY <1>1, <1>6, <2>3, Zenon DEF Inv, Shape, Settings, confVars, keyVars, pageVars
    <2> QED BY <2>3, <2>4, Zenon DEF Inv
  <1> QED BY <1>4, <1>5, <1>6, SMTT(30), Z3T(30) DEF FlushBuffer

\* WaitReadBuffers up to its first lookup preserves the invariant.
LEMMA StepRead ==
    ASSUME Inv, NEW p \in Procs, NEW b \in Pages, ReadBuffer(p, b)
    PROVE  Inv'
  <1> DEFINE t == [op |-> "read", page |-> b, img |-> disk[b]]
  <1>1. /\ buf[b] \in Buffers /\ ~buf[b].valid /\ ~InTransfer(b) /\ disk[b] \in Image
        /\ UNCHANGED <<confVars, keyVars>>
    BY Zenon DEF ReadBuffer, Inv, Shape
  <1>2. \A q \in Procs : task[q] = Idle \/ task[q].page # b
    BY <1>1, NotInTransfer, Zenon
  <1>3. CASE FinishRead(p, b, disk[b]) /\ UNCHANGED task
    <2>1. /\ PagesOK' /\ TasksOK' /\ Exclusive'
          /\ buf' \in [Pages -> Buffers] /\ UNCHANGED <<disk, latest>>
          /\ outcome' \in [Procs -> {"none", "ok", "error"}]
      <3>1. \A q \in Procs : task'[q] = Idle \/ (task'[q] = task[q] /\ task[q].page # b)
        BY <1>2, <1>3, Zenon
      <3> QED BY <1>1, <1>3, <3>1, StepFinishRead, Zenon
    <2>2. Settings' /\ Shape'
      BY <1>1, <1>3, <2>1, Zenon DEF Inv, Shape, Settings, confVars, keyVars
    <2> QED BY <2>1, <2>2, Zenon DEF Inv
  <1>4. CASE Fail(p) /\ UNCHANGED <<pageVars, task>>
    <2>1. PagesOK' /\ TasksOK' /\ Exclusive'
      BY <1>4, NoPage
    <2>2. Settings' /\ Shape'
      BY <1>1, <1>4, Zenon DEF Inv, Shape, Settings, confVars, keyVars, pageVars, Fail
    <2> QED BY <2>1, <2>2 DEF Inv
  <1>5. CASE task' = [task EXCEPT ![p] = t] /\ UNCHANGED <<pageVars, outcome>>
    <2>1. t \in Transfers /\ t.page = b /\ t.op = "read" /\ t.img = disk[b]
      BY <1>1, Zenon DEF Transfers
    <2>2. TaskOK(t)
      BY <1>1, <2>1, Zenon DEF TaskOK
    <2>3. PagesOK' /\ TasksOK' /\ Exclusive' /\ task' \in [Procs -> {Idle} \cup Transfers]
      <3> HIDE DEF t
      <3> QED BY <1>1, <1>5, <2>1, <2>2, BeginTransfer, Zenon
    <2>4. Settings' /\ Shape'
      BY <1>1, <1>5, <2>3, Zenon DEF Inv, Shape, Settings, confVars, keyVars, pageVars
    <2> QED BY <2>3, <2>4 DEF Inv
  <1> QED BY <1>3, <1>4, <1>5, Zenon DEF ReadBuffer

\* A page that redo brought to one of the versions a crash may leave of it.
LEMMA RebuiltPage ==
    ASSUME NEW b \in Pages, buf[b] \in Buffers, disk[b] \in Image, latest[b] \in Versions,
           PageOK(b, buf[b], disk[b], latest[b]),
           NEW v \in Versions, v \in Recovered(b)
    PROVE  Rebuilt(b, v) \in Buffers /\ PageOK(b, Rebuilt(b, v), disk[b], v)
  <1> DEFINE i == [buf[b].img EXCEPT !.ver = v]
             w == Loaded(i, TRUE)
  <1>1. CASE ~buf[b].dirty
    <2>1. v = latest[b] /\ Rebuilt(b, v) = NoBuffer
      BY <1>1, Zenon DEF Recovered, Rebuilt
    <2> QED BY <1>1, <2>1, ZeroFacts, Zenon DEF PageOK
  <1>2. CASE buf[b].dirty /\ v # latest[b] /\ v = disk[b].ver
    <2>1. Rebuilt(b, v) = NoBuffer
      BY <1>2, Zenon DEF Rebuilt
    <2> QED BY <1>2, <2>1, ZeroFacts, Zenon DEF PageOK
  <1>3. CASE buf[b].dirty /\ (v = latest[b] \/ v # disk[b].ver)
    <2>1. Rebuilt(b, v) = w
      BY <1>3, Zenon DEF Rebuilt
    <2>2. /\ i \in Image /\ i.ver = v /\ i.sum = buf[b].img.sum
          /\ i.mask = buf[b].img.mask
      BY Zenon DEF Buffers, Image
    <2>3. w \in Buffers /\ w.img = i /\ w.dirty = TRUE /\ w.valid = TRUE
      <3> HIDE DEF i
      <3> QED BY <2>2, Zenon DEF Loaded, Buffers
    <2>4. v = 0 => v = latest[b]
      <3> SUFFICES ASSUME v = 0, v # latest[b] PROVE FALSE
        OBVIOUS
      <3>1. v \in disk[b].ver .. latest[b] /\ v # disk[b].ver
        BY <1>3, Zenon DEF Recovered
      <3>2. disk[b].ver \in Nat
        BY PageAssumption DEF Image, Versions
      <3> QED BY <3>1, <3>2
    <2>5. buf[b].valid /\ (latest[b] = 0 => buf[b].img.sum = NoSum)
      BY <1>3, Zenon DEF PageOK, Zeroed
    <2> HIDE DEF i, w
    <2>6. PageOK(b, w, disk[b], v)
      BY <2>2, <2>3, <2>4, <2>5, Zenon DEF PageOK
    <2> QED BY <2>1, <2>3, <2>6, Zenon
  <1> QED BY <1>1, <1>2, <1>3, Zenon

\* A re-creation of shared memory preserves the invariant.
LEMMA StepReinit ==
    ASSUME Inv, NEW on \in BOOLEAN, Reinit(on)
    PROVE  Inv'
  <1>1. \A q \in Procs : task'[q] = Idle
    BY Zenon DEF Reinit
  <1>2. PICK ver \in [Pages -> Versions] :
          /\ \A b \in Pages : ver[b] \in Recovered(b)
          /\ buf' = [b \in Pages |-> Rebuilt(b, ver[b])]
          /\ latest' = ver /\ disk' = disk
    BY Zenon DEF Reinit
  <1>3. \A b \in Pages : /\ buf'[b] \in Buffers
                         /\ PageOK(b, buf'[b], disk'[b], latest'[b])
    <2> TAKE b \in Pages
    <2>1. /\ buf[b] \in Buffers /\ PageOK(b, buf[b], disk[b], latest[b])
          /\ disk[b] \in Image /\ latest[b] \in Versions
      BY Zenon DEF Inv, Shape, PagesOK
    <2>2. /\ buf'[b] = Rebuilt(b, ver[b]) /\ disk'[b] = disk[b] /\ latest'[b] = ver[b]
          /\ ver[b] \in Recovered(b) /\ ver[b] \in Versions
      BY <1>2, Zenon
    <2>3. Rebuilt(b, ver[b]) \in Buffers /\ PageOK(b, Rebuilt(b, ver[b]), disk[b], ver[b])
      BY <2>1, <2>2, RebuiltPage, Zenon
    <2> QED BY <2>2, <2>3, Zenon
  <1>4. PagesOK'
    BY <1>3, Zenon DEF PagesOK
  <1>5. TasksOK' /\ Exclusive'
    BY <1>1, ZeroFacts, Zenon DEF TasksOK, TaskOK, Exclusive
  <1>6. Shape'
    <2>1. buf' \in [Pages -> Buffers]
      <3>1. buf' = [b \in Pages |-> buf'[b]] BY <1>2, Zenon
      <3> QED BY <1>3, <3>1, Zenon
    <2>2. KeyArray(cache)' BY EmptyArray, Zenon DEF Reinit
    <2> QED BY <1>2, <2>1, <2>2, Zenon DEF Reinit, Inv, Shape
  <1>7. Settings'
    BY Zenon DEF Reinit, Inv, Settings
  <1> QED BY <1>4, <1>5, <1>6, <1>7, Zenon DEF Inv

\* What a transfer under way knows of its page.
LEMMA UnderWay ==
    ASSUME Inv, NEW p \in Procs, task[p].op \in {"flush", "read"}
    PROVE  /\ task[p] \in Transfers /\ task[p] # Idle /\ task[p].page \in Pages
           /\ TaskOK(task[p])
           /\ \A q \in Procs \ {p} : task[q] = Idle \/ task[q].page # task[p].page
  <1>1. task[p] # Idle /\ task[p] \in {Idle} \cup Transfers
    BY ZeroFacts, Zenon DEF Inv, Shape
  <1> QED BY <1>1, Zenon DEF Inv, TasksOK, Exclusive, Transfers

\* A transfer that ends leaves nobody at its page.
LEMMA Ended ==
    ASSUME Inv, NEW p \in Procs, task[p].op \in {"flush", "read"},
           task' = [task EXCEPT ![p] = Idle]
    PROVE  /\ task' \in [Procs -> {Idle} \cup Transfers]
           /\ \A q \in Procs : \/ task'[q] = Idle
                               \/ task'[q] = task[q] /\ task[q].page # task[p].page
  BY UnderWay, Zenon DEF Inv, Shape

\* tde_encrypt_page, with a hit or a PANIC at the second lookup.
LEMMA StepEncrypt ==
    ASSUME Inv, NEW p \in Procs, EncryptPage(p)
    PROVE  Inv'
  <1> DEFINE b == task[p].page
             r == LookupIn(cache, SpaceOf[b])
  <1>1. task[p].op = "flush"
    BY Zenon DEF EncryptPage
  <1>2. b \in Pages /\ buf[b].valid /\ buf[b].dirty /\ task[p].img = WithChecksum(buf[b].img)
    BY <1>1, UnderWay, Zenon DEF TaskOK
  <1>3. CASE /\ r # Miss /\ Store(b, Crypt(task[p].img, r.key))
             /\ task' = [task EXCEPT ![p] = Idle]
             /\ Succeed(p) /\ UNCHANGED <<confVars, keyVars>>
    <2>1. PICK k \in Keys : r = Hit(k)
      BY <1>3, LookupAnswers, Zenon DEF Inv, Shape
    <2>2. r.key = k
      BY <2>1, SMTT(30), Z3T(30) DEF Hit
    <2>3. /\ task' \in [Procs -> {Idle} \cup Transfers]
          /\ \A q \in Procs : task'[q] = Idle \/ (task'[q] = task[q] /\ task[q].page # b)
      BY <1>1, <1>3, Ended, ZenonT(40)
    <2>4. /\ PagesOK' /\ TasksOK' /\ Exclusive'
          /\ buf' \in [Pages -> Buffers] /\ disk' \in [Pages -> Image] /\ latest' = latest
      <3>1. Store(b, Crypt(WithChecksum(buf[b].img), k))
        BY <1>2, <1>3, <2>2, Zenon
      <3> HIDE DEF b
      <3> QED BY <1>2, <2>3, <3>1, StepStore, Zenon
    <2>5. Settings' /\ Shape'
      BY <1>3, <2>3, <2>4, Zenon DEF Inv, Shape, Settings, confVars, keyVars, Succeed
    <2> QED BY <2>4, <2>5, Zenon DEF Inv
  <1>4. CASE Reinit(tde_enabled[Postmaster])
    <2>1. tde_enabled[Postmaster] \in BOOLEAN
      BY DEF Inv, Settings, Holders
    <2> QED BY <1>4, <2>1, StepReinit, Zenon
  <1> QED BY <1>3, <1>4, Zenon DEF EncryptPage

\* tde_decrypt_page, with a hit or a miss at the second lookup.
LEMMA StepDecrypt ==
    ASSUME Inv, NEW p \in Procs, DecryptPage(p)
    PROVE  Inv'
  <1> DEFINE b == task[p].page
             r == LookupIn(cache, SpaceOf[b])
             e == IF r = Miss THEN task[p].img ELSE Crypt(task[p].img, r.key)
  <1>1. /\ task[p].op = "read" /\ FinishRead(p, b, e)
        /\ task' = [task EXCEPT ![p] = Idle] /\ UNCHANGED <<confVars, keyVars>>
    BY Zenon DEF DecryptPage
  <1>2. b \in Pages /\ ~buf[b].valid /\ task[p].img = disk[b]
    BY <1>1, UnderWay, Zenon DEF TaskOK
  <1>3. e = disk[b] \/ \E k \in Keys : e = Crypt(disk[b], k)
    <2>1. CASE r = Miss
      BY <1>2, <2>1, Zenon
    <2>2. CASE r # Miss
      <3>1. PICK k \in Keys : r = Hit(k)
        BY <2>2, LookupAnswers, Zenon DEF Inv, Shape
      <3>2. r.key = k
        BY <3>1 DEF Hit
      <3> QED BY <1>2, <2>2, <3>2, Zenon
    <2> QED BY <2>1, <2>2, Zenon
  <1>4. /\ task' \in [Procs -> {Idle} \cup Transfers]
        /\ \A q \in Procs : task'[q] = Idle \/ (task'[q] = task[q] /\ task[q].page # b)
    BY <1>1, Ended, ZenonT(40)
  <1>5. /\ PagesOK' /\ TasksOK' /\ Exclusive'
        /\ buf' \in [Pages -> Buffers] /\ UNCHANGED <<disk, latest>>
        /\ outcome' \in [Procs -> {"none", "ok", "error"}]
    <2> HIDE DEF b, e
    <2> QED BY <1>1, <1>2, <1>3, <1>4, StepFinishRead, Zenon
  <1>6. Settings' /\ Shape'
    BY <1>1, <1>4, <1>5, Zenon DEF Inv, Shape, Settings, confVars, keyVars
  <1> QED BY <1>5, <1>6, Zenon DEF Inv

\* Steps that change keys or settings only.
LEMMA StepKeys ==
    ASSUME Inv, RotateMasterKey \/ \E s \in Oids : GenerateTablespaceKey(s)
    PROVE  Inv'
  <1>1. UNCHANGED <<attached, confVars, pageVars, task, outcome>>
    BY Zenon DEF RotateMasterKey, GenerateTablespaceKey
  <1>2. PagesOK' /\ TasksOK' /\ Exclusive'
    BY <1>1, NoPage, Zenon
  <1>3. KeyArray(cache') /\ usedKeys' \subseteq Keys
    <2>1. CASE RotateMasterKey
      BY <2>1, EmptyArray, Zenon DEF RotateMasterKey, Inv, Settings
    <2>2. ASSUME NEW s \in Oids, GenerateTablespaceKey(s)
          PROVE  KeyArray(cache') /\ usedKeys' \subseteq Keys
      <3>1. PICK k \in Keys \ usedKeys :
              LET e == [spc_oid |-> s, key |-> k, active |-> TRUE] IN
              /\ TargetSlot(cache, e) # 0
              /\ cache' = InsertAt(cache, TargetSlot(cache, e), e)
              /\ usedKeys' = usedKeys \cup {k}
        BY <2>2, Zenon DEF GenerateTablespaceKey
      <3> DEFINE e == [spc_oid |-> s, key |-> k, active |-> TRUE]
      <3>2. e \in Insertable
        BY Zenon DEF Insertable
      <3>3. /\ TargetSlot(cache, e) # 0
            /\ cache' = InsertAt(cache, TargetSlot(cache, e), e)
        BY <3>1, Zenon
      <3> HIDE DEF e
      <3>4. KeyArray(cache')
        BY <3>2, <3>3, InsertKeepsArray, Zenon DEF Inv, Shape
      <3> QED BY <3>1, <3>4, Zenon DEF Inv, Settings
    <2> QED BY <2>1, <2>2, Zenon
  <1> QED BY <1>1, <1>2, <1>3, Zenon DEF Inv, Settings, Shape, confVars, pageVars

\* Edits, reloads and forks change settings only.
LEMMA StepSettings ==
    ASSUME Inv,
           EditConf \/ (\E p \in Holders : Reload(p)) \/ (\E p \in Procs : Fork(p))
    PROVE  Inv'
  <1>1. UNCHANGED <<keyVars, pageVars, task, outcome>>
    BY Zenon DEF EditConf, Reload, Fork
  <1>2. PagesOK' /\ TasksOK' /\ Exclusive'
    BY <1>1, NoPage, Zenon
  <1>3. conf' \in BOOLEAN /\ tde_enabled' \in [Holders -> BOOLEAN]
    <2>1. CASE EditConf
      BY <2>1, Zenon DEF EditConf, Inv, Settings
    <2>2. CASE \E p \in Holders : Reload(p)
      BY <2>2, Zenon DEF Reload, Inv, Settings
    <2>3. CASE \E p \in Procs : Fork(p)
      BY <2>3 DEF Fork, Inv, Settings, Holders
    <2> QED BY <2>1, <2>2, <2>3, Zenon
  <1> QED BY <1>1, <1>2, <1>3, Zenon DEF Inv, Settings, Shape, keyVars, pageVars

\* A new cluster satisfies the invariant.
LEMMA InvInit == Init => Inv
  <1> SUFFICES ASSUME Init PROVE Inv
    BY Zenon
  <1>1. Settings
    BY Zenon DEF Init, Settings
  <1>2. Shape
    BY EmptyArray, ZeroFacts, PageAssumption, SMTT(30), Z3T(30) DEF Init, Shape, Versions
  <1>3. PagesOK
    BY ZeroFacts, Zenon DEF Init, PagesOK, PageOK
  <1>4. TasksOK /\ Exclusive
    BY ZeroFacts, Zenon DEF Init, TasksOK, TaskOK, Exclusive
  <1> QED BY <1>1, <1>2, <1>3, <1>4, Zenon DEF Inv

\* Every step preserves the invariant.
LEMMA InvStep == Inv /\ [Next]_vars => Inv'
  <1> SUFFICES ASSUME Inv, [Next]_vars PROVE Inv'
    OBVIOUS
  <1>1. ASSUME NEW b \in Pages, Modify(b) PROVE Inv'
    BY <1>1, StepModify
  <1>2. ASSUME NEW b \in Pages, Evict(b) PROVE Inv'
    BY <1>2, StepEvict, SMTT(30), Z3T(30)
  <1>3. ASSUME NEW b \in Pages, CopyZeroPage(b) PROVE Inv'
    BY <1>3, StepCopyZero
  <1>4. ASSUME NEW b \in Pages, BulkWrite(b) PROVE Inv'
    BY <1>4, StepBulkWrite
  <1>5. ASSUME NEW p \in Procs, NEW b \in Pages, FlushBuffer(p, b) PROVE Inv'
    BY <1>5, StepFlush
  <1>6. ASSUME NEW p \in Procs, NEW b \in Pages, ReadBuffer(p, b) PROVE Inv'
    BY <1>6, StepRead, SMTT(30), Z3T(30)
  <1>7. ASSUME NEW p \in Procs, EncryptPage(p) PROVE Inv'
    BY <1>7, StepEncrypt
  <1>8. ASSUME NEW p \in Procs, DecryptPage(p) PROVE Inv'
    BY <1>8, StepDecrypt
  <1>9. CASE RotateMasterKey \/ \E s \in Oids : GenerateTablespaceKey(s)
    BY <1>9, StepKeys
  <1>10. CASE EditConf \/ (\E p \in Holders : Reload(p)) \/ (\E p \in Procs : Fork(p))
    BY <1>10, StepSettings
  <1>11. CASE ChildCrash \/ Restart
    <2>1. tde_enabled[Postmaster] \in BOOLEAN /\ conf \in BOOLEAN
      BY Zenon DEF Inv, Settings, Holders
    <2> QED BY <1>11, <2>1, StepReinit, SMTT(30), Z3T(30) DEF ChildCrash, Restart
  <1>12. CASE UNCHANGED vars
    <2>1. UNCHANGED <<confVars, keyVars, pageVars, task, outcome>>
      BY <1>12 DEF vars
    <2>2. PagesOK' /\ TasksOK' /\ Exclusive'
      BY <2>1, NoPage, Zenon
    <2> QED BY <2>1, <2>2, Zenon DEF Inv, Settings, Shape, confVars, keyVars, pageVars
  <1> QED BY <1>1, <1>2, <1>3, <1>4, <1>5, <1>6, <1>7, <1>8, <1>9, <1>10, <1>11, <1>12, Zenon
          DEF Next, Traffic

-----------------------------------------------------------------------------
\* The inductive invariant holds throughout.
THEOREM PageInvariant == Spec => []Inv
  BY InvInit, InvStep, PTL DEF Spec

\* The cache, buffers, stored pages and transfers keep their types.
THEOREM PageTypes == Spec => []TypeOK
  <1>1. Inv => TypeOK
    <2> SUFFICES ASSUME Inv PROVE TypeOK
      OBVIOUS
    <2>1. \A b \in Pages : buf[b] \in Buffers /\ disk[b] \in Image
      BY DEF Inv, Shape
    <2>2. buf \in [Pages -> [img : {buf[b].img : b \in Pages}, dirty : BOOLEAN, valid : BOOLEAN]]
      <3>1. \A b \in Pages :
                buf[b] \in [img : {buf[c].img : c \in Pages}, dirty : BOOLEAN, valid : BOOLEAN]
        BY <2>1, Zenon DEF Buffers
      <3> QED BY <3>1 DEF Inv, Shape
    <2>3. \A b \in Pages : buf[b].img \in Image
      BY <2>1, SMTT(30), Z3T(30) DEF Buffers
    <2>4. \A p \in Procs :
             task[p] = Idle \/ (task[p].op \in {"flush", "read"} /\ task[p].page \in Pages)
      <3>1. \A p \in Procs : task[p] = Idle \/ task[p] \in Transfers
        BY DEF Inv, Shape
      <3>2. \A t \in Transfers : t.op \in {"flush", "read"} /\ t.page \in Pages
        BY DEF Transfers
      <3> QED BY <3>1, <3>2, SMTT(30), Z3T(30)
    <2>5. cache \in [num_entries : 0 .. MaxCachedKeys, entries : [Slots -> Entry]]
      BY SMTT(30), Z3T(30) DEF Inv, Shape, KeyArray
    <2> QED BY <2>1, <2>2, <2>3, <2>4, <2>5, Zenon DEF Inv, Settings, Shape, TypeOK
  <1> QED BY <1>1, PageInvariant, PTL

\* With checksums no garbled or outdated page is ever in the buffer pool: what
\* FlushBuffer and WaitReadBuffers do with keys changing under them reaches a
\* reader only as a map page that is empty.
THEOREM PoolIsGuarded == Spec => []ChecksumGuardsPool
  <1>1. Inv => ChecksumGuardsPool
    BY Zenon DEF Inv, PagesOK, PageOK, Zeroed, ChecksumGuardsPool
  <1> QED BY <1>1, PageInvariant, PTL

\* A page whose buffer FlushBuffer marked clean is on disk in its latest version.
THEOREM CleanIsStored == Spec => []CleanMeansStored
  <1>1. Inv => CleanMeansStored
    BY Zenon DEF Inv, PagesOK, PageOK, CleanMeansStored
  <1> QED BY <1>1, PageInvariant, PTL

\* What FlushBuffer and the bulk writer store is under one key at most, and
\* its checksum verifies once that key is taken off again.
THEOREM DiskIsDecryptable == Spec => []DecryptableOnDisk
  <1>1. Inv => DecryptableOnDisk
    <2> SUFFICES ASSUME Inv, Checksums, NEW b \in Pages
                 PROVE  /\ Cardinality(disk[b].mask) <= 1
                        /\ PageIsVerified([disk[b] EXCEPT !.mask = {}])
      BY Zenon DEF DecryptableOnDisk
    <2>1. disk[b] \in Image /\ PageOK(b, buf[b], disk[b], latest[b])
      BY Zenon DEF Inv, Shape, PagesOK
    <2>2. Cardinality(disk[b].mask) <= 1
      <3>1. disk[b].mask = {} \/ \E k \in Keys : disk[b].mask = {k}
        BY <2>1 DEF PageOK
      <3>2. Cardinality({}) = 0 /\ \A k \in Keys : Cardinality({k}) = 1
        BY FS_EmptySet, FS_Singleton, Zenon
      <3>3. CASE disk[b].mask = {}
        BY <3>2, <3>3, SMTT(30), Z3T(30)
      <3>4. ASSUME NEW k \in Keys, disk[b].mask = {k}
            PROVE  Cardinality(disk[b].mask) <= 1
        BY <3>2, <3>4
      <3> QED BY <3>1, <3>3, <3>4, Zenon
    <2> DEFINE e == [disk[b] EXCEPT !.mask = {}]
    <2>3. e.ver = disk[b].ver /\ e.mask = {} /\ e.sum = disk[b].sum
      BY <2>1 DEF Image
    <2>4. PageIsVerified(e)
      <3>1. CASE disk[b].ver = 0
        BY <2>1, <2>3, <3>1 DEF PageIsVerified, ZeroPage, PageOK, Image
      <3>2. CASE disk[b].ver # 0
        <4>1. e.sum = SumOf(e)
          BY <2>1, <2>3, <3>2 DEF PageOK, SumOf
        <4> QED BY <2>3, <3>2, <4>1 DEF PageIsVerified, PageIsNew
      <3> QED BY <3>1, <3>2, Zenon
    <2> QED BY <2>2, <2>4
  <1> QED BY <1>1, PageInvariant, PTL

\* After tde_encrypt_page was chosen for a page, no step writes the page as it
\* was: not the flush itself, whatever became of the key, nor anyone else.
THEOREM HitIsNeverPlaintext == Spec => NoPlaintextAfterHit
  <1> DEFINE A == \A p \in Procs : task[p].op = "flush" =>
                    LET b == task[p].page IN
                    disk'[b] # disk[b] => disk'[b].mask # task[p].img.mask
  <1>1. Inv /\ [Next]_vars => [A]_vars
    <2> SUFFICES ASSUME Inv, Next, NEW p \in Procs, task[p].op = "flush",
                        disk'[task[p].page] # disk[task[p].page]
                 PROVE  disk'[task[p].page].mask # task[p].img.mask
      BY SMTT(30), Z3T(30)
    <2> DEFINE b == task[p].page
    <2>1. /\ b \in Pages /\ task[p] # Idle /\ task[p].img \in Image /\ InTransfer(b)
          /\ \A q \in Procs \ {p} : task[q] = Idle \/ task[q].page # b
      BY UnderWay, SMTT(30), Z3T(30) DEF Transfers, InTransfer
    <2>2. ASSUME NEW c \in Pages, NEW e, c # b, disk' = [disk EXCEPT ![c] = e] PROVE FALSE
      BY <2>1, <2>2, SMTT(30), Z3T(30) DEF Inv, Shape
    <2>3. disk' # disk
      OBVIOUS
    <2>4. ASSUME NEW c \in Pages, BulkWrite(c) PROVE FALSE
      BY <2>1, <2>2, <2>4, SMTT(30), Z3T(30) DEF BulkWrite
    <2>5. ASSUME NEW q \in Procs, NEW c \in Pages, FlushBuffer(q, c) PROVE FALSE
      BY <2>1, <2>2, <2>3, <2>5, SMTT(30), Z3T(30) DEF FlushBuffer, Store, pageVars
    <2>6. ASSUME NEW q \in Procs, EncryptPage(q) PROVE disk'[b].mask # task[p].img.mask
      <3> DEFINE c == task[q].page
                 r == LookupIn(cache, SpaceOf[c])
      <3>1. task[q].op = "flush" /\ c \in Pages /\ task[q] # Idle
        BY <2>6, UnderWay, SMTT(30), Z3T(30) DEF EncryptPage
      <3>2. r # Miss /\ disk' = [disk EXCEPT ![c] = Crypt(task[q].img, r.key)]
        BY <2>3, <2>6, SMTT(30), Z3T(30) DEF EncryptPage, Store, Reinit
      <3>3. q = p
        BY <2>1, <2>2, <3>1, <3>2, Zenon
      <3>4. PICK k \in Keys : r = Hit(k)
        BY <3>2, LookupAnswers, Zenon DEF Inv, Shape
      <3>5. disk'[b] = Crypt(task[p].img, k)
        BY <2>1, <3>2, <3>3, <3>4, SMTT(30), Z3T(30) DEF Hit, Inv, Shape
      <3> QED BY <2>1, <3>5, CryptFacts, SMTT(30), Z3T(30)
    <2>7. (\E q \in Procs : EncryptPage(q)) \/ (\E c \in Pages : BulkWrite(c))
            \/ (\E q \in Procs, c \in Pages : FlushBuffer(q, c))
      BY <2>3, Zenon DEF Next, Traffic, Modify, Evict, ReadBuffer, DecryptPage, FinishRead,
                  GenerateTablespaceKey, CopyZeroPage, RotateMasterKey, EditConf, Reload,
                  Fork, ChildCrash, Restart, Reinit, pageVars
    <2> QED BY <2>4, <2>5, <2>6, <2>7, SMTT(30), Z3T(30)
  <1> QED BY <1>1, PageInvariant, PTL DEF Spec, NoPlaintextAfterHit
=============================================================================
