----------------------- MODULE IOSurfaceManagerProofs -----------------------
(***************************************************************************)
(* Proofs about the surface table and its caches, and about the shares,    *)
(* for any number of surfaces, ids, clients and operations and any size of *)
(* the caches: the memory behind a lock, what a lookup by id answers, whom *)
(* a share may speak for, and the accounts of the table: its types, the    *)
(* sizes of its caches, the surface count and the memory total.            *)
(***************************************************************************)
EXTENDS IOSurfaceManager, FiniteSetTheorems, SequenceTheorems, TLAPS

Surfaces == [id : Ids \cup {0}, fmt : Formats, size : Bytes \cup {0}, locks : Nat,
             refs : 0 .. Wrapped, mem : BOOLEAN, high : BOOLEAN, until : 0 .. MaxCreates]
CacheEntry == [id : Ids, obj : Objects]
PropEntry == [id : Ids, fmt : Formats, valid : BOOLEAN]
ReaderEntry == [pc : {"prefetch", "store", "read", "file", "warm"},
                id : Ids, obj : Objects, fmt : Formats]
ShareEntry(n, r) == [id : Ids, client : Clients, obj : 0 .. n, reg : 0 .. r]

-----------------------------------------------------------------------------
(* The inductive invariant.                                                *)

ObjTypes ==
    /\ obj \in [Objects -> Surfaces] /\ created \in 0 .. MaxCreates
    /\ array \subseteq 1 .. created /\ map \in [Ids -> 0 .. created]
    /\ nextId \in 1 .. MaxId + 1 /\ released \in Seq(Ids)
    /\ misled \in BOOLEAN /\ wild \in BOOLEAN
    /\ gone \subseteq Ids
ReaderTypes ==
    /\ reader \in {NoReader} \cup ReaderEntry
    /\ reader.pc = "prefetch" => reader.id + 1 \in Ids
CacheTypes ==
    /\ cache \in Seq(CacheEntry) /\ props \in Seq(PropEntry)
    /\ ReaderTypes
ShareTypes ==
    /\ registered \in Nat /\ clients \in [Clients -> 0 .. registered]
    /\ shares \in Seq(ShareEntry(created, registered))

\* ref_count is 1 exactly as long as the object is in the array, and that long
\* it has its memory, whichever pointers destructions go through.
LifeInv ==
    \A o \in Objects :
        /\ obj[o].refs = 1 <=> o \in array
        /\ obj[o].mem <=> o \in array
        /\ obj[o].locks > 0 => o \in array

\* The ids: IdsApart, and the object of an id is in the array.
MapInv == ~misled => IdsApart /\ \A i \in Ids : map[i] # 0 => map[i] \in array

\* A cache of pointers, and the pointer an unlocked reader holds.
Coherent(c) == \A k \in DOMAIN c : c[k].id \notin gone => c[k].obj = map[c[k].id]
CacheInv == ~misled => Coherent(cache)
ReaderInv == ~misled => \A j \in Held : j \notin gone => reader.obj = map[j]

\* Two threads that met in the caches left nothing to rely on.
TornInv == torn \in BOOLEAN /\ (torn => misled)

\* A cached descriptor, and the one the reader is about to cache.
Current(i, f) == i \notin changed => map[i] # 0 /\ f = obj[map[i]].fmt
PropInv == ~misled => /\ \A k \in DOMAIN props : Current(props[k].id, props[k].fmt)
                      /\ reader.pc = "file" => Current(reader.id, reader.fmt)

\* The object a share was made for is its id's, or is gone for good.
ShareInv ==
    \A k \in DOMAIN shares :
        /\ shares[k].reg # 0
        /\ ~misled => \/ shares[k].obj \in {0, map[shares[k].id]}
                      \/ ~Exists(shares[k].obj)
        /\ clients[shares[k].client] = 0 \/ clients[shares[k].client] >= shares[k].reg

Inv == /\ ObjTypes /\ CacheTypes /\ ShareTypes /\ LifeInv /\ CountKept
       /\ MapInv /\ CacheInv /\ ReaderInv /\ TornInv /\ PropInv
       /\ RegionWritesMapped /\ ShareInv

-----------------------------------------------------------------------------
(* The sequences and the lookup.                                           *)

\* The sequence d has only entries of c, in any order, and e.
OnlyAdds(c, d, e) == \A k \in DOMAIN d : d[k] = e \/ \E m \in DOMAIN c : d[k] = c[m]

LEMMA AppendAdds ==
    ASSUME NEW S, NEW c \in Seq(S), NEW e \in S
    PROVE  Append(c, e) \in Seq(S) /\ OnlyAdds(c, Append(c, e), e)
<1>1. /\ Append(c, e) \in Seq(S) /\ Len(Append(c, e)) = Len(c) + 1 /\ Len(c) \in Nat
      /\ \A k \in 1 .. Len(c) : Append(c, e)[k] = c[k]
      /\ Append(c, e)[Len(c) + 1] = e
      /\ DOMAIN c = 1 .. Len(c) /\ DOMAIN Append(c, e) = 1 .. Len(c) + 1
  BY AppendProperties, LenProperties
<1>2. ASSUME NEW k \in 1 .. Len(c) + 1 PROVE k \in 1 .. Len(c) \/ k = Len(c) + 1
  BY <1>1
<1> QED BY <1>1, <1>2 DEF OnlyAdds

LEMMA InsertAdds ==
    ASSUME NEW S, NEW c \in Seq(S), NEW e \in S, NEW n, NEW d \in Insert(c, e, n)
    PROVE  d \in Seq(S) /\ OnlyAdds(c, d, e)
<1>1. CASE d = Append(c, e)
  BY <1>1, AppendAdds
<1>2. ASSUME NEW m \in DOMAIN c, d = [c EXCEPT ![m] = e]
      PROVE  d \in Seq(S) /\ OnlyAdds(c, d, e)
  <2>1. m \in 1 .. Len(c) /\ DOMAIN c = 1 .. Len(c) /\ c \in [1 .. Len(c) -> S]
    BY LenProperties
  <2>2. d \in Seq(S)
    BY <1>2, <2>1, ExceptSeq
  <2>3. DOMAIN d = DOMAIN c /\ \A k \in DOMAIN c : d[k] = IF k = m THEN e ELSE c[k]
    BY <1>2
  <2> QED BY <2>2, <2>3 DEF OnlyAdds
<1> QED BY <1>1, <1>2 DEF Insert

LEMMA SeqElem ==
    ASSUME NEW S, NEW c \in Seq(S), NEW k \in DOMAIN c
    PROVE  c[k] \in S
BY LenProperties

LEMMA SeqMono ==
    ASSUME NEW S, NEW R, S \subseteq R, NEW c \in Seq(S)
    PROVE  c \in Seq(R)
<1>1. Len(c) \in Nat /\ c \in [1 .. Len(c) -> S]
  BY LenProperties
<1>2. c \in [1 .. Len(c) -> R]
  BY <1>1
<1> QED BY <1>1, <1>2, SeqDef

\* A finite non-empty set of positions has a first one.
LEMMA MinIn ==
    ASSUME NEW n \in Nat, NEW T \in SUBSET (1 .. n), T # {}
    PROVE  Min(T) \in T
<1> DEFINE R == {p \in Nat \X Nat : p[1] < p[2]}
<1>1. IsWellFoundedOn(R, Nat)
  BY NatLessThanWellFounded, Zenon DEF OpToRel
<1>2. T \subseteq Nat
  OBVIOUS
<1>3. \E x \in T : \A y \in T : ~(<<y, x>> \in R)
  <2> HIDE DEF R
  <2> QED BY <1>1, <1>2, WFMin, Zenon
<1>4. \E x \in T : \A y \in T : x <= y
  <2>1. \A x, y \in Nat : y < x => <<y, x>> \in R
    OBVIOUS
  <2> HIDE DEF R
  <2>2. \A x, y \in Nat : x <= y \/ y < x
    OBVIOUS
  <2> QED BY <1>2, <1>3, <2>1, <2>2, Zenon
<1> QED BY <1>4 DEF Min

LEMMA FirstFound ==
    ASSUME NEW S, NEW c \in Seq(S), NEW i, First(c, i) # 0
    PROVE  First(c, i) \in DOMAIN c /\ c[First(c, i)].id = i
<1> DEFINE at == {k \in DOMAIN c : c[k].id = i}
<1>1. DOMAIN c = 1 .. Len(c) /\ Len(c) \in Nat
  BY LenProperties
<1>2. at # {} /\ First(c, i) = Min(at)
  BY DEF First
<1>3. at \in SUBSET (1 .. Len(c))
  BY <1>1
<1>4. Min(at) \in at
  <2> HIDE DEF at
  <2> QED BY <1>1, <1>2, <1>3, MinIn
<1> QED BY <1>2, <1>4

\* What the dictionary has for an id is an object that exists.
LEMMA MapIn ==
    ASSUME ObjTypes
    PROVE  /\ \A j \in Ids : map[j] \in 0 .. created /\ Exists(map[j])
           /\ \A j \in Ids : map[j] # 0 => map[j] \in Objects
           /\ created \in Nat /\ created <= MaxCreates /\ MaxCreates \in Nat
           /\ 0 .. created \subseteq Objects \cup {0}
<1>1. \A j \in Ids : Exists(map[j])
  BY DEF Exists
<1>2. /\ \A j \in Ids : map[j] \in 0 .. created
      /\ created \in Nat /\ created <= MaxCreates /\ MaxCreates \in Nat
  BY SurfaceAssumption DEF ObjTypes
<1> QED BY ONLY <1>1, <1>2 DEF Objects

\* A pointer used again leads to an object.
LEMMA ReuseIn ==
    ASSUME ObjTypes, NEW p \in Objects, NEW o \in Reuse(p)
    PROVE  o \in Objects
<1>1. obj[p] \in Surfaces
  BY DEF ObjTypes
<1>2. obj[p].until \in Nat /\ created \in Nat /\ created <= MaxCreates /\ MaxCreates \in Nat
  BY <1>1, SurfaceAssumption DEF Surfaces, ObjTypes
<1>3. o = p \/ o \in obj[p].until + 1 .. created
  BY DEF Reuse
<1> QED BY <1>2, <1>3 DEF Objects

\* A hit for an id not gone is the object the dictionary has.
LEMMA HitsOK ==
    ASSUME ObjTypes, NEW i \in Ids, NEW c \in Seq(CacheEntry), NEW o \in Hits(c, i)
    PROVE  o \in Objects /\ (Coherent(c) /\ i \notin gone => o = map[i])
<1> DEFINE f == First(c, i)
<1>1. f # 0 /\ o \in Reuse(c[f].obj)
  BY DEF Hits
<1>2. f \in DOMAIN c /\ c[f].id = i
  BY <1>1, FirstFound
<1> HIDE DEF f
<1>3. c[f] \in CacheEntry
  BY <1>2, SeqElem
<1>4. c[f].obj \in Objects
  BY <1>3 DEF CacheEntry
<1>5. o \in Objects
  BY <1>1, <1>4, ReuseIn
<1>6. ASSUME Coherent(c), i \notin gone PROVE o = map[i]
  <2>1. c[f].obj = map[i]
    BY <1>2, <1>6 DEF Coherent
  <2>2. Exists(c[f].obj)
    BY <2>1, MapIn
  <2> QED BY <1>1, <2>1, <2>2 DEF Reuse
<1> QED BY <1>5, <1>6

\* findSurface(i): what it caches is in the dictionary, and for an id not gone
\* its answer is what the dictionary has.
LEMMA LookupOK ==
    ASSUME ObjTypes, NEW i \in Ids, NEW c \in Seq(CacheEntry), NEW r \in Lookups(c, i)
    PROVE  /\ r.cache \in Seq(CacheEntry) /\ r.obj \in Objects \cup {0}
           /\ Coherent(c) => Coherent(r.cache)
           /\ Coherent(c) /\ i \notin gone => r.obj = map[i]
<1>t. \A j \in Ids : map[j] # 0 => map[j] \in Objects
  BY MapIn
<1>a. ASSUME NEW d \in Seq(CacheEntry), NEW e \in Seq(CacheEntry), NEW j \in Ids,
             OnlyAdds(d, e, [id |-> j, obj |-> map[j]])
      PROVE  Coherent(d) => Coherent(e)
  BY <1>a DEF Coherent, OnlyAdds
<1>e. ASSUME NEW j \in Ids, map[j] # 0 PROVE [id |-> j, obj |-> map[j]] \in CacheEntry
  BY <1>e, <1>t DEF CacheEntry
<1>p. ASSUME NEW d \in Prefetched(c, i)
      PROVE  d \in Seq(CacheEntry) /\ (Coherent(c) => Coherent(d))
  <2>1. CASE d = c
    BY <2>1
  <2>2. CASE i + 1 \in Ids /\ map[i + 1] # 0 /\ d = Append(c, [id |-> i + 1, obj |-> map[i + 1]])
    <3> DEFINE j == i + 1
    <3>1. j \in Ids /\ map[j] # 0 /\ d = Append(c, [id |-> j, obj |-> map[j]])
      BY <2>2
    <3> HIDE DEF j
    <3>2. [id |-> j, obj |-> map[j]] \in CacheEntry
      BY <3>1, <1>e
    <3>3. d \in Seq(CacheEntry) /\ OnlyAdds(c, d, [id |-> j, obj |-> map[j]])
      BY <3>1, <3>2, AppendAdds
    <3> QED BY <3>1, <3>3, <1>a
  <2> QED BY <2>1, <2>2 DEF Prefetched
<1>1. CASE First(c, i) # 0
  <2>1. PICK o \in Hits(c, i) : r = [obj |-> o, cache |-> c]
    BY <1>1 DEF Lookups
  <2> QED BY <2>1, HitsOK
<1>2. CASE First(c, i) = 0 /\ map[i] = 0
  <2>1. PICK d \in Prefetched(c, i) : r = [obj |-> 0, cache |-> d]
    BY <1>2 DEF Lookups
  <2> QED BY <1>2, <1>p, <2>1
<1>3. CASE First(c, i) = 0 /\ map[i] # 0
  <2>1. PICK d \in Prefetched(c, i) :
           \E e \in Insert(d, [id |-> i, obj |-> map[i]], CacheSize) : r = [obj |-> map[i], cache |-> e]
    BY <1>3 DEF Lookups
  <2>2. PICK e \in Insert(d, [id |-> i, obj |-> map[i]], CacheSize) : r = [obj |-> map[i], cache |-> e]
    BY <2>1
  <2>3. d \in Seq(CacheEntry) /\ (Coherent(c) => Coherent(d))
    BY <1>p
  <2>4. e \in Seq(CacheEntry) /\ (Coherent(d) => Coherent(e))
    BY <1>3, <1>a, <1>e, <2>3, InsertAdds
  <2> QED BY <1>3, <1>t, <2>2, <2>3, <2>4
<1> QED BY <1>1, <1>2, <1>3

LEMMA FoundOK ==
    ASSUME Inv, NEW i \in Ids, NEW o, findSurface(i, o)
    PROVE  /\ cache' \in Seq(CacheEntry)
           /\ ~misled => Coherent(cache') /\ (i \notin gone => o = map[i])
<1>1. ObjTypes /\ cache \in Seq(CacheEntry) /\ (~misled => Coherent(cache)) /\ (torn => misled)
  BY DEF Inv, CacheTypes, CacheInv, TornInv
<1>2. CASE torn
  <2>1. cache' = cache
    BY <1>2 DEF findSurface
  <2> QED BY ONLY <1>1, <1>2, <2>1, Zenon
<1>3. CASE ~torn
  <2>1. PICK r \in Lookups(cache, i) : o = r.obj /\ cache' = r.cache
    BY <1>3 DEF findSurface
  <2>2. /\ r.cache \in Seq(CacheEntry)
        /\ Coherent(cache) => Coherent(r.cache)
        /\ Coherent(cache) /\ i \notin gone => r.obj = map[i]
    BY <1>1, LookupOK
  <2> QED BY ONLY <1>1, <2>1, <2>2, Zenon
<1> QED BY <1>2, <1>3

\* Two lookups, one after the other.
LEMMA FoundBoth ==
    ASSUME Inv, NEW i \in Ids, NEW j \in Ids, NEW o, NEW p, findBoth(i, j, o, p)
    PROVE  /\ cache' \in Seq(CacheEntry)
           /\ ~misled => /\ Coherent(cache')
                         /\ i \notin gone => o = map[i]
                         /\ j \notin gone => p = map[j]
<1>1. ObjTypes /\ cache \in Seq(CacheEntry) /\ (~misled => Coherent(cache)) /\ (torn => misled)
  BY DEF Inv, CacheTypes, CacheInv, TornInv
<1>2. CASE torn
  <2>1. cache' = cache
    BY <1>2 DEF findBoth
  <2> QED BY ONLY <1>1, <1>2, <2>1, Zenon
<1>3. CASE ~torn
  <2>1. PICK r \in Lookups(cache, i) : \E q \in Lookups(r.cache, j) :
           o = r.obj /\ p = q.obj /\ cache' = q.cache
    BY <1>3 DEF findBoth
  <2>2. PICK q \in Lookups(r.cache, j) : o = r.obj /\ p = q.obj /\ cache' = q.cache
    BY <2>1
  <2>3. /\ r.cache \in Seq(CacheEntry)
        /\ Coherent(cache) => Coherent(r.cache)
        /\ Coherent(cache) /\ i \notin gone => r.obj = map[i]
    BY <1>1, LookupOK
  <2>4. /\ q.cache \in Seq(CacheEntry)
        /\ Coherent(r.cache) => Coherent(q.cache)
        /\ Coherent(r.cache) /\ j \notin gone => q.obj = map[j]
    BY <1>1, <2>3, LookupOK
  <2> QED BY ONLY <1>1, <2>2, <2>3, <2>4, Zenon
<1> QED BY <1>2, <1>3

-----------------------------------------------------------------------------
(* What a step leaves alone.                                               *)

LEMMA TableFrame ==
    ASSUME Inv, UNCHANGED <<obj, created, array, map, nextId, released, count, misled>>,
           wild' \in BOOLEAN, gone' \subseteq Ids
    PROVE  ObjTypes' /\ LifeInv' /\ CountKept' /\ MapInv'
BY DEF Inv, ObjTypes, LifeInv, CountKept, MapInv, IdsApart

LEMMA ShareFrame ==
    ASSUME Inv, UNCHANGED <<created, array, map, misled, cvars>>
    PROVE  ShareTypes' /\ ShareInv'
BY DEF Inv, ShareTypes, ShareInv, cvars, Exists, ShareEntry

\* What stays current for every id and format does so in the cache.
LEMMA DescFrame ==
    ASSUME Inv, misled => misled', UNCHANGED props, reader' = reader \/ reader'.pc # "file",
           ~misled' => \A i \in Ids, f \in Formats : Current(i, f) => Current(i, f)'
    PROVE  PropInv'
<1> SUFFICES ASSUME ~misled'
             PROVE  /\ \A k \in DOMAIN props : Current(props[k].id, props[k].fmt)'
                    /\ reader'.pc = "file" => Current(reader.id, reader.fmt)' /\ reader' = reader
  BY DEF PropInv, Current, NoReader, Reader
<1>1. /\ \A k \in DOMAIN props : Current(props[k].id, props[k].fmt)
      /\ reader.pc = "file" => Current(reader.id, reader.fmt)
  BY DEF Inv, PropInv
<1>2. ASSUME NEW k \in DOMAIN props PROVE Current(props[k].id, props[k].fmt)'
  <2>1. props[k] \in PropEntry
    BY SeqElem DEF Inv, CacheTypes
  <2>2. props[k].id \in Ids /\ props[k].fmt \in Formats
    BY <2>1 DEF PropEntry
  <2>3. \A i \in Ids, f \in Formats : Current(i, f) => Current(i, f)'
    OBVIOUS
  <2>4. Current(props[k].id, props[k].fmt)
    BY <1>1
  <2> QED BY <2>2, <2>3, <2>4 DEF Current
<1>3. ASSUME reader'.pc = "file" PROVE Current(reader.id, reader.fmt)' /\ reader' = reader
  <2>1. reader' = reader /\ reader.pc = "file"
    BY <1>3
  <2>2. reader \in ReaderEntry
    BY <2>1 DEF Inv, CacheTypes, ReaderTypes, NoReader, Reader
  <2>3. reader.id \in Ids /\ reader.fmt \in Formats
    BY <2>2 DEF ReaderEntry
  <2>4. Current(reader.id, reader.fmt)
    BY <1>1, <2>1
  <2> QED BY <2>1, <2>3, <2>4 DEF Current
<1> QED BY <1>2, <1>3

LEMMA PropFrame ==
    ASSUME Inv, UNCHANGED <<obj, map, misled, props>>, changed \subseteq changed',
           reader' = reader \/ reader'.pc # "file"
    PROVE  PropInv'
<1>1. \A i \in Ids, f \in Formats : Current(i, f) => Current(i, f)'
  BY DEF Current
<1> QED BY <1>1, DescFrame

\* The reader's pointers are objects, for ids.
LEMMA HeldIn ==
    ASSUME Inv, NEW j \in Held
    PROVE  j \in Ids /\ reader.obj \in Objects /\ reader \in ReaderEntry
<1>1. reader \in ReaderEntry
  BY DEF Inv, CacheTypes, ReaderTypes, Held, NoReader, Reader
<1>2. j = reader.id \/ (j = reader.id + 1 /\ reader.pc = "prefetch")
  BY DEF Held
<1> QED BY <1>1, <1>2 DEF Inv, CacheTypes, ReaderTypes, ReaderEntry

LEMMA ReaderFrame ==
    ASSUME Inv, UNCHANGED <<map, misled, gone, reader>>
    PROVE  ReaderTypes' /\ ReaderInv'
BY DEF Inv, CacheTypes, ReaderTypes, ReaderInv, Held, NoReader, Reader

\* The reader takes up the pointer o for i, to cache it or to read through it.
LEMMA TakesUp ==
    ASSUME NEW pc \in {"store", "read", "warm"}, NEW i \in Ids, NEW o \in Objects,
           reader' = Reader(pc, i, o), ~misled' /\ i \notin gone' => o = map'[i]
    PROVE  ReaderTypes' /\ ReaderInv' /\ reader'.pc # "file"
<1>1. AnyFormat \in Formats
  BY SurfaceAssumption DEF AnyFormat
<1>2. reader' = [pc |-> pc, id |-> i, obj |-> o, fmt |-> AnyFormat]
  BY DEF Reader
<1>3. reader' \in ReaderEntry /\ reader'.pc = pc /\ reader'.id = i /\ reader'.obj = o
  BY <1>1, <1>2 DEF ReaderEntry
<1>4. Held' = {i}
  BY <1>3 DEF Held
<1> QED BY <1>3, <1>4 DEF ReaderTypes, ReaderInv

LEMMA LetsGo ==
    ASSUME reader' = NoReader
    PROVE  ReaderTypes' /\ ReaderInv' /\ reader'.pc # "file"
BY DEF ReaderTypes, ReaderInv, Held, NoReader, Reader

\* A step of the caches' own.
LEMMA CachesStep ==
    ASSUME Inv, UNCHANGED <<obj, created, array, map, nextId, released, count>>,
           UNCHANGED <<misled, torn, wild, cvars>>, gone' \subseteq Ids,
           CacheTypes', CacheInv', ReaderInv', PropInv'
    PROVE  Inv'
<1>1. ObjTypes' /\ LifeInv' /\ CountKept' /\ MapInv'
  BY TableFrame DEF Inv, ObjTypes
<1>2. ShareTypes' /\ ShareInv'
  BY ShareFrame
<1> QED BY <1>1, <1>2 DEF Inv, TornInv, RegionWritesMapped

\* After two threads met in the caches only types are left to keep.
LEMMA MisledStep ==
    ASSUME Inv, UNCHANGED <<obj, created, array, map, nextId, released, count>>,
           UNCHANGED <<gone, wild, cvars>>, misled' = TRUE, torn' \in BOOLEAN, CacheTypes'
    PROVE  Inv'
<1>1. ObjTypes' /\ LifeInv' /\ CountKept' /\ MapInv'
  BY DEF Inv, ObjTypes, LifeInv, CountKept, MapInv
<1>2. ShareTypes' /\ ShareInv'
  BY DEF Inv, ShareTypes, ShareInv, cvars, ShareEntry
<1> QED BY <1>1, <1>2 DEF Inv, TornInv, CacheInv, ReaderInv, PropInv, RegionWritesMapped

\* A step that only looks surfaces up.
LEMMA LookStep ==
    ASSUME Inv, UNCHANGED <<obj, created, array, map, nextId, released, count>>,
           UNCHANGED <<gone, changed, misled, torn, props, reader, cvars>>,
           wild' \in BOOLEAN, wild' => misled,
           cache' \in Seq(CacheEntry), ~misled => Coherent(cache')
    PROVE  Inv'
<1>1. ObjTypes' /\ LifeInv' /\ CountKept' /\ MapInv'
  BY TableFrame DEF Inv, ObjTypes
<1>2. ShareTypes' /\ ShareInv' /\ PropInv' /\ ReaderTypes' /\ ReaderInv'
  BY ShareFrame, PropFrame, ReaderFrame
<1>3. CacheTypes' /\ CacheInv'
  BY <1>2 DEF Inv, CacheTypes, CacheInv, Coherent
<1> QED BY <1>1, <1>2, <1>3 DEF Inv, TornInv, RegionWritesMapped

LEMMA InitInv == Init => Inv
<1> SUFFICES ASSUME Init PROVE Inv
  OBVIOUS
<1>a. MaxId \in Nat /\ MaxCreates \in Nat /\ 0 \in 0 .. MaxCreates /\ 1 .. 0 = {}
  BY SurfaceAssumption
<1>b. Blank \in Surfaces
  <2>1. AnyFormat \in Formats
    BY SurfaceAssumption DEF AnyFormat
  <2> QED BY <1>a, <2>1 DEF Blank, Surfaces, Wrapped
<1>1. ObjTypes
  <2>1. obj \in [Objects -> Surfaces]
    BY <1>b DEF Init, TableInit
  <2>2. /\ created \in 0 .. MaxCreates /\ array \subseteq 1 .. created
        /\ nextId \in 1 .. MaxId + 1 /\ released \in Seq(Ids)
        /\ map \in [Ids -> 0 .. created]
    BY <1>a DEF Init, TableInit
  <2>3. misled \in BOOLEAN /\ wild \in BOOLEAN /\ gone \subseteq Ids
    BY DEF Init, TableInit
  <2> QED BY ONLY <2>1, <2>2, <2>3 DEF ObjTypes
<1>2. CacheTypes /\ ShareTypes
  BY <1>a DEF Init, TableInit, CacheTypes, ReaderTypes, NoReader, Reader, ShareTypes
<1>3. LifeInv
  BY DEF Init, TableInit, LifeInv, Blank
<1>4. CountKept
  BY FS_EmptySet DEF Init, TableInit, CountKept
<1>5. /\ map = [i \in Ids |-> 0] /\ cache = <<>> /\ props = <<>> /\ released = <<>>
      /\ shares = <<>> /\ wild = FALSE /\ torn = FALSE /\ reader.pc = "none"
  BY DEF Init, TableInit, NoReader, Reader
<1>6. MapInv /\ CacheInv /\ PropInv /\ ShareInv
  BY <1>5 DEF MapInv, IdsApart, CacheInv, Coherent, PropInv, ShareInv
<1>7. ReaderInv /\ TornInv /\ RegionWritesMapped
  BY <1>5 DEF ReaderInv, Held, TornInv, RegionWritesMapped
<1> QED BY <1>1, <1>2, <1>3, <1>4, <1>6, <1>7 DEF Inv

-----------------------------------------------------------------------------
(* createSurface and destroySurface.                                       *)

\* The id handed out names no object and waits for no one any more.
LEMMA AllocatedId ==
    ASSUME Inv, NEW i \in Ids, allocateSurfaceId(i)
    PROVE  /\ nextId' \in 1 .. MaxId + 1 /\ nextId <= nextId' /\ released' \in Seq(Ids)
           /\ ~misled => /\ map[i] = 0 /\ i < nextId'
                         /\ \A k \in DOMAIN released' :
                               k \in DOMAIN released /\ released'[k] = released[k] /\ released[k] # i
<1>t. nextId \in 1 .. MaxId + 1 /\ released \in Seq(Ids) /\ MaxId \in Nat
  BY SurfaceAssumption DEF Inv, ObjTypes
<1>l. Len(released) \in Nat /\ DOMAIN released = 1 .. Len(released)
  BY <1>t, LenProperties
<1>m. ~misled => /\ \A j \in Ids : map[j] # 0 => j < nextId
                 /\ \A k \in DOMAIN released :
                       /\ released[k] < nextId /\ map[released[k]] = 0
                       /\ \A m \in DOMAIN released : released[m] = released[k] => m = k
  BY DEF Inv, MapInv, IdsApart
<1>1. CASE released # <<>>
  <2> DEFINE n == Len(released)
  <2>1. i = released[n] /\ released' = SubSeq(released, 1, n - 1) /\ nextId' = nextId
    BY <1>1 DEF allocateSurfaceId
  <2>2. n >= 1
    BY <1>1, <1>t, <1>l, EmptySeq
  <2>3. /\ released' \in Seq(Ids) /\ DOMAIN released' = 1 .. n - 1
        /\ \A k \in 1 .. n - 1 : released'[k] = released[k]
    BY <1>t, <1>l, <2>1, <2>2
  <2>4. n \in DOMAIN released
    BY <1>l, <2>2
  <2>n. n \in Nat /\ DOMAIN released = 1 .. n
    BY <1>l
  <2> HIDE DEF n
  <2>5. \A k \in 1 .. n - 1 : k \in DOMAIN released /\ k # n
    BY ONLY <2>n, <2>2
  <2>6. ASSUME ~misled
        PROVE  /\ map[i] = 0 /\ i < nextId
               /\ \A k \in DOMAIN released' :
                     k \in DOMAIN released /\ released'[k] = released[k] /\ released[k] # i
    BY ONLY <1>m, <2>1, <2>3, <2>4, <2>5, <2>6
  <2> QED BY <1>t, <2>1, <2>3, <2>6
<1>2. CASE released = <<>>
  <2>1. i = nextId /\ nextId' = nextId + 1 /\ released' = released
    BY <1>2 DEF allocateSurfaceId
  <2>2. DOMAIN released' = {}
    BY <1>2, <2>1
  <2>3. i \in 1 .. MaxId
    BY DEF Ids
  <2> QED BY <1>t, <1>m, <2>1, <2>2, <2>3
<1> QED BY <1>1, <1>2

LEMMA ArrayFinite ==
    ASSUME Inv
    PROVE  IsFiniteSet(array) /\ Cardinality(array) \in Nat
<1>1. created \in Nat /\ array \subseteq 1 .. created
  BY SurfaceAssumption DEF Inv, ObjTypes
<1>2. IsFiniteSet(1 .. created)
  BY <1>1, FS_Interval
<1> QED BY <1>1, <1>2, FS_Subset, FS_CardinalityType

LEMMA CreateStep ==
    ASSUME Inv, NEW f \in Formats, NEW b \in Bytes, createSurface(f, b), UNCHANGED cvars
    PROVE  Inv'
<1> DEFINE n == created + 1
<1>0. PICK i \in Ids : /\ allocateSurfaceId(i)
                       /\ obj' = [obj EXCEPT ![n] = Surface(i, f, b)]
                       /\ map' = [map EXCEPT ![i] = n]
  BY DEF createSurface
<1>u. /\ array' = array \cup {n} /\ created' = n /\ count' = count + 1
      /\ cache' = cache /\ props' = props /\ reader' = reader /\ gone' = gone
      /\ changed' = changed /\ misled' = misled /\ wild' = wild /\ torn' = torn
  BY DEF createSurface, caches, threads, ghosts
<1>n. /\ created \in Nat /\ n \in 1 .. MaxCreates /\ n \in Objects /\ n # 0 /\ n \notin array
      /\ \A j \in Ids : map[j] # n
      /\ 1 .. created \subseteq 1 .. n /\ 0 .. created \subseteq 0 .. n /\ n \in 0 .. n /\ n \in 1 .. n
      /\ \A m \in 0 .. created : m # n
  <2>1. created < MaxCreates
    BY DEF createSurface
  <2>2. /\ created \in 0 .. MaxCreates /\ array \subseteq 1 .. created
        /\ map \in [Ids -> 0 .. created] /\ MaxCreates \in Nat
    BY SurfaceAssumption DEF Inv, ObjTypes
  <2> QED BY ONLY <2>1, <2>2 DEF Objects
<1>a. /\ nextId' \in 1 .. MaxId + 1 /\ nextId <= nextId' /\ released' \in Seq(Ids)
      /\ ~misled => /\ map[i] = 0 /\ i < nextId'
                    /\ \A k \in DOMAIN released' :
                          k \in DOMAIN released /\ released'[k] = released[k] /\ released[k] # i
  BY <1>0, AllocatedId
<1>s. Surface(i, f, b) \in Surfaces
  BY SurfaceAssumption DEF Surface, Surfaces, Wrapped
<1>t. /\ obj \in [Objects -> Surfaces] /\ map \in [Ids -> 0 .. created]
      /\ array \subseteq 1 .. created /\ nextId \in 1 .. MaxId + 1
      /\ misled \in BOOLEAN /\ wild \in BOOLEAN /\ gone \subseteq Ids
  BY DEF Inv, ObjTypes
<1> HIDE DEF n
<1>o. /\ obj' \in [Objects -> Surfaces] /\ map' \in [Ids -> 0 .. n]
      /\ \A o \in Objects : obj'[o] = IF o = n THEN Surface(i, f, b) ELSE obj[o]
      /\ \A j \in Ids : map'[j] = IF j = i THEN n ELSE map[j]
  BY <1>0, <1>n, <1>s, <1>t
<1>1. ObjTypes'
  <2>1. created' \in 0 .. MaxCreates /\ array' \subseteq 1 .. created' /\ map' \in [Ids -> 0 .. created']
    BY <1>u, <1>n, <1>t, <1>o
  <2> QED BY <1>u, <1>a, <1>t, <1>o, <2>1 DEF ObjTypes
<1>2. LifeInv'
  BY <1>u, <1>n, <1>o DEF Inv, LifeInv, Surface
<1>3. CountKept'
  BY <1>u, <1>n, ArrayFinite, FS_AddElement DEF Inv, CountKept
<1>4. MapInv'
  <2> SUFFICES ASSUME ~misled PROVE IdsApart' /\ \A j \in Ids : map'[j] # 0 => map'[j] \in array'
    BY <1>u DEF MapInv
  <2>1. /\ \A j \in Ids : map[j] # 0 => j < nextId /\ obj[map[j]].id = j /\ map[j] \in array
        /\ \A k \in DOMAIN released :
              /\ released[k] < nextId /\ map[released[k]] = 0
              /\ \A m \in DOMAIN released : released[m] = released[k] => m = k
    BY DEF Inv, MapInv, IdsApart
  <2>2. ASSUME NEW j \in Ids, map'[j] # 0
        PROVE  j < nextId' /\ obj'[map'[j]].id = j /\ map'[j] \in array'
    <3>1. CASE j = i
      BY <1>u, <1>n, <1>a, <1>o, <3>1 DEF Surface
    <3>2. CASE j # i
      <4>1. map'[j] = map[j] /\ map[j] # n /\ map[j] \in Objects
        BY <1>n, <1>t, <1>o, <2>2, <3>2, SurfaceAssumption, SMTT(30) DEF Objects, Inv, ObjTypes
      <4>2. j < nextId /\ nextId \in Int /\ nextId' \in Int /\ j \in Int
        BY <2>1, <2>2, <4>1, <1>a, <1>t DEF Ids
      <4>3. obj'[map'[j]].id = j /\ map'[j] \in array'
        BY <1>u, <1>o, <2>1, <2>2, <4>1
      <4> QED BY <4>2, <4>3, <1>a
    <3> QED BY <3>1, <3>2
  <2>3. ASSUME NEW k \in DOMAIN released'
        PROVE  /\ released'[k] < nextId' /\ map'[released'[k]] = 0
               /\ \A m \in DOMAIN released' : released'[m] = released'[k] => m = k
    <3>1. k \in DOMAIN released /\ released'[k] = released[k] /\ released[k] # i /\ released[k] \in Ids
      BY <1>a, LenProperties DEF Inv, ObjTypes
    <3>2. released[k] < nextId /\ map[released[k]] = 0
      BY <2>1, <3>1
    <3>3. nextId \in Int /\ nextId' \in Int /\ released[k] \in Int
      BY <1>a, <1>t, <3>1 DEF Ids
    <3>4. \A m \in DOMAIN released' : released'[m] = released'[k] => m = k
      BY <1>a, <2>1, <3>1
    <3>5. released'[k] < nextId'
      BY <3>1, <3>2, <3>3, <1>a
    <3> QED BY <1>o, <3>1, <3>2, <3>4, <3>5
  <2> QED BY <2>2, <2>3 DEF IdsApart
<1>5. CacheTypes' /\ CacheInv'
  <2>1. CacheTypes'
    BY <1>u DEF Inv, CacheTypes, ReaderTypes, NoReader, Reader
  <2>2. ASSUME ~misled, NEW k \in DOMAIN cache, cache[k].id \notin gone
        PROVE  cache[k].obj = map'[cache[k].id]
    <3>1. cache[k] \in CacheEntry
      BY LenProperties DEF Inv, CacheTypes
    <3>2. cache[k].id \in Ids /\ cache[k].obj # 0
      BY <3>1, SurfaceAssumption DEF CacheEntry, Objects
    <3>3. cache[k].obj = map[cache[k].id]
      BY <2>2 DEF Inv, CacheInv, Coherent
    <3> QED BY <1>a, <1>o, <2>2, <3>2, <3>3
  <2> QED BY <1>u, <2>1, <2>2 DEF CacheInv, Coherent
<1>6. ReaderInv' /\ TornInv'
  <2>1. ASSUME ~misled, NEW j \in Held, j \notin gone PROVE reader.obj = map'[j]
    <3>1. j \in Ids /\ reader.obj # 0
      BY HeldIn, SurfaceAssumption DEF Objects
    <3>2. reader.obj = map[j]
      BY <2>1 DEF Inv, ReaderInv
    <3> QED BY <1>a, <1>o, <2>1, <3>1, <3>2
  <2> QED BY <1>u, <2>1 DEF Inv, ReaderInv, Held, TornInv
<1>7. PropInv'
  <2>1. ASSUME ~misled, NEW m \in Ids, NEW g \in Formats, Current(m, g)
        PROVE  Current(m, g)'
    <3>1. map[m] # 0 => map'[m] = map[m] /\ map[m] \in Objects /\ map[m] # n
      BY <1>a, <1>n, <1>o, <2>1, MapIn DEF Inv
    <3> QED BY <1>u, <1>o, <2>1, <3>1 DEF Current
  <2> QED BY <1>u, <2>1, DescFrame
<1>8. ShareTypes'
  <2>1. ShareEntry(created, registered) \subseteq ShareEntry(n, registered)
    BY <1>n DEF ShareEntry
  <2>2. shares \in Seq(ShareEntry(n, registered))
    BY <2>1, SeqMono DEF Inv, ShareTypes
  <2> QED BY <1>u, <2>2 DEF Inv, ShareTypes, cvars, ShareEntry
<1>9. ShareInv'
  <2> SUFFICES ASSUME NEW k \in DOMAIN shares, ~misled
               PROVE  \/ shares[k].obj \in {0, map'[shares[k].id]}
                      \/ ~Exists(shares[k].obj)'
    BY <1>u DEF ShareInv, Inv, cvars
  <2>0. shares[k] \in ShareEntry(created, registered) /\ shares' = shares
    BY SeqElem DEF Inv, ShareTypes, cvars
  <2>1. shares[k].id \in Ids /\ shares[k].obj \in 0 .. created
    BY <2>0 DEF ShareEntry
  <2>2. shares[k].obj \in {0, map[shares[k].id]} \/ ~Exists(shares[k].obj)
    BY DEF Inv, ShareInv
  <2>3. CASE shares[k].obj \in {0, map[shares[k].id]}
    BY <1>a, <1>o, <2>1, <2>3
  <2>4. CASE ~Exists(shares[k].obj)
    <3>1. shares[k].obj # n
      BY <1>n, <2>1
    <3> QED BY <1>u, <1>o, <2>0, <2>4, <3>1 DEF Exists
  <2> QED BY <2>2, <2>3, <2>4
<1>10. RegionWritesMapped'
  BY <1>u DEF Inv, RegionWritesMapped
<1> QED BY <1>1, <1>2, <1>3, <1>4, <1>5, <1>6, <1>7, <1>8, <1>9, <1>10 DEF Inv

\* releaseSurfaceId puts i at the end of the list, if at all.
LEMMA ReleasedId ==
    ASSUME Inv, NEW i \in Ids, releaseSurfaceId(i)
    PROVE  /\ released' \in Seq(Ids)
           /\ \A k \in DOMAIN released' :
                 \/ k \in DOMAIN released /\ released'[k] = released[k]
                 \/ k = Len(released) + 1 /\ released'[k] = i
<1>1. released \in Seq(Ids)
  BY DEF Inv, ObjTypes
<1>2. CASE released' = released
  BY <1>1, <1>2
<1>3. CASE released' = Append(released, i)
  <2>1. /\ released' \in Seq(Ids)
        /\ \A k \in 1 .. Len(released) : released'[k] = released[k]
        /\ released'[Len(released) + 1] = i
        /\ Len(released) \in Nat /\ DOMAIN released = 1 .. Len(released)
        /\ DOMAIN released' = 1 .. Len(released) + 1
    BY <1>1, <1>3, AppendProperties, LenProperties
  <2>2. \A k \in 1 .. Len(released) + 1 : k \in 1 .. Len(released) \/ k = Len(released) + 1
    BY <2>1
  <2> QED BY <2>1, <2>2
<1> QED BY <1>2, <1>3 DEF releaseSurfaceId

LEMMA CreateFailsStep ==
    ASSUME Inv, createSurfaceFails, UNCHANGED cvars
    PROVE  Inv'
<1>u. /\ UNCHANGED <<obj, created, array, map, count>>
      /\ UNCHANGED <<gone, changed, misled, torn, props, reader, cvars>>
      /\ cache' = cache /\ wild' = wild
  BY DEF createSurfaceFails, caches, threads, ghosts
<1>w. /\ wild \in BOOLEAN /\ (wild => misled)
      /\ cache \in Seq(CacheEntry) /\ (~misled => Coherent(cache))
  BY DEF Inv, ObjTypes, CacheTypes, CacheInv, RegionWritesMapped
<1>1. CASE released # <<>>
  <2>1. UNCHANGED <<nextId, released>>
    BY <1>1 DEF createSurfaceFails
  <2> QED BY <1>u, <1>w, <2>1, LookStep
<1>2. CASE released = <<>>
  <2>1. nextId \in Ids /\ nextId' = nextId + 1 /\ releaseSurfaceId(nextId)
    BY <1>2 DEF createSurfaceFails
  <2>2. /\ released' \in Seq(Ids)
        /\ \A k \in DOMAIN released' : k = 1 /\ released'[k] = nextId
    BY <1>2, <2>1, ReleasedId
  <2>3. nextId' \in 1 .. MaxId + 1 /\ nextId < nextId' /\ nextId \in Int
    BY <2>1, SurfaceAssumption DEF Ids
  <2>4. ObjTypes' /\ LifeInv' /\ CountKept'
    BY <1>u, <2>2, <2>3 DEF Inv, ObjTypes, LifeInv, CountKept
  <2>5. MapInv'
    <3> SUFFICES ASSUME ~misled PROVE IdsApart' /\ \A j \in Ids : map[j] # 0 => map[j] \in array
      BY <1>u DEF MapInv
    <3>1. \A j \in Ids : map[j] # 0 => j < nextId /\ obj[map[j]].id = j /\ map[j] \in array
      BY DEF Inv, MapInv, IdsApart
    <3>2. \A j \in Ids : j < nextId => j < nextId'
      BY <2>1, <2>3 DEF Ids
    <3>3. map[nextId] = 0
      BY <2>1, <2>3, <3>1
    <3> QED BY <1>u, <2>2, <2>3, <3>1, <3>2, <3>3 DEF IdsApart
  <2>6. ShareTypes' /\ ShareInv' /\ PropInv'
    BY <1>u, ShareFrame, PropFrame
  <2>7. CacheTypes' /\ CacheInv' /\ ReaderInv' /\ TornInv' /\ RegionWritesMapped'
    BY <1>u, <1>w, ReaderFrame DEF Inv, CacheTypes, CacheInv, Coherent, TornInv, RegionWritesMapped
  <2> QED BY <2>4, <2>5, <2>6, <2>7 DEF Inv
<1> QED BY <1>1, <1>2

\* A change to one object that leaves its id and format, its ref_count and its
\* memory alone, and locks only what has memory.
Touched(o) ==
    /\ obj' \in [Objects -> Surfaces]
    /\ \A p \in Objects :
          IF p # o THEN obj'[p] = obj[p]
          ELSE /\ obj'[p].id = obj[p].id /\ obj'[p].fmt = obj[p].fmt /\ obj'[p].mem = obj[p].mem
               /\ obj'[p].refs = 1 <=> obj[p].refs = 1
               /\ obj'[p].locks > 0 => obj[p].mem \/ obj[p].locks > 0

LEMMA TouchStep ==
    ASSUME Inv, NEW i \in Ids, NEW o \in Objects, findSurface(i, o), Touched(o),
           UNCHANGED <<created, array, map, nextId, released, count, props, reader>>,
           UNCHANGED <<gone, changed, misled, torn, wild, cvars>>
    PROVE  Inv'
<1>t. \A j \in Ids : map[j] # 0 => map[j] \in Objects
  BY SurfaceAssumption DEF Inv, ObjTypes, Objects
<1>i. \A p \in Objects : obj'[p].id = obj[p].id /\ obj'[p].fmt = obj[p].fmt
  BY DEF Touched
<1>c. cache' \in Seq(CacheEntry) /\ (~misled => Coherent(cache'))
  BY FoundOK
<1>1. ObjTypes' /\ CountKept'
  BY DEF Inv, ObjTypes, CountKept, Touched
<1>2. LifeInv'
  <2> SUFFICES ASSUME NEW p \in Objects
               PROVE  /\ obj'[p].refs = 1 <=> p \in array
                      /\ obj'[p].mem <=> p \in array
                      /\ obj'[p].locks > 0 => p \in array
    BY DEF LifeInv
  <2>1. /\ obj[p].refs = 1 <=> p \in array
        /\ obj[p].mem <=> p \in array
        /\ obj[p].locks > 0 => p \in array
    BY DEF Inv, LifeInv
  <2>2. CASE p # o
    BY <2>1, <2>2 DEF Touched
  <2>3. CASE p = o
    <3>1. /\ obj'[p].mem = obj[p].mem /\ (obj'[p].refs = 1 <=> obj[p].refs = 1)
          /\ obj'[p].locks > 0 => obj[p].mem \/ obj[p].locks > 0
      BY <2>3 DEF Touched
    <3> QED BY <2>1, <3>1
  <2> QED BY <2>2, <2>3
<1>3. MapInv'
  BY <1>t, <1>i DEF Inv, MapInv, IdsApart
<1>4. ShareTypes' /\ ShareInv'
  BY ShareFrame
<1>5. CacheTypes' /\ CacheInv' /\ ReaderInv' /\ TornInv' /\ RegionWritesMapped'
  BY <1>c, ReaderFrame DEF Inv, CacheTypes, CacheInv, Coherent, TornInv, RegionWritesMapped
<1>6. PropInv'
  <2>1. \A m \in Ids, g \in Formats : Current(m, g) => Current(m, g)'
    BY <1>t, <1>i DEF Current
  <2> QED BY <2>1, DescFrame
<1> QED BY <1>1, <1>2, <1>3, <1>4, <1>5, <1>6 DEF Inv

LEMMA DestroyStep ==
    ASSUME Inv, NEW i \in Ids, destroySurface(i), UNCHANGED cvars
    PROVE  Inv'
<1>0. PICK o \in Objects :
         /\ findSurface(i, o)
         /\ obj[o].locks = 0
         /\ IF Decrement(obj[o].refs) = 0
            THEN /\ obj' = [obj EXCEPT ![o].refs = 0, ![o].mem = FALSE, ![o].until = created]
                 /\ map' = [map EXCEPT ![i] = 0]
                 /\ array' = array \ {o}
                 /\ count' = count - 1
                 /\ releaseSurfaceId(i)
                 /\ gone' = gone \cup {i} /\ changed' = changed \cup {i}
                 /\ misled' = (misled \/ o # map[i])
            ELSE /\ obj' = [obj EXCEPT ![o].refs = Wrapped]
                 /\ UNCHANGED <<map, array, count, released, gone, changed, misled>>
  BY DEF destroySurface
<1>u. UNCHANGED <<created, nextId, props, reader, torn, wild>>
  BY DEF destroySurface, threads
<1>t. /\ obj \in [Objects -> Surfaces] /\ map \in [Ids -> 0 .. created]
      /\ created \in 0 .. MaxCreates /\ array \subseteq 1 .. created
      /\ misled \in BOOLEAN /\ wild \in BOOLEAN /\ gone \subseteq Ids
  BY DEF Inv, ObjTypes
<1>o. obj[o] \in Surfaces /\ obj[o].refs \in 0 .. 2
  BY <1>t DEF Surfaces, Wrapped
<1>1. CASE obj[o].refs # 1
  <2>1. /\ obj' = [obj EXCEPT ![o].refs = Wrapped]
        /\ UNCHANGED <<map, array, count, released, gone, changed, misled>>
    BY <1>0, <1>1 DEF Decrement, Wrapped
  <2>2. [obj[o] EXCEPT !.refs = Wrapped] \in Surfaces
    BY <1>o DEF Surfaces, Wrapped
  <2>3. obj' \in [Objects -> Surfaces]
    BY <1>t, <2>1, <2>2
  <2>4. /\ obj'[o].id = obj[o].id /\ obj'[o].fmt = obj[o].fmt /\ obj'[o].mem = obj[o].mem
        /\ obj'[o].refs = 2 /\ obj'[o].locks = obj[o].locks
        /\ \A p \in Objects : p # o => obj'[p] = obj[p]
    BY <1>o, <1>t, <2>1 DEF Surfaces, Wrapped
  <2>5. Touched(o)
    BY <1>1, <2>3, <2>4 DEF Touched
  <2> QED BY <1>0, <1>u, <2>1, <2>5, TouchStep
<1>2. CASE obj[o].refs = 1
  <2>1. /\ obj' = [obj EXCEPT ![o].refs = 0, ![o].mem = FALSE, ![o].until = created]
        /\ map' = [map EXCEPT ![i] = 0]
        /\ array' = array \ {o}
        /\ count' = count - 1
        /\ releaseSurfaceId(i)
        /\ gone' = gone \cup {i} /\ changed' = changed \cup {i}
        /\ misled' = (misled \/ o # map[i])
    BY <1>0, <1>2 DEF Decrement
  <2>s. [obj[o] EXCEPT !.refs = 0, !.mem = FALSE, !.until = created] \in Surfaces
    <3>1. \A s \in Surfaces : [s EXCEPT !.refs = 0] \in Surfaces
      BY ONLY TRUE DEF Surfaces, Wrapped
    <3>2. \A s \in Surfaces : [s EXCEPT !.mem = FALSE] \in Surfaces
      BY ONLY TRUE DEF Surfaces
    <3>3. \A s \in Surfaces : [s EXCEPT !.until = created] \in Surfaces
      BY ONLY <1>t DEF Surfaces
    <3> QED BY <1>o, <3>1, <3>2, <3>3
  <2>b. obj' = [obj EXCEPT ![o] = [obj[o] EXCEPT !.refs = 0, !.mem = FALSE, !.until = created]]
    BY <1>t, <2>1
  <2>o. /\ obj' \in [Objects -> Surfaces]
        /\ obj'[o].refs = 0 /\ obj'[o].mem = FALSE /\ obj'[o].locks = 0
        /\ \A p \in Objects : p # o => obj'[p] = obj[p]
    BY <1>0, <1>o, <1>t, <2>b, <2>s DEF Surfaces
  <2>m. map' \in [Ids -> 0 .. created] /\ \A j \in Ids : map'[j] = IF j = i THEN 0 ELSE map[j]
    BY <1>t, <2>1
  <2>r. /\ released' \in Seq(Ids)
        /\ \A k \in DOMAIN released' :
              \/ k \in DOMAIN released /\ released'[k] = released[k]
              \/ k = Len(released) + 1 /\ released'[k] = i
    BY <2>1, ReleasedId
  <2>z. misled' = FALSE => misled = FALSE /\ o = map[i] /\ o # 0 /\ map[i] # 0
    <3>1. o # 0
      BY SurfaceAssumption DEF Objects
    <3> QED BY ONLY <1>t, <2>1, <3>1, Zenon
  <2>y. misled' \in BOOLEAN /\ (misled => misled')
    BY <1>t, <2>1
  <2>x. ~misled' =>
           /\ \A j \in Ids : map[j] # 0 => j < nextId /\ obj[map[j]].id = j /\ map[j] \in array
           /\ \A k \in DOMAIN released :
                 /\ released[k] < nextId /\ map[released[k]] = 0 /\ released[k] \in Ids
                 /\ \A m \in DOMAIN released : released[m] = released[k] => m = k
    <3>1. \A k \in DOMAIN released : released[k] \in Ids
      BY SeqElem DEF Inv, ObjTypes
    <3> QED BY <2>y, <3>1 DEF Inv, MapInv, IdsApart
  <2>2. ObjTypes'
    BY <1>u, <1>t, <2>1, <2>o, <2>m, <2>r, <2>y DEF Inv, ObjTypes
  <2>3. LifeInv'
    BY <1>2, <2>1, <2>o DEF Inv, LifeInv
  <2>4. CountKept'
    <3>1. o \in array
      BY <1>2 DEF Inv, LifeInv
    <3> QED BY <2>1, <3>1, ArrayFinite, FS_RemoveElement DEF Inv, CountKept
  <2>5. MapInv'
    <3> SUFFICES ASSUME ~misled' PROVE IdsApart' /\ \A j \in Ids : map'[j] # 0 => map'[j] \in array'
      BY DEF MapInv
    <3>1. o = map[i] /\ map[i] # 0 /\ o # 0
      BY <2>y, <2>z
    <3>2. ASSUME NEW j \in Ids, map'[j] # 0
          PROVE  j < nextId' /\ obj'[map'[j]].id = j /\ map'[j] \in array'
      <4>1. j # i /\ map'[j] = map[j] /\ map[j] # 0
        BY <2>m, <3>2
      <4>2. map[j] # o
        BY <2>x, <3>1, <4>1
      <4>3. map[j] \in Objects
        BY <1>t, <4>1, SurfaceAssumption DEF Objects
      <4> QED BY <1>u, <2>1, <2>o, <2>x, <4>1, <4>2, <4>3
    <3>3. \A k \in DOMAIN released : released[k] # i
      BY <2>x, <3>1
    <3>4. Len(released) + 1 \notin DOMAIN released
      <4>1. Len(released) \in Nat /\ DOMAIN released = 1 .. Len(released)
        BY LenProperties DEF Inv, ObjTypes
      <4> QED BY <4>1
    <3>5. ASSUME NEW k \in DOMAIN released'
          PROVE  /\ released'[k] < nextId' /\ map'[released'[k]] = 0
                 /\ \A m \in DOMAIN released' : released'[m] = released'[k] => m = k
      <4>1. CASE k \in DOMAIN released /\ released'[k] = released[k]
        BY <1>u, <2>m, <2>r, <2>x, <3>3, <4>1
      <4>2. CASE k = Len(released) + 1 /\ released'[k] = i
        BY <1>u, <2>m, <2>r, <2>x, <3>1, <3>3, <4>2
      <4> QED BY <2>r, <4>1, <4>2
    <3> QED BY <3>2, <3>5 DEF IdsApart
  <2>c. cache' \in Seq(CacheEntry) /\ (~misled => Coherent(cache'))
    BY <1>0, FoundOK
  <2>6. CacheTypes'
    BY <1>u, <2>c DEF Inv, CacheTypes, ReaderTypes, NoReader, Reader
  <2>7. CacheInv'
    <3> SUFFICES ASSUME ~misled', NEW k \in DOMAIN cache', cache'[k].id \notin gone'
                 PROVE  cache'[k].obj = map'[cache'[k].id]
      BY DEF CacheInv, Coherent
    <3>1. cache'[k] \in CacheEntry
      BY <2>c, SeqElem
    <3>2. cache'[k].id \in Ids /\ cache'[k].id \notin gone /\ cache'[k].id # i
      BY <2>1, <3>1 DEF CacheEntry
    <3> QED BY <2>y, <2>c, <2>m, <3>2 DEF Coherent
  <2>8. ReaderInv'
    <3> SUFFICES ASSUME ~misled', NEW j \in Held, j \notin gone'
                 PROVE  reader.obj = map'[j]
      BY <1>u DEF ReaderInv, Held
    <3>1. j \in Ids /\ j \notin gone /\ j # i
      BY <2>1, HeldIn
    <3> QED BY <2>y, <2>m, <3>1 DEF Inv, ReaderInv
  <2>9. PropInv'
    <3>1. ASSUME ~misled', NEW m \in Ids, NEW g \in Formats, Current(m, g)
          PROVE  Current(m, g)'
      <4> SUFFICES ASSUME m \notin changed' PROVE map'[m] # 0 /\ g = obj'[map'[m]].fmt
        BY DEF Current
      <4>1. m # i /\ map[m] # 0 /\ g = obj[map[m]].fmt
        BY <2>1, <3>1 DEF Current
      <4>2. map'[m] = map[m] /\ map[m] \in Objects
        BY <2>m, <4>1, MapIn DEF Inv
      <4>3. map[m] # o
        BY <2>x, <2>z, <3>1, <4>1
      <4> QED BY <2>o, <4>1, <4>2, <4>3
    <3> QED BY <1>u, <2>y, <3>1, DescFrame
  <2>10. ShareTypes'
    BY <1>u DEF Inv, ShareTypes, cvars, ShareEntry
  <2>11. ShareInv'
    <3> SUFFICES ASSUME NEW k \in DOMAIN shares, ~misled'
                 PROVE  \/ shares[k].obj \in {0, map'[shares[k].id]}
                        \/ ~Exists(shares[k].obj)'
      BY <1>u DEF ShareInv, Inv, cvars
    <3>0. shares[k] \in ShareEntry(created, registered) /\ shares' = shares
      BY SeqElem DEF Inv, ShareTypes, cvars
    <3>1. shares[k].id \in Ids
      BY <3>0 DEF ShareEntry
    <3>2. shares[k].obj \in {0, map[shares[k].id]} \/ ~Exists(shares[k].obj)
      BY <2>y DEF Inv, ShareInv
    <3>3. CASE ~Exists(shares[k].obj)
      <4>1. CASE shares[k].obj = 0
        BY <4>1
      <4>2. CASE shares[k].obj # 0
        BY <2>1, <2>m, <3>0, <3>3, <4>2 DEF Exists
      <4> QED BY <4>1, <4>2
    <3>4. CASE shares[k].obj = map[shares[k].id] /\ shares[k].id # i
      BY <2>m, <3>1, <3>4
    <3>5. CASE shares[k].obj = map[shares[k].id] /\ shares[k].id = i
      <4>1. shares[k].obj = o /\ o = map[i] /\ map[i] # 0
        BY <2>y, <2>z, <3>5
      <4>2. \A j \in Ids : map'[j] # o
        BY <2>m, <2>x, <4>1
      <4> QED BY <2>1, <3>0, <4>1, <4>2 DEF Exists
    <3> QED BY <3>2, <3>3, <3>4, <3>5
  <2>12. TornInv' /\ RegionWritesMapped'
    BY <1>u, <2>y DEF Inv, TornInv, RegionWritesMapped
  <2> QED BY <2>2, <2>3, <2>4, <2>5, <2>6, <2>7, <2>8, <2>9, <2>10, <2>11, <2>12 DEF Inv
<1> QED BY <1>1, <1>2

-----------------------------------------------------------------------------
(* The operations on one surface, and the lookups.                         *)

\* Locking, unlocking and a change of priority are all a Touched.
LEMMA OnSurfaceStep ==
    ASSUME Inv, NEW i \in Ids, NEW h \in BOOLEAN, UNCHANGED cvars,
           \/ lockSurface(i, h) \/ setSurfaceMemoryPriority(i, h)
           \/ lockSurfacePlane(i) \/ unlockSurface(i) \/ unlockSurfacePlane(i)
    PROVE  Inv'
<1> DEFINE Same == /\ UNCHANGED <<created, array, map, nextId, released, count, props, reader>>
                   /\ UNCHANGED <<gone, changed, misled, torn, wild, cvars>>
<1>t. obj \in [Objects -> Surfaces]
  BY DEF Inv, ObjTypes
<1>n. \A s \in Surfaces : s.locks \in Nat
  BY DEF Surfaces
<1>1. ASSUME NEW o \in Objects, obj[o].mem, obj' = [obj EXCEPT ![o] = AddLock(obj[o])]
      PROVE  Touched(o)
  <2>1. AddLock(obj[o]) \in Surfaces
    BY <1>t DEF AddLock, Surfaces
  <2>2. /\ AddLock(obj[o]).id = obj[o].id /\ AddLock(obj[o]).fmt = obj[o].fmt
        /\ AddLock(obj[o]).mem = obj[o].mem /\ AddLock(obj[o]).refs = obj[o].refs
    BY <1>t DEF AddLock, Surfaces
  <2> QED BY <1>1, <1>t, <2>1, <2>2 DEF Touched
<1>2. ASSUME NEW o \in Objects, obj[o].locks > 0,
             obj' = [obj EXCEPT ![o] = [obj[o] EXCEPT !.locks = @ - 1]]
      PROVE  Touched(o)
  <2> DEFINE s == [obj[o] EXCEPT !.locks = @ - 1]
  <2>1. s \in Surfaces
    BY <1>2, <1>t DEF Surfaces
  <2>2. s.id = obj[o].id /\ s.fmt = obj[o].fmt /\ s.mem = obj[o].mem /\ s.refs = obj[o].refs
    BY <1>t DEF Surfaces
  <2>3. obj' = [obj EXCEPT ![o] = s]
    BY <1>2
  <2> HIDE DEF s
  <2> QED BY <1>2, <1>t, <2>1, <2>2, <2>3 DEF Touched
<1>3. ASSUME NEW o \in Objects, obj' = [obj EXCEPT ![o] = [obj[o] EXCEPT !.high = h]]
      PROVE  Touched(o)
  <2> DEFINE s == [obj[o] EXCEPT !.high = h]
  <2>1. s \in Surfaces
    BY <1>t DEF Surfaces
  <2>2. /\ s.id = obj[o].id /\ s.fmt = obj[o].fmt /\ s.mem = obj[o].mem /\ s.refs = obj[o].refs
        /\ s.locks = obj[o].locks
    BY <1>t DEF Surfaces
  <2>3. obj' = [obj EXCEPT ![o] = s]
    BY <1>3
  <2> HIDE DEF s
  <2> QED BY <1>t, <2>1, <2>2, <2>3 DEF Touched
<1>a. Same /\ \E o \in Objects : findSurface(i, o) /\ Touched(o)
  <2>1. CASE lockSurface(i, h)
    <3>1. Same /\ \E o \in Objects : /\ findSurface(i, o) /\ obj[o].mem
                                     /\ obj' = [obj EXCEPT ![o] = AddLock(obj[o])]
      BY <2>1 DEF lockSurface, OnSurface, threads, ghosts
    <3> QED BY <3>1, <1>1
  <2>2. CASE lockSurfacePlane(i)
    <3>1. Same /\ \E o \in Objects : /\ findSurface(i, o) /\ obj[o].mem
                                     /\ obj' = [obj EXCEPT ![o] = AddLock(obj[o])]
      BY <2>2 DEF lockSurfacePlane, OnSurface, threads, ghosts
    <3> QED BY <3>1, <1>1
  <2>3. CASE unlockSurface(i) \/ unlockSurfacePlane(i)
    <3>1. Same /\ \E o \in Objects : /\ findSurface(i, o) /\ obj[o].locks > 0
                                     /\ obj' = [obj EXCEPT ![o] = [obj[o] EXCEPT !.locks = @ - 1]]
      BY <2>3 DEF unlockSurface, unlockSurfacePlane, OnSurface, threads, ghosts
    <3> QED BY <3>1, <1>2
  <2>4. CASE setSurfaceMemoryPriority(i, h)
    <3>1. Same /\ \E o \in Objects : /\ findSurface(i, o)
                                     /\ obj' = [obj EXCEPT ![o] = [obj[o] EXCEPT !.high = h]]
      BY <2>4 DEF setSurfaceMemoryPriority, OnSurface, threads, ghosts
    <3> QED BY <3>1, <1>3
  <2> QED BY <2>1, <2>2, <2>3, <2>4
<1> QED BY <1>a, TouchStep

LEMMA LookOnlyStep ==
    ASSUME Inv, NEW i \in Ids, UNCHANGED cvars, Look(i)
    PROVE  Inv'
<1>1. PICK o \in Objects \cup {0} : findSurface(i, o)
  BY DEF Look
<1>2. cache' \in Seq(CacheEntry) /\ (~misled => Coherent(cache'))
  BY <1>1, FoundOK
<1>3. wild \in BOOLEAN /\ (wild => misled)
  BY DEF Inv, ObjTypes, RegionWritesMapped
<1> QED BY <1>2, <1>3, LookStep DEF Look, table, threads, ghosts

LEMMA CopyStep ==
    ASSUME Inv, NEW i \in Ids, NEW j \in Ids, UNCHANGED cvars, copySurface(i, j)
    PROVE  Inv'
<1>1. PICK o \in Objects, p \in Objects \cup {0} : findBoth(i, j, o, p)
  BY DEF copySurface
<1>2. cache' \in Seq(CacheEntry) /\ (~misled => Coherent(cache'))
  BY <1>1, FoundBoth
<1>3. wild \in BOOLEAN /\ (wild => misled)
  BY DEF Inv, ObjTypes, RegionWritesMapped
<1> QED BY <1>2, <1>3, LookStep DEF copySurface, table, threads, ghosts

\* An id not gone is its own object, which has its memory.
LEMMA WildMisled ==
    ASSUME Inv, NEW i \in Ids, NEW o \in Objects, ~misled /\ i \notin gone => o = map[i], Wild(i, o)
    PROVE  misled
<1> SUFFICES ASSUME ~misled PROVE FALSE
  OBVIOUS
<1>1. o = map[i] /\ map[i] # 0
  BY SurfaceAssumption DEF Wild, Objects
<1>2. map[i] \in array
  BY <1>1 DEF Inv, MapInv
<1> QED BY <1>1, <1>2 DEF Inv, LifeInv, Wild

\* fillSurface and fillSurfaceRegion.
LEMMA FillStep ==
    ASSUME Inv, NEW i \in Ids, UNCHANGED cvars, Fill(i)
    PROVE  Inv'
<1>1. PICK o \in Objects : findSurface(i, o) /\ wild' = (wild \/ Wild(i, o))
  BY DEF Fill
<1>2. /\ cache' \in Seq(CacheEntry)
      /\ ~misled => Coherent(cache') /\ (i \notin gone => o = map[i])
  BY <1>1, FoundOK
<1>3. wild \in BOOLEAN /\ (wild => misled)
  BY DEF Inv, ObjTypes, RegionWritesMapped
<1>4. wild' \in BOOLEAN
  BY <1>1, <1>3
<1>5. wild' => misled
  BY <1>1, <1>2, <1>3, WildMisled
<1> QED BY <1>2, <1>4, <1>5, LookStep DEF Fill, table, threads

LEMMA CopyRegionStep ==
    ASSUME Inv, NEW i \in Ids, NEW j \in Ids, UNCHANGED cvars, copySurfaceRegion(i, j)
    PROVE  Inv'
<1>1. PICK o \in Objects \cup {0}, p \in Objects \cup {0} :
         /\ findBoth(i, j, o, p)
         /\ \/ wild' = wild
            \/ 0 \notin {o, p} /\ wild' = (wild \/ Wild(i, o) \/ Wild(j, p))
  BY DEF copySurfaceRegion
<1>2. /\ cache' \in Seq(CacheEntry)
      /\ ~misled => /\ Coherent(cache')
                    /\ i \notin gone => o = map[i]
                    /\ j \notin gone => p = map[j]
  BY <1>1, FoundBoth
<1>3. wild \in BOOLEAN /\ (wild => misled)
  BY DEF Inv, ObjTypes, RegionWritesMapped
<1>4. wild' \in BOOLEAN
  BY <1>1, <1>3
<1>5. wild' => misled
  BY <1>1, <1>2, <1>3, WildMisled
<1> QED BY <1>2, <1>4, <1>5, LookStep DEF copySurfaceRegion, table, threads

\* convertSurfaceFormat: the formats of an id not in `changed' stay.
LEMMA ConvertStep ==
    ASSUME Inv, NEW i \in Ids, NEW j \in Ids, NEW f \in Formats, UNCHANGED cvars,
           convertSurfaceFormat(i, j, f)
    PROVE  Inv'
<1>o. PICK r \in Objects, o \in Objects :
         /\ findBoth(i, j, r, o)
         /\ obj' = [obj EXCEPT ![o].fmt = f]
         /\ changed' = changed \cup {j, obj[o].id}
  BY DEF convertSurfaceFormat
<1>u. /\ UNCHANGED <<created, array, map, nextId, released, count, props, reader>>
      /\ UNCHANGED <<gone, misled, torn, wild, cvars>>
  BY DEF convertSurfaceFormat, threads
<1>2. cache' \in Seq(CacheEntry) /\ (~misled => Coherent(cache'))
  BY <1>o, FoundBoth
<1>t. obj \in [Objects -> Surfaces] /\ \A k \in Ids : map[k] # 0 => map[k] \in Objects
  BY MapIn DEF Inv, ObjTypes
<1>s. [obj[o] EXCEPT !.fmt = f] \in Surfaces
  BY <1>o, <1>t DEF Surfaces
<1>n. /\ obj' \in [Objects -> Surfaces]
      /\ \A p \in Objects : p # o => obj'[p] = obj[p]
      /\ \A p \in Objects : /\ obj'[p].id = obj[p].id /\ obj'[p].mem = obj[p].mem
                            /\ obj'[p].refs = obj[p].refs /\ obj'[p].locks = obj[p].locks
  BY <1>o, <1>t, <1>s DEF Surfaces
<1>3. CountKept' /\ LifeInv' /\ MapInv'
  <2>1. MapInv'
    BY <1>u, <1>n, <1>t DEF Inv, MapInv, IdsApart
  <2>2. CountKept' /\ LifeInv'
    BY <1>u, <1>n DEF Inv, CountKept, LifeInv
  <2> QED BY <2>1, <2>2
<1>4. ShareTypes' /\ ShareInv'
  BY <1>u, ShareFrame
<1>5. CacheTypes' /\ CacheInv' /\ ReaderInv' /\ TornInv' /\ RegionWritesMapped'
  BY <1>u, <1>2, ReaderFrame DEF Inv, CacheTypes, CacheInv, Coherent, TornInv, RegionWritesMapped
<1>6. ObjTypes'
  BY <1>u, <1>n DEF Inv, ObjTypes
<1>7. PropInv'
  <2>1. ASSUME ~misled, NEW m \in Ids, NEW g \in Formats, Current(m, g)
        PROVE  Current(m, g)'
    <3> SUFFICES ASSUME m \notin changed' PROVE map[m] # 0 /\ g = obj'[map[m]].fmt
      BY <1>u DEF Current
    <3>1. m # obj[o].id /\ map[m] # 0 /\ g = obj[map[m]].fmt
      BY <1>o, <2>1 DEF Current
    <3>2. map[m] # o /\ map[m] \in Objects
      BY <1>t, <2>1, <3>1 DEF Inv, MapInv, IdsApart
    <3> QED BY <1>n, <3>1, <3>2
  <2> QED BY <1>u, <2>1, DescFrame
<1> QED BY <1>3, <1>4, <1>5, <1>6, <1>7 DEF Inv

LEMMA EvictStep ==
    ASSUME Inv, NEW idle \in SUBSET array, UNCHANGED cvars, evictUnusedSurfaces(idle)
    PROVE  Inv'
<1>1. /\ wild \in BOOLEAN /\ (wild => misled)
      /\ cache \in Seq(CacheEntry) /\ (~misled => Coherent(cache))
  BY DEF Inv, ObjTypes, CacheTypes, CacheInv, RegionWritesMapped
<1>2. /\ UNCHANGED <<obj, created, array, map, nextId, released, count>>
      /\ UNCHANGED <<gone, changed, misled, torn, props, reader, cvars>>
      /\ wild' = wild /\ cache' = cache
  BY DEF evictUnusedSurfaces, caches, threads
<1> QED BY <1>1, <1>2, LookStep

LEMMA CompactStep ==
    ASSUME Inv, UNCHANGED cvars, compactSurfaceMemory
    PROVE  Inv'
<1>1. /\ wild \in BOOLEAN /\ (wild => misled)
      /\ cache \in Seq(CacheEntry) /\ (~misled => Coherent(cache))
  BY DEF Inv, ObjTypes, CacheTypes, CacheInv, RegionWritesMapped
<1>2. /\ UNCHANGED <<obj, created, array, map, nextId, released, count>>
      /\ UNCHANGED <<gone, changed, misled, torn, props, reader, cvars>>
      /\ wild' = wild /\ cache' = cache
  BY DEF compactSurfaceMemory, table, caches, ghosts
<1> QED BY <1>1, <1>2, LookStep

-----------------------------------------------------------------------------
(* The caches' own operations, which take no lock.                         *)

LEMMA FindStep ==
    ASSUME Inv, NEW i \in Ids, UNCHANGED cvars, DescriptorFind(i)
    PROVE  Inv'
<1>u. /\ UNCHANGED <<obj, created, array, map, nextId, released, count>>
      /\ UNCHANGED <<misled, torn, wild, gone, cvars>>
      /\ UNCHANGED <<cache, props, changed>>
  BY DEF DescriptorFind, table, caches, ghosts
<1>t. /\ ObjTypes /\ cache \in Seq(CacheEntry) /\ gone \subseteq Ids
      /\ ~misled => Coherent(cache)
      /\ torn => misled
  BY DEF Inv, ObjTypes, CacheTypes, CacheInv, TornInv
<1>m. \A j \in Ids : map[j] # 0 => map[j] \in Objects
  BY MapIn DEF Inv
<1>1. ReaderTypes' /\ ReaderInv' /\ (reader' = reader \/ reader'.pc # "file")
  <2>1. ASSUME NEW o \in IF torn THEN 1 .. created ELSE Hits(cache, i),
               reader' = Reader("read", i, o)
        PROVE  ReaderTypes' /\ ReaderInv' /\ (reader' = reader \/ reader'.pc # "file")
    <3>1. o \in Objects /\ (~misled /\ i \notin gone => o = map[i])
      <4>1. CASE torn
        BY <1>t, <2>1, <4>1, MapIn DEF Objects
      <4>2. CASE ~torn
        BY <1>t, <2>1, <4>2, HitsOK
      <4> QED BY <4>1, <4>2
    <3> QED BY <1>u, <2>1, <3>1, TakesUp
  <2>2. CASE i + 1 \in Ids /\ map[i + 1] # 0 /\ reader' = Reader("prefetch", i, map[i + 1])
    <3> DEFINE o == map[i + 1]
    <3>0. o \in Objects
      BY <1>m, <2>2
    <3>1. reader' = [pc |-> "prefetch", id |-> i, obj |-> o, fmt |-> AnyFormat]
      BY <2>2 DEF Reader
    <3>f. AnyFormat \in Formats
      BY SurfaceAssumption DEF AnyFormat
    <3>2. reader' \in ReaderEntry /\ reader'.pc = "prefetch" /\ reader'.id = i /\ reader'.obj = o
      <4> HIDE DEF o
      <4> QED BY <3>0, <3>1, <3>f DEF ReaderEntry
    <3>3. Held' = {i + 1}
      BY <3>2 DEF Held
    <3>4. ReaderTypes'
      BY <2>2, <3>2 DEF ReaderTypes
    <3>5. ReaderInv'
      BY <1>u, <3>2, <3>3 DEF ReaderInv
    <3> QED BY <3>2, <3>4, <3>5
  <2>3. CASE map[i] # 0 /\ reader' = Reader("store", i, map[i])
    BY <1>u, <1>m, <2>3, TakesUp
  <2>4. CASE reader' = reader
    BY <1>u, <2>4, ReaderFrame
  <2> QED BY <2>1, <2>2, <2>3, <2>4 DEF DescriptorFind
<1>2. PropInv'
  BY <1>u, <1>1, PropFrame
<1>3. CacheTypes' /\ CacheInv'
  BY <1>u, <1>1 DEF Inv, CacheTypes, CacheInv, Coherent
<1> QED BY <1>u, <1>t, <1>1, <1>2, <1>3, CachesStep

\* What the reader caches is a pointer it has in hand.
LEMMA CachesHeld ==
    ASSUME Inv, NEW j \in Held, NEW d,
           OnlyAdds(cache, d, [id |-> j, obj |-> reader.obj])
    PROVE  ~misled => Coherent(d)
BY DEF Inv, CacheInv, ReaderInv, Coherent, OnlyAdds

LEMMA HeldEntry ==
    ASSUME Inv, NEW j \in Held
    PROVE  [id |-> j, obj |-> reader.obj] \in CacheEntry
BY HeldIn DEF CacheEntry

LEMMA PrefetchStep ==
    ASSUME Inv, UNCHANGED cvars, DescriptorPrefetch
    PROVE  Inv'
<1>u. /\ UNCHANGED <<obj, created, array, map, nextId, released, count>>
      /\ UNCHANGED <<misled, torn, wild, gone, cvars>>
      /\ UNCHANGED <<props, changed>>
  BY DEF DescriptorPrefetch, table, ghosts
<1> DEFINE j == reader.id + 1
<1>1. j \in Held /\ (cache' = cache \/ cache' = Append(cache, [id |-> j, obj |-> reader.obj]))
  BY DEF DescriptorPrefetch, Held
<1> HIDE DEF j
<1>t. cache \in Seq(CacheEntry) /\ gone \subseteq Ids /\ (~misled => Coherent(cache))
  BY DEF Inv, ObjTypes, CacheTypes, CacheInv
<1>2. cache' \in Seq(CacheEntry) /\ (~misled => Coherent(cache'))
  <2>1. CASE cache' = cache
    BY <1>t, <2>1
  <2>2. CASE cache' = Append(cache, [id |-> j, obj |-> reader.obj])
    BY <1>1, <1>t, <2>2, AppendAdds, HeldEntry, CachesHeld
  <2> QED BY <1>1, <2>1, <2>2
<1>3. ReaderTypes' /\ ReaderInv' /\ reader'.pc # "file"
  <2>1. CASE map[reader.id] = 0
    BY <2>1, LetsGo DEF DescriptorPrefetch
  <2>2. CASE map[reader.id] # 0
    <3>1. reader' = Reader("store", reader.id, map[reader.id])
      BY <2>2 DEF DescriptorPrefetch
    <3>2. reader.id \in Ids
      BY <1>1, HeldIn DEF ReaderEntry
    <3>3. map[reader.id] \in Objects
      BY <2>2, <3>2, MapIn DEF Inv
    <3> QED BY <1>u, <3>1, <3>2, <3>3, TakesUp
  <2> QED BY <2>1, <2>2
<1>4. PropInv'
  BY <1>u, <1>3, PropFrame
<1>5. CacheTypes' /\ CacheInv'
  BY <1>u, <1>2, <1>3 DEF Inv, CacheTypes, CacheInv, Coherent
<1> QED BY <1>u, <1>t, <1>3, <1>4, <1>5, CachesStep

LEMMA StoreStep ==
    ASSUME Inv, UNCHANGED cvars, DescriptorStore
    PROVE  Inv'
<1>u. /\ UNCHANGED <<obj, created, array, map, nextId, released, count>>
      /\ UNCHANGED <<misled, torn, wild, gone, cvars>>
      /\ UNCHANGED <<props, changed>>
  BY DEF DescriptorStore, table, ghosts
<1>h. reader.id \in Held
  BY DEF DescriptorStore, Held
<1>i. reader.id \in Ids /\ reader.obj \in Objects
  BY <1>h, HeldIn
<1>t. cache \in Seq(CacheEntry) /\ gone \subseteq Ids /\ (~misled => Coherent(cache))
  BY DEF Inv, ObjTypes, CacheTypes, CacheInv
<1>1. CASE /\ cache' \in Insert(cache, [id |-> reader.id, obj |-> reader.obj], CacheSize)
           /\ reader' = Reader("read", reader.id, reader.obj)
  <2>1. cache' \in Seq(CacheEntry) /\ (~misled => Coherent(cache'))
    BY <1>h, <1>t, <1>1, InsertAdds, HeldEntry, CachesHeld
  <2>2. ReaderTypes' /\ ReaderInv' /\ reader'.pc # "file"
    BY <1>u, <1>h, <1>i, <1>1, TakesUp DEF Inv, ReaderInv
  <2>3. CacheTypes' /\ CacheInv' /\ PropInv'
    BY <1>u, <2>1, <2>2, PropFrame DEF Inv, CacheTypes, CacheInv, Coherent
  <2> QED BY <1>u, <1>t, <2>2, <2>3, CachesStep
<1>2. CASE reader' = NoReader /\ cache' = cache
  <2>1. ReaderTypes' /\ ReaderInv' /\ reader'.pc # "file"
    BY <1>2, LetsGo
  <2>2. CacheTypes' /\ CacheInv' /\ PropInv'
    BY <1>u, <1>2, <2>1, PropFrame DEF Inv, CacheTypes, CacheInv, Coherent
  <2> QED BY <1>u, <1>t, <2>1, <2>2, CachesStep
<1> QED BY <1>1, <1>2 DEF DescriptorStore

\* A descriptor read for an id not gone is that of the object it has.
LEMMA ReadStep ==
    ASSUME Inv, UNCHANGED cvars, DescriptorRead
    PROVE  Inv'
<1>u. /\ UNCHANGED <<obj, created, array, map, nextId, released, count>>
      /\ UNCHANGED <<misled, torn, wild, gone, cvars>>
      /\ UNCHANGED <<cache, props>>
      /\ changed' = changed \cup ({reader.id} \cap gone)
  BY DEF DescriptorRead, table, caches
<1>h. reader.id \in Held
  BY DEF DescriptorRead, Held
<1>i. reader.id \in Ids /\ reader.obj \in Objects
  BY <1>h, HeldIn
<1>t. gone \subseteq Ids /\ ObjTypes
  BY DEF Inv, ObjTypes
<1>1. CASE reader' = NoReader
  <2>1. ReaderTypes' /\ ReaderInv' /\ reader'.pc # "file"
    BY <1>1, LetsGo
  <2>2. CacheTypes' /\ CacheInv' /\ PropInv'
    BY <1>u, <2>1, PropFrame DEF Inv, CacheTypes, CacheInv, Coherent
  <2> QED BY <1>u, <1>t, <2>1, <2>2, CachesStep
<1>2. ASSUME NEW o \in Reuse(reader.obj),
             reader' = [Reader("file", reader.id, reader.obj) EXCEPT !.fmt = obj[o].fmt]
      PROVE  Inv'
  <2>1. o \in Objects
    BY <1>i, <1>t, ReuseIn
  <2>2. obj[o] \in Surfaces
    BY <1>t, <2>1 DEF ObjTypes
  <2>3. obj[o].fmt \in Formats
    BY <2>2 DEF Surfaces
  <2>4. reader' = [pc |-> "file", id |-> reader.id, obj |-> reader.obj, fmt |-> obj[o].fmt]
    BY <1>2 DEF Reader
  <2>5. /\ reader' \in ReaderEntry
        /\ reader'.pc = "file" /\ reader'.id = reader.id /\ reader'.fmt = obj[o].fmt
    BY <1>i, <2>3, <2>4 DEF ReaderEntry
  <2>6. ReaderTypes' /\ ReaderInv'
    BY <2>5 DEF ReaderTypes, ReaderInv, Held
  <2>7. ASSUME ~misled, reader.id \notin changed'
        PROVE  map[reader.id] # 0 /\ obj[o].fmt = obj[map[reader.id]].fmt
    <3>1. reader.id \notin gone
      BY <1>u, <2>7
    <3>2. reader.obj = map[reader.id] /\ map[reader.id] # 0
      BY <1>h, <1>i, <2>7, <3>1, SurfaceAssumption DEF Inv, ReaderInv, Objects
    <3>3. Exists(reader.obj)
      BY <1>i, <3>2 DEF Exists
    <3> QED BY <3>2, <3>3 DEF Reuse
  <2>8. PropInv'
    <3> SUFFICES ASSUME ~misled
                 PROVE  /\ \A k \in DOMAIN props : Current(props[k].id, props[k].fmt)'
                        /\ Current(reader.id, reader.fmt)'
      BY <1>u DEF PropInv, Current
    <3>1. \A k \in DOMAIN props : Current(props[k].id, props[k].fmt)
      BY DEF Inv, PropInv
    <3>2. \A k \in DOMAIN props : Current(props[k].id, props[k].fmt)'
      BY <1>u, <3>1 DEF Current
    <3>3. Current(reader.id, reader.fmt)'
      BY <1>u, <2>5, <2>7 DEF Current
    <3> QED BY <3>2, <3>3
  <2>9. CacheTypes' /\ CacheInv'
    BY <1>u, <2>6 DEF Inv, CacheTypes, CacheInv, Coherent
  <2> QED BY <1>u, <1>t, <2>6, <2>8, <2>9, CachesStep
<1> QED BY <1>1, <1>2 DEF DescriptorRead

LEMMA FileStep ==
    ASSUME Inv, UNCHANGED cvars, DescriptorFile
    PROVE  Inv'
<1>u. /\ UNCHANGED <<obj, created, array, map, nextId, released, count>>
      /\ UNCHANGED <<misled, torn, wild, gone, cvars>>
      /\ UNCHANGED <<cache, changed>>
      /\ reader.pc = "file" /\ reader' = NoReader
  BY DEF DescriptorFile, table, ghosts
<1> DEFINE e == [id |-> reader.id, fmt |-> reader.fmt, valid |-> TRUE]
<1>1. props' \in Insert(props, e, PropSize)
  BY DEF DescriptorFile
<1>2. reader \in ReaderEntry
  BY <1>u DEF Inv, CacheTypes, ReaderTypes, NoReader, Reader
<1>3. e \in PropEntry /\ e.id = reader.id /\ e.fmt = reader.fmt
  BY <1>2 DEF ReaderEntry, PropEntry
<1> HIDE DEF e
<1>4. props' \in Seq(PropEntry) /\ OnlyAdds(props, props', e)
  BY <1>1, <1>3, InsertAdds DEF Inv, CacheTypes
<1>5. ReaderTypes' /\ ReaderInv' /\ reader'.pc # "file"
  BY <1>u, LetsGo
<1>6. PropInv'
  <2> SUFFICES ASSUME ~misled, NEW k \in DOMAIN props'
               PROVE  Current(props'[k].id, props'[k].fmt)
    BY <1>u, <1>5 DEF PropInv, Current
  <2>1. Current(e.id, e.fmt) /\ \A m \in DOMAIN props : Current(props[m].id, props[m].fmt)
    BY <1>u, <1>3 DEF Inv, PropInv
  <2> QED BY <1>4, <2>1 DEF OnlyAdds
<1>7. CacheTypes' /\ CacheInv' /\ gone \subseteq Ids
  BY <1>u, <1>4, <1>5 DEF Inv, ObjTypes, CacheTypes, CacheInv, Coherent
<1> QED BY <1>u, <1>5, <1>6, <1>7, CachesStep

LEMMA InvalidateStep ==
    ASSUME Inv, NEW i \in Ids, UNCHANGED cvars, invalidatePropertyCache(i)
    PROVE  Inv'
<1> DEFINE f == First(props, i)
<1>u. /\ UNCHANGED <<obj, created, array, map, nextId, released, count>>
      /\ UNCHANGED <<misled, torn, wild, gone, cvars>>
      /\ UNCHANGED <<cache, reader, changed>>
  BY DEF invalidatePropertyCache, table, threads, ghosts
<1>0. f \in DOMAIN props /\ props' = [props EXCEPT ![f].valid = FALSE] /\ props \in Seq(PropEntry)
  BY FirstFound DEF invalidatePropertyCache, Inv, CacheTypes
<1> HIDE DEF f
<1>e. props[f] \in PropEntry
  BY <1>0, SeqElem
<1>n. [props[f] EXCEPT !.valid = FALSE] \in PropEntry
  BY <1>e DEF PropEntry
<1>p. props' \in Seq(PropEntry)
  <2>1. props' = [props EXCEPT ![f] = [props[f] EXCEPT !.valid = FALSE]]
    BY <1>0
  <2>2. f \in 1 .. Len(props)
    BY <1>0, LenProperties
  <2> QED BY <1>0, <1>n, <2>1, <2>2, ExceptSeq
<1>k. /\ DOMAIN props' = DOMAIN props
      /\ \A k \in DOMAIN props : props'[k].id = props[k].id /\ props'[k].fmt = props[k].fmt
  BY <1>0, <1>e DEF PropEntry
<1>1. ReaderTypes' /\ ReaderInv'
  BY <1>u, ReaderFrame
<1>2. PropInv'
  BY <1>u, <1>k DEF Inv, PropInv, Current
<1>3. CacheTypes' /\ CacheInv' /\ gone \subseteq Ids
  BY <1>u, <1>p, <1>1 DEF Inv, ObjTypes, CacheTypes, CacheInv, Coherent
<1> QED BY <1>u, <1>1, <1>2, <1>3, CachesStep

\* A flush forgets the ids destroyed, or changed, but for those whose pointer,
\* or descriptor, the reader has in hand.
LEMMA FlushStep ==
    ASSUME Inv, UNCHANGED cvars, flushPropertyCache \/ flushDiscoveryCache
    PROVE  Inv'
<1>u. /\ UNCHANGED <<obj, created, array, map, nextId, released, count>>
      /\ UNCHANGED <<misled, torn, wild, reader, cvars>>
  BY DEF flushPropertyCache, flushDiscoveryCache, table, threads
<1>t. gone \subseteq Ids /\ cache \in Seq(CacheEntry) /\ props \in Seq(PropEntry) /\ ReaderTypes
  BY DEF Inv, ObjTypes, CacheTypes
<1>1. ReaderTypes'
  BY <1>u, <1>t DEF ReaderTypes, NoReader, Reader
<1>4. CASE flushPropertyCache
  <2>1. /\ props' = <<>> /\ cache' = cache /\ gone' = gone
        /\ changed' = changed \cap {i \in Ids : reader.pc = "file" /\ reader.id = i}
    BY <1>4 DEF flushPropertyCache
  <2>2. CacheTypes' /\ CacheInv'
    BY <1>u, <1>t, <1>1, <2>1 DEF Inv, CacheTypes, CacheInv, Coherent
  <2>3. ReaderInv'
    BY <1>u, <2>1, ReaderFrame
  <2>4. PropInv'
    <3>1. ASSUME ~misled, reader.pc = "file" PROVE Current(reader.id, reader.fmt)'
      <4>1. reader \in ReaderEntry
        BY <1>t, <3>1 DEF ReaderTypes, NoReader, Reader
      <4>2. reader.id \in Ids
        BY <4>1 DEF ReaderEntry
      <4>3. reader.id \notin changed' => reader.id \notin changed
        BY <2>1, <3>1, <4>2
      <4> QED BY <1>u, <3>1, <4>3 DEF Inv, PropInv, Current
    <3> QED BY <1>u, <2>1, <3>1 DEF PropInv
  <2> QED BY <1>u, <1>t, <2>1, <2>2, <2>3, <2>4, CachesStep
<1>5. CASE flushDiscoveryCache
  <2>1. cache' = <<>> /\ props' = props /\ changed' = changed /\ gone' = gone \cap Held
    BY <1>5 DEF flushDiscoveryCache
  <2>2. CacheTypes' /\ CacheInv'
    BY <1>u, <1>t, <1>1, <2>1 DEF CacheTypes, CacheInv, Coherent
  <2>3. ReaderInv'
    BY <1>u, <2>1 DEF Inv, ReaderInv, Held
  <2>4. PropInv'
    BY <1>u, <2>1, PropFrame
  <2> QED BY <1>u, <1>t, <2>1, <2>2, <2>3, <2>4, CachesStep
<1> QED BY <1>4, <1>5

LEMMA PrewarmStep ==
    ASSUME Inv, NEW i \in Ids, UNCHANGED cvars, prewarmDiscoveryCache(i)
    PROVE  Inv'
<1>u. /\ UNCHANGED <<obj, created, array, map, nextId, released, count>>
      /\ UNCHANGED <<misled, torn, wild, gone, cvars>>
      /\ UNCHANGED <<cache, props, changed>>
      /\ map[i] # 0 /\ reader' = Reader("warm", i, map[i])
  BY DEF prewarmDiscoveryCache, table, caches, ghosts
<1>1. map[i] \in Objects
  BY <1>u, MapIn DEF Inv
<1>2. ReaderTypes' /\ ReaderInv' /\ reader'.pc # "file"
  BY <1>u, <1>1, TakesUp
<1>3. PropInv'
  BY <1>u, <1>2, PropFrame
<1>4. CacheTypes' /\ CacheInv' /\ gone \subseteq Ids
  BY <1>u, <1>2 DEF Inv, ObjTypes, CacheTypes, CacheInv, Coherent
<1> QED BY <1>u, <1>2, <1>3, <1>4, CachesStep

LEMMA PrewarmStoreStep ==
    ASSUME Inv, UNCHANGED cvars, PrewarmStore
    PROVE  Inv'
<1>u. /\ UNCHANGED <<obj, created, array, map, nextId, released, count>>
      /\ UNCHANGED <<wild, gone, cvars>>
      /\ UNCHANGED <<props, changed>> /\ reader' = NoReader
  BY DEF PrewarmStore, table
<1>h. reader.id \in Held
  BY DEF PrewarmStore, Held
<1>t. cache \in Seq(CacheEntry) /\ props \in Seq(PropEntry) /\ gone \subseteq Ids
  BY DEF Inv, ObjTypes, CacheTypes
<1>1. ReaderTypes' /\ ReaderInv' /\ reader'.pc # "file"
  BY <1>u, LetsGo
<1>2. CASE Len(cache) < CacheSize
  <2>1. cache' = Append(cache, [id |-> reader.id, obj |-> reader.obj]) /\ UNCHANGED <<torn, misled>>
    BY <1>2 DEF PrewarmStore
  <2>2. cache' \in Seq(CacheEntry) /\ (~misled => Coherent(cache'))
    BY <1>h, <1>t, <2>1, AppendAdds, HeldEntry, CachesHeld
  <2>3. CacheTypes' /\ CacheInv'
    BY <1>u, <1>t, <1>1, <2>1, <2>2 DEF CacheTypes, CacheInv, Coherent
  <2>4. PropInv'
    BY <1>u, <1>1, <2>1, PropFrame
  <2> QED BY <1>u, <1>t, <1>1, <2>1, <2>3, <2>4, CachesStep
<1>3. CASE ~(Len(cache) < CacheSize)
  <2>1. misled' = TRUE /\ torn' = TRUE /\ cache' = cache
    BY <1>3 DEF PrewarmStore
  <2>2. CacheTypes'
    BY <1>u, <1>t, <1>1, <2>1 DEF CacheTypes
  <2> QED BY <1>u, <2>1, <2>2, MisledStep
<1> QED BY <1>2, <1>3

LEMMA CollideStep ==
    ASSUME Inv, UNCHANGED cvars, cachesCollide
    PROVE  Inv'
<1>u. /\ UNCHANGED <<obj, created, array, map, nextId, released, count>>
      /\ UNCHANGED <<wild, gone, reader, cvars>>
      /\ misled' = TRUE /\ torn' = TRUE /\ cache' = <<>> /\ props' = <<>>
  BY DEF cachesCollide, table, threads
<1>1. CacheTypes'
  BY <1>u DEF Inv, CacheTypes, ReaderTypes, NoReader, Reader
<1> QED BY <1>u, <1>1, MisledStep

LEMMA OptimizeStep ==
    ASSUME Inv, UNCHANGED cvars, optimizeDiscoveryCache
    PROVE  Inv'
<1>1. PICK k \in 1 .. Len(cache) - 1 :
         cache' = [cache EXCEPT ![k] = cache[k + 1], ![k + 1] = cache[k]]
  BY DEF optimizeDiscoveryCache
<1>2. cache \in Seq(CacheEntry) /\ Len(cache) \in Nat /\ DOMAIN cache = 1 .. Len(cache)
  BY LenProperties DEF Inv, CacheTypes
<1> DEFINE m == k + 1
<1>3. k \in DOMAIN cache /\ m \in DOMAIN cache
  BY <1>1, <1>2
<1>c. cache' = [cache EXCEPT ![k] = cache[m], ![m] = cache[k]]
  BY <1>1
<1> HIDE DEF m
<1>4. cache[k] \in CacheEntry /\ cache[m] \in CacheEntry
  BY <1>2, <1>3, SeqElem
<1>5. cache' \in Seq(CacheEntry)
  <2> DEFINE d == [cache EXCEPT ![k] = cache[m]]
  <2>1. d \in Seq(CacheEntry) /\ Len(d) = Len(cache)
    BY <1>2, <1>3, <1>4, ExceptSeq
  <2>2. cache' = [d EXCEPT ![m] = cache[k]]
    BY <1>c
  <2> HIDE DEF d
  <2> QED BY <1>2, <1>3, <1>4, <2>1, <2>2, ExceptSeq
<1>6. \A x \in DOMAIN cache' : \E y \in DOMAIN cache : cache'[x] = cache[y]
  BY <1>3, <1>c
<1>7. ~misled => Coherent(cache')
  BY <1>6 DEF Inv, CacheInv, Coherent
<1>8. wild \in BOOLEAN /\ (wild => misled)
  BY DEF Inv, ObjTypes, RegionWritesMapped
<1> QED BY <1>5, <1>7, <1>8, LookStep DEF optimizeDiscoveryCache, table, threads, ghosts

-----------------------------------------------------------------------------
(* Clients and shares.                                                     *)

\* A step that changes clients and shares and at most looks a surface up.
LEMMA SharingStep ==
    ASSUME Inv, UNCHANGED <<obj, created, array, map, nextId, released, count>>,
           UNCHANGED <<gone, changed, misled, torn, wild, props, reader>>,
           cache' \in Seq(CacheEntry), ~misled => Coherent(cache'),
           ShareTypes', ShareInv'
    PROVE  Inv'
<1>1. ObjTypes' /\ LifeInv' /\ CountKept' /\ MapInv'
  BY TableFrame DEF Inv, ObjTypes
<1>2. PropInv'
  BY PropFrame
<1>3. CacheTypes' /\ CacheInv' /\ ReaderInv' /\ TornInv' /\ RegionWritesMapped'
  BY ReaderFrame DEF Inv, CacheTypes, CacheInv, Coherent, TornInv, RegionWritesMapped
<1> QED BY <1>1, <1>2, <1>3 DEF Inv

\* RemoveAt leaves entries of the sequence only.
LEMMA RemoveAtKeeps ==
    ASSUME NEW S, NEW c \in Seq(S), NEW k \in DOMAIN c
    PROVE  RemoveAt(c, k) \in Seq(S)
<1>1. k \in 1 .. Len(c) /\ Len(c) \in Nat /\ \A m \in 1 .. Len(c) : c[m] \in S
  BY LenProperties
<1>2. k - 1 \in Int /\ k + 1 \in Int /\ Len(c) \in Int
  BY <1>1
<1>3. (\A m \in 1 .. k - 1 : c[m] \in S) /\ (\A m \in k + 1 .. Len(c) : c[m] \in S)
  BY <1>1
<1>4. SubSeq(c, 1, k - 1) \in Seq(S) /\ SubSeq(c, k + 1, Len(c)) \in Seq(S)
  BY <1>2, <1>3, SubSeqProperties
<1> QED BY <1>4, ConcatProperties DEF RemoveAt

\* A registration is newer than every share.
LEMMA RegisterStep ==
    ASSUME Inv, registerClient
    PROVE  Inv'
<1>1. PICK c \in Clients : clients' = [clients EXCEPT ![c] = registered + 1]
  BY DEF registerClient
<1>2. registered' = registered + 1 /\ shares' = shares
  BY DEF registerClient
<1>u. /\ UNCHANGED <<obj, created, array, map, nextId, released, count>>
      /\ UNCHANGED <<gone, changed, misled, torn, wild, props, reader, cache>>
  BY DEF registerClient, table, caches, threads, ghosts
<1>3. /\ registered \in Nat /\ clients \in [Clients -> 0 .. registered]
      /\ shares \in Seq(ShareEntry(created, registered))
  BY DEF Inv, ShareTypes
<1>4. 0 .. registered \subseteq 0 .. registered + 1 /\ registered + 1 \in 0 .. registered + 1
  BY <1>3
<1>5. ShareTypes'
  <2>1. ShareEntry(created, registered) \subseteq ShareEntry(created, registered + 1)
    BY <1>4 DEF ShareEntry
  <2>2. shares \in Seq(ShareEntry(created, registered + 1))
    BY <1>3, <2>1, SeqMono
  <2>3. clients' \in [Clients -> 0 .. registered + 1]
    BY <1>1, <1>3, <1>4
  <2> QED BY <1>2, <1>3, <1>u, <2>2, <2>3 DEF ShareTypes, ShareEntry
<1>6. ShareInv'
  <2> SUFFICES ASSUME NEW k \in DOMAIN shares
               PROVE  /\ shares[k].reg # 0
                      /\ ~misled => \/ shares[k].obj \in {0, map[shares[k].id]}
                                    \/ ~Exists(shares[k].obj)
                      /\ clients'[shares[k].client] = 0 \/ clients'[shares[k].client] >= shares[k].reg
    BY <1>2, <1>u DEF ShareInv, Exists
  <2>1. shares[k] \in ShareEntry(created, registered)
    BY <1>3, SeqElem
  <2>2. shares[k].client \in Clients /\ shares[k].reg \in 0 .. registered
    BY <2>1 DEF ShareEntry
  <2>3. clients'[shares[k].client] = clients[shares[k].client]
        \/ clients'[shares[k].client] = registered + 1
    BY <1>1, <1>3, <2>2
  <2>4. clients'[shares[k].client] = 0 \/ clients'[shares[k].client] >= shares[k].reg
    BY <1>3, <2>2, <2>3 DEF Inv, ShareInv
  <2> QED BY <2>4 DEF Inv, ShareInv
<1>7. cache' \in Seq(CacheEntry) /\ (~misled => Coherent(cache'))
  BY <1>u DEF Inv, CacheTypes, CacheInv
<1> QED BY <1>u, <1>5, <1>6, <1>7, SharingStep

LEMMA UnregisterStep ==
    ASSUME Inv, NEW c \in Clients, unregisterClient(c)
    PROVE  Inv'
<1>1. clients' = [clients EXCEPT ![c] = 0] /\ registered' = registered /\ shares' = shares
  BY DEF unregisterClient
<1>u. /\ UNCHANGED <<obj, created, array, map, nextId, released, count>>
      /\ UNCHANGED <<gone, changed, misled, torn, wild, props, reader, cache>>
  BY DEF unregisterClient, table, caches, threads, ghosts
<1>3. /\ registered \in Nat /\ clients \in [Clients -> 0 .. registered]
      /\ shares \in Seq(ShareEntry(created, registered))
  BY DEF Inv, ShareTypes
<1>4. \A d \in Clients : clients'[d] = clients[d] \/ clients'[d] = 0
  BY <1>1, <1>3
<1>5. ShareTypes'
  BY <1>1, <1>3, <1>u DEF ShareTypes, ShareEntry
<1>6. ShareInv'
  <2> SUFFICES ASSUME NEW k \in DOMAIN shares
               PROVE  /\ shares[k].reg # 0
                      /\ ~misled => \/ shares[k].obj \in {0, map[shares[k].id]}
                                    \/ ~Exists(shares[k].obj)
                      /\ clients'[shares[k].client] = 0 \/ clients'[shares[k].client] >= shares[k].reg
    BY <1>1, <1>u DEF ShareInv, Exists
  <2>1. shares[k] \in ShareEntry(created, registered)
    BY <1>3, SeqElem
  <2>2. shares[k].client \in Clients
    BY <2>1 DEF ShareEntry
  <2> QED BY <1>4, <2>2 DEF Inv, ShareInv
<1>7. cache' \in Seq(CacheEntry) /\ (~misled => Coherent(cache'))
  BY <1>u DEF Inv, CacheTypes, CacheInv
<1> QED BY <1>u, <1>5, <1>6, <1>7, SharingStep

LEMMA ShareStep ==
    ASSUME Inv, NEW i \in Ids, NEW c \in Clients, shareSurface(i, c)
    PROVE  Inv'
<1> DEFINE e == [id |-> i, client |-> c, obj |-> map[i], reg |-> clients[c]]
<1>0. PICK o \in Objects : findSurface(i, o)
  BY DEF shareSurface
<1>1. clients[c] # 0 /\ shares' = Append(shares, e)
  BY DEF shareSurface
<1>u. /\ UNCHANGED <<obj, created, array, map, nextId, released, count>>
      /\ UNCHANGED <<gone, changed, misled, torn, wild, props, reader, clients, registered>>
  BY DEF shareSurface, table, threads, ghosts
<1>3. /\ registered \in Nat /\ clients \in [Clients -> 0 .. registered]
      /\ shares \in Seq(ShareEntry(created, registered))
  BY DEF Inv, ShareTypes
<1>4. /\ e \in ShareEntry(created, registered)
      /\ e.id = i /\ e.client = c /\ e.obj = map[i] /\ e.reg = clients[c] /\ clients[c] \in Nat
  BY <1>3 DEF ShareEntry, Inv, ObjTypes
<1> HIDE DEF e
<1>5. shares' \in Seq(ShareEntry(created, registered)) /\ OnlyAdds(shares, shares', e)
  BY <1>1, <1>3, <1>4, AppendAdds
<1>6. ShareTypes'
  BY <1>u, <1>3, <1>5 DEF ShareTypes, ShareEntry
<1>7. ShareInv'
  <2> DEFINE Good(s) == /\ s.reg # 0
                        /\ ~misled => s.obj \in {0, map[s.id]} \/ ~Exists(s.obj)
                        /\ clients[s.client] = 0 \/ clients[s.client] >= s.reg
  <2>1. Good(e)
    BY <1>1, <1>4
  <2>2. \A k \in DOMAIN shares : Good(shares[k])
    BY DEF Inv, ShareInv
  <2>3. \A k \in DOMAIN shares' : Good(shares'[k])
    <3> HIDE DEF Good
    <3> QED BY <1>5, <2>1, <2>2 DEF OnlyAdds
  <2> QED BY <1>u, <2>3 DEF ShareInv, Exists
<1>8. cache' \in Seq(CacheEntry) /\ (~misled => Coherent(cache'))
  BY <1>0, FoundOK
<1> QED BY <1>u, <1>6, <1>7, <1>8, SharingStep

LEMMA UnshareStep ==
    ASSUME Inv, NEW i \in Ids, NEW c \in Clients, unshareSurface(i, c)
    PROVE  Inv'
<1>1. PICK k \in DOMAIN shares : shares' = RemoveAt(shares, k)
  BY DEF unshareSurface
<1>u. /\ UNCHANGED <<obj, created, array, map, nextId, released, count>>
      /\ UNCHANGED <<gone, changed, misled, torn, wild, props, reader, cache, clients, registered>>
  BY DEF unshareSurface, table, caches, threads, ghosts
<1> DEFINE Good(s) == /\ s.reg # 0
                      /\ ~misled => s.obj \in {0, map[s.id]} \/ ~Exists(s.obj)
                      /\ clients[s.client] = 0 \/ clients[s.client] >= s.reg
           S == {s \in ShareEntry(created, registered) : Good(s)}
<1>2. shares \in Seq(ShareEntry(created, registered))
  BY DEF Inv, ShareTypes
<1>3. \A m \in DOMAIN shares : Good(shares[m])
  BY DEF Inv, ShareInv
<1>4. shares \in Seq(S)
  <2> HIDE DEF Good
  <2>1. Len(shares) \in Nat /\ shares \in [1 .. Len(shares) -> ShareEntry(created, registered)]
        /\ DOMAIN shares = 1 .. Len(shares)
    BY <1>2, LenProperties
  <2>2. shares \in [1 .. Len(shares) -> S]
    BY <1>3, <2>1
  <2> HIDE DEF S
  <2> QED BY <2>1, <2>2, SeqDef
<1>5. shares' \in Seq(S)
  <2> HIDE DEF S
  <2> QED BY <1>1, <1>4, RemoveAtKeeps
<1>6. shares' \in Seq(ShareEntry(created, registered))
  <2>1. S \subseteq ShareEntry(created, registered)
    <3> HIDE DEF Good
    <3> QED OBVIOUS
  <2> HIDE DEF S
  <2> QED BY <1>5, <2>1, SeqMono
<1>7. \A m \in DOMAIN shares' : Good(shares'[m])
  <2>1. \A m \in DOMAIN shares' : shares'[m] \in S
    <3> HIDE DEF S
    <3> QED BY <1>5, SeqElem
  <2> HIDE DEF Good
  <2> QED BY <2>1
<1>8. ShareTypes'
  BY <1>u, <1>6 DEF Inv, ShareTypes, ShareEntry
<1>9. ShareInv'
  BY <1>u, <1>7 DEF ShareInv, Exists
<1>10. cache' \in Seq(CacheEntry) /\ (~misled => Coherent(cache'))
  BY <1>u DEF Inv, CacheTypes, CacheInv
<1> QED BY <1>u, <1>8, <1>9, <1>10, SharingStep

-----------------------------------------------------------------------------
LEMMA StutterInv ==
    ASSUME Inv, UNCHANGED vars
    PROVE  Inv'
<1>1. /\ wild \in BOOLEAN /\ (wild => misled)
      /\ cache \in Seq(CacheEntry) /\ (~misled => Coherent(cache))
  BY DEF Inv, ObjTypes, CacheTypes, CacheInv, RegionWritesMapped
<1>2. /\ UNCHANGED <<obj, created, array, map, nextId, released, count>>
      /\ UNCHANGED <<gone, changed, misled, torn, props, reader, cvars>>
      /\ wild' = wild /\ cache' = cache
  BY DEF vars, svars, table, caches, threads, ghosts
<1> QED BY <1>1, <1>2, LookStep

LEMMA TableStep ==
    ASSUME Inv, TableNext, UNCHANGED cvars
    PROVE  Inv'
<1>1. CASE \E f \in Formats, b \in Bytes : createSurface(f, b)
  BY <1>1, CreateStep
<1>2. CASE createSurfaceFails
  BY <1>2, CreateFailsStep
<1>3. ASSUME NEW i \in Ids,
             \/ destroySurface(i) \/ fillSurface(i) \/ fillSurfaceRegion(i)
             \/ getSurfacePlaneInfo(i) \/ validateSurface(i) \/ checkSurfaceIntegrity(i)
             \/ \E j \in Ids : copySurface(i, j) \/ copySurfaceRegion(i, j)
             \/ \E ro \in BOOLEAN : lockSurface(i, ro) \/ setSurfaceMemoryPriority(i, ro)
             \/ lockSurfacePlane(i) \/ unlockSurface(i) \/ unlockSurfacePlane(i)
             \/ \E j \in Ids, f \in Formats : convertSurfaceFormat(i, j, f)
             \/ DescriptorFind(i) \/ invalidatePropertyCache(i) \/ prewarmDiscoveryCache(i)
      PROVE  Inv'
  <2>1. CASE destroySurface(i) \/ fillSurface(i) \/ fillSurfaceRegion(i)
    BY <2>1, DestroyStep, FillStep DEF fillSurface, fillSurfaceRegion
  <2>2. CASE getSurfacePlaneInfo(i) \/ validateSurface(i) \/ checkSurfaceIntegrity(i)
    BY <2>2, LookOnlyStep DEF getSurfacePlaneInfo, validateSurface, checkSurfaceIntegrity
  <2>3. CASE \E j \in Ids : copySurface(i, j) \/ copySurfaceRegion(i, j)
    BY <2>3, CopyStep, CopyRegionStep
  <2>4. CASE \E ro \in BOOLEAN : lockSurface(i, ro) \/ setSurfaceMemoryPriority(i, ro)
    BY <2>4, OnSurfaceStep
  <2>5. CASE lockSurfacePlane(i) \/ unlockSurface(i) \/ unlockSurfacePlane(i)
    <3>1. TRUE \in BOOLEAN
      OBVIOUS
    <3> QED BY <2>5, <3>1, OnSurfaceStep
  <2>6. CASE \E j \in Ids, f \in Formats : convertSurfaceFormat(i, j, f)
    BY <2>6, ConvertStep
  <2>7. CASE DescriptorFind(i) \/ invalidatePropertyCache(i) \/ prewarmDiscoveryCache(i)
    BY <2>7, FindStep, InvalidateStep, PrewarmStep
  <2> QED BY ONLY <1>3, <2>1, <2>2, <2>3, <2>4, <2>5, <2>6, <2>7, Zenon
<1>4. CASE \E idle \in SUBSET array : evictUnusedSurfaces(idle)
  BY <1>4, EvictStep
<1>5. CASE compactSurfaceMemory \/ PrewarmStore \/ cachesCollide
  BY <1>5, CompactStep, PrewarmStoreStep, CollideStep
<1>6. CASE DescriptorPrefetch \/ DescriptorStore \/ DescriptorRead \/ DescriptorFile
  BY <1>6, PrefetchStep, StoreStep, ReadStep, FileStep
<1>7. CASE flushPropertyCache \/ flushDiscoveryCache \/ optimizeDiscoveryCache
  BY <1>7, FlushStep, OptimizeStep
<1> QED BY <1>1, <1>2, <1>3, <1>4, <1>5, <1>6, <1>7, Zenon DEF TableNext

LEMMA NextInv == Inv /\ [Next]_vars => Inv'
<1> SUFFICES ASSUME Inv, [Next]_vars PROVE Inv'
  OBVIOUS
<1>1. CASE TableNext /\ UNCHANGED cvars
  BY <1>1, TableStep
<1>2. CASE Sharing
  <2>1. CASE registerClient
    BY <2>1, RegisterStep
  <2>2. ASSUME NEW c \in Clients,
               unregisterClient(c) \/ \E i \in Ids : shareSurface(i, c) \/ unshareSurface(i, c)
        PROVE  Inv'
    BY <2>2, UnregisterStep, ShareStep, UnshareStep
  <2> QED BY <1>2, <2>1, <2>2, Zenon DEF Sharing
<1>3. CASE Finished \/ UNCHANGED vars
  BY <1>3, StutterInv DEF Finished
<1> QED BY <1>1, <1>2, <1>3, Zenon DEF Next

-----------------------------------------------------------------------------
(* The theorems.                                                           *)

\* The inductive invariant holds in every reachable state.
THEOREM InvTheorem == Spec => []Inv
BY InitInv, NextInv, PTL DEF Spec

\* The base address lockSurface or lockSurfacePlane handed out stays backed by
\* memory until it is given back, whichever stale pointer a destruction goes
\* through; and fillSurface, fillSurfaceRegion and copySurfaceRegion use
\* released memory only for an id destroyed since the last flush (or while an
\* unlocked lookup or prewarm had its pointer in hand), after a destruction
\* through a stale pointer, or after two threads met in the caches.
THEOREM MemoryTheorem == Spec => []MemoryStaysMapped
<1>1. Inv => MemoryStaysMapped
  BY DEF Inv, LifeInv, MemoryStaysMapped, LockedStaysMapped
<1> QED BY <1>1, InvTheorem, PTL

\* Until a destruction goes through a stale pointer or two threads meet in the
\* caches, the discovery cache has what the dictionary has for every id not
\* destroyed since the last flush or while an unlocked lookup or prewarm had
\* its pointer in hand, ids are handed out once, and a cached descriptor is
\* the surface's unless the id was converted, destroyed or read through a
\* stale pointer.
THEOREM LookupsTheorem == Spec => []LookupsCurrent
<1>1. Inv => LookupsCurrent
  BY DEF Inv, MapInv, CacheInv, Coherent, PropInv, Current, LookupsCurrent, CacheCoherent,
         DescriptorsCurrent
<1> QED BY <1>1, InvTheorem, PTL

\* What canClientAccessSurface grants for a share goes to another surface only
\* when the one it was made for is gone (until a destruction goes through a
\* stale pointer or two threads meet in the caches), and to another client only
\* when the registration it was made for has ended.
THEOREM SharesTheorem == Spec => []SharesExplained
<1>1. ASSUME Inv PROVE SharesExplained
  <2> SUFFICES ASSUME NEW k \in DOMAIN shares
               PROVE  LET s == shares[k]
                      IN /\ s.reg # 0
                         /\ ~misled => map[s.id] = s.obj \/ s.obj = 0 \/ ~Exists(s.obj)
                         /\ clients[s.client] # s.reg =>
                               clients[s.client] = 0 \/ clients[s.client] > s.reg
    BY DEF SharesExplained
  <2>1. shares[k] \in ShareEntry(created, registered)
    BY <1>1, SeqElem DEF Inv, ShareTypes
  <2>2. shares[k].reg \in Nat /\ clients[shares[k].client] \in Nat
    BY <1>1, <2>1 DEF ShareEntry, Inv, ShareTypes
  <2> QED BY <1>1, <2>2 DEF Inv, ShareInv
<1> QED BY <1>1, InvTheorem, PTL

-----------------------------------------------------------------------------
(* The accounts: the bounds of the caches and counters, and the memory     *)
(* total m_allocated_surface_memory.                                       *)

BoundsInv ==
    /\ ops \in 0 .. MaxOps /\ \A o \in Objects : obj[o].locks <= ops
    /\ \A o \in array : obj[o].id \in Ids
    /\ Len(cache) <= CacheSize /\ Len(props) <= PropSize /\ Len(released) <= MaxRecycled
    /\ stuck \in BOOLEAN /\ changed \subseteq Ids
    /\ registered <= ops /\ nextClient \in 0 .. MaxClient /\ freeClients \in Seq(Clients)

\* The total is what the surfaces take less what eviction subtracted, and is
\* exact as long as nothing was evicted.
MemoryInv ==
    /\ evicted \in Nat
    /\ allocated = (BytesOf(array) - evicted) % AllocMod
    /\ PoolLimitKept

\* Addition modulo the width of the total.
LEMMA ModAdd ==
    ASSUME NEW a \in Int, NEW d \in Int
    PROVE  ((a % AllocMod) + d) % AllocMod = (a + d) % AllocMod
<1> DEFINE q == a \div AllocMod
           r == a % AllocMod
           p == (r + d) \div AllocMod
           s == (r + d) % AllocMod
<1>0. AllocMod \in Nat \ {0}
  BY SurfaceAssumption
<1>1. q \in Int /\ r \in Int /\ a = AllocMod * q + r
  BY <1>0
<1>2. p \in Int /\ s \in 0 .. AllocMod - 1 /\ r + d = AllocMod * p + s
  BY <1>0, <1>1
<1>3. \A k \in Int, i \in 0 .. AllocMod - 1 : (AllocMod * k + i) % AllocMod = i
  BY <1>0
<1> HIDE DEF q, r, p, s
<1>4. a + d = AllocMod * (q + p) + s /\ q + p \in Int
  BY <1>0, <1>1, <1>2
<1>5. (a + d) % AllocMod = s
  BY <1>2, <1>3, <1>4
<1> QED BY <1>5 DEF r, s

\* The bytes of the surfaces of S, one by one.
Places(f, S) == {p \in S \X (1 .. AllocMod) : p[2] <= f[p[1]].size}

LEMMA PlacesFinite ==
    ASSUME NEW f, NEW S, IsFiniteSet(S)
    PROVE  IsFiniteSet(Places(f, S)) /\ Cardinality(Places(f, S)) \in Nat
<1>1. IsFiniteSet(1 .. AllocMod)
  BY SurfaceAssumption, FS_Interval
<1>2. IsFiniteSet(S \X (1 .. AllocMod)) /\ Places(f, S) \in SUBSET (S \X (1 .. AllocMod))
  BY <1>1, FS_Product DEF Places
<1> QED BY <1>2, FS_Subset, FS_CardinalityType

LEMMA PlacesSame ==
    ASSUME NEW f, NEW g, NEW S, \A o \in S : f[o].size = g[o].size
    PROVE  Places(f, S) = Places(g, S)
BY DEF Places

LEMMA CountTo ==
    ASSUME NEW n \in Nat
    PROVE  IsFiniteSet(1 .. n) /\ Cardinality(1 .. n) = n
BY FS_Interval

\* One more surface adds its size.
LEMMA PlacesAdd ==
    ASSUME NEW f, NEW S, IsFiniteSet(S), NEW x, x \notin S, f[x].size \in 0 .. AllocMod
    PROVE  Cardinality(Places(f, S \cup {x})) = Cardinality(Places(f, S)) + f[x].size
<1> DEFINE n == f[x].size
           X == {x} \X (1 .. n)
           P == Places(f, S)
<1>t. n \in Nat /\ n <= AllocMod /\ AllocMod \in Nat
  BY SurfaceAssumption
<1>2. Places(f, S \cup {x}) = P \cup X
  BY <1>t DEF Places
<1>3. P \cap X = {}
  BY DEF Places
<1>4. IsFiniteSet(P) /\ Cardinality(P) \in Nat
  BY PlacesFinite
<1> HIDE DEF n, P
<1>1. IsFiniteSet(X) /\ Cardinality(X) = n
  <2>1. IsFiniteSet({x}) /\ Cardinality({x}) = 1
    BY FS_Singleton
  <2>2. IsFiniteSet(1 .. n) /\ Cardinality(1 .. n) = n
    BY <1>t, CountTo
  <2> DEFINE Y == {x}
             Z == 1 .. n
  <2>3. IsFiniteSet(Y) /\ IsFiniteSet(Z) /\ Cardinality(Y) = 1 /\ Cardinality(Z) = n
    BY ONLY <2>1, <2>2, Zenon
  <2>4. X = Y \X Z
    OBVIOUS
  <2> HIDE DEF X, Y, Z
  <2>5. IsFiniteSet(X) /\ Cardinality(X) = Cardinality(Y) * Cardinality(Z)
    BY <2>3, <2>4, FS_Product, Zenon
  <2> QED BY <1>t, <2>3, <2>5
<1> HIDE DEF X
<1>5. Cardinality(P \cup X) = Cardinality(P) + n - 0
  <2>1. Cardinality(P \cup X) = Cardinality(P) + Cardinality(X) - Cardinality(P \cap X)
    BY <1>1, <1>4, FS_Union
  <2>2. Cardinality(P \cap X) = 0
    BY <1>3, FS_EmptySet
  <2> QED BY ONLY <1>1, <2>1, <2>2, Zenon
<1>6. Cardinality(P \cup X) = Cardinality(P) + n
  BY ONLY <1>t, <1>4, <1>5
<1> QED BY <1>2, <1>6, Zenon DEF P, n

LEMMA ModSmall ==
    ASSUME NEW a \in 0 .. AllocMod - 1
    PROVE  a % AllocMod = a
BY SurfaceAssumption

LEMMA BytesPlaces ==
    ASSUME NEW S
    PROVE  BytesOf(S) = Cardinality(Places(obj, S))
BY DEF BytesOf, Places

\* A step after which the table has the same surfaces, of the same sizes.
LEMMA MemoryFrame ==
    ASSUME MemoryInv, UNCHANGED <<array, allocated, evicted>>,
           \A o \in array : obj'[o].size = obj[o].size
    PROVE  MemoryInv'
<1>1. BytesOf(array)' = BytesOf(array)
  <2>1. Places(obj', array') = Places(obj, array)
    BY PlacesSame
  <2> QED BY <2>1 DEF BytesOf, Places
<1> QED BY <1>1 DEF MemoryInv, PoolLimitKept

LEMMA SizesKept ==
    ASSUME Inv, NEW o, NEW s, s.size = obj[o].size, obj' = [obj EXCEPT ![o] = s]
    PROVE  \A p \in array : obj'[p].size = obj[p].size
<1>1. array \subseteq Objects /\ obj \in [Objects -> Surfaces]
  BY SurfaceAssumption DEF Inv, ObjTypes, Objects
<1> QED BY <1>1

LEMMA MemoryTypes ==
    ASSUME Inv, MemoryInv
    PROVE  /\ BytesOf(array) \in Nat /\ allocated \in 0 .. AllocMod - 1
           /\ evicted \in Nat /\ AllocMod \in Nat \ {0}
<1>1. BytesOf(array) \in Nat
  BY ArrayFinite, PlacesFinite, BytesPlaces
<1>2. AllocMod \in Nat \ {0} /\ evicted \in Nat /\ allocated = (BytesOf(array) - evicted) % AllocMod
  BY SurfaceAssumption DEF MemoryInv
<1> DEFINE B == BytesOf(array)
<1>3. B \in Nat /\ AllocMod \in Nat \ {0} /\ evicted \in Nat /\ allocated = (B - evicted) % AllocMod
  BY <1>1, <1>2
<1> HIDE DEF B
<1> QED BY ONLY <1>1, <1>3

LEMMA MemoryCreate ==
    ASSUME Inv, MemoryInv, NEW f \in Formats, NEW b \in Bytes, createSurface(f, b)
    PROVE  MemoryInv'
<1> DEFINE n == created + 1
           B == BytesOf(array)
           C == BytesOf(array)'
<1>0. PICK i \in Ids : obj' = [obj EXCEPT ![n] = Surface(i, f, b)]
  BY DEF createSurface
<1>u. /\ array' = array \cup {n} /\ allocated' = (allocated + b) % AllocMod /\ evicted' = evicted
      /\ (allocated + b) % AllocMod <= Total
  BY DEF createSurface, ghosts
<1>n. n \in Objects /\ n \notin array /\ array \subseteq Objects /\ obj \in [Objects -> Surfaces]
  <2>1. created < MaxCreates
    BY DEF createSurface
  <2>2. /\ created \in 0 .. MaxCreates /\ array \subseteq 1 .. created
        /\ obj \in [Objects -> Surfaces] /\ MaxCreates \in Nat
    BY SurfaceAssumption DEF Inv, ObjTypes
  <2> QED BY ONLY <2>1, <2>2 DEF Objects
<1>b. /\ b \in Nat \ {0} /\ b \in 0 .. AllocMod
      /\ Total \in Nat /\ Total < AllocMod /\ Total + b < AllocMod
  BY SurfaceAssumption
<1>t. B \in Nat /\ allocated \in 0 .. AllocMod - 1 /\ evicted \in Nat /\ AllocMod \in Nat \ {0}
  BY MemoryTypes
<1>m. allocated = (B - evicted) % AllocMod /\ (evicted = 0 => B <= Total)
  BY DEF MemoryInv, PoolLimitKept
<1> HIDE DEF n
<1>o. obj'[n].size = b /\ \A o \in array : obj'[o].size = obj[o].size
  BY <1>0, <1>n DEF Surface
<1>1. C = B + b
  <2>1. Cardinality(Places(obj', array \cup {n})) = Cardinality(Places(obj', array)) + obj'[n].size
    BY <1>n, <1>o, <1>b, ArrayFinite, PlacesAdd
  <2>2. Places(obj', array) = Places(obj, array)
    BY <1>o, PlacesSame
  <2>3. C = Cardinality(Places(obj', array'))
    BY DEF BytesOf, Places
  <2>4. B = Cardinality(Places(obj, array))
    BY BytesPlaces
  <2> QED BY ONLY <1>u, <1>o, <2>1, <2>2, <2>3, <2>4, Zenon
<1> HIDE DEF B, C
<1>2. allocated' = (C - evicted') % AllocMod
  <2>1. B - evicted \in Int /\ b \in Int
    BY <1>t, <1>b
  <2>2. (((B - evicted) % AllocMod) + b) % AllocMod = ((B - evicted) + b) % AllocMod
    BY <2>1, ModAdd
  <2>3. (B - evicted) + b = C - evicted'
    BY ONLY <1>1, <1>t, <1>b, <1>u
  <2> QED BY ONLY <1>u, <1>m, <2>2, <2>3, Zenon
<1>3. ASSUME evicted' = 0 PROVE C <= Total
  <2>1. evicted = 0 /\ B <= Total
    BY <1>3, <1>u, <1>m
  <2>2. B - evicted = B /\ B \in 0 .. AllocMod - 1 /\ B + b \in 0 .. AllocMod - 1
    BY ONLY <2>1, <1>t, <1>b
  <2>3. allocated = B
    BY <2>2, <1>m, ModSmall
  <2>4. (B + b) % AllocMod = B + b
    BY <2>2, ModSmall
  <2> QED BY ONLY <1>u, <1>1, <2>3, <2>4
<1> QED BY <1>t, <1>u, <1>2, <1>3 DEF MemoryInv, PoolLimitKept, B, C

LEMMA MemoryDestroy ==
    ASSUME Inv, MemoryInv, NEW i \in Ids, destroySurface(i)
    PROVE  MemoryInv'
<1>0. PICK o \in Objects :
         IF Decrement(obj[o].refs) = 0
         THEN /\ obj' = [obj EXCEPT ![o].refs = 0, ![o].mem = FALSE, ![o].until = created]
              /\ array' = array \ {o}
              /\ allocated' = (allocated - obj[o].size) % AllocMod
         ELSE /\ obj' = [obj EXCEPT ![o].refs = Wrapped]
              /\ UNCHANGED <<array, allocated>>
  BY Zenon DEF destroySurface
<1>e. evicted' = evicted
  BY DEF destroySurface
<1>t. obj[o] \in Surfaces /\ obj \in [Objects -> Surfaces] /\ array \subseteq Objects
  <2>1. /\ created \in 0 .. MaxCreates /\ array \subseteq 1 .. created
        /\ obj \in [Objects -> Surfaces] /\ MaxCreates \in Nat
    BY SurfaceAssumption DEF Inv, ObjTypes
  <2> QED BY ONLY <2>1 DEF Objects
<1>1. CASE obj[o].refs # 1
  <2>1. obj' = [obj EXCEPT ![o].refs = Wrapped] /\ UNCHANGED <<array, allocated>>
    BY <1>0, <1>1 DEF Decrement, Wrapped
  <2>2. \A p \in array : obj'[p].size = obj[p].size
    BY <1>t, <2>1 DEF Surfaces
  <2> QED BY <1>e, <2>1, <2>2, MemoryFrame
<1>2. CASE obj[o].refs = 1
  <2> DEFINE A == array \ {o}
             s == obj[o].size
             B == BytesOf(array)
             C == BytesOf(array)'
  <2>1. /\ obj' = [obj EXCEPT ![o].refs = 0, ![o].mem = FALSE, ![o].until = created]
        /\ array' = A /\ allocated' = (allocated - s) % AllocMod
    BY <1>0, <1>2 DEF Decrement
  <2>2. o \in array
    BY <1>2 DEF Inv, LifeInv
  <2>s. s \in 0 .. AllocMod /\ s \in Nat /\ Total \in Nat
    <3>1. s \in Bytes \cup {0}
      BY <1>t DEF Surfaces
    <3>2. (\A b \in Bytes : b \in 0 .. AllocMod) /\ 0 \in 0 .. AllocMod /\ Total \in Nat
      BY SurfaceAssumption
    <3> HIDE DEF s
    <3> QED BY ONLY <3>1, <3>2
  <2>t. B \in Nat /\ evicted \in Nat
    BY MemoryTypes
  <2>m. allocated = (B - evicted) % AllocMod /\ (evicted = 0 => B <= Total)
    BY DEF MemoryInv, PoolLimitKept
  <2>3. Places(obj', A) = Places(obj, A)
    <3>1. \A p \in A : obj'[p].size = obj[p].size
      BY <1>t, <2>1
    <3> QED BY <3>1, PlacesSame
  <2>4. IsFiniteSet(A) /\ Cardinality(Places(obj, A)) \in Nat
    BY ArrayFinite, FS_RemoveElement, PlacesFinite
  <2>5. A \cup {o} = array /\ o \notin A
    BY <2>2
  <2> HIDE DEF A
  <2>6. Cardinality(Places(obj, A \cup {o})) = Cardinality(Places(obj, A)) + obj[o].size
    BY <2>4, <2>5, <2>s, PlacesAdd
  <2>7. C = Cardinality(Places(obj', array')) /\ B = Cardinality(Places(obj, array))
    BY BytesPlaces DEF BytesOf, Places
  <2>8. B = Cardinality(Places(obj, A)) + s /\ C = Cardinality(Places(obj, A))
    BY ONLY <2>1, <2>3, <2>5, <2>6, <2>7, Zenon
  <2> HIDE DEF B, C, s
  <2>9. C \in Nat /\ B = C + s
    BY ONLY <2>4, <2>8, Zenon
  <2>10. (((B - evicted) % AllocMod) + (0 - s)) % AllocMod = ((B - evicted) + (0 - s)) % AllocMod
    <3>1. B - evicted \in Int /\ 0 - s \in Int
      BY ONLY <2>s, <2>t
    <3> QED BY <3>1, ModAdd
  <2>11. (B - evicted) + (0 - s) = C - evicted'
    BY ONLY <2>9, <2>s, <2>t, <1>e
  <2>12. allocated - s = allocated + (0 - s)
    <3>1. allocated \in Int
      BY MemoryTypes
    <3> QED BY ONLY <3>1, <2>s
  <2>13. allocated' = (C - evicted') % AllocMod
    BY ONLY <2>1, <2>m, <2>10, <2>11, <2>12, Zenon
  <2>14. evicted' = 0 => C <= Total
    BY ONLY <2>9, <2>s, <2>t, <2>m, <1>e
  <2> QED BY <1>e, <2>t, <2>13, <2>14 DEF MemoryInv, PoolLimitKept, C
<1> QED BY <1>1, <1>2

\* Eviction subtracts what it adds to the bytes evicted.
LEMMA MemoryEvict ==
    ASSUME Inv, MemoryInv, NEW idle \in SUBSET array, evictUnusedSurfaces(idle)
    PROVE  MemoryInv'
<1> DEFINE B == BytesOf(array)
           d == BytesOf(idle)
<1>1. /\ array' = array /\ obj' = obj
      /\ allocated' = (allocated - d) % AllocMod /\ evicted' = evicted + d
  BY DEF evictUnusedSurfaces
<1>2. B \in Nat /\ evicted \in Nat /\ allocated \in Int
  BY MemoryTypes
<1>3. d \in Nat
  <2>1. IsFiniteSet(idle)
    BY ArrayFinite, FS_Subset
  <2> QED BY <2>1, PlacesFinite, BytesPlaces
<1>4. BytesOf(array)' = B
  BY <1>1 DEF BytesOf
<1>m. allocated = (B - evicted) % AllocMod /\ (evicted = 0 => B <= Total)
  BY DEF MemoryInv, PoolLimitKept
<1> HIDE DEF B, d
<1>5. (((B - evicted) % AllocMod) + (0 - d)) % AllocMod = ((B - evicted) + (0 - d)) % AllocMod
  <2>1. B - evicted \in Int /\ 0 - d \in Int
    BY ONLY <1>2, <1>3
  <2> QED BY <2>1, ModAdd
<1>6. (B - evicted) + (0 - d) = B - evicted' /\ allocated - d = allocated + (0 - d)
  BY ONLY <1>1, <1>2, <1>3
<1>7. allocated' = (B - evicted') % AllocMod
  BY ONLY <1>1, <1>m, <1>5, <1>6, Zenon
<1>8. evicted' \in Nat /\ (evicted' = 0 => B <= Total)
  BY ONLY <1>1, <1>2, <1>3, <1>m
<1> QED BY ONLY <1>4, <1>7, <1>8, Zenon DEF MemoryInv, PoolLimitKept

\* A lookup leaves the discovery cache within its size.
LEMMA InsertLen ==
    ASSUME NEW S, NEW c \in Seq(S), NEW e \in S, NEW n \in Nat, Len(c) <= n, NEW d \in Insert(c, e, n)
    PROVE  Len(d) <= n
<1>1. Len(c) \in Nat /\ DOMAIN c = 1 .. Len(c) /\ Len(Append(c, e)) = Len(c) + 1
  BY AppendProperties, LenProperties
<1>2. CASE Len(c) < n
  <2>1. d = Append(c, e)
    BY <1>2 DEF Insert
  <2> QED BY <1>1, <1>2, <2>1
<1>3. CASE ~(Len(c) < n)
  <2>1. PICK k \in DOMAIN c : d = [c EXCEPT ![k] = e]
    BY <1>3 DEF Insert
  <2>2. Len(d) = Len(c)
    BY <1>1, <2>1, ExceptSeq
  <2> QED BY <2>2
<1> QED BY <1>2, <1>3

LEMMA LookupLen ==
    ASSUME ObjTypes, NEW i \in Ids, NEW c \in Seq(CacheEntry), Len(c) <= CacheSize,
           NEW r \in Lookups(c, i)
    PROVE  Len(r.cache) <= CacheSize
<1>t. /\ CacheSize \in Nat
      /\ \A j \in Ids : map[j] # 0 => [id |-> j, obj |-> map[j]] \in CacheEntry
  <2>1. CacheSize \in Nat /\ MaxCreates \in Nat
    BY SurfaceAssumption
  <2>2. created \in 0 .. MaxCreates /\ map \in [Ids -> 0 .. created]
    BY DEF ObjTypes
  <2> QED BY ONLY <2>1, <2>2 DEF CacheEntry, Objects
<1>p. ASSUME NEW d \in Prefetched(c, i)
      PROVE  d \in Seq(CacheEntry) /\ Len(d) <= CacheSize
  <2>1. CASE d = c
    BY <2>1
  <2>2. CASE i + 1 \in Ids /\ map[i + 1] # 0 /\ Len(c) < CacheSize
             /\ d = Append(c, [id |-> i + 1, obj |-> map[i + 1]])
    <3>1. Len(d) = Len(c) + 1 /\ Len(c) \in Nat /\ d \in Seq(CacheEntry)
      <4> DEFINE e == [id |-> i + 1, obj |-> map[i + 1]]
      <4>1. e \in CacheEntry
        BY <1>t, <2>2
      <4> HIDE DEF e
      <4>2. d = Append(c, e)
        BY <2>2 DEF e
      <4> QED BY <4>1, <4>2, AppendProperties, LenProperties
    <3> QED BY <1>t, <2>2, <3>1
  <2> QED BY <2>1, <2>2 DEF Prefetched
<1>1. CASE First(c, i) # 0
  BY <1>1 DEF Lookups
<1>2. CASE First(c, i) = 0 /\ map[i] = 0
  <2>1. PICK d \in Prefetched(c, i) : r = [obj |-> 0, cache |-> d]
    BY <1>2 DEF Lookups
  <2> QED BY <1>p, <2>1
<1>3. CASE First(c, i) = 0 /\ map[i] # 0
  <2>1. PICK d \in Prefetched(c, i) :
           \E e \in Insert(d, [id |-> i, obj |-> map[i]], CacheSize) : r = [obj |-> map[i], cache |-> e]
    BY <1>3 DEF Lookups
  <2>2. PICK e \in Insert(d, [id |-> i, obj |-> map[i]], CacheSize) : r = [obj |-> map[i], cache |-> e]
    BY <2>1
  <2>3. d \in Seq(CacheEntry) /\ Len(d) <= CacheSize
    BY <1>p
  <2>4. Len(e) <= CacheSize
    BY <1>3, <1>t, <2>3, InsertLen
  <2> QED BY <2>2, <2>4
<1> QED BY <1>1, <1>2, <1>3

LEMMA FoundLen ==
    ASSUME Inv, BoundsInv, NEW i \in Ids, NEW o, findSurface(i, o)
    PROVE  Len(cache') <= CacheSize
<1>1. ObjTypes /\ cache \in Seq(CacheEntry) /\ Len(cache) <= CacheSize
  BY DEF Inv, CacheTypes, BoundsInv
<1>2. CASE torn
  BY <1>1, <1>2 DEF findSurface
<1>3. CASE ~torn
  BY <1>1, <1>3, LookupLen DEF findSurface
<1> QED BY <1>2, <1>3

LEMMA FoundBothLen ==
    ASSUME Inv, BoundsInv, NEW i \in Ids, NEW j \in Ids, NEW o, NEW p, findBoth(i, j, o, p)
    PROVE  Len(cache') <= CacheSize
<1>1. ObjTypes /\ cache \in Seq(CacheEntry) /\ Len(cache) <= CacheSize
  BY DEF Inv, CacheTypes, BoundsInv
<1>2. CASE torn
  BY <1>1, <1>2 DEF findBoth
<1>3. CASE ~torn
  <2>1. PICK r \in Lookups(cache, i) : \E q \in Lookups(r.cache, j) : cache' = q.cache
    BY <1>3 DEF findBoth
  <2>2. r.cache \in Seq(CacheEntry) /\ Len(r.cache) <= CacheSize
    BY <1>1, LookupOK, LookupLen
  <2> QED BY <1>1, <2>1, <2>2, LookupLen
<1> QED BY <1>2, <1>3

\* The bounds, and the operations counted.
LEMMA BoundTypes ==
    ASSUME Inv, BoundsInv
    PROVE  /\ ops \in Nat /\ ops <= MaxOps /\ MaxOps \in Nat /\ registered \in Nat
           /\ \A o \in Objects : obj[o].locks \in Nat /\ obj[o].locks <= ops
           /\ Len(released) \in Nat /\ MaxRecycled \in Nat
           /\ Counts => ops' \in 0 .. MaxOps /\ ops' = ops + 1
<1>1. MaxOps \in Nat /\ MaxRecycled \in Nat
  BY SurfaceAssumption
<1>2. /\ ops \in 0 .. MaxOps /\ \A o \in Objects : obj[o].locks <= ops
  BY DEF BoundsInv
<1>3. registered \in Nat /\ released \in Seq(Ids) /\ obj \in [Objects -> Surfaces]
  BY DEF Inv, ObjTypes, ShareTypes
<1>4. \A o \in Objects : obj[o].locks \in Nat
  BY <1>3 DEF Surfaces
<1>5. Len(released) \in Nat
  BY <1>3, LenProperties
<1>6. Counts => ops' \in 0 .. MaxOps /\ ops' = ops + 1
  BY <1>1, <1>2 DEF Counts
<1> QED BY ONLY <1>1, <1>2, <1>3, <1>4, <1>5, <1>6

\* An operation that counts and leaves the locks, the clients, the caches'
\* sizes and the surfaces with their sizes as they were.
Quiet == /\ UNCHANGED <<array, allocated, evicted, nextClient, freeClients, registered>>
         /\ Len(cache') <= CacheSize /\ Len(props') <= PropSize /\ Len(released') <= MaxRecycled
         /\ stuck' \in BOOLEAN /\ changed' \subseteq Ids

\* The surface o keeps its id and its size, and gets at most one more lock.
Alike(o) == /\ obj'[o].size = obj[o].size /\ obj'[o].id = obj[o].id
            /\ obj'[o].locks <= obj[o].locks + 1

LEMMA QuietStep ==
    ASSUME Inv, Inv', BoundsInv, MemoryInv, Quiet, Counts,
           \A o \in Objects : Alike(o)
    PROVE  BoundsInv' /\ MemoryInv'
<1>0. \A o \in Objects : /\ obj'[o].size = obj[o].size /\ obj'[o].id = obj[o].id
                         /\ obj'[o].locks <= obj[o].locks + 1
  BY DEF Alike
<1>a. array \subseteq Objects
  <2>1. created \in 0 .. MaxCreates /\ array \subseteq 1 .. created /\ MaxCreates \in Nat
    BY SurfaceAssumption DEF Inv, ObjTypes
  <2> QED BY ONLY <2>1 DEF Objects
<1>1. MemoryInv'
  <2>1. \A o \in array : obj'[o].size = obj[o].size
    BY <1>0, <1>a
  <2> QED BY <2>1, MemoryFrame DEF Quiet
<1>2. \A o \in Objects : obj'[o].locks <= ops'
  <2>1. obj' \in [Objects -> Surfaces]
    BY DEF Inv, ObjTypes
  <2>2. \A o \in Objects : obj'[o].locks \in Nat
    BY <2>1 DEF Surfaces
  <2>3. /\ ops \in Nat /\ ops' = ops + 1
        /\ \A o \in Objects : obj[o].locks \in Nat /\ obj[o].locks <= ops
    BY BoundTypes
  <2> QED BY ONLY <1>0, <2>2, <2>3
<1>3. ops' \in 0 .. MaxOps /\ registered' <= ops'
  <2>1. registered' = registered /\ registered <= ops
    BY DEF BoundsInv, Quiet
  <2>2. ops \in Nat /\ registered \in Nat /\ ops' \in 0 .. MaxOps /\ ops' = ops + 1
    BY BoundTypes
  <2> QED BY ONLY <2>1, <2>2
<1>4. /\ stuck' \in BOOLEAN /\ changed' \subseteq Ids
      /\ nextClient' \in 0 .. MaxClient /\ freeClients' \in Seq(Clients)
      /\ Len(cache') <= CacheSize /\ Len(props') <= PropSize /\ Len(released') <= MaxRecycled
  BY DEF BoundsInv, Quiet
<1>5. \A o \in array' : obj'[o].id \in Ids
  BY <1>0, <1>a DEF BoundsInv, Quiet
<1> QED BY <1>1, <1>2, <1>3, <1>4, <1>5 DEF BoundsInv

\* An operation that does not touch the surfaces at all.
LEMMA UntouchedStep ==
    ASSUME Inv, Inv', BoundsInv, MemoryInv, Quiet, Counts, obj' = obj
    PROVE  BoundsInv' /\ MemoryInv'
<1>1. \A o \in Objects : Alike(o)
  BY BoundTypes DEF Alike
<1> QED BY <1>1, QuietStep

\* What the frames of the operations say, in terms of Quiet.
Rest == UNCHANGED <<array, allocated, evicted, nextClient, freeClients, registered>>

LEMMA RestQuiet ==
    ASSUME BoundsInv, Rest, Len(cache') <= CacheSize, UNCHANGED <<props, released, stuck, changed>>
    PROVE  Quiet
BY DEF BoundsInv, Rest, Quiet

LEMMA BoundsOnSurface ==
    ASSUME Inv, Inv', BoundsInv, MemoryInv, NEW i \in Ids, NEW h \in BOOLEAN, UNCHANGED cvars,
           \/ lockSurface(i, h) \/ setSurfaceMemoryPriority(i, h)
           \/ lockSurfacePlane(i) \/ unlockSurface(i) \/ unlockSurfacePlane(i)
    PROVE  BoundsInv' /\ MemoryInv'
<1> DEFINE Same == Rest /\ UNCHANGED <<props, released, stuck, changed>> /\ Counts
           Grown == \A p \in Objects : Alike(p)
<1>t. obj \in [Objects -> Surfaces]
  BY DEF Inv, ObjTypes
<1>n. \A p \in Objects : obj[p].locks \in Nat
  BY <1>t DEF Surfaces
<1>1. ASSUME NEW o \in Objects, NEW s, obj' = [obj EXCEPT ![o] = s], s.size = obj[o].size,
             s.id = obj[o].id, s.locks <= obj[o].locks + 1
      PROVE  Grown
  BY <1>1, <1>t, <1>n DEF Alike
<1>2. ASSUME NEW o \in Objects, obj' = [obj EXCEPT ![o] = AddLock(obj[o])]
      PROVE  Grown
  <2>1. /\ AddLock(obj[o]).size = obj[o].size /\ AddLock(obj[o]).id = obj[o].id
        /\ AddLock(obj[o]).locks = obj[o].locks + 1
    BY <1>t DEF AddLock, Surfaces
  <2>2. AddLock(obj[o]).locks <= obj[o].locks + 1
    BY <1>n, <2>1
  <2> HIDE DEF Grown
  <2> QED BY <1>1, <1>2, <2>1, <2>2, Zenon
<1>3. ASSUME NEW o \in Objects, obj' = [obj EXCEPT ![o] = [obj[o] EXCEPT !.locks = @ - 1]]
      PROVE  Grown
  <2> DEFINE s == [obj[o] EXCEPT !.locks = @ - 1]
  <2>1. s.size = obj[o].size /\ s.id = obj[o].id /\ s.locks = obj[o].locks - 1
    BY <1>t DEF Surfaces
  <2>2. obj' = [obj EXCEPT ![o] = s]
    BY <1>3
  <2> HIDE DEF s, Grown
  <2>3. s.locks <= obj[o].locks + 1
    BY <1>n, <2>1
  <2> QED BY <1>1, <2>1, <2>2, <2>3, Zenon
<1>4. ASSUME NEW o \in Objects, obj' = [obj EXCEPT ![o] = [obj[o] EXCEPT !.high = h]]
      PROVE  Grown
  <2> DEFINE s == [obj[o] EXCEPT !.high = h]
  <2>1. s.size = obj[o].size /\ s.id = obj[o].id /\ s.locks = obj[o].locks
    BY <1>t DEF Surfaces
  <2>2. obj' = [obj EXCEPT ![o] = s]
    BY <1>4
  <2> HIDE DEF s, Grown
  <2>3. s.locks <= obj[o].locks + 1
    BY <1>n, <2>1
  <2> QED BY <1>1, <2>1, <2>2, <2>3, Zenon
<1>a. Same /\ \E o \in Objects : findSurface(i, o) /\ Grown
  <2>1. CASE lockSurface(i, h)
    <3>1. Same /\ \E o \in Objects : /\ findSurface(i, o)
                                     /\ obj' = [obj EXCEPT ![o] = AddLock(obj[o])]
      BY <2>1 DEF lockSurface, OnSurface, Locked, threads, ghosts, cvars, Rest
    <3> QED BY <3>1, <1>2
  <2>2. CASE lockSurfacePlane(i)
    <3>1. Same /\ \E o \in Objects : /\ findSurface(i, o)
                                     /\ obj' = [obj EXCEPT ![o] = AddLock(obj[o])]
      BY <2>2 DEF lockSurfacePlane, OnSurface, Locked, threads, ghosts, cvars, Rest
    <3> QED BY <3>1, <1>2
  <2>3. CASE unlockSurface(i) \/ unlockSurfacePlane(i)
    <3>1. Same /\ \E o \in Objects : /\ findSurface(i, o)
                                     /\ obj' = [obj EXCEPT ![o] = [obj[o] EXCEPT !.locks = @ - 1]]
      BY <2>3 DEF unlockSurface, unlockSurfacePlane, OnSurface, Locked, threads, ghosts, cvars, Rest
    <3> QED BY <3>1, <1>3
  <2>4. CASE setSurfaceMemoryPriority(i, h)
    <3>1. Same /\ \E o \in Objects : /\ findSurface(i, o)
                                     /\ obj' = [obj EXCEPT ![o] = [obj[o] EXCEPT !.high = h]]
      BY <2>4 DEF setSurfaceMemoryPriority, OnSurface, Locked, threads, ghosts, cvars, Rest
    <3> QED BY <3>1, <1>4
  <2> QED BY <2>1, <2>2, <2>3, <2>4
<1> QED BY <1>a, FoundLen, RestQuiet, QuietStep

LEMMA BoundsLook ==
    ASSUME Inv, Inv', BoundsInv, MemoryInv, NEW i \in Ids, UNCHANGED cvars,
           Look(i) \/ Fill(i) \/ \E j \in Ids : copySurface(i, j) \/ copySurfaceRegion(i, j)
    PROVE  BoundsInv' /\ MemoryInv'
<1>1. Rest /\ UNCHANGED <<props, released, stuck, changed>> /\ Counts /\ obj' = obj
  BY DEF Look, Fill, copySurface, copySurfaceRegion, Locked, table, threads, ghosts, cvars, Rest
<1>2. Len(cache') <= CacheSize
  <2>1. CASE Look(i) \/ Fill(i)
    <3>1. PICK o : findSurface(i, o)
      BY <2>1, Zenon DEF Look, Fill
    <3> QED BY <3>1, FoundLen
  <2>2. ASSUME NEW j \in Ids, copySurface(i, j) \/ copySurfaceRegion(i, j)
        PROVE  Len(cache') <= CacheSize
    <3>1. PICK o, p : findBoth(i, j, o, p)
      BY <2>2, Zenon DEF copySurface, copySurfaceRegion
    <3> QED BY <3>1, FoundBothLen
  <2> QED BY <2>1, <2>2
<1> QED BY <1>1, <1>2, RestQuiet, UntouchedStep

LEMMA BoundsConvert ==
    ASSUME Inv, Inv', BoundsInv, MemoryInv, NEW i \in Ids, NEW j \in Ids, NEW f \in Formats,
           UNCHANGED cvars, convertSurfaceFormat(i, j, f)
    PROVE  BoundsInv' /\ MemoryInv'
<1>1. PICK r \in Objects, o \in Objects :
         /\ findBoth(i, j, r, o) /\ obj[o].mem
         /\ obj' = [obj EXCEPT ![o].fmt = f]
         /\ changed' = changed \cup {j, obj[o].id}
  BY DEF convertSurfaceFormat
<1>2. Rest /\ UNCHANGED <<props, released, stuck>> /\ Counts
  BY DEF convertSurfaceFormat, Locked, threads, cvars, Rest
<1>3. Len(cache') <= CacheSize
  BY <1>1, FoundBothLen
<1>t. o \in Objects /\ obj \in [Objects -> Surfaces]
  BY DEF Inv, ObjTypes
<1>m. obj[o].mem
  BY <1>1
<1>e. obj' = [obj EXCEPT ![o].fmt = f] /\ changed' = changed \cup {j, obj[o].id}
  BY <1>1
<1>4. changed' \subseteq Ids
  <2>1. obj[o].id \in Ids
    BY <1>t, <1>m DEF Inv, LifeInv, BoundsInv
  <2> QED BY <1>e, <2>1 DEF BoundsInv
<1>5. Quiet
  BY <1>2, <1>3, <1>4 DEF Rest, Quiet, BoundsInv
<1>6. \A p \in Objects : Alike(p)
  <2> DEFINE s == [obj[o] EXCEPT !.fmt = f]
  <2>1. s.size = obj[o].size /\ s.id = obj[o].id /\ s.locks = obj[o].locks
    BY <1>t DEF Surfaces
  <2>2. obj' = [obj EXCEPT ![o] = s]
    BY <1>e
  <2>3. \A p \in Objects : obj[p].locks \in Nat
    BY BoundTypes
  <2> HIDE DEF s
  <2> QED BY <1>t, <2>1, <2>2, <2>3 DEF Alike
<1> QED BY <1>2, <1>5, <1>6, QuietStep

LEMMA FrontLen ==
    ASSUME NEW S, NEW s \in Seq(S), s # <<>>
    PROVE  /\ SubSeq(s, 1, Len(s) - 1) \in Seq(S)
           /\ Len(SubSeq(s, 1, Len(s) - 1)) = Len(s) - 1
<1> DEFINE n == Len(s) - 1
<1>1. Len(s) \in Nat /\ Len(s) # 0 /\ s \in [1 .. Len(s) -> S]
  BY LenProperties, EmptySeq
<1>2. n \in Nat /\ \A i \in 1 .. n : s[i] \in S
  BY <1>1
<1> HIDE DEF n
<1>3. SubSeq(s, 1, n) \in Seq(S) /\ Len(SubSeq(s, 1, n)) = IF 1 <= n THEN n - 1 + 1 ELSE 0
  BY <1>2, SubSeqProperties
<1>4. Len(SubSeq(s, 1, n)) = n
  BY ONLY <1>2, <1>3
<1> QED BY <1>3, <1>4 DEF n

LEMMA BoundsCreate ==
    ASSUME Inv, Inv', BoundsInv, NEW f \in Formats, NEW b \in Bytes, createSurface(f, b),
           UNCHANGED cvars
    PROVE  BoundsInv'
<1> DEFINE n == created + 1
<1>0. PICK i \in Ids : allocateSurfaceId(i) /\ obj' = [obj EXCEPT ![n] = Surface(i, f, b)]
  BY DEF createSurface
<1>u. /\ array' = array \cup {n} /\ Counts
      /\ UNCHANGED <<cache, props, stuck, changed, nextClient, freeClients, registered>>
  BY DEF createSurface, Locked, caches, threads, ghosts, cvars
<1>t. obj \in [Objects -> Surfaces] /\ array \subseteq Objects /\ n \in Objects
  <2>1. created < MaxCreates
    BY DEF createSurface
  <2>2. /\ created \in 0 .. MaxCreates /\ array \subseteq 1 .. created
        /\ obj \in [Objects -> Surfaces] /\ MaxCreates \in Nat
    BY SurfaceAssumption DEF Inv, ObjTypes
  <2> QED BY ONLY <2>1, <2>2 DEF Objects
<1> HIDE DEF n
<1>1. ops' \in 0 .. MaxOps /\ ops' = ops + 1 /\ ops \in Nat /\ registered \in Nat
  BY <1>u, BoundTypes
<1>2. \A o \in Objects : obj'[o].locks <= ops'
  <2>1. \A o \in Objects : obj'[o] = IF o = n THEN Surface(i, f, b) ELSE obj[o]
    BY <1>0, <1>t
  <2>2. \A o \in Objects : obj[o].locks \in Nat /\ obj[o].locks <= ops
    BY BoundTypes
  <2> QED BY <1>1, <2>1, <2>2 DEF Surface
<1>3. \A o \in array' : obj'[o].id \in Ids
  BY <1>0, <1>t, <1>u DEF BoundsInv, Surface
<1>4. Len(released') <= MaxRecycled
  <2>1. Len(released) \in Nat /\ MaxRecycled \in Nat /\ Len(released) <= MaxRecycled
    BY BoundTypes DEF BoundsInv
  <2>2. released' = released \/ released' = SubSeq(released, 1, Len(released) - 1)
    BY <1>0 DEF allocateSurfaceId
  <2>3. released \in Seq(Ids) /\ (released = <<>> => Len(released) = 0)
    BY DEF Inv, ObjTypes
  <2>4. CASE released' = SubSeq(released, 1, Len(released) - 1) /\ released # <<>>
    BY <2>1, <2>3, <2>4, FrontLen
  <2>5. CASE released' = released
    BY <2>1, <2>5
  <2> QED BY <1>0, <2>4, <2>5 DEF allocateSurfaceId
<1>5. registered' <= ops'
  BY <1>1, <1>u DEF BoundsInv
<1> QED BY <1>1, <1>2, <1>3, <1>4, <1>5, <1>u DEF BoundsInv

\* The list of recycled ids never outgrows its array.
LEMMA ReleaseLen ==
    ASSUME Inv, BoundsInv, NEW i \in Ids, releaseSurfaceId(i)
    PROVE  Len(released') <= MaxRecycled
<1>1. Len(released) \in Nat /\ MaxRecycled \in Nat /\ Len(released) <= MaxRecycled
  BY BoundTypes DEF BoundsInv
<1>2. released \in Seq(Ids)
  BY DEF Inv, ObjTypes
<1>3. Len(Append(released, i)) = Len(released) + 1
  BY <1>2, AppendProperties
<1> QED BY <1>1, <1>3 DEF releaseSurfaceId

LEMMA BoundsCreateFails ==
    ASSUME Inv, Inv', BoundsInv, MemoryInv, createSurfaceFails, UNCHANGED cvars
    PROVE  BoundsInv' /\ MemoryInv'
<1>1. /\ Rest /\ Counts /\ obj' = obj
      /\ UNCHANGED <<cache, props, stuck, changed>>
  BY DEF createSurfaceFails, Locked, caches, threads, ghosts, cvars, Rest
<1>2. Len(released') <= MaxRecycled
  <2>1. released' = released \/ (nextId \in Ids /\ releaseSurfaceId(nextId))
    BY Zenon DEF createSurfaceFails
  <2> QED BY <2>1, ReleaseLen DEF BoundsInv
<1>3. Quiet
  BY <1>1, <1>2 DEF Rest, Quiet, BoundsInv
<1> QED BY <1>1, <1>3, UntouchedStep

LEMMA BoundsDestroy ==
    ASSUME Inv, Inv', BoundsInv, NEW i \in Ids, destroySurface(i), UNCHANGED cvars
    PROVE  BoundsInv'
<1>0. PICK o \in Objects :
         /\ findSurface(i, o)
         /\ \/ /\ obj' = [obj EXCEPT ![o].refs = 0, ![o].mem = FALSE, ![o].until = created]
               /\ array' = array \ {o} /\ releaseSurfaceId(i) /\ changed' = changed \cup {i}
            \/ /\ obj' = [obj EXCEPT ![o].refs = Wrapped]
               /\ UNCHANGED <<array, released, changed>>
  BY Zenon DEF destroySurface
<1>u. Counts /\ UNCHANGED <<props, stuck, nextClient, freeClients, registered>>
  BY DEF destroySurface, Locked, threads, cvars
<1>t. obj \in [Objects -> Surfaces] /\ array \subseteq Objects
  <2>1. /\ created \in 0 .. MaxCreates /\ array \subseteq 1 .. created
        /\ obj \in [Objects -> Surfaces] /\ MaxCreates \in Nat
    BY SurfaceAssumption DEF Inv, ObjTypes
  <2> QED BY ONLY <2>1 DEF Objects
<1>1. ops' \in 0 .. MaxOps /\ ops' = ops + 1 /\ ops \in Nat /\ registered \in Nat
  BY <1>u, BoundTypes
<1>2. \A p \in Objects : obj'[p].locks = obj[p].locks /\ obj'[p].id = obj[p].id
  <2>1. CASE obj' = [obj EXCEPT ![o].refs = 0, ![o].mem = FALSE, ![o].until = created]
    BY <1>t, <2>1 DEF Surfaces
  <2>2. CASE obj' = [obj EXCEPT ![o].refs = Wrapped]
    BY <1>t, <2>2 DEF Surfaces
  <2> QED BY <1>0, <2>1, <2>2
<1>3. array' \subseteq array
  BY <1>0
<1>4. Len(cache') <= CacheSize
  BY <1>0, FoundLen
<1>5. Len(released') <= MaxRecycled
  BY <1>0, ReleaseLen DEF BoundsInv
<1>6. changed' \subseteq Ids
  BY <1>0 DEF BoundsInv
<1>7. \A p \in Objects : obj'[p].locks <= ops'
  <2>1. \A p \in Objects : obj[p].locks \in Nat /\ obj[p].locks <= ops
    BY BoundTypes
  <2> QED BY ONLY <1>1, <1>2, <2>1
<1>8. \A p \in array' : obj'[p].id \in Ids
  BY <1>2, <1>3, <1>t DEF BoundsInv
<1>9. registered' <= ops'
  BY <1>1, <1>u DEF BoundsInv
<1> QED BY <1>1, <1>4, <1>5, <1>6, <1>7, <1>8, <1>9, <1>u DEF BoundsInv

LEMMA BoundsCaches ==
    ASSUME Inv, Inv', BoundsInv, MemoryInv, UNCHANGED cvars,
           \/ \E i \in Ids : \/ DescriptorFind(i) \/ prewarmDiscoveryCache(i)
                            \/ invalidatePropertyCache(i)
           \/ compactSurfaceMemory \/ cachesCollide
           \/ flushPropertyCache \/ flushDiscoveryCache \/ optimizeDiscoveryCache
    PROVE  BoundsInv' /\ MemoryInv'
<1>b. /\ Len(cache) <= CacheSize /\ Len(props) <= PropSize /\ Len(released) <= MaxRecycled
      /\ stuck \in BOOLEAN /\ changed \subseteq Ids
  BY DEF BoundsInv
<1>s. /\ cache \in Seq(CacheEntry) /\ props \in Seq(PropEntry)
      /\ cache' \in Seq(CacheEntry) /\ props' \in Seq(PropEntry)
      /\ CacheSize \in Nat /\ PropSize \in Nat
  BY SurfaceAssumption DEF Inv, CacheTypes
<1>1. ASSUME NEW i \in Ids, invalidatePropertyCache(i)
      PROVE  Counts /\ obj' = obj /\ Quiet
  <2>1. Len(props') = Len(props)
    BY <1>1, <1>s, ExceptSeq DEF invalidatePropertyCache
  <2> QED BY <1>1, <1>b, <2>1 DEF invalidatePropertyCache, table, threads, ghosts, cvars, Quiet
<1>2. ASSUME NEW i \in Ids, DescriptorFind(i) \/ prewarmDiscoveryCache(i)
      PROVE  Counts /\ obj' = obj /\ Quiet
  BY <1>2, <1>b DEF DescriptorFind, prewarmDiscoveryCache, table, caches, ghosts, cvars, Quiet
<1>3. ASSUME compactSurfaceMemory
      PROVE  Counts /\ obj' = obj /\ Quiet
  BY <1>3, <1>b DEF compactSurfaceMemory, Locked, table, caches, ghosts, cvars, Quiet
<1>4. ASSUME flushPropertyCache
      PROVE  Counts /\ obj' = obj /\ Quiet
  <2>1. Len(props') <= PropSize
    BY <1>4, <1>s, EmptySeq DEF flushPropertyCache
  <2>2. changed' \subseteq Ids
    BY <1>4, <1>b DEF flushPropertyCache
  <2> QED BY <1>4, <1>b, <2>1, <2>2 DEF flushPropertyCache, table, threads, cvars, Quiet
<1>5. ASSUME flushDiscoveryCache
      PROVE  Counts /\ obj' = obj /\ Quiet
  <2>1. Len(cache') <= CacheSize
    BY <1>5, <1>s, EmptySeq DEF flushDiscoveryCache
  <2> QED BY <1>5, <1>b, <2>1 DEF flushDiscoveryCache, table, threads, cvars, Quiet
<1>6. ASSUME optimizeDiscoveryCache
      PROVE  Counts /\ obj' = obj /\ Quiet
  <2>1. PICK k \in 1 .. Len(cache) - 1 :
           cache' = [cache EXCEPT ![k] = cache[k + 1], ![k + 1] = cache[k]]
    BY <1>6 DEF optimizeDiscoveryCache
  <2>2. Len(cache') = Len(cache)
    <3>1. DOMAIN cache' = DOMAIN cache
      BY <2>1
    <3>2. /\ Len(cache) \in Nat /\ DOMAIN cache = 1 .. Len(cache)
          /\ Len(cache') \in Nat /\ DOMAIN cache' = 1 .. Len(cache')
      BY <1>s, LenProperties
    <3> QED BY ONLY <3>1, <3>2
  <2> QED BY <1>6, <1>b, <2>2 DEF optimizeDiscoveryCache, table, threads, ghosts, cvars, Quiet
<1>7. ASSUME cachesCollide
      PROVE  Counts /\ obj' = obj /\ Quiet
  <2>1. Len(cache') <= CacheSize /\ Len(props') <= PropSize
    BY <1>7, <1>s, EmptySeq DEF cachesCollide
  <2> QED BY <1>7, <1>b, <2>1 DEF cachesCollide, table, threads, cvars, Quiet
<1> QED BY <1>1, <1>2, <1>3, <1>4, <1>5, <1>6, <1>7, UntouchedStep

\* What the reader does after its first step is not counted.
LEMMA BoundsRead ==
    ASSUME Inv, BoundsInv, MemoryInv, UNCHANGED cvars,
           \/ DescriptorPrefetch \/ DescriptorStore \/ DescriptorRead \/ DescriptorFile
           \/ PrewarmStore
    PROVE  BoundsInv' /\ MemoryInv'
<1> DEFINE Kept == UNCHANGED <<array, allocated, evicted, nextClient, freeClients, registered,
                               obj, released, stuck, ops>>
<1>k. ASSUME Kept, Len(cache') <= CacheSize, Len(props') <= PropSize, changed' \subseteq Ids
      PROVE  BoundsInv' /\ MemoryInv'
  <2>1. MemoryInv'
    BY <1>k, MemoryFrame
  <2> QED BY <1>k, <2>1 DEF BoundsInv
<1>b. /\ cache \in Seq(CacheEntry) /\ Len(cache) <= CacheSize /\ CacheSize \in Nat
      /\ props \in Seq(PropEntry) /\ Len(props) <= PropSize /\ PropSize \in Nat
      /\ changed \subseteq Ids
  BY SurfaceAssumption DEF Inv, CacheTypes, BoundsInv
<1>a. ASSUME NEW j \in Held, Len(cache) < CacheSize
      PROVE  Len(Append(cache, [id |-> j, obj |-> reader.obj])) <= CacheSize
  <2> DEFINE e == [id |-> j, obj |-> reader.obj]
  <2>1. e \in CacheEntry
    BY HeldEntry
  <2> HIDE DEF e
  <2>2. Len(Append(cache, e)) = Len(cache) + 1 /\ Len(cache) \in Nat
    BY <1>b, <2>1, AppendProperties, LenProperties
  <2>3. Len(Append(cache, e)) <= CacheSize
    BY <1>a, <1>b, <2>2
  <2> QED BY <2>3 DEF e
<1>1. CASE DescriptorPrefetch
  <2>1. Kept /\ UNCHANGED <<props, changed>>
    BY <1>1 DEF DescriptorPrefetch, table, ghosts, cvars
  <2> DEFINE j == reader.id + 1
  <2>2. /\ j \in Held
        /\ \/ cache' = cache
           \/ Len(cache) < CacheSize /\ cache' = Append(cache, [id |-> j, obj |-> reader.obj])
    BY <1>1 DEF DescriptorPrefetch, Held
  <2> HIDE DEF j
  <2>3. Len(cache') <= CacheSize
    BY <1>a, <1>b, <2>2
  <2> QED BY <1>b, <1>k, <2>1, <2>3
<1>2. CASE DescriptorStore
  <2>1. Kept /\ UNCHANGED <<props, changed>>
    BY <1>2 DEF DescriptorStore, table, ghosts, cvars
  <2>2. reader.id \in Held
    BY <1>2 DEF DescriptorStore, Held
  <2> DEFINE e == [id |-> reader.id, obj |-> reader.obj]
  <2>3. e \in CacheEntry
    BY <2>2, HeldEntry
  <2>4. cache' = cache \/ cache' \in Insert(cache, e, CacheSize)
    BY <1>2 DEF DescriptorStore
  <2> HIDE DEF e
  <2>5. Len(cache') <= CacheSize
    BY <1>b, <2>3, <2>4, InsertLen
  <2> QED BY <1>b, <1>k, <2>1, <2>5
<1>3. CASE DescriptorRead
  <2>1. Kept /\ UNCHANGED <<props, cache>>
    BY <1>3 DEF DescriptorRead, table, caches, cvars
  <2>2. reader.id \in Ids
    <3>1. reader.id \in Held
      BY <1>3 DEF DescriptorRead, Held
    <3> QED BY <3>1, HeldIn
  <2>3. changed' \subseteq Ids
    BY <1>3, <1>b, <2>2 DEF DescriptorRead
  <2> QED BY <1>b, <1>k, <2>1, <2>3
<1>4. CASE DescriptorFile
  <2>1. Kept /\ UNCHANGED <<cache, changed>>
    BY <1>4 DEF DescriptorFile, table, ghosts, cvars
  <2>2. reader \in ReaderEntry
    BY <1>4 DEF DescriptorFile, Inv, CacheTypes, ReaderTypes, NoReader, Reader
  <2> DEFINE e == [id |-> reader.id, fmt |-> reader.fmt, valid |-> TRUE]
  <2>3. e \in PropEntry
    BY <2>2 DEF ReaderEntry, PropEntry
  <2>4. props' \in Insert(props, e, PropSize)
    BY <1>4 DEF DescriptorFile
  <2> HIDE DEF e
  <2>5. Len(props') <= PropSize
    BY <1>b, <2>3, <2>4, InsertLen
  <2> QED BY <1>b, <1>k, <2>1, <2>5
<1>5. CASE PrewarmStore
  <2>1. Kept /\ UNCHANGED <<props, changed>>
    BY <1>5 DEF PrewarmStore, table, cvars
  <2>2. /\ reader.id \in Held
        /\ \/ cache' = cache
           \/ /\ Len(cache) < CacheSize
              /\ cache' = Append(cache, [id |-> reader.id, obj |-> reader.obj])
    BY <1>5 DEF PrewarmStore, Held
  <2>3. Len(cache') <= CacheSize
    BY <1>a, <1>b, <2>2
  <2> QED BY <1>b, <1>k, <2>1, <2>3
<1> QED BY <1>1, <1>2, <1>3, <1>4, <1>5

LEMMA BoundsEvict ==
    ASSUME Inv, BoundsInv, NEW idle \in SUBSET array, UNCHANGED cvars, evictUnusedSurfaces(idle)
    PROVE  BoundsInv'
<1>1. /\ UNCHANGED <<array, nextClient, freeClients, registered>>
      /\ UNCHANGED <<obj, released, cache, props, stuck, changed>> /\ Counts
  BY DEF evictUnusedSurfaces, Locked, caches, threads, cvars
<1>2. /\ ops \in Nat /\ ops' \in 0 .. MaxOps /\ ops' = ops + 1 /\ registered \in Nat
      /\ \A o \in Objects : obj[o].locks \in Nat /\ obj[o].locks <= ops
  BY <1>1, BoundTypes
<1>3. \A o \in Objects : obj'[o].locks <= ops'
  BY <1>1, <1>2
<1>4. registered' <= ops'
  BY <1>1, <1>2 DEF BoundsInv
<1> QED BY <1>1, <1>2, <1>3, <1>4 DEF BoundsInv

LEMMA BoundsSharing ==
    ASSUME Inv, Inv', BoundsInv, MemoryInv, Sharing
    PROVE  BoundsInv' /\ MemoryInv'
<1>t. freeClients \in Seq(Clients) /\ nextClient \in 0 .. MaxClient /\ MaxClient \in Nat
  BY ClientAssumption DEF BoundsInv
<1>1. CASE registerClient
  <2>1. /\ UNCHANGED <<array, allocated, evicted, obj, cache, props, released, stuck, changed>>
        /\ Counts /\ registered' = registered + 1
    BY <1>1 DEF registerClient, Locked, table, caches, threads, ghosts
  <2>2. /\ ops \in Nat /\ ops' \in 0 .. MaxOps /\ ops' = ops + 1 /\ registered \in Nat
        /\ \A o \in Objects : obj[o].locks \in Nat /\ obj[o].locks <= ops
    BY <2>1, BoundTypes
  <2>3. nextClient' \in 0 .. MaxClient /\ freeClients' \in Seq(Clients)
    <3>1. CASE freeClients # <<>>
      <4>1. freeClients' = SubSeq(freeClients, 1, Len(freeClients) - 1) /\ nextClient' = nextClient
        BY <1>1, <3>1 DEF registerClient, Front
      <4> QED BY <1>t, <3>1, <4>1, FrontLen
    <3>2. CASE freeClients = <<>>
      <4>1. nextClient' \in Clients /\ freeClients' = freeClients
        BY <1>1, <3>2 DEF registerClient
      <4> QED BY <1>t, <4>1 DEF Clients
    <3> QED BY <3>1, <3>2
  <2>4. MemoryInv'
    BY <2>1, MemoryFrame
  <2>5. \A o \in Objects : obj'[o].locks <= ops'
    BY <2>1, <2>2
  <2>6. registered' <= ops'
    BY <2>1, <2>2 DEF BoundsInv
  <2> QED BY <2>1, <2>2, <2>3, <2>4, <2>5, <2>6 DEF BoundsInv
<1>2. ASSUME NEW c \in Clients, unregisterClient(c)
      PROVE  BoundsInv' /\ MemoryInv'
  <2>1. /\ UNCHANGED <<array, allocated, evicted, obj, cache, props, released, stuck, changed>>
        /\ Counts /\ UNCHANGED <<registered, nextClient>>
        /\ freeClients' = Append(freeClients, c)
    BY <1>2 DEF unregisterClient, Locked, table, caches, threads, ghosts
  <2>2. /\ ops \in Nat /\ ops' \in 0 .. MaxOps /\ ops' = ops + 1 /\ registered \in Nat
        /\ \A o \in Objects : obj[o].locks \in Nat /\ obj[o].locks <= ops
    BY <2>1, BoundTypes
  <2>3. freeClients' \in Seq(Clients)
    BY <1>t, <2>1, AppendProperties
  <2>4. MemoryInv'
    BY <2>1, MemoryFrame
  <2>5. \A o \in Objects : obj'[o].locks <= ops'
    BY <2>1, <2>2
  <2>6. registered' <= ops'
    BY <2>1, <2>2 DEF BoundsInv
  <2> QED BY <2>1, <2>2, <2>3, <2>4, <2>5, <2>6 DEF BoundsInv
<1>3. ASSUME NEW c \in Clients, NEW i \in Ids, shareSurface(i, c)
      PROVE  BoundsInv' /\ MemoryInv'
  <2>1. Rest /\ UNCHANGED <<props, released, stuck, changed>> /\ Counts /\ obj' = obj
    BY <1>3 DEF shareSurface, Locked, table, threads, ghosts, Rest
  <2>2. Len(cache') <= CacheSize
    BY <1>3, FoundLen DEF shareSurface
  <2> QED BY <2>1, <2>2, RestQuiet, UntouchedStep
<1>4. ASSUME NEW c \in Clients, NEW i \in Ids, unshareSurface(i, c)
      PROVE  BoundsInv' /\ MemoryInv'
  <2>1. /\ Rest /\ UNCHANGED <<props, released, stuck, changed>> /\ Counts /\ obj' = obj
        /\ cache' = cache
    BY <1>4 DEF unshareSurface, Locked, table, caches, threads, ghosts, Rest
  <2>2. Len(cache') <= CacheSize
    BY <2>1 DEF BoundsInv
  <2> QED BY <2>1, <2>2, RestQuiet, UntouchedStep
<1> QED BY <1>1, <1>2, <1>3, <1>4, Zenon DEF Sharing

LEMMA BoundsStutter ==
    ASSUME BoundsInv, MemoryInv, UNCHANGED vars
    PROVE  BoundsInv' /\ MemoryInv'
<1>1. UNCHANGED <<obj, array, allocated, evicted, ops, cache, props, released, stuck, changed,
                  registered, nextClient, freeClients>>
  BY DEF vars, svars, table, caches, threads, ghosts, cvars
<1>2. MemoryInv'
  BY <1>1, MemoryFrame
<1> QED BY <1>1, <1>2 DEF BoundsInv

LEMMA AccountsInit == Init => BoundsInv /\ MemoryInv
<1> SUFFICES ASSUME Init PROVE BoundsInv /\ MemoryInv
  OBVIOUS
<1>1. /\ obj = [o \in Objects |-> Blank] /\ array = {} /\ ops = 0 /\ evicted = 0 /\ allocated = 0
      /\ cache = <<>> /\ props = <<>> /\ released = <<>> /\ stuck = FALSE /\ changed = {}
      /\ registered = 0 /\ nextClient = 0 /\ freeClients = <<>>
  BY DEF Init, TableInit
<1>2. /\ 0 \in 0 .. MaxOps /\ 0 \in 0 .. MaxClient /\ Len(<<>>) = 0
      /\ 0 <= CacheSize /\ 0 <= PropSize /\ 0 <= MaxRecycled
      /\ 0 \in 0 .. AllocMod - 1 /\ Total \in Nat
  <2>1. Len(<<>>) = 0
    OBVIOUS
  <2> QED BY <2>1, SurfaceAssumption, ClientAssumption
<1>3. BoundsInv
  <2>1. \A o \in Objects : obj[o].locks = 0
    BY <1>1 DEF Blank
  <2>2. <<>> \in Seq(Clients)
    OBVIOUS
  <2>3. ops \in 0 .. MaxOps /\ (\A o \in Objects : obj[o].locks <= ops) /\ registered <= ops
    BY <1>1, <1>2, <2>1
  <2>4. \A o \in array : obj[o].id \in Ids
    BY <1>1
  <2>5. Len(cache) <= CacheSize /\ Len(props) <= PropSize /\ Len(released) <= MaxRecycled
    BY <1>1, <1>2, Zenon
  <2>6. /\ stuck \in BOOLEAN /\ changed \subseteq Ids
        /\ nextClient \in 0 .. MaxClient /\ freeClients \in Seq(Clients)
    BY <1>1, <1>2, <2>2
  <2> QED BY ONLY <2>3, <2>4, <2>5, <2>6, Zenon DEF BoundsInv
<1>4. BytesOf(array) = 0
  <2>1. Places(obj, array) = {}
    BY <1>1 DEF Places
  <2>2. BytesOf(array) = Cardinality(Places(obj, array))
    BY BytesPlaces
  <2>3. Cardinality({}) = 0
    BY FS_EmptySet
  <2> QED BY ONLY <2>1, <2>2, <2>3, Zenon
<1>5. MemoryInv
  <2>1. 0 % AllocMod = 0 /\ 0 - 0 = 0
    BY <1>2, ModSmall
  <2>2. allocated = (BytesOf(array) - evicted) % AllocMod
    BY ONLY <1>1, <1>4, <2>1, Zenon
  <2>3. evicted \in Nat
    BY <1>1
  <2>4. 0 <= Total
    BY <1>2
  <2> QED BY ONLY <1>4, <2>2, <2>3, <2>4, Zenon DEF MemoryInv, PoolLimitKept
<1> QED BY <1>3, <1>5

LEMMA AccountsNext ==
    Inv /\ Inv' /\ BoundsInv /\ MemoryInv /\ [Next]_vars => BoundsInv' /\ MemoryInv'
<1> SUFFICES ASSUME Inv, Inv', BoundsInv, MemoryInv, [Next]_vars PROVE BoundsInv' /\ MemoryInv'
  OBVIOUS
<1>1. CASE TableNext /\ UNCHANGED cvars
  <2>1. ASSUME NEW f \in Formats, NEW b \in Bytes, createSurface(f, b)
        PROVE  BoundsInv' /\ MemoryInv'
    BY <1>1, <2>1, BoundsCreate, MemoryCreate
  <2>2. CASE createSurfaceFails
    BY <1>1, <2>2, BoundsCreateFails
  <2>3. ASSUME NEW i \in Ids, destroySurface(i) PROVE BoundsInv' /\ MemoryInv'
    BY <1>1, <2>3, BoundsDestroy, MemoryDestroy
  <2>4. ASSUME NEW i \in Ids,
               \/ fillSurface(i) \/ fillSurfaceRegion(i)
               \/ getSurfacePlaneInfo(i) \/ validateSurface(i) \/ checkSurfaceIntegrity(i)
               \/ \E j \in Ids : copySurface(i, j) \/ copySurfaceRegion(i, j)
        PROVE  BoundsInv' /\ MemoryInv'
    <3>1. Look(i) \/ Fill(i) \/ \E j \in Ids : copySurface(i, j) \/ copySurfaceRegion(i, j)
      BY <2>4, Zenon DEF getSurfacePlaneInfo, validateSurface, checkSurfaceIntegrity,
                         fillSurface, fillSurfaceRegion
    <3> QED BY <1>1, <3>1, BoundsLook
  <2>5. ASSUME NEW i \in Ids,
               \/ \E ro \in BOOLEAN : lockSurface(i, ro) \/ setSurfaceMemoryPriority(i, ro)
               \/ lockSurfacePlane(i) \/ unlockSurface(i) \/ unlockSurfacePlane(i)
        PROVE  BoundsInv' /\ MemoryInv'
    <3>1. PICK h \in BOOLEAN : \/ lockSurface(i, h) \/ setSurfaceMemoryPriority(i, h)
                               \/ lockSurfacePlane(i) \/ unlockSurface(i) \/ unlockSurfacePlane(i)
      BY <2>5, Zenon
    <3> QED BY <1>1, <3>1, BoundsOnSurface
  <2>6. ASSUME NEW i \in Ids, NEW j \in Ids, NEW f \in Formats, convertSurfaceFormat(i, j, f)
        PROVE  BoundsInv' /\ MemoryInv'
    BY <1>1, <2>6, BoundsConvert
  <2>7. ASSUME NEW idle \in SUBSET array, evictUnusedSurfaces(idle)
        PROVE  BoundsInv' /\ MemoryInv'
    BY <1>1, <2>7, BoundsEvict, MemoryEvict
  <2>8. CASE \/ \E i \in Ids : \/ DescriptorFind(i) \/ prewarmDiscoveryCache(i)
                              \/ invalidatePropertyCache(i)
             \/ compactSurfaceMemory \/ cachesCollide
             \/ flushPropertyCache \/ flushDiscoveryCache \/ optimizeDiscoveryCache
    BY <1>1, <2>8, BoundsCaches
  <2>9. CASE \/ DescriptorPrefetch \/ DescriptorStore \/ DescriptorRead \/ DescriptorFile
             \/ PrewarmStore
    BY <1>1, <2>9, BoundsRead
  <2> QED BY ONLY <1>1, <2>1, <2>2, <2>3, <2>4, <2>5, <2>6, <2>7, <2>8, <2>9, Zenon DEF TableNext
<1>2. CASE Sharing
  BY <1>2, BoundsSharing
<1>3. CASE Finished \/ UNCHANGED vars
  BY <1>3, BoundsStutter DEF Finished
<1> QED BY <1>1, <1>2, <1>3, Zenon DEF Next

\* What the invariants say of the types.
LEMMA AccountsTypes ==
    ASSUME Inv, BoundsInv, MemoryInv
    PROVE  TypeOK
<1>c. /\ MaxCreates \in Nat /\ created \in 0 .. MaxCreates /\ array \subseteq 1 .. created
      /\ MaxOps \in Nat
  BY SurfaceAssumption DEF Inv, ObjTypes
<1>1. obj \in [Objects -> [id : Ids \cup {0}, fmt : Formats, size : Bytes \cup {0},
                           locks : 0 .. MaxOps, refs : 0 .. Wrapped, mem : BOOLEAN,
                           high : BOOLEAN, until : 0 .. MaxCreates]]
  <2>1. obj \in [Objects -> Surfaces]
    BY DEF Inv, ObjTypes
  <2>2. \A o \in Objects : obj[o].locks \in 0 .. MaxOps
    <3>1. \A o \in Objects : obj[o].locks \in Nat /\ obj[o].locks <= ops
      BY BoundTypes
    <3>2. ops \in Nat /\ ops <= MaxOps
      BY BoundTypes
    <3> QED BY ONLY <1>c, <3>1, <3>2
  <2> QED BY <2>1, <2>2 DEF Surfaces
<1>2. count \in 0 .. MaxCreates
  <2>1. Cardinality(array) <= Cardinality(1 .. created) /\ Cardinality(array) \in Nat
    <3>1. IsFiniteSet(1 .. created)
      BY <1>c, CountTo
    <3> QED BY <1>c, <3>1, ArrayFinite, FS_Subset
  <2>2. created \in Nat
    BY <1>c
  <2>3. Cardinality(1 .. created) = created
    BY <2>2, CountTo
  <2>4. count = Cardinality(array)
    BY DEF Inv, CountKept
  <2> QED BY ONLY <1>c, <2>1, <2>3, <2>4
<1>3. allocated \in 0 .. AllocMod - 1 /\ evicted \in Nat
  BY MemoryTypes
<1>4. /\ map \in [Ids -> 0 .. created] /\ nextId \in 1 .. MaxId + 1 /\ released \in Seq(Ids)
      /\ misled \in BOOLEAN /\ wild \in BOOLEAN /\ torn \in BOOLEAN /\ gone \subseteq Ids
  BY DEF Inv, ObjTypes, TornInv
<1>5. /\ cache \in Seq([id : Ids, obj : Objects])
      /\ props \in Seq([id : Ids, fmt : Formats, valid : BOOLEAN])
      /\ reader \in {NoReader} \cup [pc : {"prefetch", "store", "read", "file", "warm"},
                                    id : Ids, obj : Objects, fmt : Formats]
  BY DEF Inv, CacheTypes, ReaderTypes, CacheEntry, PropEntry, ReaderEntry
<1>6. /\ Len(cache) <= CacheSize /\ Len(props) <= PropSize /\ Len(released) <= MaxRecycled
      /\ stuck \in BOOLEAN /\ changed \subseteq Ids /\ ops \in 0 .. MaxOps
      /\ nextClient \in 0 .. MaxClient /\ freeClients \in Seq(Clients)
  BY DEF BoundsInv
<1>7. registered \in 0 .. MaxOps /\ clients \in [Clients -> 0 .. registered]
  <2>1. registered \in Nat /\ registered <= ops /\ clients \in [Clients -> 0 .. registered]
    BY DEF Inv, ShareTypes, BoundsInv
  <2> QED BY ONLY <1>c, <1>6, <2>1
<1>8. shares \in Seq([id : Ids, client : Clients, obj : Objects \cup {0}, reg : 0 .. registered])
  <2> DEFINE R == [id : Ids, client : Clients, obj : Objects \cup {0}, reg : 0 .. registered]
  <2>1. shares \in Seq(ShareEntry(created, registered))
    BY DEF Inv, ShareTypes
  <2>2. 0 .. created \subseteq Objects \cup {0}
    BY <1>c DEF Objects
  <2>3. ShareEntry(created, registered) \subseteq R
    BY <2>2 DEF ShareEntry
  <2> HIDE DEF R
  <2>4. shares \in Seq(R)
    BY <2>1, <2>3, SeqMono
  <2> QED BY <2>4 DEF R
<1>9. TableTypeOK
  BY ONLY <1>1, <1>2, <1>3, <1>4, <1>5, <1>6, <1>c, Zenon DEF TableTypeOK
<1> QED BY ONLY <1>6, <1>7, <1>8, <1>9, Zenon DEF TypeOK

\* The table's accounts are in order whatever its callers do: every variable
\* has its type, no cache outgrows its array, m_surface_count counts the
\* surfaces, m_allocated_surface_memory is their bytes less what eviction took
\* off, modulo its width, and until something is evicted the surfaces fit the
\* limit that createSurface compares with.
THEOREM AccountsTheorem == Spec => []AccountsKept
<1>1. Init => Inv /\ BoundsInv /\ MemoryInv
  BY InitInv, AccountsInit
<1>2. Inv /\ BoundsInv /\ MemoryInv /\ [Next]_vars => Inv' /\ BoundsInv' /\ MemoryInv'
  BY NextInv, AccountsNext
<1>3. ASSUME Inv, BoundsInv, MemoryInv PROVE AccountsKept
  <2>1. TypeOK
    BY <1>3, AccountsTypes
  <2>2. CountersAgree /\ PoolLimitKept
    BY <1>3, Zenon DEF Inv, MemoryInv, CountersAgree
  <2> QED BY <2>1, <2>2 DEF AccountsKept
<1> QED BY <1>1, <1>2, <1>3, PTL DEF Spec
=============================================================================
