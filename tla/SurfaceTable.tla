---------------------------- MODULE SurfaceTable ----------------------------
(***************************************************************************)
(* The surfaces of VMIOSurfaceManager: creation, destruction, locks, the   *)
(* memory total, and the two static caches in front of them.  Every        *)
(* operation but getSurfaceDescriptor and the cache maintenance holds      *)
(* m_surface_lock from its first line to its last, and is one action.      *)
(*                                                                         *)
(* The discovery cache keeps raw object pointers and no destruction purges *)
(* it.  A hit on a freed object is undefined: the bytes may be as they     *)
(* were left, or those of an object allocated since (Reuse).               *)
(*                                                                         *)
(* The operations without the lock are taken apart where a destruction or  *)
(* a flush can come in between.  Two threads that change the caches at the *)
(* very same time leave entries nothing is known of (torn).                *)
(***************************************************************************)
EXTENDS Integers, Sequences, FiniteSets, FiniteSetsExt

CONSTANTS
    MaxId,          \* ids are 1 .. MaxId; bound on m_next_surface_id
    MaxCreates,     \* bound: surfaces created in a behaviour
    MaxOps,         \* bound: operations
    Formats,        \* pixel formats
    Bytes,          \* surface sizes, of 32 bits
    Total,          \* m_total_surface_memory
    AllocMod,       \* width of m_allocated_surface_memory: 2^64 in the code
    CacheSize,      \* entries of g_surface_cache: 64
    PropSize,       \* entries of g_property_cache: 128
    MaxRecycled     \* MAX_RECYCLED_IDS: 64

ASSUME SurfaceAssumption == /\ {MaxId, MaxCreates, MaxOps, Total, AllocMod,
                                CacheSize, PropSize, MaxRecycled} \subseteq Nat \ {0}
                            /\ Total < AllocMod /\ Formats # {}
                            /\ \A b \in Bytes : b \in Nat \ {0} /\ Total + b < AllocMod

VARIABLES
    obj,        \* the VMIOSurface in each OSData object, by creation number
    created,    \* objects created so far
    array,      \* m_surfaces
    map,        \* m_surface_map: the object of each id, 0 for none
    cache,      \* g_surface_cache: [id, obj]
    props,      \* g_property_cache: [id, fmt, valid]
    nextId, released,   \* m_next_surface_id, m_released_surface_ids
    allocated, count,   \* m_allocated_surface_memory, m_surface_count
    stuck,      \* a thread waits for the m_surface_lock it holds
    reader,     \* the thread that looks a surface up, or prewarms, without the lock
    torn,       \* two threads were in the caches at once
    ops,        \* operations so far
    evicted,    \* bytes evictUnusedSurfaces has taken off the total so far
    gone,       \* ids destroyed since the discovery cache was flushed, or while
                \* the reader holds a pointer it has for them
    changed,    \* ids changed, or read when gone, since the property cache was
                \* flushed, or while the reader holds a descriptor of theirs
    misled,     \* a lookup may answer for another id: torn, or a destruction went
                \* through an object that was not the id's
    wild        \* pixels of an id not gone were read or written in released memory

table == <<obj, created, array, map, nextId, released, allocated, count>>
caches == <<cache, props>>
ghosts == <<evicted, gone, changed, misled, wild>>
threads == <<stuck, reader>>
svars == <<table, caches, torn, threads, ops, ghosts>>

Ids == 1 .. MaxId
Objects == 1 .. MaxCreates
AnyFormat == CHOOSE f \in Formats : TRUE

\* What the reader does next, for which id, and the pointer it holds.
Reader(pc, i, o) == [pc |-> pc, id |-> i, obj |-> o, fmt |-> AnyFormat]
NoReader == Reader("none", 0, 0)

\* The ids whose pointers the reader has in hand.
Held == CASE reader.pc = "prefetch" -> {reader.id + 1}
          [] reader.pc \in {"store", "read", "warm"} -> {reader.id}
          [] OTHER -> {}

\* ref_count is 1, 0, or has wrapped below 0.
Wrapped == 2
Decrement(refs) == IF refs = 1 THEN 0 ELSE Wrapped

Surface(i, f, b) == [id |-> i, fmt |-> f, size |-> b, locks |-> 0, refs |-> 1,
                     mem |-> TRUE, high |-> FALSE, until |-> 0]
Blank == [id |-> 0, fmt |-> AnyFormat, size |-> 0, locks |-> 0,
          refs |-> 0, mem |-> FALSE, high |-> FALSE, until |-> 0]

\* initWithAccelerator
TableInit ==
    /\ obj = [o \in Objects |-> Blank] /\ created = 0
    /\ array = {} /\ map = [i \in Ids |-> 0]
    /\ cache = <<>> /\ props = <<>>
    /\ nextId = 1 /\ released = <<>>
    /\ allocated = 0 /\ count = 0
    /\ stuck = FALSE /\ reader = NoReader /\ ops = 0
    /\ evicted = 0 /\ gone = {} /\ changed = {} /\ misled = FALSE
    /\ wild = FALSE /\ torn = FALSE

-----------------------------------------------------------------------------
\* Retained by the dictionary or the array.
Exists(o) == o \in array \/ \E i \in Ids : map[i] = o

\* What a pointer to o may point to by now: o was freed when `until' objects
\* had been created, and a later one may be where it was.
Reuse(o) == IF Exists(o) THEN {o}
            ELSE {o} \cup {p \in obj[o].until + 1 .. created : Exists(p)}

First(s, i) == LET at == {k \in DOMAIN s : s[k].id = i}
               IN IF at = {} THEN 0 ELSE Min(at)

\* What a scan of the discovery cache c for i finds.
Hits(c, i) == IF First(c, i) = 0 THEN {} ELSE Reuse(c[First(c, i)].obj)

\* Append if there is room, else replace the least recently used entry.
Insert(c, e, size) == IF Len(c) < size THEN {Append(c, e)}
                      ELSE {[c EXCEPT ![k] = e] : k \in DOMAIN c}

\* A miss in a sequential pattern caches the next id's object as well.
Prefetched(c, i) == {c} \cup
    (IF i + 1 \in Ids /\ map[i + 1] # 0 /\ Len(c) < CacheSize
     THEN {Append(c, [id |-> i + 1, obj |-> map[i + 1]])} ELSE {})

\* Mutant: the prefetched object is stored under the id looked up.
LookupsMisfiled(c, i) ==
    IF First(c, i) # 0 THEN {[obj |-> o, cache |-> c] : o \in Hits(c, i)}
    ELSE IF map[i] = 0 THEN {[obj |-> 0, cache |-> d] : d \in Prefetched(c, i)}
    ELSE UNION {{[obj |-> map[i], cache |-> e] :
                    e \in Insert(d, [id |-> i, obj |-> Max({map[i]} \cup {map[j] : j \in {i + 1} \cap Ids})],
                                 CacheSize)} :
                d \in Prefetched(c, i)}

\* findSurface(i) with the cache c: the object returned (0 for nullptr) and
\* the cache it leaves behind.
Lookups(c, i) ==
    IF First(c, i) # 0 THEN {[obj |-> o, cache |-> c] : o \in Hits(c, i)}
    ELSE IF map[i] = 0 THEN {[obj |-> 0, cache |-> d] : d \in Prefetched(c, i)}
    ELSE UNION {{[obj |-> map[i], cache |-> e] :
                    e \in Insert(d, [id |-> i, obj |-> map[i]], CacheSize)} :
                d \in Prefetched(c, i)}

findSurface(i, o) ==
    IF torn THEN o \in 0 .. created /\ UNCHANGED cache
    ELSE \E r \in Lookups(cache, i) : o = r.obj /\ cache' = r.cache

\* Two lookups, one after the other.
findBoth(i, j, o, p) ==
    IF torn THEN {o, p} \subseteq 0 .. created /\ UNCHANGED cache
    ELSE \E r \in Lookups(cache, i) : \E q \in Lookups(r.cache, j) :
            o = r.obj /\ p = q.obj /\ cache' = q.cache

\* An operation on surfaces is counted; m_surface_lock is free for it.
Counts == ops < MaxOps /\ ops' = ops + 1
Locked == ~stuck /\ Counts

-----------------------------------------------------------------------------
\* Mutant: a recycled id stays in the list.
allocateSurfaceIdKeeps(i) ==
    IF released # <<>> THEN i = released[Len(released)] /\ UNCHANGED <<nextId, released>>
    ELSE i = nextId /\ nextId' = nextId + 1 /\ UNCHANGED released

\* allocateSurfaceId: the id released last, or a new one.
allocateSurfaceId(i) ==
    IF released # <<>> THEN /\ i = released[Len(released)]
                            /\ released' = SubSeq(released, 1, Len(released) - 1)
                            /\ UNCHANGED nextId
    ELSE i = nextId /\ nextId' = nextId + 1 /\ UNCHANGED released

\* releaseSurfaceId
releaseSurfaceId(i) ==
    released' = IF Len(released) < MaxRecycled THEN Append(released, i) ELSE released

\* Mutant: the total is compared before the new surface is added.
createSurfaceUnchecked(f, b) ==
    /\ Locked
    /\ created < MaxCreates
    /\ allocated <= Total
    /\ \E i \in Ids :
          /\ allocateSurfaceId(i)
          /\ obj' = [obj EXCEPT ![created + 1] = Surface(i, f, b)]
          /\ map' = [map EXCEPT ![i] = created + 1]
    /\ array' = array \cup {created + 1}
    /\ created' = created + 1
    /\ count' = count + 1
    /\ allocated' = (allocated + b) % AllocMod
    /\ UNCHANGED <<caches, torn, threads, ghosts>>

\* createSurface; the comparison with the total is on 64 bits.
createSurface(f, b) ==
    /\ Locked
    /\ created < MaxCreates
    /\ (allocated + b) % AllocMod <= Total
    /\ \E i \in Ids :
          /\ allocateSurfaceId(i)
          /\ obj' = [obj EXCEPT ![created + 1] = Surface(i, f, b)]
          /\ map' = [map EXCEPT ![i] = created + 1]
    /\ array' = array \cup {created + 1}
    /\ created' = created + 1
    /\ count' = count + 1
    /\ allocated' = (allocated + b) % AllocMod
    /\ UNCHANGED <<caches, torn, threads, ghosts>>

\* Memory, a plane set-up or a wrapper failed after the id was taken.
createSurfaceFails ==
    /\ Locked
    /\ allocated < Total
    /\ IF released # <<>> THEN UNCHANGED <<nextId, released>>
       ELSE nextId \in Ids /\ nextId' = nextId + 1 /\ releaseSurfaceId(nextId)
    /\ UNCHANGED <<obj, created, array, map, allocated, count, caches, torn, threads, ghosts>>

\* Mutant: the locks of a surface are not looked at.
destroySurfaceLocked(i) ==
    /\ Locked
    /\ \E o \in Objects :
          /\ findSurface(i, o)
          /\ obj[o].refs = 1
          /\ obj' = [obj EXCEPT ![o].refs = 0, ![o].mem = FALSE, ![o].until = created]
          /\ map' = [map EXCEPT ![i] = 0] /\ array' = array \ {o}
          /\ allocated' = (allocated - obj[o].size) % AllocMod
    /\ count' = count - 1
    /\ releaseSurfaceId(i)
    /\ gone' = gone \cup {i} /\ changed' = changed \cup {i}
    /\ UNCHANGED <<created, nextId, props, torn, threads, evicted, misled, wild>>

\* Mutant: ref_count is not looked at.
destroySurfaceAgain(i) ==
    /\ Locked
    /\ \E o \in Objects :
          /\ findSurface(i, o)
          /\ obj[o].locks = 0
          /\ obj' = [obj EXCEPT ![o].mem = FALSE, ![o].until = created]
          /\ map' = [map EXCEPT ![i] = 0] /\ array' = array \ {o}
          /\ allocated' = (allocated - obj[o].size) % AllocMod
    /\ count' = count - 1
    /\ releaseSurfaceId(i)
    /\ gone' = gone \cup {i} /\ changed' = changed \cup {i}
    /\ UNCHANGED <<created, nextId, props, torn, threads, evicted, misled, wild>>

\* destroySurface of an unlocked surface: the last reference releases the
\* memory, the entries, the id.  A further call finds ref_count 0, which
\* wraps, and succeeds without doing anything.
destroySurface(i) ==
    /\ Locked
    /\ \E o \in Objects :
          /\ findSurface(i, o)
          /\ obj[o].locks = 0
          /\ IF Decrement(obj[o].refs) = 0
             THEN /\ obj' = [obj EXCEPT ![o].refs = 0, ![o].mem = FALSE, ![o].until = created]
                  /\ map' = [map EXCEPT ![i] = 0]
                  /\ array' = array \ {o}
                  /\ count' = count - 1
                  /\ allocated' = (allocated - obj[o].size) % AllocMod
                  /\ releaseSurfaceId(i)
                  /\ gone' = gone \cup {i} /\ changed' = changed \cup {i}
                  /\ misled' = (misled \/ o # map[i])
             ELSE /\ obj' = [obj EXCEPT ![o].refs = Wrapped]
                  /\ UNCHANGED <<map, array, count, allocated, released, gone, changed, misled>>
    /\ UNCHANGED <<created, nextId, props, torn, threads, evicted, wild>>

-----------------------------------------------------------------------------
\* An operation that finds surface i, satisfies ok and changes only it.
OnSurface(i, ok(_), new(_)) ==
    /\ Locked
    /\ \E o \in Objects : /\ findSurface(i, o)
                          /\ ok(obj[o])
                          /\ obj' = [obj EXCEPT ![o] = new(obj[o])]
    /\ UNCHANGED <<created, array, map, nextId, released, allocated, count, props, torn,
                   threads, ghosts>>

AddLock(s) == [s EXCEPT !.locks = @ + 1]

\* lockSurface hands out base_address; a writer is refused while locked.
lockSurface(i, readOnly) ==
    OnSurface(i, LAMBDA s : s.mem /\ (s.locks = 0 \/ readOnly), AddLock)

\* lockSurfacePlane does not ask whether the surface is locked.
lockSurfacePlane(i) == OnSurface(i, LAMBDA s : s.mem, AddLock)

unlockSurface(i) ==
    OnSurface(i, LAMBDA s : s.locks > 0, LAMBDA s : [s EXCEPT !.locks = @ - 1])
unlockSurfacePlane(i) ==
    OnSurface(i, LAMBDA s : s.locks > 0, LAMBDA s : [s EXCEPT !.locks = @ - 1])

\* HIGH and CRITICAL priorities are exempt from eviction.
setSurfaceMemoryPriority(i, h) ==
    OnSurface(i, LAMBDA s : TRUE, LAMBDA s : [s EXCEPT !.high = h])

\* A lookup that changes nothing else: the error exits of the operations
\* above, and the queries.
Look(i) ==
    /\ Locked
    /\ \E o \in Objects \cup {0} : findSurface(i, o)
    /\ UNCHANGED <<table, props, torn, threads, ghosts>>
getSurfacePlaneInfo(i) == Look(i)
validateSurface(i) == Look(i)
checkSurfaceIntegrity(i) == Look(i)

\* Both surfaces are looked up; the copy asks for their memory first.
copySurface(i, j) ==
    /\ i # j
    /\ Locked
    /\ \E o \in Objects, p \in Objects \cup {0} : findBoth(i, j, o, p)
    /\ UNCHANGED <<table, props, torn, threads, ghosts>>

\* The memory of o, used by id i, was released.
Wild(i, o) == ~obj[o].mem /\ i \notin gone

\* fillSurface, fillSurfaceRegion and copySurfaceRegion ask for base_address
\* only, which destroySurface leaves set when it releases the memory.
Fill(i) ==
    /\ Locked
    /\ \E o \in Objects : findSurface(i, o) /\ wild' = (wild \/ Wild(i, o))
    /\ UNCHANGED <<table, props, torn, threads, evicted, gone, changed, misled>>
fillSurface(i) == Fill(i)
fillSurfaceRegion(i) == Fill(i)

\* Refused for a surface not found, a region out of bounds, or another format.
copySurfaceRegion(i, j) ==
    /\ Locked
    /\ \E o, p \in Objects \cup {0} :
          /\ findBoth(i, j, o, p)
          /\ \/ UNCHANGED wild
             \/ /\ 0 \notin {o, p} /\ obj[o].fmt = obj[p].fmt
                /\ wild' = (wild \/ Wild(i, o) \/ Wild(j, p))
    /\ UNCHANGED <<table, props, torn, threads, evicted, gone, changed, misled>>

\* convertSurfaceFormat(i -> j): both need memory; a source that has the
\* format already ends the call before anything is converted.
convertSurfaceFormat(i, j, f) ==
    /\ i # j
    /\ Locked
    /\ \E o, p \in Objects :
          /\ findBoth(i, j, o, p)
          /\ obj[o].mem /\ obj[p].mem
          /\ obj[o].fmt # f
          /\ obj' = [obj EXCEPT ![p].fmt = f]
          /\ changed' = changed \cup {j, obj[p].id}
    /\ UNCHANGED <<created, array, map, nextId, released, allocated, count, props, torn,
                   threads, evicted, gone, misled, wild>>

\* The sizes of the surfaces of S added up, byte by byte.
BytesOf(S) == Cardinality({p \in S \X (1 .. AllocMod) : p[2] <= obj[p[1]].size})

\* evictUnusedSurfaces takes the sizes of the idle ones among the unlocked
\* surfaces of low priority off the total.  Their memory stays allocated,
\* and they stay in the table: the next call may count them again.
evictUnusedSurfaces(idle) ==
    /\ Locked
    /\ idle \subseteq {o \in array : obj[o].locks = 0 /\ ~obj[o].high}
    /\ allocated' = (allocated - BytesOf(idle)) % AllocMod
    /\ evicted' = evicted + BytesOf(idle)
    /\ UNCHANGED <<obj, created, array, map, nextId, released, count, caches, torn, threads,
                   gone, changed, misled, wild>>

\* compactSurfaceMemory calls destroySurface for an idle surface with the
\* lock held, and destroySurface takes the lock: the thread waits for itself.
compactSurfaceMemory ==
    /\ Locked
    /\ \E o \in array : obj[o].locks = 0 /\ obj[o].refs <= 1
    /\ stuck' = TRUE
    /\ UNCHANGED <<table, caches, torn, reader, ghosts>>

-----------------------------------------------------------------------------
(* The caches' own operations take no lock.                                *)

FirstValid(i) == LET at == {k \in DOMAIN props : props[k].id = i /\ props[k].valid}
                 IN IF at = {} THEN 0 ELSE Min(at)

\* getSurfaceDescriptor.  findSurface ends with a hit, with nothing in the
\* dictionary, or with a pointer read there that is still to be cached.
DescriptorFind(i) ==
    /\ reader = NoReader
    /\ Counts
    /\ \/ \E o \in IF torn THEN 1 .. created ELSE Hits(cache, i) : reader' = Reader("read", i, o)
       \/ /\ torn \/ First(cache, i) = 0
          /\ \/ i + 1 \in Ids /\ map[i + 1] # 0 /\ reader' = Reader("prefetch", i, map[i + 1])
             \/ map[i] # 0 /\ reader' = Reader("store", i, map[i])
             \/ map[i] = 0 /\ UNCHANGED reader
    /\ UNCHANGED <<table, caches, torn, stuck, ghosts>>

\* The next id's object is cached, and the dictionary is read for the id itself.
DescriptorPrefetch ==
    /\ reader.pc = "prefetch"
    /\ cache' = IF Len(cache) < CacheSize
                THEN Append(cache, [id |-> reader.id + 1, obj |-> reader.obj]) ELSE cache
    /\ reader' = IF map[reader.id] = 0 THEN NoReader
                 ELSE Reader("store", reader.id, map[reader.id])
    /\ UNCHANGED <<table, props, torn, stuck, ops, ghosts>>

\* The object is cached, whatever became of it; one that is gone may also look
\* as if it had no reference.
DescriptorStore ==
    /\ reader.pc = "store"
    /\ \/ /\ cache' \in Insert(cache, [id |-> reader.id, obj |-> reader.obj], CacheSize)
          /\ reader' = Reader("read", reader.id, reader.obj)
       \/ ~Exists(reader.obj) /\ reader' = NoReader /\ UNCHANGED cache
    /\ UNCHANGED <<table, props, torn, stuck, ops, ghosts>>

\* The first valid cached descriptor is the answer, or the surface's is read.
DescriptorRead ==
    /\ reader.pc = "read"
    /\ IF FirstValid(reader.id) # 0 THEN reader' = NoReader
       ELSE \E o \in Reuse(reader.obj) :
               reader' = [Reader("file", reader.id, reader.obj) EXCEPT !.fmt = obj[o].fmt]
    /\ changed' = changed \cup ({reader.id} \cap gone)
    /\ UNCHANGED <<table, caches, torn, stuck, ops, evicted, gone, misled, wild>>

\* ... and cached.
DescriptorFile ==
    /\ reader.pc = "file"
    /\ props' \in Insert(props, [id |-> reader.id, fmt |-> reader.fmt, valid |-> TRUE], PropSize)
    /\ reader' = NoReader
    /\ UNCHANGED <<table, cache, torn, stuck, ops, ghosts>>

\* invalidatePropertyCache marks the first entry of the id, valid or not.
invalidatePropertyCache(i) ==
    /\ Counts
    /\ First(props, i) # 0
    /\ props' = [props EXCEPT ![First(props, i)].valid = FALSE]
    /\ UNCHANGED <<table, cache, torn, threads, ghosts>>

\* Mutant: the size is reset by optimizePropertyCache only.
flushPropertyCacheKeeps ==
    /\ Counts
    /\ changed' = changed \cap {i \in Ids : reader.pc = "file" /\ reader.id = i}
    /\ UNCHANGED <<props, table, cache, torn, threads, evicted, gone, misled, wild>>

flushPropertyCache ==
    /\ Counts
    /\ props' = <<>>
    /\ changed' = changed \cap {i \in Ids : reader.pc = "file" /\ reader.id = i}
    /\ UNCHANGED <<table, cache, torn, threads, evicted, gone, misled, wild>>

\* Mutant: the entries are kept.
flushDiscoveryCacheKeeps ==
    /\ Counts
    /\ gone' = gone \cap Held
    /\ UNCHANGED <<cache, table, props, torn, threads, evicted, changed, misled, wild>>

flushDiscoveryCache ==
    /\ Counts
    /\ cache' = <<>>
    /\ gone' = gone \cap Held
    /\ UNCHANGED <<table, props, torn, threads, evicted, changed, misled, wild>>

\* prewarmDiscoveryCache asks for room, reads the dictionary ...
prewarmDiscoveryCache(i) ==
    /\ reader = NoReader
    /\ Counts
    /\ map[i] # 0 /\ Len(cache) < CacheSize
    /\ reader' = Reader("warm", i, map[i])
    /\ UNCHANGED <<table, caches, torn, stuck, ghosts>>

\* ... and appends without looking for the id, or for the room, again: past the
\* end if it was taken in between.
PrewarmStore ==
    /\ reader.pc = "warm"
    /\ IF Len(cache) < CacheSize
       THEN /\ cache' = Append(cache, [id |-> reader.id, obj |-> reader.obj])
            /\ UNCHANGED <<torn, misled>>
       ELSE torn' = TRUE /\ misled' = TRUE /\ UNCHANGED cache
    /\ reader' = NoReader
    /\ UNCHANGED <<table, props, stuck, ops, evicted, gone, changed, wild>>

\* optimizeDiscoveryCache sorts by access counts, which are not kept here.
optimizeDiscoveryCache ==
    /\ Counts
    /\ \E k \in 1 .. Len(cache) - 1 :
          cache' = [cache EXCEPT ![k] = cache[k + 1], ![k + 1] = cache[k]]
    /\ UNCHANGED <<table, props, torn, threads, ghosts>>

\* Two threads are in the caches at once, one of them without the lock, and at
\* least one writes.  From then on a lookup may answer any object.
cachesCollide ==
    /\ ~torn /\ Counts
    /\ torn' = TRUE /\ misled' = TRUE
    /\ cache' = <<>> /\ props' = <<>>
    /\ UNCHANGED <<table, threads, evicted, gone, changed, wild>>

TableNext ==
    \/ \E f \in Formats, b \in Bytes : createSurface(f, b)
    \/ createSurfaceFails
    \/ \E i \in Ids :
          \/ destroySurface(i) \/ fillSurface(i) \/ fillSurfaceRegion(i)
          \/ getSurfacePlaneInfo(i) \/ validateSurface(i) \/ checkSurfaceIntegrity(i)
          \/ \E j \in Ids : copySurface(i, j) \/ copySurfaceRegion(i, j)
          \/ \E ro \in BOOLEAN : lockSurface(i, ro) \/ setSurfaceMemoryPriority(i, ro)
          \/ lockSurfacePlane(i) \/ unlockSurface(i) \/ unlockSurfacePlane(i)
          \/ \E j \in Ids, f \in Formats : convertSurfaceFormat(i, j, f)
          \/ DescriptorFind(i) \/ invalidatePropertyCache(i) \/ prewarmDiscoveryCache(i)
    \/ \E idle \in SUBSET array : evictUnusedSurfaces(idle)
    \/ compactSurfaceMemory \/ PrewarmStore \/ cachesCollide
    \/ DescriptorPrefetch \/ DescriptorStore \/ DescriptorRead \/ DescriptorFile
    \/ flushPropertyCache \/ flushDiscoveryCache \/ optimizeDiscoveryCache

-----------------------------------------------------------------------------
\* The types of the variables.
TableTypeOK ==
    /\ obj \in [Objects -> [id : Ids \cup {0}, fmt : Formats, size : Bytes \cup {0},
                            locks : 0 .. MaxOps, refs : 0 .. Wrapped, mem : BOOLEAN,
                            high : BOOLEAN, until : 0 .. MaxCreates]]
    /\ created \in 0 .. MaxCreates
    /\ array \subseteq 1 .. created
    /\ map \in [Ids -> 0 .. created]
    /\ cache \in Seq([id : Ids, obj : Objects]) /\ Len(cache) <= CacheSize
    /\ props \in Seq([id : Ids, fmt : Formats, valid : BOOLEAN]) /\ Len(props) <= PropSize
    /\ nextId \in 1 .. MaxId + 1
    /\ released \in Seq(Ids) /\ Len(released) <= MaxRecycled
    /\ allocated \in 0 .. AllocMod - 1
    /\ count \in 0 .. MaxCreates
    /\ stuck \in BOOLEAN /\ misled \in BOOLEAN /\ wild \in BOOLEAN /\ torn \in BOOLEAN
    /\ reader \in {NoReader} \cup [pc : {"prefetch", "store", "read", "file", "warm"},
                                  id : Ids, obj : Objects, fmt : Formats]
    /\ ops \in 0 .. MaxOps /\ evicted \in Nat
    /\ gone \subseteq Ids /\ changed \subseteq Ids

\* The counters follow the table, stale pointers and double destructions
\* notwithstanding, because ref_count lets each object be taken off once;
\* what eviction subtracted is the whole difference.
CountKept == count = Cardinality(array)
CountersAgree == CountKept /\ allocated = (BytesOf(array) - evicted) % AllocMod

\* Until something was evicted the surfaces fit the pool of 512 MB.
PoolLimitKept == evicted = 0 => BytesOf(array) <= Total

\* A base address that was handed out stays backed by memory until it is
\* given back: no destruction, by whatever pointer, comes in between.
LockedStaysMapped == \A o \in Objects : obj[o].locks > 0 => obj[o].mem

\* fillSurface, fillSurfaceRegion and copySurfaceRegion use released memory only
\* for an id destroyed since the last flush (or while an unlocked lookup or
\* prewarm had its pointer in hand), after a destruction through a stale
\* pointer, or after two threads met in the caches.
RegionWritesMapped == wild => misled

\* An id that was not destroyed since the last flush is found as the object
\* the dictionary has, through prefetch, replacement, prewarming and sorting.
CacheCoherent ==
    \A k \in DOMAIN cache :
        cache[k].id \notin gone => cache[k].obj = map[cache[k].id]

\* Ids are handed out once: those in use, those waiting to be used again and
\* the new ones are apart.
IdsApart ==
    /\ \A i \in Ids : map[i] # 0 => i < nextId /\ obj[map[i]].id = i
    /\ \A k \in DOMAIN released :
          /\ released[k] < nextId /\ map[released[k]] = 0
          /\ \A m \in DOMAIN released : released[m] = released[k] => m = k

\* A cached descriptor is the surface's, until the id's surface is converted
\* or destroyed, before the descriptor is cached or after, or the descriptor
\* was read through a stale pointer.
DescriptorsCurrent ==
    \A k \in DOMAIN props :
        props[k].id \notin changed =>
            map[props[k].id] # 0 /\ props[k].fmt = obj[map[props[k].id]].fmt

\* No memory is used after it was released: neither a locked surface's nor, but
\* for the stale ids named above, one that a fill or a region copy goes to.
MemoryStaysMapped == LockedStaysMapped /\ RegionWritesMapped

\* Whatever a lookup answers by id is current, dictionary, discovery cache,
\* recycled ids and cached descriptors alike, up to the stale ids named above
\* and until two threads met in the caches or a destruction went through a
\* stale pointer: that one may release an id which waits to be used again, and
\* two surfaces get it.
LookupsCurrent == ~misled => CacheCoherent /\ IdsApart /\ DescriptorsCurrent
=============================================================================
