------------------------- MODULE AcceleratorProofs -------------------------
(***************************************************************************)
(* Proofs about Accelerator, for any clients, threads and bounds: the      *)
(* pools, the bindings, the device contexts, what is left behind and who   *)
(* can use freed memory.                                                   *)
(***************************************************************************)
EXTENDS Accelerator, FiniteSetTheorems, SequenceTheorems, TLAPS

-----------------------------------------------------------------------------
(* The pools.                                                              *)

\* A pool of ids: every object of S in one slot, nothing else, counted.
PoolOK(pool, count, S) ==
    /\ pool \in Seq(Nat) /\ Len(pool) > 0 /\ S \subseteq Nat \ {0} /\ IsFiniteSet(S)
    /\ Filled(pool) = S
    /\ \A i, j \in DOMAIN pool : pool[i] = pool[j] /\ pool[i] # 0 => i = j
    /\ count = Cardinality(S)

\* The slots in use, when each object is in one slot, are as many as the
\* objects.
LEMMA SlotsCounted ==
    ASSUME NEW pool, NEW count, NEW S, PoolOK(pool, count, S)
    PROVE  Cardinality(DOMAIN pool \ Slots(pool)) = count
<1> DEFINE used == DOMAIN pool \ Slots(pool)
           f == [i \in used |-> pool[i]]
<1>1. f \in [used -> S]
  BY DEF PoolOK, Slots, Filled
<1>2. \A i, j \in used : f[i] = f[j] => i = j
  BY DEF PoolOK, Slots
<1>3. \A x \in S : \E i \in used : f[i] = x
  BY DEF PoolOK, Slots, Filled
<1>4. f \in Bijection(used, S)
  <2>1. DOMAIN f = used
    OBVIOUS
  <2> HIDE DEF f, used
  <2> QED BY <2>1, <1>1, <1>2, <1>3, Zenon DEF Bijection, Injection, Surjection, IsInjective
<1>5. IsFiniteSet(used)
  <2>1. IsFiniteSet(DOMAIN pool)
    <3>1. DOMAIN pool = 1 .. Len(pool) /\ Len(pool) \in Nat
      BY DEF PoolOK
    <3> QED BY <3>1, FS_Interval
  <2> QED BY <2>1, FS_Subset
<1> HIDE DEF used, f
<1>6. Cardinality(used) = Cardinality(S)
  BY <1>4, <1>5, FS_Bijection DEF PoolOK, ExistsBijection
<1> QED BY <1>6 DEF PoolOK, used

\* A finite non-empty set of numbers has a least element.
LEMMA MinIn ==
    ASSUME NEW n \in Nat, NEW T \in SUBSET (1 .. n), T # {}
    PROVE  Min(T) \in T
<1> DEFINE R == {p \in Nat \X Nat : p[1] < p[2]}
<1>1. IsWellFoundedOn(R, Nat)
  BY NatLessThanWellFounded, Zenon DEF OpToRel
<1>2. T \subseteq Nat
  OBVIOUS
<1>3. \E x \in T : \A y \in T : ~(<<y, x>> \in R)
  <2> HIDE DEF R
  <2> QED BY <1>1, <1>2, WFMin, Zenon
<1>4. \E x \in T : \A y \in T : x <= y
  <2>1. \A x, y \in Nat : y < x => <<y, x>> \in R
    OBVIOUS
  <2> HIDE DEF R
  <2>2. \A x, y \in Nat : x <= y \/ y < x
    OBVIOUS
  <2> QED BY <1>2, <1>3, <2>1, <2>2, Zenon
<1> QED BY <1>4 DEF Min

\* poolAddContext, poolAddSurface: a new object goes into an empty slot, and
\* after growing into one that is empty because the count is exact.
LEMMA PoolAddOK ==
    ASSUME NEW pool, NEW count, NEW S, PoolOK(pool, count, S),
           NEW x \in Nat \ {0}, x \notin S
    PROVE  /\ PoolOK(PoolAdd(pool, count, x), count + 1, S \cup {x})
           /\ Len(PoolAdd(pool, count, x)) >= Len(pool)
<1> DEFINE n == Len(pool)
<1>1. n \in Nat /\ DOMAIN pool = 1 .. n /\ pool \in [1 .. n -> Nat]
  BY DEF PoolOK
<1>2. IsFiniteSet(S \cup {x}) /\ Cardinality(S \cup {x}) = count + 1
  BY FS_AddElement DEF PoolOK
<1>3. CASE Slots(pool) # {}
  <2> DEFINE k == Min(Slots(pool))
             new == [pool EXCEPT ![k] = x]
  <2>1. k \in 1 .. n /\ pool[k] = 0
    <3>1. Slots(pool) \in SUBSET (1 .. n)
      BY <1>1 DEF Slots
    <3>2. k \in Slots(pool)
      BY <1>1, <1>3, <3>1, MinIn
    <3> QED BY <1>1, <3>2 DEF Slots
  <2>2. PoolAdd(pool, count, x) = new
    BY <1>3 DEF PoolAdd
  <2> HIDE DEF k, n
  <2>3. new \in [1 .. n -> Nat] /\ DOMAIN new = 1 .. n
    BY <1>1, <2>1
  <2>4. new \in Seq(Nat) /\ Len(new) = n
    BY <1>1, <2>3
  <2>5. \A i \in 1 .. n : new[i] = IF i = k THEN x ELSE pool[i]
    BY <1>1
  <2> HIDE DEF new
  <2>6. Filled(new) = S \cup {x}
    BY <1>1, <2>1, <2>3, <2>5 DEF Filled, PoolOK
  <2>7. \A i, j \in DOMAIN new : new[i] = new[j] /\ new[i] # 0 => i = j
    BY <1>1, <2>1, <2>3, <2>5, SMTT(30) DEF Filled, PoolOK
  <2>8. PoolOK(new, count + 1, S \cup {x})
    BY <1>2, <2>4, <2>6, <2>7 DEF PoolOK, n
  <2> QED BY <2>2, <2>4, <2>8, <1>1 DEF n
<1>4. CASE Slots(pool) = {}
  <2> DEFINE new == [Grown(pool) EXCEPT ![count + 1] = x]
  <2>1. count = n
    <3>1. DOMAIN pool \ Slots(pool) = 1 .. n
      BY <1>1, <1>4
    <3>2. Cardinality(1 .. n) = n
      <4> HIDE DEF n
      <4>1. 1 \in Int /\ n \in Int
        BY <1>1
      <4>2. Cardinality(1 .. n) = IF 1 > n THEN 0 ELSE n - 1 + 1
        BY <4>1, FS_Interval
      <4> QED BY <1>1, <4>2
    <3> QED BY <3>1, <3>2, SlotsCounted
  <2>2. PoolAdd(pool, count, x) = new
    BY <1>4 DEF PoolAdd
  <2> DEFINE zeros == [i \in 1 .. n |-> 0]
  <2>3. zeros \in Seq(Nat) /\ Len(zeros) = n
    BY <1>1
  <2>4. Grown(pool) = pool \o zeros
    BY DEF Grown
  <2>5. /\ Grown(pool) \in Seq(Nat) /\ Len(Grown(pool)) = n + n
        /\ \A i \in 1 .. n : Grown(pool)[i] = pool[i]
        /\ \A i \in n + 1 .. n + n : Grown(pool)[i] = 0
    <3>1. \A i \in 1 .. n : zeros[i] = 0
      OBVIOUS
    <3>2. pool \in Seq(Nat) /\ Len(pool) = n
      BY DEF PoolOK
    <3> HIDE DEF zeros, n
    <3>3. Grown(pool) \in Seq(Nat) /\ Len(Grown(pool)) = n + n
      BY <2>3, <2>4, <3>2, ConcatProperties
    <3>4. \A i \in 1 .. n + n : Grown(pool)[i] = IF i <= n THEN pool[i] ELSE zeros[i - n]
      BY <1>1, <2>3, <2>4, <3>2, SMTT(30)
    <3>5. \A i \in n + 1 .. n + n : i - n \in 1 .. n
      BY <1>1
    <3>6. \A i \in n + 1 .. n + n : i \in 1 .. n + n /\ ~(i <= n)
      BY <1>1
    <3>7. \A i \in 1 .. n : i \in 1 .. n + n /\ i <= n
      BY <1>1
    <3> QED BY <3>1, <3>3, <3>4, <3>5, <3>6, <3>7
  <2>6. n > 0
    BY DEF PoolOK
  <2> HIDE DEF n, zeros
  <2>7. n + 1 \in 1 .. n + n
    BY <1>1, <2>6
  <2>8. new \in [1 .. n + n -> Nat] /\ DOMAIN new = 1 .. n + n
    BY <1>1, <2>1, <2>5, <2>7
  <2>9. new \in Seq(Nat) /\ Len(new) = n + n
    <3>1. n + n \in Nat
      BY <1>1
    <3> HIDE DEF new
    <3> QED BY <2>8, <3>1
  <2>10. \A i \in 1 .. n : new[i] = pool[i]
    BY <1>1, <2>1, <2>5
  <2>11. new[n + 1] = x
    BY <2>1, <2>5, <2>7
  <2>12. \A i \in 1 .. n + n : i \in 1 .. n \/ i = n + 1 \/ new[i] = 0
    BY <1>1, <2>1, <2>5
  <2>13. n + 1 \notin 1 .. n /\ 1 .. n \subseteq 1 .. n + n
    BY <1>1
  <2> HIDE DEF new
  <2>14. Filled(new) = S \cup {x}
    <3>1. \A i \in 1 .. n + n : new[i] # 0 => new[i] \in S \cup {x}
      BY <1>1, <2>10, <2>11, <2>12 DEF Filled, PoolOK
    <3>2. \A y \in S : \E i \in 1 .. n : pool[i] = y /\ y # 0
      BY <1>1 DEF Filled, PoolOK
    <3>3. \A y \in S \cup {x} : \E i \in 1 .. n + n : new[i] = y /\ y # 0
      BY <2>7, <2>10, <2>11, <2>13, <3>2
    <3> QED BY <2>8, <3>1, <3>3 DEF Filled
  <2>15. \A i, j \in DOMAIN new : new[i] = new[j] /\ new[i] # 0 => i = j
    <3>1. \A i \in 1 .. n : pool[i] # x
      BY <1>1 DEF Filled, PoolOK
    <3> QED BY <1>1, <2>8, <2>10, <2>11, <2>12, <3>1 DEF PoolOK
  <2>16. Len(new) > 0 /\ Len(new) >= n
    BY <1>1, <2>6, <2>9
  <2>17. PoolOK(new, count + 1, S \cup {x})
    BY <1>2, <2>9, <2>14, <2>15, <2>16 DEF PoolOK
  <2> QED BY <2>2, <2>16, <2>17 DEF n
<1> QED BY <1>3, <1>4

\* poolRemoveContext, poolRemoveSurface, for any objects.
LEMMA PoolRemoveOK ==
    ASSUME NEW pool, NEW count, NEW S, PoolOK(pool, count, S), NEW T
    PROVE  /\ PoolOK(PoolRemove(pool, T), count - Cardinality(S \cap T), S \ T)
           /\ Len(PoolRemove(pool, T)) = Len(pool)
<1> DEFINE n == Len(pool)
           new == PoolRemove(pool, T)
<1>1. n \in Nat /\ n > 0 /\ DOMAIN pool = 1 .. n /\ pool \in [1 .. n -> Nat]
  BY DEF PoolOK
<1>2. new \in [1 .. n -> Nat] /\ DOMAIN new = 1 .. n
  BY <1>1 DEF PoolRemove
<1>3. \A i \in 1 .. n : new[i] = IF pool[i] \in T THEN 0 ELSE pool[i]
  BY <1>1 DEF PoolRemove
<1> HIDE DEF n, new
<1>4. new \in Seq(Nat) /\ Len(new) = n
  BY <1>1, <1>2
<1>5. Filled(new) = S \ T
  BY <1>1, <1>2, <1>3 DEF Filled, PoolOK
<1>6. \A i, j \in DOMAIN new : new[i] = new[j] /\ new[i] # 0 => i = j
  BY <1>1, <1>2, <1>3 DEF PoolOK
<1>7. IsFiniteSet(S \ T) /\ Cardinality(S \ T) = count - Cardinality(S \cap T)
  BY FS_Difference DEF PoolOK
<1>8. S \ T \subseteq Nat \ {0}
  BY DEF PoolOK
<1>9. PoolOK(new, count - Cardinality(S \cap T), S \ T)
  BY <1>1, <1>4, <1>5, <1>6, <1>7, <1>8 DEF PoolOK
<1> QED BY <1>4, <1>9 DEF n, new

-----------------------------------------------------------------------------
(* The accelerator's state, and what each operation on it changes.         *)

CtxRec == [gpu : Nat, born : Nat, owner : Clients \cup {Kernel}, active : BOOLEAN,
           bound : SUBSET Nat, room : Nat]

\* The fields there are, and their kinds.
Fields == {"ctxPool", "ctxCount", "surfPool", "surfCount", "nextCtx", "nextSurf", "ctx",
           "surf"}
IsAcc(a) ==
    /\ DOMAIN a = Fields
    /\ a.nextCtx \in Nat \ {0} /\ a.nextSurf \in Nat \ {0}
    /\ a.ctx = [c \in DOMAIN a.ctx |-> a.ctx[c]]
    /\ a.surf = [s \in DOMAIN a.surf |-> a.surf[s]]
    /\ \A c \in DOMAIN a.ctx : a.ctx[c] \in CtxRec
    /\ \A s \in DOMAIN a.surf : a.surf[s] \in Nat

\* Both pools hold what exists, under ids that were handed out.
AccOK(a) ==
    /\ IsAcc(a)
    /\ Live(a) \subseteq 2 .. a.nextCtx /\ Surfaces(a) \subseteq 2 .. a.nextSurf
    /\ PoolOK(a.ctxPool, a.ctxCount, Live(a))
    /\ PoolOK(a.surfPool, a.surfCount, Surfaces(a))
    /\ Len(a.ctxPool) >= InitialCapacity

\* The contexts, the surfaces and the counters of two states are the same.
SameCtx(a, b) == b.ctx = a.ctx /\ b.nextCtx = a.nextCtx /\ b.ctxPool = a.ctxPool
SameSurf(a, b) == b.surf = a.surf /\ b.nextSurf = a.nextSurf

\* create3DContext's new object.
NewContext(gpu, who) == [gpu |-> gpu, born |-> gpu, owner |-> who, active |-> TRUE,
                         bound |-> {}, room |-> 0]
LEMMA AddContextOK ==
    ASSUME NEW a, AccOK(a), NEW gpu \in Nat, NEW who \in Clients \cup {Kernel}
    PROVE  LET b == AddContext(a, gpu, who)
               c == a.nextCtx + 1
           IN  /\ AccOK(b) /\ SameSurf(a, b)
               /\ b.nextCtx = c /\ Live(b) = Live(a) \cup {c} /\ c \notin Live(a)
               /\ b.ctx[c] = NewContext(gpu, who)
               /\ \A x \in Live(a) : b.ctx[x] = a.ctx[x]
               /\ Len(b.ctxPool) >= Len(a.ctxPool)
<1> DEFINE b == AddContext(a, gpu, who)
           c == a.nextCtx + 1
<1> USE DEF AccOK, IsAcc, Live, Surfaces
<1>1. /\ DOMAIN b = Fields
      /\ b.ctxPool = PoolAdd(a.ctxPool, a.ctxCount, c) /\ b.ctxCount = a.ctxCount + 1
      /\ b.surfPool = a.surfPool /\ b.surfCount = a.surfCount /\ b.nextCtx = c
      /\ b.nextSurf = a.nextSurf /\ b.ctx = With(a.ctx, c, NewContext(gpu, who))
      /\ b.surf = a.surf
  BY DEF AddContext, NewContext, Fields
<1>2. c \in Nat \ {0} /\ c \notin Live(a) /\ Live(a) \cup {c} \subseteq 2 .. c
  OBVIOUS
<1>3. /\ PoolOK(PoolAdd(a.ctxPool, a.ctxCount, c), a.ctxCount + 1, Live(a) \cup {c})
      /\ Len(PoolAdd(a.ctxPool, a.ctxCount, c)) >= Len(a.ctxPool)
  BY <1>2, PoolAddOK
<1>4. NewContext(gpu, who) \in CtxRec
  BY DEF NewContext, CtxRec
<1>5. /\ DOMAIN With(a.ctx, c, NewContext(gpu, who)) = Live(a) \cup {c}
      /\ With(a.ctx, c, NewContext(gpu, who))[c] = NewContext(gpu, who)
      /\ \A x \in Live(a) : With(a.ctx, c, NewContext(gpu, who))[x] = a.ctx[x]
      /\ With(a.ctx, c, NewContext(gpu, who))
           = [x \in DOMAIN With(a.ctx, c, NewContext(gpu, who)) |->
                  With(a.ctx, c, NewContext(gpu, who))[x]]
  BY <1>2 DEF With
<1> HIDE DEF b, c
<1>6. IsAcc(b)
  BY <1>1, <1>2, <1>4, <1>5
<1>7. Len(b.ctxPool) >= InitialCapacity /\ Len(b.ctxPool) >= Len(a.ctxPool)
  <2>1. Len(a.ctxPool) \in Nat /\ Len(PoolAdd(a.ctxPool, a.ctxCount, c)) \in Nat
    BY <1>3 DEF PoolOK
  <2> QED BY <1>1, <1>3, <2>1, AcceleratorAssumption
<1> HIDE DEF IsAcc
<1>8. AccOK(b)
  BY <1>1, <1>2, <1>3, <1>5, <1>6, <1>7
<1> QED BY <1>1, <1>2, <1>5, <1>7, <1>8 DEF SameSurf, b, c

\* destroyContextInternal, for any contexts.
LEMMA RemoveContextsOK ==
    ASSUME NEW a, AccOK(a), NEW S
    PROVE  LET b == RemoveContexts(a, S)
           IN  /\ AccOK(b) /\ SameSurf(a, b)
               /\ b.nextCtx = a.nextCtx /\ Live(b) = Live(a) \ S
               /\ \A x \in Live(b) : b.ctx[x] = a.ctx[x]
               /\ Len(b.ctxPool) = Len(a.ctxPool)
<1> DEFINE b == RemoveContexts(a, S)
<1> USE DEF AccOK, IsAcc, Live, Surfaces
<1>1. /\ DOMAIN b = Fields
      /\ b.ctxPool = PoolRemove(a.ctxPool, S)
      /\ b.ctxCount = a.ctxCount - Cardinality(S \cap Live(a))
      /\ b.surfPool = a.surfPool /\ b.surfCount = a.surfCount /\ b.nextCtx = a.nextCtx
      /\ b.nextSurf = a.nextSurf /\ b.ctx = Without(a.ctx, S) /\ b.surf = a.surf
  BY DEF RemoveContexts, Fields
<1>2. /\ PoolOK(b.ctxPool, b.ctxCount, Live(a) \ S)
      /\ Len(b.ctxPool) = Len(a.ctxPool)
  BY <1>1, PoolRemoveOK, Live(a) \cap S = S \cap Live(a)
<1>3. /\ DOMAIN Without(a.ctx, S) = Live(a) \ S
      /\ \A x \in Live(a) \ S : Without(a.ctx, S)[x] = a.ctx[x]
      /\ Without(a.ctx, S) = [x \in DOMAIN Without(a.ctx, S) |-> Without(a.ctx, S)[x]]
  BY DEF Without
<1> HIDE DEF b
<1>4. IsAcc(b)
  BY <1>1, <1>3
<1> HIDE DEF IsAcc
<1>5. AccOK(b)
  BY <1>1, <1>2, <1>3, <1>4
<1> QED BY <1>1, <1>2, <1>3, <1>5 DEF SameSurf, b

\* contextBindSurface changes nothing but the bindings of the context.
LEMMA BindOK ==
    ASSUME NEW x \in CtxRec, NEW s \in Nat, NEW memory \in BOOLEAN
    PROVE  LET y == Bind(x, s, memory)
           IN  /\ y \in CtxRec /\ y.gpu = x.gpu /\ y.born = x.born /\ y.owner = x.owner
               /\ x.bound \subseteq y.bound /\ y.bound \subseteq x.bound \cup {s}
<1>1. CASE Full(x) /\ ~memory
  BY <1>1 DEF Bind, CtxRec
<1>2. CASE ~(Full(x) /\ ~memory)
  <2> DEFINE r == IF ~Full(x) THEN x.room ELSE IF x.room = 0 THEN BindCapacity ELSE 2 * x.room
  <2>1. Bind(x, s, memory) = [x EXCEPT !.bound = @ \cup {s}, !.room = r]
    BY <1>2 DEF Bind, CtxRec
  <2>2. r \in Nat
    BY AcceleratorAssumption DEF CtxRec
  <2> HIDE DEF r
  <2> QED BY <2>1, <2>2 DEF CtxRec
<1> QED BY <1>1, <1>2

\* create3DSurface, createSurfaceInternal: a surface, bound or not to its context.
SurfaceAdded(a, b, c, s, res) ==
    /\ AccOK(b)
    /\ b.nextCtx = a.nextCtx /\ b.ctxPool = a.ctxPool /\ Live(b) = Live(a)
    /\ \A x \in Live(a) \ {c} : b.ctx[x] = a.ctx[x]
    /\ b.ctx[c].gpu = a.ctx[c].gpu /\ b.ctx[c].born = a.ctx[c].born
    /\ b.ctx[c].owner = a.ctx[c].owner
    /\ a.ctx[c].bound \subseteq b.ctx[c].bound
    /\ b.ctx[c].bound \subseteq a.ctx[c].bound \cup {s}
    /\ s = a.nextSurf + 1 /\ b.nextSurf = s
    /\ Surfaces(b) = Surfaces(a) \cup {s} /\ s \notin Surfaces(a)
    /\ b.surf[s] = res
    /\ \A x \in Surfaces(a) : b.surf[x] = a.surf[x]
LEMMA AddSurfaceOK ==
    ASSUME NEW a, AccOK(a), NEW c \in Live(a), NEW res \in Nat, NEW memory \in BOOLEAN
    PROVE  SurfaceAdded(a, AddSurface(a, c, res, memory), c, a.nextSurf + 1, res)
<1> DEFINE b == AddSurface(a, c, res, memory)
           s == a.nextSurf + 1
           new == Bind(a.ctx[c], s, memory)
<1> USE DEF AccOK, IsAcc, Live, Surfaces
<1>1. /\ DOMAIN b = Fields
      /\ b.ctxPool = a.ctxPool /\ b.ctxCount = a.ctxCount
      /\ b.surfPool = PoolAdd(a.surfPool, a.surfCount, s) /\ b.surfCount = a.surfCount + 1
      /\ b.nextCtx = a.nextCtx /\ b.nextSurf = s /\ b.surf = With(a.surf, s, res)
  BY DEF AddSurface, Fields
<1>0. b.ctx = [a.ctx EXCEPT ![c] = new]
  BY DEF AddSurface, Fields
<1>2. s \in Nat \ {0} /\ s \notin Surfaces(a) /\ Surfaces(a) \cup {s} \subseteq 2 .. s
  OBVIOUS
<1>3. PoolOK(b.surfPool, b.surfCount, Surfaces(a) \cup {s})
  <2> HIDE DEF b, s, new, Surfaces, IsAcc
  <2> QED BY <1>1, <1>2, PoolAddOK
<1>4. /\ new \in CtxRec /\ new.gpu = a.ctx[c].gpu /\ new.born = a.ctx[c].born
      /\ new.owner = a.ctx[c].owner /\ a.ctx[c].bound \subseteq new.bound
      /\ new.bound \subseteq a.ctx[c].bound \cup {s}
  <2>1. a.ctx[c] \in CtxRec /\ s \in Nat /\ memory \in BOOLEAN
    BY <1>2
  <2> HIDE DEF s
  <2> QED BY ONLY <2>1, BindOK
<1>5. /\ DOMAIN b.surf = Surfaces(a) \cup {s} /\ b.surf[s] = res
      /\ \A x \in Surfaces(a) : b.surf[x] = a.surf[x]
      /\ b.surf = [x \in DOMAIN b.surf |-> b.surf[x]]
  BY <1>1, <1>2 DEF With
<1> HIDE DEF b, s, new
<1>6. /\ DOMAIN b.ctx = Live(a) /\ b.ctx[c] = new
      /\ \A x \in Live(a) \ {c} : b.ctx[x] = a.ctx[x]
      /\ b.ctx = [x \in DOMAIN b.ctx |-> b.ctx[x]]
  BY <1>0
<1>7. IsAcc(b)
  BY <1>1, <1>2, <1>4, <1>5, <1>6
<1> HIDE DEF IsAcc
<1>8. AccOK(b)
  BY <1>1, <1>2, <1>3, <1>5, <1>6, <1>7
<1> QED BY <1>1, <1>2, <1>4, <1>5, <1>6, <1>8 DEF b, s, SurfaceAdded

\* An id taken and not used.
LEMMA BumpOK ==
    ASSUME NEW a, AccOK(a)
    PROVE  /\ LET b == [a EXCEPT !.nextCtx = @ + 1]
              IN  /\ AccOK(b) /\ SameSurf(a, b) /\ b.nextCtx = a.nextCtx + 1
                  /\ b.ctx = a.ctx /\ b.ctxPool = a.ctxPool
           /\ LET b == [a EXCEPT !.nextSurf = @ + 1]
              IN  /\ AccOK(b) /\ SameCtx(a, b) /\ b.nextSurf = a.nextSurf + 1
                  /\ b.surf = a.surf
<1> USE DEF AccOK, IsAcc, Live, Surfaces, Fields
<1>1. 2 .. a.nextCtx \subseteq 2 .. a.nextCtx + 1 /\ 2 .. a.nextSurf \subseteq 2 .. a.nextSurf + 1
  OBVIOUS
<1>2. ASSUME NEW b, b = [a EXCEPT !.nextCtx = @ + 1]
      PROVE  /\ AccOK(b) /\ SameSurf(a, b) /\ b.nextCtx = a.nextCtx + 1
             /\ b.ctx = a.ctx /\ b.ctxPool = a.ctxPool
  <2>1. /\ DOMAIN b = Fields /\ b.nextCtx = a.nextCtx + 1 /\ b.nextSurf = a.nextSurf
        /\ b.ctx = a.ctx /\ b.surf = a.surf /\ b.ctxPool = a.ctxPool
        /\ b.surfPool = a.surfPool /\ b.ctxCount = a.ctxCount /\ b.surfCount = a.surfCount
    BY <1>2
  <2>2. IsAcc(b)
    BY <2>1
  <2> HIDE DEF IsAcc
  <2> QED BY <1>1, <2>1, <2>2 DEF SameSurf
<1>3. ASSUME NEW b, b = [a EXCEPT !.nextSurf = @ + 1]
      PROVE  /\ AccOK(b) /\ SameCtx(a, b) /\ b.nextSurf = a.nextSurf + 1
             /\ b.surf = a.surf
  <2>1. /\ DOMAIN b = Fields /\ b.nextCtx = a.nextCtx /\ b.nextSurf = a.nextSurf + 1
        /\ b.ctx = a.ctx /\ b.surf = a.surf /\ b.ctxPool = a.ctxPool
        /\ b.surfPool = a.surfPool /\ b.ctxCount = a.ctxCount /\ b.surfCount = a.surfCount
    BY <1>3
  <2>2. IsAcc(b)
    BY <2>1
  <2> HIDE DEF IsAcc
  <2> QED BY <1>1, <2>1, <2>2 DEF SameCtx
<1> QED BY <1>2, <1>3

\* A change inside context objects only.
OnlyCtx(a, b) ==
    /\ DOMAIN b = Fields
    /\ b.ctxPool = a.ctxPool /\ b.ctxCount = a.ctxCount /\ b.surfPool = a.surfPool
    /\ b.surfCount = a.surfCount /\ b.nextCtx = a.nextCtx /\ b.nextSurf = a.nextSurf
    /\ b.surf = a.surf
    /\ DOMAIN b.ctx = DOMAIN a.ctx /\ b.ctx = [c \in DOMAIN b.ctx |-> b.ctx[c]]
    /\ \A c \in DOMAIN a.ctx : b.ctx[c] \in CtxRec
LEMMA OnlyCtxOK ==
    ASSUME NEW a, AccOK(a), NEW b, OnlyCtx(a, b)
    PROVE  AccOK(b) /\ SameSurf(a, b) /\ Live(b) = Live(a) /\ Surfaces(b) = Surfaces(a)
<1>1. IsAcc(b)
  BY DEF AccOK, IsAcc, OnlyCtx
<1> QED BY <1>1 DEF AccOK, OnlyCtx, SameSurf, Live, Surfaces

\* contextUnbindSurface
LEMMA UnbindOK ==
    ASSUME NEW a, AccOK(a), NEW c \in Live(a), NEW s
    PROVE  LET b == Unbind(a, c, s)
           IN  /\ OnlyCtx(a, b)
               /\ \A x \in Live(a) \ {c} : b.ctx[x] = a.ctx[x]
               /\ b.ctx[c] = [a.ctx[c] EXCEPT !.bound = @ \ {s}]
<1> DEFINE b == Unbind(a, c, s)
           new == [a.ctx[c] EXCEPT !.bound = @ \ {s}]
<1>1. /\ DOMAIN b = Fields
      /\ b.ctxPool = a.ctxPool /\ b.ctxCount = a.ctxCount /\ b.surfPool = a.surfPool
      /\ b.surfCount = a.surfCount /\ b.nextCtx = a.nextCtx /\ b.nextSurf = a.nextSurf
      /\ b.surf = a.surf
  BY DEF Unbind, AccOK, IsAcc, Fields
<1>2. b.ctx = [a.ctx EXCEPT ![c] = new]
  BY DEF Unbind, AccOK, IsAcc, Fields, Live
<1>3. new \in CtxRec
  BY DEF AccOK, IsAcc, CtxRec, Live
<1> HIDE DEF b, new
<1>4. /\ DOMAIN b.ctx = DOMAIN a.ctx /\ b.ctx = [x \in DOMAIN b.ctx |-> b.ctx[x]]
      /\ \A x \in DOMAIN a.ctx : b.ctx[x] \in CtxRec
      /\ \A x \in Live(a) \ {c} : b.ctx[x] = a.ctx[x]
      /\ b.ctx[c] = new
  BY <1>2, <1>3 DEF AccOK, IsAcc, Live
<1> QED BY <1>1, <1>4 DEF OnlyCtx, b, new

\* poolRemoveSurface and the release of the objects.
LEMMA RemoveSurfacesOK ==
    ASSUME NEW a, AccOK(a), NEW S \in SUBSET Surfaces(a)
    PROVE  LET b == RemoveSurfaces(a, S)
           IN  /\ AccOK(b) /\ SameCtx(a, b) /\ b.nextSurf = a.nextSurf
               /\ Surfaces(b) = Surfaces(a) \ S
               /\ \A x \in Surfaces(b) : b.surf[x] = a.surf[x]
<1> DEFINE b == RemoveSurfaces(a, S)
<1> USE DEF AccOK, IsAcc, Live, Surfaces
<1>1. /\ DOMAIN b = Fields
      /\ b.surfPool = PoolRemove(a.surfPool, S)
      /\ b.surfCount = a.surfCount - Cardinality(S)
      /\ b.ctxPool = a.ctxPool /\ b.ctxCount = a.ctxCount /\ b.nextCtx = a.nextCtx
      /\ b.nextSurf = a.nextSurf /\ b.surf = Without(a.surf, S) /\ b.ctx = a.ctx
  BY DEF RemoveSurfaces, Fields
<1>2. PoolOK(b.surfPool, b.surfCount, Surfaces(a) \ S)
  BY <1>1, PoolRemoveOK, Surfaces(a) \cap S = S
<1>3. /\ DOMAIN Without(a.surf, S) = Surfaces(a) \ S
      /\ \A x \in Surfaces(a) \ S : Without(a.surf, S)[x] = a.surf[x]
      /\ Without(a.surf, S) = [x \in DOMAIN Without(a.surf, S) |-> Without(a.surf, S)[x]]
  BY DEF Without
<1> HIDE DEF b
<1>4. IsAcc(b)
  BY <1>1, <1>3
<1> HIDE DEF IsAcc
<1>5. AccOK(b)
  BY <1>1, <1>2, <1>3, <1>4
<1> QED BY <1>1, <1>3, <1>5 DEF SameCtx, b

-----------------------------------------------------------------------------
(* The inductive invariant.                                                *)

TableInv == AccOK(acc) /\ acc.nextCtx <= MaxContexts /\ acc.nextSurf <= MaxSurfaces

\* The device's side of the driver.  m_contexts is never filled.
DevInv ==
    /\ DOMAIN dev = {"ctxs", "next", "tracked", "res", "nextRes"}
    /\ dev.tracked = {}
    /\ dev.next \in 1 .. MaxDeviceContexts /\ dev.ctxs \subseteq 2 .. dev.next
    /\ dev.nextRes \in Nat /\ dev.res \subseteq 1 .. dev.nextRes

\* Each context was born with a device context of its own, and still names it
\* unless endRenderPass has counted its number up.
HostInv ==
    /\ HostContextAlive
    /\ \A c, d \in Live(acc) : acc.ctx[c].born = acc.ctx[d].born => c = d
    /\ \A c \in Live(acc) \ ended : acc.ctx[c].gpu = acc.ctx[c].born
    /\ StrayExplained

\* What is bound exists, but for surfaces in x.
BoundOK(a, x) == \A c \in Live(a) : a.ctx[c].bound \subseteq Surfaces(a) \cup x
BoundInv == BoundOK(acc, crossed)

\* A surface that was made for a caller, in the pairs g, is bound to its
\* context, or was never bound and is in u.
GivenOK(a, g, u) ==
    \A p \in g : /\ p \in Nat \X Nat /\ p[1] \in Live(a)
                 /\ p[2] \in u \/ p[2] \in a.ctx[p[1]].bound \cap Surfaces(a)
GivenInv == GivenOK(acc, given, unbound)

\* The resources in res, numbered up to n, are those of the surfaces, each its
\* own, and the forgotten ones.
ResOK(a, res, n, f) ==
    /\ res = ({a.surf[s] : s \in Surfaces(a)} \ {0}) \cup f
    /\ \A s, r \in Surfaces(a) : a.surf[s] = a.surf[r] /\ a.surf[s] # 0 => s = r
    /\ \A s \in Surfaces(a) : a.surf[s] <= n /\ a.surf[s] \notin f
    /\ f \subseteq 1 .. n
ResInv == ResOK(acc, dev.res, dev.nextRes, forgotten)

\* What a client believes to be its context is its own, if it exists.
CliInv ==
    /\ cli \in [Clients -> [has : BOOLEAN, id : Nat, closed : BOOLEAN]]
    /\ \A k \in Clients : /\ cli[k].id \in {0} \cup 2 .. acc.nextCtx
                          /\ cli[k].id \in Live(acc) => acc.ctx[cli[k].id].owner = k

ClientPCs == {"create", "created", "destroy", "destroyed", "close", "closed"}
WalkPCs == {"beginWalk", "endWalk"}
KernelPCs == Looking \cup WalkPCs \cup {"draw", "begin", "command", "end", "collect", "finish"}
ThrRec == [pc : {"idle"} \cup ClientPCs \cup KernelPCs, c : Nat, size : Nat, held : Nat]

\* A call of the kernel has its context to itself until another of the kernel's
\* calls, or stop, comes in between, or until its lookup reads freed memory.
\* What a walk is about to read exists until somebody destroys it.
ThreadOK(t) ==
    /\ thr[t].c \in {0} \cup 2 .. acc.nextCtx
    /\ thr[t].pc \in ClientPCs => Owner[t] \in Clients
    /\ thr[t].pc = "destroy" /\ thr[t].c \in Live(acc) => acc.ctx[thr[t].c].owner = Owner[t]
    /\ thr[t].pc \in KernelPCs =>
          /\ Owner[t] = Kernel
          /\ \/ thr[t].c \in Live(acc) /\ acc.ctx[thr[t].c].owner = Kernel
             \/ Kernel \in overlap \/ stopped \/ {"freedEntry", "movedPool"} \cap faults # {}
    /\ thr[t].pc \in Looking =>
          /\ thr[t].held \in {0} \cup 2 .. acc.nextCtx
          /\ thr[t].held # 0 => Walking(t) /\ (thr[t].held \in Live(acc) \/ raced)
    /\ thr[t].pc \in WalkPCs =>
          thr[t].held \in {0} \cup Surfaces(acc) \/ Kernel \in overlap \/ stopped
ThrInv ==
    /\ thr \in [Threads -> ThrRec]
    /\ \A t \in Threads : ThreadOK(t)
    /\ FaultsNeedRace

\* Calls of one owner overlap only if that is noted.
LoneInv ==
    \A t, u \in Threads : Owner[t] = Owner[u] /\ Owner[t] \notin overlap /\ t # u =>
        thr[t].pc = "idle" \/ thr[u].pc = "idle"

\* A client whose calls never overlapped has at most one context, and knows it.
OwnInv ==
    /\ LeakedContextExplained
    /\ LoneInv
    /\ \A t \in Threads : Owner[t] \in Clients \ overlap =>
          /\ thr[t].pc = "create" => ~cli[Owner[t]].has /\ ~cli[Owner[t]].closed
          /\ thr[t].pc = "destroy" => thr[t].c = cli[Owner[t]].id
          /\ thr[t].pc \in {"destroyed", "closed"} =>
                \A c \in Live(acc) : acc.ctx[c].owner # Owner[t]

Inv == /\ TableInv /\ DevInv /\ HostInv /\ BoundInv /\ GivenInv /\ ResInv
       /\ CliInv /\ ThrInv /\ OwnInv

-----------------------------------------------------------------------------
(* What the operations on surfaces keep.                                   *)

\* The contexts of two states are the same but for their bindings.
SameNames(a, b) ==
    /\ Live(b) = Live(a) /\ b.nextCtx = a.nextCtx /\ b.ctxPool = a.ctxPool
    /\ \A c \in Live(a) : /\ b.ctx[c].owner = a.ctx[c].owner
                          /\ b.ctx[c].gpu = a.ctx[c].gpu /\ b.ctx[c].born = a.ctx[c].born

\* A surface made in context c and given to the caller.
LEMMA SurfaceMade ==
    ASSUME NEW a, NEW b, NEW c \in Live(a), NEW s, NEW r, NEW g, NEW u, NEW x,
           AccOK(a), BoundOK(a, x), SurfaceAdded(a, b, c, s, r), GivenOK(a, g, u)
    PROVE  /\ BoundOK(b, x) /\ SameNames(a, b)
           /\ GivenOK(b, g \cup {<<c, s>>}, u \cup ({s} \ b.ctx[c].bound))
<1>1. /\ AccOK(b)
      /\ b.nextCtx = a.nextCtx /\ b.ctxPool = a.ctxPool /\ Live(b) = Live(a)
      /\ \A y \in Live(a) \ {c} : b.ctx[y] = a.ctx[y]
      /\ b.ctx[c].gpu = a.ctx[c].gpu /\ b.ctx[c].born = a.ctx[c].born
      /\ b.ctx[c].owner = a.ctx[c].owner
      /\ a.ctx[c].bound \subseteq b.ctx[c].bound
      /\ b.ctx[c].bound \subseteq a.ctx[c].bound \cup {s}
      /\ Surfaces(b) = Surfaces(a) \cup {s} /\ s = a.nextSurf + 1
  BY DEF SurfaceAdded
<1>2. c \in Nat /\ s \in Nat
  BY <1>1 DEF AccOK, IsAcc, Live
<1>3. BoundOK(b, x)
  BY <1>1 DEF BoundOK
<1>4. SameNames(a, b)
  BY <1>1 DEF SameNames
<1>5. GivenOK(b, g \cup {<<c, s>>}, u \cup ({s} \ b.ctx[c].bound))
  <2> DEFINE new == <<c, s>>
  <2>1. new \in Nat \X Nat /\ new[1] = c /\ new[2] = s
    BY <1>2
  <2> HIDE DEF new
  <2>2. \A p \in g : /\ p \in Nat \X Nat /\ p[1] \in Live(b)
                     /\ p[2] \in u \/ p[2] \in b.ctx[p[1]].bound \cap Surfaces(b)
    BY <1>1 DEF GivenOK
  <2>3. s \in u \cup ({s} \ b.ctx[c].bound) \/ s \in b.ctx[c].bound \cap Surfaces(b)
    BY <1>1
  <2>4. \A p \in g \cup {new} :
            /\ p \in Nat \X Nat /\ p[1] \in Live(b)
            /\ \/ p[2] \in u \cup ({s} \ b.ctx[c].bound)
               \/ p[2] \in b.ctx[p[1]].bound \cap Surfaces(b)
    BY <1>1, <2>1, <2>2, <2>3
  <2> QED BY <2>4 DEF GivenOK, new
<1> QED BY <1>3, <1>4, <1>5

\* Its resource, if it has one, is the newest.
LEMMA ResourceMade ==
    ASSUME NEW a, NEW b, NEW c, NEW s, NEW r \in Nat, NEW res, NEW n \in Nat, NEW f,
           AccOK(a), SurfaceAdded(a, b, c, s, r), ResOK(a, res, n, f)
    PROVE  /\ r = n + 1 => ResOK(b, res \cup {r}, r, f)
           /\ r = 0 => ResOK(b, res, n, f)
<1>1. /\ Surfaces(b) = Surfaces(a) \cup {s} /\ s \notin Surfaces(a) /\ b.surf[s] = r
      /\ \A x \in Surfaces(a) : b.surf[x] = a.surf[x] /\ a.surf[x] \in Nat
  BY DEF SurfaceAdded, AccOK, IsAcc, Surfaces
<1>2. {b.surf[x] : x \in Surfaces(b)} = {a.surf[x] : x \in Surfaces(a)} \cup {r}
  BY <1>1
<1>3. r = 0 \/ r = n + 1 =>
        \A x, y \in Surfaces(b) : b.surf[x] = b.surf[y] /\ b.surf[x] # 0 => x = y
  <2>1. \A x \in Nat : x <= n => x # n + 1
    OBVIOUS
  <2> QED BY <1>1, <2>1 DEF ResOK
<1>4. r = 0 => ResOK(b, res, n, f)
  <2>1. \A x \in 1 .. n : x # 0
    OBVIOUS
  <2> QED BY <1>1, <1>2, <1>3, <2>1 DEF ResOK
<1>5. r = n + 1 => ResOK(b, res \cup {r}, r, f)
  <2> HAVE r = n + 1
  <2>1. r # 0 /\ r <= r /\ r \notin f /\ f \subseteq 1 .. r /\ \A x \in Nat : x <= n => x <= r
    BY DEF ResOK
  <2>2. \A x \in Surfaces(b) : b.surf[x] <= r /\ b.surf[x] \notin f
    BY <1>1, <2>1 DEF ResOK
  <2>3. res \cup {r} = ({b.surf[x] : x \in Surfaces(b)} \ {0}) \cup f
    BY <1>2, <2>1 DEF ResOK
  <2> QED BY <1>3, <2>1, <2>2, <2>3 DEF ResOK
<1> QED BY <1>4, <1>5

\* An id for a surface that was not made.
LEMMA SurfaceIdTaken ==
    ASSUME NEW a, NEW g, NEW u, NEW res, NEW n, NEW f, NEW x,
           AccOK(a), BoundOK(a, x), GivenOK(a, g, u), ResOK(a, res, n, f)
    PROVE  LET b == [a EXCEPT !.nextSurf = @ + 1]
           IN  /\ BoundOK(b, x) /\ SameNames(a, b) /\ GivenOK(b, g, u) /\ ResOK(b, res, n, f)
               /\ b.ctx = a.ctx /\ Surfaces(b) = Surfaces(a)
<1> DEFINE b == [a EXCEPT !.nextSurf = @ + 1]
<1>1. AccOK(b) /\ SameCtx(a, b) /\ b.nextSurf = a.nextSurf + 1 /\ b.surf = a.surf
  BY BumpOK
<1> HIDE DEF b
<1>2. BoundOK(b, x) /\ SameNames(a, b) /\ ResOK(b, res, n, f) /\ b.ctx = a.ctx
      /\ GivenOK(b, g, u) /\ Surfaces(b) = Surfaces(a)
  BY <1>1 DEF BoundOK, GivenOK, SameNames, SameCtx, ResOK, Live, Surfaces
<1> QED BY <1>2 DEF b

\* destroySurfaceInternal and destroy3DSurface, for any surface: the context
\* that is named loses it, others keep what they have bound.
LEMMA SurfaceFreed ==
    ASSUME NEW a, NEW c \in Live(a), NEW s \in Surfaces(a), AccOK(a)
    PROVE  LET b == RemoveSurfaces(Unbind(a, c, s), {s})
           IN  /\ AccOK(b) /\ SameNames(a, b)
               /\ b.nextSurf = a.nextSurf /\ Surfaces(b) = Surfaces(a) \ {s}
               /\ \A x \in Surfaces(b) : b.surf[x] = a.surf[x]
               /\ b.ctx[c].bound = a.ctx[c].bound \ {s}
               /\ \A x \in Live(a) \ {c} : b.ctx[x].bound = a.ctx[x].bound
<1> DEFINE m == Unbind(a, c, s)
           b == RemoveSurfaces(m, {s})
<1>1. /\ OnlyCtx(a, m)
      /\ \A x \in Live(a) \ {c} : m.ctx[x] = a.ctx[x]
      /\ m.ctx[c] = [a.ctx[c] EXCEPT !.bound = @ \ {s}]
  BY UnbindOK
<1>2. AccOK(m) /\ SameSurf(a, m) /\ Live(m) = Live(a) /\ Surfaces(m) = Surfaces(a)
  BY <1>1, OnlyCtxOK
<1>3. /\ AccOK(b) /\ SameCtx(m, b) /\ b.nextSurf = m.nextSurf
      /\ Surfaces(b) = Surfaces(m) \ {s}
      /\ \A x \in Surfaces(b) : b.surf[x] = m.surf[x]
  BY <1>2, RemoveSurfacesOK
<1>4. a.ctx[c] \in CtxRec
  BY DEF AccOK, IsAcc, Live
<1>5. /\ m.ctx[c].bound = a.ctx[c].bound \ {s} /\ m.ctx[c].owner = a.ctx[c].owner
      /\ m.ctx[c].gpu = a.ctx[c].gpu /\ m.ctx[c].born = a.ctx[c].born
  BY <1>1, <1>4 DEF CtxRec
<1> HIDE DEF m, b
<1>6. Live(b) = Live(a) /\ b.ctx = m.ctx
  BY <1>2, <1>3 DEF SameCtx, Live
<1>7. /\ b.ctx[c].bound = a.ctx[c].bound \ {s}
      /\ \A x \in Live(a) \ {c} : b.ctx[x].bound = a.ctx[x].bound
  BY <1>1, <1>5, <1>6
<1>8. SameNames(a, b)
  BY <1>1, <1>3, <1>5, <1>6 DEF SameNames, SameCtx, OnlyCtx
<1>9. /\ b.nextSurf = a.nextSurf /\ Surfaces(b) = Surfaces(a) \ {s}
      /\ \A x \in Surfaces(b) : b.surf[x] = a.surf[x]
  BY <1>2, <1>3 DEF SameSurf
<1> QED BY <1>3, <1>7, <1>8, <1>9 DEF b, m

-----------------------------------------------------------------------------
(* What the threads and the clients know, when the contexts stay.          *)

\* A caller that has never had two calls at once has one now.
LEMMA SoleCall ==
    ASSUME NEW t \in Threads, Calls(t), Owner[t] \notin overlap'
    PROVE  \A u \in Threads : Owner[u] = Owner[t] => thr[u].pc = "idle"
BY DEF Calls, Others

SameOwners(a, b) ==
    /\ Live(b) = Live(a) /\ b.nextCtx = a.nextCtx /\ b.ctxPool = a.ctxPool
    /\ \A c \in Live(a) : b.ctx[c].owner = a.ctx[c].owner

\* No surface is gone that a walk of a thread in T is about to read.
WalksKept(T) ==
    \/ Surfaces(acc) \subseteq Surfaces(acc')
    \/ \A u \in T : thr[u].pc \in WalkPCs => Kernel \in overlap'

\* What a thread that does not move knows outlasts a step.
LEMMA OtherThread ==
    ASSUME Inv, SameOwners(acc, acc'), UNCHANGED stopped, overlap \subseteq overlap',
           raced => raced', faults \subseteq faults',
           NEW T \in SUBSET Threads, WalksKept(T), NEW u \in T, thr'[u] = thr[u]
    PROVE  ThreadOK(u)'
<1> USE DEF SameOwners
<1>1. ThreadOK(u)
  BY DEF Inv, ThrInv
<1>2. thr[u].pc \in WalkPCs =>
         thr[u].held \in {0} \cup Surfaces(acc') \/ Kernel \in overlap' \/ stopped'
  BY <1>1 DEF ThreadOK, WalksKept
<1>3. thr[u].pc \in KernelPCs =>
         /\ Owner[u] = Kernel
         /\ \/ thr[u].c \in Live(acc') /\ acc'.ctx[thr[u].c].owner = Kernel
            \/ Kernel \in overlap' \/ stopped' \/ {"freedEntry", "movedPool"} \cap faults' # {}
  BY <1>1 DEF ThreadOK
<1> QED BY <1>1, <1>2, <1>3 DEF ThreadOK, Walking, Live, Surfaces

\* A step of one thread, which has to know what it needs.
LEMMA OneThread ==
    ASSUME Inv, SameOwners(acc, acc'), UNCHANGED stopped, overlap \subseteq overlap',
           raced => raced', faults \subseteq faults',
           NEW t \in Threads, WalksKept(Threads \ {t}), NEW x \in ThrRec,
           thr' = [thr EXCEPT ![t] = x], ThreadOK(t)', FaultsNeedRace'
    PROVE  ThrInv'
<1>1. thr \in [Threads -> ThrRec]
  BY DEF Inv, ThrInv
<1>2. thr' \in [Threads -> ThrRec] /\ \A u \in Threads \ {t} : thr'[u] = thr[u]
  BY <1>1
<1>3. \A u \in Threads \ {t} : ThreadOK(u)'
  <2> DEFINE T == Threads \ {t}
  <2>1. T \in SUBSET Threads
    OBVIOUS
  <2> HIDE DEF T
  <2>2. \A u \in T : thr'[u] = thr[u]
    BY <1>2 DEF T
  <2>3. WalksKept(T)
    BY DEF T
  <2>4. \A u \in T : ThreadOK(u)'
    BY <2>1, <2>2, <2>3, OtherThread
  <2> QED BY <2>4 DEF T
<1> QED BY <1>2, <1>3 DEF ThrInv

\* No fault, and no race less.
LEMMA NoFault ==
    ASSUME Inv, UNCHANGED faults, raced => raced', overlap \subseteq overlap',
           stopped => stopped'
    PROVE  FaultsNeedRace'
BY DEF Inv, ThrInv, FaultsNeedRace

\* A step that leaves the threads alone, be it a call that starts and returns.
LEMMA NoThreadMoves ==
    ASSUME Inv, SameOwners(acc, acc'), UNCHANGED <<cli, thr, stopped, raced, faults>>,
           overlap \subseteq overlap', WalksKept(Threads)
    PROVE  CliInv' /\ ThrInv' /\ OwnInv'
<1> USE DEF SameOwners
<1>1. CliInv'
  BY DEF Inv, CliInv
<1>2. FaultsNeedRace'
  BY NoFault
<1>3. \A u \in Threads : ThreadOK(u)'
  <2>1. Threads \in SUBSET Threads /\ \A u \in Threads : thr'[u] = thr[u]
    OBVIOUS
  <2> QED BY <2>1, OtherThread
<1>4. ThrInv'
  BY <1>2, <1>3 DEF Inv, ThrInv
<1>5. LeakedContextExplained'
  BY DEF Inv, OwnInv, LeakedContextExplained
<1>6. OwnInv'
  BY <1>5 DEF Inv, OwnInv, LoneInv
<1> QED BY <1>1, <1>4, <1>6

\* A thread of the kernel that goes on, alone unless its calls overlap.
LEMMA KernelAlone ==
    ASSUME Inv, SameOwners(acc, acc'), UNCHANGED cli, overlap \subseteq overlap',
           NEW t \in Threads, Owner[t] = Kernel, NEW x, thr' = [thr EXCEPT ![t] = x],
           thr[t].pc # "idle" \/
              (Kernel \notin overlap' => \A u \in Threads : Owner[u] = Kernel => thr[u].pc = "idle")
    PROVE  CliInv' /\ OwnInv'
<1> USE DEF SameOwners
<1>0. Inv /\ Kernel \notin Clients /\ OwnInv /\ LoneInv
  BY AcceleratorAssumption DEF Inv, OwnInv
<1>1. CliInv'
  BY <1>0 DEF Inv, CliInv
<1>2. /\ \A u \in Threads \ {t} : thr'[u] = thr[u]
      /\ \A u \in Threads : Owner[u] \in Clients => thr'[u] = thr[u]
  BY <1>0 DEF Inv, ThrInv
<1>3. LeakedContextExplained'
  BY <1>0, <1>2 DEF OwnInv, LeakedContextExplained, Live
<1>4. LoneInv'
  <2>1. Kernel \notin overlap' =>
           \A u \in Threads \ {t} : Owner[u] = Kernel => thr[u].pc = "idle"
    BY <1>0 DEF LoneInv
  <2> QED BY <1>0, <1>2, <2>1 DEF LoneInv
<1> QED BY <1>0, <1>1, <1>2, <1>3, <1>4 DEF OwnInv, Live

\* A step of a call of the kernel that is not walking afterwards, and goes on
\* with the context it had.
LEMMA KernelMoves ==
    ASSUME Inv, SameOwners(acc, acc'), UNCHANGED <<cli, stopped, overlap>>, raced => raced',
           faults \subseteq faults',
           NEW t \in Threads, thr[t].pc \in KernelPCs, WalksKept(Threads \ {t}),
           NEW x, thr' = [thr EXCEPT ![t] = x],
           \/ x = Idle
           \/ \E pc \in KernelPCs \ (Looking \cup WalkPCs) :
                 x = [thr[t] EXCEPT !.pc = pc] \/ x = [Idle EXCEPT !.pc = pc, !.c = thr[t].c],
           FaultsNeedRace'
    PROVE  CliInv' /\ ThrInv' /\ OwnInv'
<1>0. Inv /\ ThreadOK(t) /\ thr[t] \in ThrRec
  BY DEF Inv, ThrInv
<1>1. Owner[t] = Kernel /\ thr[t].pc # "idle"
  BY <1>0 DEF ThreadOK, KernelPCs, Looking, WalkPCs
<1>2. /\ x \in ThrRec
      /\ x.pc \in {"idle"} \cup (KernelPCs \ (Looking \cup WalkPCs))
      /\ x.c = 0 \/ x.c = thr[t].c
      /\ x.pc # "idle" => x.c = thr[t].c
  <2>1. CASE x = Idle
    BY <2>1 DEF Idle, ThrRec
  <2>2. ASSUME NEW pc \in KernelPCs \ (Looking \cup WalkPCs), x = [thr[t] EXCEPT !.pc = pc]
        PROVE  x \in ThrRec /\ x.pc = pc /\ x.c = thr[t].c
    BY <1>0, <2>2 DEF ThrRec
  <2>3. ASSUME NEW pc \in KernelPCs, x = [Idle EXCEPT !.pc = pc, !.c = thr[t].c]
        PROVE  x \in ThrRec /\ x.pc = pc /\ x.c = thr[t].c
    BY <1>0, <2>3 DEF Idle, ThrRec
  <2> QED BY <2>1, <2>2, <2>3
<1>3. x.pc \notin ClientPCs /\ x.pc \notin Looking /\ x.pc # "destroy" /\ x.pc \notin WalkPCs
      /\ (x.pc \in KernelPCs => x.c = thr[t].c)
  BY <1>2 DEF KernelPCs, Looking, WalkPCs, ClientPCs
<1>4. thr'[t] = x
  BY <1>0 DEF Inv, ThrInv
<1>5. ThreadOK(t)'
  BY <1>0, <1>1, <1>2, <1>3, <1>4 DEF ThreadOK, SameOwners, Live
<1>6. ThrInv'
  BY <1>0, <1>2, <1>5, OneThread
<1>7. CliInv' /\ OwnInv'
  BY <1>0, <1>1, KernelAlone
<1> QED BY <1>6, <1>7

\* The tables, when a step changes only the threads and the clients.
LEMMA TablesAlone ==
    ASSUME Inv, UNCHANGED <<core, given, unbound, ended, stray, forgotten, crossed>>
    PROVE  /\ TableInv' /\ DevInv' /\ HostInv' /\ BoundInv' /\ GivenInv' /\ ResInv'
           /\ SameOwners(acc, acc') /\ \A T : WalksKept(T)
<1> QED BY DEF Inv, core, TableInv, DevInv, HostInv, HostContextAlive, StrayExplained, GivenInv,
               ResInv, BoundInv, SameOwners, Live, WalksKept

-----------------------------------------------------------------------------
(* The calls of the kernel that look their context up.                     *)

\* beginRenderPass and the end of endRenderPass mark the context.
LEMMA ActiveSet ==
    ASSUME NEW a, AccOK(a), NEW c \in Live(a), NEW v \in BOOLEAN
    PROVE  LET b == [a EXCEPT !.ctx[c].active = v]
           IN  /\ OnlyCtx(a, b)
               /\ \A x \in Live(a) : b.ctx[x].bound = a.ctx[x].bound
               /\ \A x \in Live(a) : b.ctx[x].owner = a.ctx[x].owner
               /\ \A x \in Live(a) : b.ctx[x].born = a.ctx[x].born
               /\ \A x \in Live(a) : b.ctx[x].gpu = a.ctx[x].gpu
<1> DEFINE b == [a EXCEPT !.ctx[c].active = v]
           new == [a.ctx[c] EXCEPT !.active = v]
<1>1. /\ DOMAIN b = Fields
      /\ b.ctxPool = a.ctxPool /\ b.ctxCount = a.ctxCount /\ b.surfPool = a.surfPool
      /\ b.surfCount = a.surfCount /\ b.nextCtx = a.nextCtx /\ b.nextSurf = a.nextSurf
      /\ b.surf = a.surf
  BY DEF AccOK, IsAcc, Fields
<1>2. b.ctx = [a.ctx EXCEPT ![c] = new]
  BY DEF AccOK, IsAcc, Fields, Live
<1>3. /\ new \in CtxRec /\ new.bound = a.ctx[c].bound /\ new.owner = a.ctx[c].owner
      /\ new.born = a.ctx[c].born /\ new.gpu = a.ctx[c].gpu
  BY DEF AccOK, IsAcc, CtxRec, Live
<1> HIDE DEF b, new
<1>4. /\ DOMAIN b.ctx = DOMAIN a.ctx /\ b.ctx = [x \in DOMAIN b.ctx |-> b.ctx[x]]
      /\ \A x \in DOMAIN a.ctx : b.ctx[x] \in CtxRec
      /\ \A x \in Live(a) \ {c} : b.ctx[x] = a.ctx[x]
      /\ b.ctx[c] = new
  BY <1>2, <1>3 DEF AccOK, IsAcc, Live
<1>5. OnlyCtx(a, b)
  BY <1>1, <1>4 DEF OnlyCtx
<1> QED BY <1>3, <1>4, <1>5 DEF b, new

\* endRenderPass counts the device context's number up.
LEMMA GpuCounted ==
    ASSUME NEW a, AccOK(a), NEW c \in Live(a)
    PROVE  LET b == [a EXCEPT !.ctx[c].gpu = @ + 1]
           IN  /\ OnlyCtx(a, b)
               /\ \A x \in Live(a) : b.ctx[x].bound = a.ctx[x].bound
               /\ \A x \in Live(a) : b.ctx[x].owner = a.ctx[x].owner
               /\ \A x \in Live(a) : b.ctx[x].born = a.ctx[x].born
               /\ \A x \in Live(a) \ {c} : b.ctx[x].gpu = a.ctx[x].gpu
<1> DEFINE b == [a EXCEPT !.ctx[c].gpu = @ + 1]
           new == [a.ctx[c] EXCEPT !.gpu = @ + 1]
<1>1. /\ DOMAIN b = Fields
      /\ b.ctxPool = a.ctxPool /\ b.ctxCount = a.ctxCount /\ b.surfPool = a.surfPool
      /\ b.surfCount = a.surfCount /\ b.nextCtx = a.nextCtx /\ b.nextSurf = a.nextSurf
      /\ b.surf = a.surf
  BY DEF AccOK, IsAcc, Fields
<1>2. b.ctx = [a.ctx EXCEPT ![c] = new]
  BY DEF AccOK, IsAcc, Fields, Live
<1>3. /\ new \in CtxRec /\ new.bound = a.ctx[c].bound /\ new.owner = a.ctx[c].owner
      /\ new.born = a.ctx[c].born
  <2>1. a.ctx[c] \in CtxRec /\ a.ctx[c].gpu + 1 \in Nat
    BY DEF AccOK, IsAcc, CtxRec, Live
  <2> QED BY <2>1 DEF CtxRec
<1> HIDE DEF b, new
<1>4. /\ DOMAIN b.ctx = DOMAIN a.ctx /\ b.ctx = [x \in DOMAIN b.ctx |-> b.ctx[x]]
      /\ \A x \in DOMAIN a.ctx : b.ctx[x] \in CtxRec
      /\ \A x \in Live(a) \ {c} : b.ctx[x] = a.ctx[x]
      /\ b.ctx[c] = new
  BY <1>2, <1>3 DEF AccOK, IsAcc, Live
<1>5. OnlyCtx(a, b)
  BY <1>1, <1>4 DEF OnlyCtx
<1> QED BY <1>3, <1>4, <1>5 DEF b, new

\* What a change of those fields keeps.
LEMMA CtxTouched ==
    ASSUME NEW a, NEW g, NEW u, NEW res, NEW n, NEW f, NEW b,
           NEW x, AccOK(a), BoundOK(a, x), GivenOK(a, g, u), ResOK(a, res, n, f), OnlyCtx(a, b),
           \A c \in Live(a) : b.ctx[c].bound = a.ctx[c].bound /\ b.ctx[c].owner = a.ctx[c].owner
    PROVE  /\ AccOK(b) /\ BoundOK(b, x) /\ GivenOK(b, g, u) /\ ResOK(b, res, n, f)
           /\ SameOwners(a, b) /\ b.nextSurf = a.nextSurf /\ Surfaces(b) = Surfaces(a)
<1>1. AccOK(b) /\ SameSurf(a, b) /\ Live(b) = Live(a) /\ Surfaces(b) = Surfaces(a)
  BY OnlyCtxOK
<1>2. BoundOK(b, x) /\ GivenOK(b, g, u)
  BY <1>1 DEF BoundOK, GivenOK, SameSurf
<1>3. ResOK(b, res, n, f)
  BY <1>1 DEF ResOK, SameSurf
<1>4. SameOwners(a, b)
  BY <1>1 DEF SameOwners, OnlyCtx
<1> QED BY <1>1, <1>2, <1>3, <1>4 DEF SameSurf

\* A context whose number was never counted up executes in its own device
\* context.
LEMMA StraysEnded ==
    ASSUME HostInv, NEW c \in Live(acc)
    PROVE  Strays(acc, c) \subseteq ended
BY DEF HostInv, Strays

\* A use of a context that is gone.
LEMMA FreedUse ==
    ASSUME Inv, NEW t \in Threads, thr[t].pc \in KernelPCs, Uses(t),
           UNCHANGED <<overlap, stopped, raced>>
    PROVE  FaultsNeedRace' /\ faults \subseteq faults'
<1>1. Gone(t) => Kernel \in overlap \/ stopped \/ {"freedEntry", "movedPool"} \cap faults # {}
  BY DEF Inv, ThrInv, ThreadOK, Gone
<1>2. FaultsNeedRace
  BY DEF Inv, ThrInv
<1>3. faults \subseteq faults' /\ faults' \subseteq faults \cup {"freedContext"}
      /\ (Gone(t) \/ faults' = faults)
  BY DEF Uses, Fault
<1>4. "freedContext" # "freedEntry" /\ "freedContext" # "freedSurface"
  OBVIOUS
<1> QED BY <1>1, <1>2, <1>3, <1>4 DEF FaultsNeedRace

\* A kernel thread looks a context up: the call starts.
LEMMA LookupInv ==
    ASSUME Inv, NEW t \in Threads, NEW c \in Live(acc), NEW op \in Looking, Lookup(t, op, c)
    PROVE  Inv'
<1> DEFINE x == [Idle EXCEPT !.pc = op, !.c = c]
<1>1. /\ UNCHANGED <<core, cli, stopped, given, unbound, ended, stray, forgotten, crossed, raced,
                      faults>>
      /\ Calls(t) /\ overlap \subseteq overlap' /\ Owner[t] = Kernel /\ Kernel \notin Clients
      /\ thr' = [thr EXCEPT ![t] = x] /\ acc.ctx[c].owner = Kernel
  BY AcceleratorAssumption DEF Lookup, ghosts, marks, Names, IsClient, GoesOn, Calls
<1>2. /\ TableInv' /\ DevInv' /\ HostInv' /\ BoundInv' /\ GivenInv' /\ ResInv'
      /\ SameOwners(acc, acc') /\ \A T : WalksKept(T)
  BY <1>1, TablesAlone
<1>3. c \in 2 .. acc.nextCtx /\ c \in Nat /\ op \in KernelPCs
  BY DEF Inv, TableInv, AccOK, IsAcc, KernelPCs
<1>4. x \in ThrRec /\ x.pc = op /\ x.c = c /\ x.held = 0
  BY <1>3 DEF ThrRec, Idle
<1>5. thr'[t] = x
  BY DEF Inv, ThrInv, Lookup, GoesOn
<1> HIDE DEF x
<1>6. op \notin ClientPCs /\ op \notin WalkPCs /\ op # "destroy"
  BY DEF Looking, ClientPCs, WalkPCs
<1>7. ThreadOK(t)'
  BY <1>1, <1>2, <1>3, <1>4, <1>5, <1>6 DEF ThreadOK, SameOwners, Live
<1>8. ThrInv'
  <2>1. FaultsNeedRace'
    BY <1>1, NoFault
  <2> QED BY <1>1, <1>2, <1>4, <1>7, <2>1, OneThread
<1>9. CliInv' /\ OwnInv'
  BY <1>1, <1>2, KernelAlone, SoleCall
<1> QED BY <1>2, <1>8, <1>9 DEF Inv

\* What a walk finds in its pool exists.
LEMMA WalkStarts ==
    ASSUME Inv, NEW t \in Threads, thr[t].pc \in KernelPCs, NEW pc \in Looking \cup WalkPCs,
           NEW size \in Nat \ {0}, NEW S, Walks(t, pc, size, S),
           pc \in Looking => S \subseteq {0} \cup Live(acc),
           pc \in WalkPCs => S \subseteq {0} \cup Surfaces(acc),
           UNCHANGED <<core, cli, stopped, history>>
    PROVE  Inv'
<1>0. Inv /\ ThreadOK(t) /\ thr \in [Threads -> ThrRec]
  BY DEF Inv, ThrInv
<1>1. /\ UNCHANGED <<core, cli, stopped, overlap, given, unbound, ended, stray, forgotten, crossed,
                      raced, faults>>
  BY DEF history, ghosts, marks
<1>2. /\ TableInv' /\ DevInv' /\ HostInv' /\ BoundInv' /\ GivenInv' /\ ResInv'
      /\ SameOwners(acc, acc') /\ \A T : WalksKept(T)
  BY <1>1, TablesAlone
<1>3. PICK h \in {0} \cup S :
         thr' = [thr EXCEPT ![t].pc = pc, ![t].size = size, ![t].held = h]
  BY DEF Walks
<1> DEFINE x == [thr[t] EXCEPT !.pc = pc, !.size = size, !.held = h]
<1>4. thr' = [thr EXCEPT ![t] = x]
  BY <1>0, <1>3
<1>5. /\ Live(acc) \subseteq 2 .. acc.nextCtx /\ acc.nextCtx \in Nat
      /\ Surfaces(acc) \subseteq Nat
  BY <1>0 DEF Inv, TableInv, AccOK, IsAcc
<1>6. h \in Nat /\ pc \in KernelPCs
  BY <1>5 DEF KernelPCs
<1>7. x \in ThrRec /\ x.pc = pc /\ x.size = size /\ x.held = h /\ x.c = thr[t].c
  <2>1. thr[t] \in ThrRec
    BY <1>0
  <2> QED BY <1>6, <2>1 DEF ThrRec
<1> HIDE DEF x
<1>8. thr'[t] = x
  BY <1>0, <1>4
<1>9. pc \notin ClientPCs /\ pc # "destroy" /\ Looking \cap WalkPCs = {}
  BY DEF Looking, WalkPCs, ClientPCs
<1>10. ThreadOK(t)'
  <2>1. pc \in Looking => h \in {0} \cup Live(acc)
    OBVIOUS
  <2>2. pc \in WalkPCs => h \in {0} \cup Surfaces(acc)
    OBVIOUS
  <2>3. acc' = acc
    BY <1>1 DEF core
  <2>4. Walking(t)'
    BY <1>7, <1>8 DEF Walking
  <2> QED BY <1>0, <1>1, <1>5, <1>7, <1>8, <1>9, <2>1, <2>2, <2>3, <2>4
          DEF ThreadOK, Live, Surfaces
<1>11. ThrInv'
  <2>1. FaultsNeedRace'
    BY <1>0, <1>1, NoFault
  <2> QED BY <1>0, <1>1, <1>2, <1>4, <1>7, <1>10, <2>1, OneThread
<1>12. CliInv' /\ OwnInv'
  <2>1. Owner[t] = Kernel /\ thr[t].pc # "idle"
    BY <1>0 DEF ThreadOK, KernelPCs, Looking, WalkPCs
  <2> QED BY <1>0, <1>1, <1>2, <1>4, <2>1, KernelAlone
<1> QED BY <1>2, <1>11, <1>12 DEF Inv

LEMMA findContextInv == ASSUME Inv, NEW t \in Threads, findContext(t) PROVE Inv'
<1> DEFINE pool == acc.ctxPool
           S == {pool[i] : i \in {j \in DOMAIN pool : \A k \in 1 .. j - 1 : pool[k] # thr[t].c}}
<1>1. /\ Len(pool) \in Nat \ {0} /\ S \subseteq {0} \cup Live(acc)
  BY DEF Inv, TableInv, AccOK, PoolOK, Filled
<1>2. /\ thr[t].pc \in KernelPCs /\ UNCHANGED <<core, cli, stopped, history>>
      /\ \E pc \in Looking : Walks(t, pc, Len(pool), S)
  BY DEF findContext, KernelPCs, Looking
<1>3. Looking \cap WalkPCs = {}
  BY DEF Looking, WalkPCs
<1> HIDE DEF pool, S
<1>4. PICK pc \in Looking : Walks(t, pc, Len(pool), S)
  BY <1>2
<1>5. pc \in Looking \cup WalkPCs /\ pc \notin WalkPCs
  BY <1>3
<1> QED BY <1>1, <1>2, <1>4, <1>5, WalkStarts

LEMMA walkSurfacesInv == ASSUME Inv, NEW t \in Threads, walkSurfaces(t) PROVE Inv'
<1>1. /\ Len(acc.surfPool) \in Nat \ {0} /\ Filled(acc.surfPool) \subseteq {0} \cup Surfaces(acc)
  BY DEF Inv, TableInv, AccOK, PoolOK
<1>2. /\ thr[t].pc \in KernelPCs /\ UNCHANGED <<core, cli, stopped, history>>
      /\ \E pc \in WalkPCs : Walks(t, pc, Len(acc.surfPool), Filled(acc.surfPool))
  BY DEF walkSurfaces, KernelPCs, WalkPCs
<1>3. Looking \cap WalkPCs = {}
  BY DEF Looking, WalkPCs
<1> QED BY <1>1, <1>2, <1>3, WalkStarts

\* A walk ends: it goes on with its context, or another that freed memory
\* passes for, or returns.
LEMMA WalkEnds ==
    ASSUME Inv, NEW t \in Threads, thr[t].pc \in KernelPCs,
           NEW kinds, Fault(kinds), FaultsNeedRace',
           UNCHANGED <<core, cli, stopped, overlap, marks>>,
           \/ Returns(t)
           \/ \E pc \in KernelPCs \ (Looking \cup WalkPCs), c \in {0} \cup 2 .. acc.nextCtx :
                 GoesOn(t, pc, c) /\ (c # thr[t].c => {"freedEntry", "movedPool"} \cap kinds # {})
    PROVE  Inv'
<1>0. Inv /\ ThreadOK(t) /\ thr \in [Threads -> ThrRec]
  BY DEF Inv, ThrInv
<1>1. /\ UNCHANGED <<core, cli, stopped, overlap, given, unbound, ended, stray, forgotten, crossed,
                      raced>>
      /\ faults' = faults \cup kinds
  BY DEF marks, Fault
<1>2. /\ TableInv' /\ DevInv' /\ HostInv' /\ BoundInv' /\ GivenInv' /\ ResInv'
      /\ SameOwners(acc, acc') /\ \A T : WalksKept(T)
  BY <1>1, TablesAlone
<1>3. CASE Returns(t)
  <2>1. CliInv' /\ ThrInv' /\ OwnInv'
    BY <1>0, <1>1, <1>2, <1>3, KernelMoves DEF Returns
  <2> QED BY <1>2, <2>1 DEF Inv
<1>4. ASSUME NEW pc \in KernelPCs \ (Looking \cup WalkPCs), NEW c \in {0} \cup 2 .. acc.nextCtx,
             GoesOn(t, pc, c), c # thr[t].c => {"freedEntry", "movedPool"} \cap kinds # {}
      PROVE  Inv'
  <2> DEFINE x == [Idle EXCEPT !.pc = pc, !.c = c]
  <2>1. thr' = [thr EXCEPT ![t] = x] /\ thr'[t] = x
    BY <1>0, <1>4 DEF GoesOn
  <2>2. c \in Nat /\ pc \in KernelPCs
    BY <1>0 DEF Inv, TableInv, AccOK, IsAcc
  <2>3. x \in ThrRec /\ x.pc = pc /\ x.c = c
    BY ONLY <2>2 DEF Idle, ThrRec
  <2> HIDE DEF x
  <2>4. pc \notin ClientPCs /\ pc # "destroy"
    BY DEF ClientPCs, KernelPCs, Looking, WalkPCs
  <2>5. ThreadOK(t)'
    BY <1>0, <1>1, <1>2, <1>4, <2>1, <2>3, <2>4 DEF ThreadOK, SameOwners, Live
  <2>6. ThrInv'
    BY <1>0, <1>1, <1>2, <2>1, <2>3, <2>5, OneThread
  <2>7. CliInv' /\ OwnInv'
    <3>1. Owner[t] = Kernel /\ thr[t].pc # "idle"
      BY <1>0 DEF ThreadOK, KernelPCs, Looking, WalkPCs
    <3> QED BY <1>0, <1>1, <1>2, <2>1, <3>1, KernelAlone
  <2> QED BY <1>2, <2>6, <2>7 DEF Inv
<1> QED BY <1>3, <1>4

LEMMA foundContextInv == ASSUME Inv, NEW t \in Threads, foundContext(t) PROVE Inv'
<1> DEFINE op == thr[t].pc
           freed == Freed(t, Live(acc))
           moved == Moved(t, acc.ctxPool)
           kinds == (IF freed THEN {"freedEntry"} ELSE {}) \cup (IF moved THEN {"movedPool"} ELSE {})
           found == (IF Gone(t) /\ ~moved THEN {} ELSE {thr[t].c})
                     \cup (IF freed THEN {thr[t].held} ELSE {})
<1>0. Inv /\ ThreadOK(t) /\ FaultsNeedRace
  BY DEF Inv, ThrInv
<1>1. /\ op \in Looking /\ op \in KernelPCs /\ Fault(kinds)
      /\ UNCHANGED <<core, cli, stopped, overlap, marks>>
  BY DEF foundContext, KernelPCs
<1>2. /\ thr[t].c \in {0} \cup 2 .. acc.nextCtx /\ thr[t].held \in {0} \cup 2 .. acc.nextCtx
      /\ freed => raced
  BY <1>0, <1>1 DEF ThreadOK, Freed
<1>3. FaultsNeedRace'
  <2>1. UNCHANGED <<overlap, stopped, raced>>
    BY <1>1 DEF marks
  <2>2. faults' = faults \cup kinds /\ "freedEntry" # "freedContext" /\ "freedEntry" # "freedSurface"
        /\ "movedPool" # "freedContext" /\ "movedPool" # "freedSurface" /\ "movedPool" # "freedEntry"
    BY <1>1 DEF Fault
  <2>3. "freedEntry" \in kinds => raced
    BY <1>2, <2>2
  <2>4. "freedContext" \notin kinds /\ "freedSurface" \notin kinds
    BY <2>2
  <2> HIDE DEF kinds
  <2> QED BY <1>0, <2>1, <2>2, <2>3, <2>4 DEF FaultsNeedRace
<1>4. {"draw", "begin", "end", "finish"} \subseteq KernelPCs \ (Looking \cup WalkPCs)
  BY DEF KernelPCs, Looking, WalkPCs
<1>5. \A c \in found : /\ c \in {0} \cup 2 .. acc.nextCtx
                       /\ c # thr[t].c => {"freedEntry", "movedPool"} \cap kinds # {}
  BY <1>2
<1>6. \/ Returns(t)
      \/ \E pc \in {"draw", "begin", "end", "finish"}, c \in found \cup {thr[t].c} : GoesOn(t, pc, c)
  <2>1. \/ GoesOn(t, "finish", thr[t].c)
        \/ Returns(t)
        \/ \E c \in found, pc \in {"draw", "begin", "end"} : GoesOn(t, pc, c)
    BY DEF foundContext
  <2> HIDE DEF found
  <2> QED BY <2>1
<1> HIDE DEF op, freed, moved, kinds, found
<1>7. \/ Returns(t)
      \/ \E pc \in KernelPCs \ (Looking \cup WalkPCs), c \in {0} \cup 2 .. acc.nextCtx :
            GoesOn(t, pc, c) /\ (c # thr[t].c => {"freedEntry", "movedPool"} \cap kinds # {})
  BY <1>2, <1>4, <1>5, <1>6
<1> QED BY <1>0, <1>1, <1>3, <1>7, WalkEnds DEF op

LEMMA walkedSurfacesInv == ASSUME Inv, NEW t \in Threads, walkedSurfaces(t) PROVE Inv'
<1> DEFINE freed == Freed(t, Surfaces(acc))
           kinds == (IF freed THEN {"freedSurface"} ELSE {})
                     \cup (IF Moved(t, acc.surfPool) THEN {"movedPool"} ELSE {})
<1>0. Inv /\ ThreadOK(t) /\ FaultsNeedRace
  BY DEF Inv, ThrInv
<1>1. /\ thr[t].pc \in WalkPCs /\ thr[t].pc \in KernelPCs /\ Fault(kinds)
      /\ UNCHANGED <<core, cli, stopped, overlap, marks>>
      /\ \E pc \in {"command", "collect"} : GoesOn(t, pc, thr[t].c)
  BY DEF walkedSurfaces, WalkPCs, KernelPCs
<1>2. /\ thr[t].c \in {0} \cup 2 .. acc.nextCtx
      /\ freed => Kernel \in overlap \/ stopped
  BY <1>0, <1>1 DEF ThreadOK, Freed
<1>3. FaultsNeedRace'
  <2>1. UNCHANGED <<overlap, stopped, raced>>
    BY <1>1 DEF marks
  <2>2. faults' = faults \cup kinds /\ "freedSurface" # "freedContext"
        /\ "freedEntry" # "freedSurface" /\ "movedPool" # "freedContext"
        /\ "movedPool" # "freedSurface" /\ "movedPool" # "freedEntry"
    BY <1>1 DEF Fault
  <2>3. "freedSurface" \in kinds => Kernel \in overlap \/ stopped
    BY <1>2, <2>2
  <2>4. "freedContext" \notin kinds /\ "freedEntry" \notin kinds
    BY <2>2
  <2> HIDE DEF kinds
  <2> QED BY <1>0, <2>1, <2>2, <2>3, <2>4 DEF FaultsNeedRace
<1>4. {"command", "collect"} \subseteq KernelPCs \ (Looking \cup WalkPCs)
  BY DEF KernelPCs, Looking, WalkPCs
<1> HIDE DEF freed, kinds
<1> QED BY <1>0, <1>1, <1>2, <1>3, <1>4, WalkEnds

LEMMA drawPrimitivesInv == ASSUME Inv, NEW t \in Threads, drawPrimitives(t) PROVE Inv'
<1>1. thr[t].pc \in KernelPCs
  BY DEF drawPrimitives, KernelPCs
<1>2. /\ TableInv' /\ DevInv' /\ HostInv' /\ BoundInv' /\ GivenInv' /\ ResInv'
      /\ SameOwners(acc, acc') /\ \A T : WalksKept(T)
  BY TablesAlone DEF drawPrimitives, marks
<1>3. FaultsNeedRace' /\ faults \subseteq faults'
  BY <1>1, FreedUse DEF drawPrimitives, marks
<1>4. CliInv' /\ ThrInv' /\ OwnInv'
  BY <1>1, <1>2, <1>3, KernelMoves DEF drawPrimitives, Returns, marks
<1> QED BY <1>2, <1>4 DEF Inv

\* A pass step that changes no context, because its context is gone.
LEMMA PassOnNothing ==
    ASSUME Inv, UNCHANGED <<acc, dev, given, unbound, forgotten, crossed, stray>>,
           ended \subseteq ended'
    PROVE  /\ TableInv' /\ DevInv' /\ HostInv' /\ BoundInv' /\ GivenInv' /\ ResInv'
           /\ SameOwners(acc, acc') /\ \A T : WalksKept(T)
BY DEF Inv, TableInv, DevInv, HostInv, HostContextAlive, StrayExplained, GivenInv, ResInv,
       BoundInv, SameOwners, Live, WalksKept

\* A pass step that marks its context.
LEMMA PassMarks ==
    ASSUME Inv, UNCHANGED <<dev, given, unbound, forgotten, crossed, ended>>,
           NEW c \in Live(acc), NEW v \in BOOLEAN, acc' = [acc EXCEPT !.ctx[c].active = v],
           stray' \subseteq stray \cup Strays(acc, c)
    PROVE  /\ TableInv' /\ DevInv' /\ HostInv' /\ BoundInv' /\ GivenInv' /\ ResInv'
           /\ SameOwners(acc, acc') /\ \A T : WalksKept(T)
<1>1. AccOK(acc) /\ BoundInv /\ GivenInv /\ ResInv /\ HostInv /\ TableInv /\ DevInv
  BY DEF Inv, TableInv
<1>2. /\ OnlyCtx(acc, acc')
      /\ \A x \in Live(acc) : acc'.ctx[x].bound = acc.ctx[x].bound
      /\ \A x \in Live(acc) : acc'.ctx[x].owner = acc.ctx[x].owner
      /\ \A x \in Live(acc) : acc'.ctx[x].born = acc.ctx[x].born
      /\ \A x \in Live(acc) : acc'.ctx[x].gpu = acc.ctx[x].gpu
  <2> DEFINE b == [acc EXCEPT !.ctx[c].active = v]
  <2>1. /\ OnlyCtx(acc, b)
        /\ \A x \in Live(acc) : b.ctx[x].bound = acc.ctx[x].bound
        /\ \A x \in Live(acc) : b.ctx[x].owner = acc.ctx[x].owner
        /\ \A x \in Live(acc) : b.ctx[x].born = acc.ctx[x].born
        /\ \A x \in Live(acc) : b.ctx[x].gpu = acc.ctx[x].gpu
    BY <1>1, ActiveSet
  <2>2. acc' = b
    OBVIOUS
  <2> HIDE DEF b
  <2> QED BY <2>1, <2>2
<1>3. /\ AccOK(acc') /\ BoundOK(acc', crossed) /\ GivenOK(acc', given, unbound)
      /\ ResOK(acc', dev.res, dev.nextRes, forgotten) /\ SameOwners(acc, acc')
      /\ acc'.nextSurf = acc.nextSurf /\ Surfaces(acc') = Surfaces(acc)
  <2>1. /\ GivenOK(acc, given, unbound) /\ ResOK(acc, dev.res, dev.nextRes, forgotten)
        /\ \A x \in Live(acc) : /\ acc'.ctx[x].bound = acc.ctx[x].bound
                                /\ acc'.ctx[x].owner = acc.ctx[x].owner
    BY <1>1, <1>2 DEF GivenInv, ResInv
  <2>2. AccOK(acc) /\ BoundOK(acc, crossed) /\ OnlyCtx(acc, acc')
    BY <1>1, <1>2 DEF BoundInv
  <2> QED BY ONLY <2>1, <2>2, CtxTouched
<1>4. TableInv' /\ DevInv' /\ BoundInv' /\ GivenInv' /\ ResInv' /\ \A T : WalksKept(T)
  BY <1>1, <1>3 DEF TableInv, DevInv, BoundInv, GivenInv, ResInv, SameOwners, WalksKept
<1>5. HostInv'
  <2>1. Live(acc)' = Live(acc)
    BY <1>3 DEF SameOwners, Live
  <2>2. Strays(acc, c) \subseteq ended
    BY <1>1, StraysEnded
  <2>3. StrayExplained'
    BY <1>1, <2>2 DEF HostInv, StrayExplained
  <2> QED BY <1>1, <1>2, <2>1, <2>3 DEF HostInv, HostContextAlive
<1> QED BY <1>3, <1>4, <1>5

LEMMA beginRenderPassInv == ASSUME Inv, NEW t \in Threads, beginRenderPass(t) PROVE Inv'
<1>1. thr[t].pc \in KernelPCs
  BY DEF beginRenderPass, KernelPCs
<1>2. /\ TableInv' /\ DevInv' /\ HostInv' /\ BoundInv' /\ GivenInv' /\ ResInv'
      /\ SameOwners(acc, acc') /\ \A T : WalksKept(T)
  <2>1. CASE Gone(t)
    BY <2>1, PassOnNothing DEF beginRenderPass, marks
  <2>2. CASE ~Gone(t)
    BY <2>2, PassMarks DEF beginRenderPass, Gone, marks
  <2> QED BY <2>1, <2>2
<1>3. FaultsNeedRace' /\ faults \subseteq faults'
  BY <1>1, FreedUse DEF beginRenderPass, marks
<1>4. CliInv' /\ ThrInv' /\ OwnInv'
  BY <1>1, <1>2, <1>3, KernelMoves DEF beginRenderPass, Returns, marks
<1> QED BY <1>2, <1>4 DEF Inv

LEMMA finishPassInv == ASSUME Inv, NEW t \in Threads, finishPass(t) PROVE Inv'
<1>1. thr[t].pc \in KernelPCs
  BY DEF finishPass, KernelPCs
<1>2. /\ TableInv' /\ DevInv' /\ HostInv' /\ BoundInv' /\ GivenInv' /\ ResInv'
      /\ SameOwners(acc, acc') /\ \A T : WalksKept(T)
  <2>1. CASE Gone(t)
    BY <2>1, PassOnNothing DEF finishPass, marks
  <2>2. CASE ~Gone(t)
    BY <2>2, PassMarks DEF finishPass, Gone, marks
  <2> QED BY <2>1, <2>2
<1>3. FaultsNeedRace' /\ faults \subseteq faults'
  BY <1>1, FreedUse DEF finishPass, marks
<1>4. CliInv' /\ ThrInv' /\ OwnInv'
  BY <1>1, <1>2, <1>3, KernelMoves DEF finishPass, Returns, marks
<1> QED BY <1>2, <1>4 DEF Inv

\* endRenderPass's command: the number is counted up, and the context noted.
LEMMA PassCounts ==
    ASSUME Inv, UNCHANGED <<dev, given, unbound, forgotten, crossed>>,
           NEW c \in Live(acc), acc' = [acc EXCEPT !.ctx[c].gpu = @ + 1],
           ended' = ended \cup {c}, stray' = stray \cup Strays(acc', c)
    PROVE  /\ TableInv' /\ DevInv' /\ HostInv' /\ BoundInv' /\ GivenInv' /\ ResInv'
           /\ SameOwners(acc, acc') /\ \A T : WalksKept(T)
<1>1. AccOK(acc) /\ BoundInv /\ GivenInv /\ ResInv /\ HostInv /\ TableInv /\ DevInv
  BY DEF Inv, TableInv
<1>2. /\ OnlyCtx(acc, acc')
      /\ \A x \in Live(acc) : acc'.ctx[x].bound = acc.ctx[x].bound
      /\ \A x \in Live(acc) : acc'.ctx[x].owner = acc.ctx[x].owner
      /\ \A x \in Live(acc) : acc'.ctx[x].born = acc.ctx[x].born
      /\ \A x \in Live(acc) \ {c} : acc'.ctx[x].gpu = acc.ctx[x].gpu
  <2> DEFINE b == [acc EXCEPT !.ctx[c].gpu = @ + 1]
  <2>1. /\ OnlyCtx(acc, b)
        /\ \A x \in Live(acc) : b.ctx[x].bound = acc.ctx[x].bound
        /\ \A x \in Live(acc) : b.ctx[x].owner = acc.ctx[x].owner
        /\ \A x \in Live(acc) : b.ctx[x].born = acc.ctx[x].born
        /\ \A x \in Live(acc) \ {c} : b.ctx[x].gpu = acc.ctx[x].gpu
    BY <1>1, GpuCounted
  <2>2. acc' = b
    OBVIOUS
  <2> HIDE DEF b
  <2> QED BY <2>1, <2>2
<1>3. /\ AccOK(acc') /\ BoundOK(acc', crossed) /\ GivenOK(acc', given, unbound)
      /\ ResOK(acc', dev.res, dev.nextRes, forgotten) /\ SameOwners(acc, acc')
      /\ acc'.nextSurf = acc.nextSurf /\ Surfaces(acc') = Surfaces(acc)
  <2>1. /\ GivenOK(acc, given, unbound) /\ ResOK(acc, dev.res, dev.nextRes, forgotten)
        /\ \A x \in Live(acc) : /\ acc'.ctx[x].bound = acc.ctx[x].bound
                                /\ acc'.ctx[x].owner = acc.ctx[x].owner
    BY <1>1, <1>2 DEF GivenInv, ResInv
  <2>2. AccOK(acc) /\ BoundOK(acc, crossed) /\ OnlyCtx(acc, acc')
    BY <1>1, <1>2 DEF BoundInv
  <2> QED BY ONLY <2>1, <2>2, CtxTouched
<1>4. TableInv' /\ DevInv' /\ BoundInv' /\ GivenInv' /\ ResInv' /\ \A T : WalksKept(T)
  BY <1>1, <1>3 DEF TableInv, DevInv, BoundInv, GivenInv, ResInv, SameOwners, WalksKept
<1>5. HostInv'
  <2>1. Live(acc)' = Live(acc)
    BY <1>3 DEF SameOwners, Live
  <2>2. Strays(acc', c) \subseteq {c}
    BY DEF Strays
  <2>3. StrayExplained'
    BY <1>1, <2>2 DEF HostInv, StrayExplained
  <2> QED BY <1>1, <1>2, <2>1, <2>3 DEF HostInv, HostContextAlive
<1> QED BY <1>3, <1>4, <1>5

LEMMA endRenderPassInv == ASSUME Inv, NEW t \in Threads, endRenderPass(t) PROVE Inv'
<1>1. thr[t].pc \in KernelPCs
  BY DEF endRenderPass, KernelPCs
<1>2. /\ TableInv' /\ DevInv' /\ HostInv' /\ BoundInv' /\ GivenInv' /\ ResInv'
      /\ SameOwners(acc, acc') /\ \A T : WalksKept(T)
  <2> DEFINE c == thr[t].c
  <2>0. UNCHANGED <<dev, given, unbound, forgotten, crossed>>
    BY DEF endRenderPass
  <2>1. CASE UNCHANGED <<acc, ended, stray>>
    BY <2>0, <2>1, PassOnNothing
  <2>2. CASE /\ acc' = IF Gone(t) THEN acc ELSE [acc EXCEPT !.ctx[c].gpu = @ + 1]
             /\ ended' = ended \cup {c}
             /\ stray' = IF Gone(t) THEN stray ELSE stray \cup Strays(acc', c)
    <3>1. CASE Gone(t)
      BY <2>0, <2>2, <3>1, PassOnNothing
    <3>2. CASE ~Gone(t)
      BY <2>0, <2>2, <3>2, PassCounts DEF Gone
    <3> QED BY <3>1, <3>2
  <2> QED BY <2>1, <2>2 DEF endRenderPass
<1>3. FaultsNeedRace' /\ faults \subseteq faults'
  BY <1>1, FreedUse DEF endRenderPass
<1>4. Goes(t, "collect") \/ Goes(t, "finish")
  BY DEF endRenderPass
<1>5. \E x : /\ thr' = [thr EXCEPT ![t] = x]
             /\ \E pc \in KernelPCs \ (Looking \cup WalkPCs) : x = [thr[t] EXCEPT !.pc = pc]
  <2>1. {"collect", "finish"} \subseteq KernelPCs \ (Looking \cup WalkPCs)
    BY DEF KernelPCs, Looking, WalkPCs
  <2> QED BY <1>4, <2>1 DEF Goes
<1>6. CliInv' /\ ThrInv' /\ OwnInv'
  BY <1>1, <1>2, <1>3, <1>5, KernelMoves DEF endRenderPass
<1> QED BY <1>2, <1>6 DEF Inv

\* garbageCollectTextures frees no surface that a context has bound, and finds
\* no binding to drop.
Collect(a) ==
    LET m == RemoveSurfaces(a, Lost(a))
    IN  [m EXCEPT !.ctx = [c \in Live(m) |-> [m.ctx[c] EXCEPT !.bound = @ \cap Surfaces(m)]]]
LEMMA Collected ==
    ASSUME NEW a, NEW b, NEW g, NEW u, NEW res, NEW n, NEW f, NEW x,
           AccOK(a), BoundOK(a, x), GivenOK(a, g, u), ResOK(a, res, n, f), b = Collect(a),
           NEW lost \in SUBSET ({a.surf[s] : s \in Lost(a)} \ {0})
    PROVE  /\ AccOK(b) /\ BoundOK(b, x) /\ GivenOK(b, g, u) /\ SameNames(a, b)
           /\ ResOK(b, res \ ({a.surf[s] : s \in Lost(a)} \ lost), n, f \cup lost)
           /\ b.nextSurf = a.nextSurf
<1> DEFINE m == RemoveSurfaces(a, Lost(a))
           F == [c \in Live(m) |-> [m.ctx[c] EXCEPT !.bound = @ \cap Surfaces(m)]]
<1>1. Lost(a) \in SUBSET Surfaces(a)
  BY DEF Lost
<1>2. /\ AccOK(m) /\ SameCtx(a, m) /\ m.nextSurf = a.nextSurf
      /\ Surfaces(m) = Surfaces(a) \ Lost(a)
      /\ \A y \in Surfaces(m) : m.surf[y] = a.surf[y]
  BY <1>1, RemoveSurfacesOK
<1>3. Live(m) = Live(a) /\ m.ctx = a.ctx
  BY <1>2 DEF SameCtx, Live
<1>4. b = [m EXCEPT !.ctx = F]
  BY DEF Collect
<1>5. \A c \in Live(a) : a.ctx[c].bound \cap Surfaces(a) \subseteq Surfaces(m)
  BY <1>2 DEF Lost
<1>6. \A c \in Live(m) : m.ctx[c] \in CtxRec
  BY <1>2 DEF AccOK, IsAcc, Live
<1> HIDE DEF m
<1>7. /\ DOMAIN F = Live(m) /\ F = [c \in DOMAIN F |-> F[c]]
      /\ \A c \in Live(m) : /\ F[c] \in CtxRec /\ F[c].bound = m.ctx[c].bound \cap Surfaces(m)
                            /\ F[c].owner = m.ctx[c].owner /\ F[c].gpu = m.ctx[c].gpu
                            /\ F[c].born = m.ctx[c].born
  <2>1. \A c \in Live(m) : F[c] = [m.ctx[c] EXCEPT !.bound = @ \cap Surfaces(m)]
    OBVIOUS
  <2>2. DOMAIN F = Live(m) /\ F = [c \in DOMAIN F |-> F[c]]
    OBVIOUS
  <2> HIDE DEF F
  <2> QED BY <1>6, <2>1, <2>2 DEF CtxRec
<1> HIDE DEF F
<1>8. /\ DOMAIN b = Fields
      /\ b.ctxPool = m.ctxPool /\ b.ctxCount = m.ctxCount /\ b.surfPool = m.surfPool
      /\ b.surfCount = m.surfCount /\ b.nextCtx = m.nextCtx /\ b.nextSurf = m.nextSurf
      /\ b.surf = m.surf /\ b.ctx = F
  BY <1>2, <1>4 DEF AccOK, IsAcc, Fields
<1>9. OnlyCtx(m, b)
  BY <1>7, <1>8 DEF OnlyCtx, Live
<1>10. AccOK(b) /\ SameSurf(m, b) /\ Live(b) = Live(m) /\ Surfaces(b) = Surfaces(m)
  BY <1>2, <1>9, OnlyCtxOK
<1>11. \A c \in Live(a) : b.ctx[c].bound = a.ctx[c].bound \cap Surfaces(m)
  BY <1>3, <1>7, <1>8
<1>12. BoundOK(b, x)
  BY <1>3, <1>10, <1>11 DEF BoundOK
<1>13. GivenOK(b, g, u)
  BY <1>3, <1>5, <1>10, <1>11 DEF GivenOK
<1>14. SameNames(a, b)
  BY <1>2, <1>3, <1>7, <1>8, <1>10 DEF SameNames, SameCtx
<1> DEFINE gone == {a.surf[s] : s \in Lost(a)}
<1>15. ResOK(b, res \ (gone \ lost), n, f \cup lost)
  <2>1. /\ Surfaces(b) = Surfaces(a) \ Lost(a)
        /\ \A y \in Surfaces(b) : b.surf[y] = a.surf[y]
    BY <1>2, <1>8, <1>10
  <2>2. \A y \in Surfaces(b) : b.surf[y] <= n /\ b.surf[y] \notin f
    BY <2>1 DEF ResOK
  <2>3. \A y, z \in Surfaces(b) : b.surf[y] = b.surf[z] /\ b.surf[y] # 0 => y = z
    BY <2>1 DEF ResOK
  <2>4. f \cap gone = {}
    BY <1>1 DEF ResOK
  <2>5. \A y \in Surfaces(b) : b.surf[y] # 0 => b.surf[y] \notin gone
    BY <1>1, <2>1 DEF ResOK
  <2>6. gone \ {0} \subseteq 1 .. n
    <3>1. \A s \in Lost(a) : a.surf[s] \in Nat /\ a.surf[s] <= n
      BY <1>1 DEF ResOK, AccOK, IsAcc, Surfaces
    <3> HIDE DEF gone
    <3>2. \A y \in gone : y \in Nat /\ y <= n
      BY <3>1 DEF gone
    <3> QED BY <3>2
  <2>7. res = ({b.surf[s] : s \in Surfaces(b)} \ {0}) \cup (gone \ {0}) \cup f
    <3>1. res = ({a.surf[s] : s \in Surfaces(a)} \ {0}) \cup f
      BY DEF ResOK
    <3>2. {b.surf[s] : s \in Surfaces(b)} = {a.surf[s] : s \in Surfaces(a) \ Lost(a)}
      BY <2>1
    <3>3. {a.surf[s] : s \in Surfaces(a)} = {b.surf[s] : s \in Surfaces(b)} \cup gone
      BY <1>1, <3>2
    <3> QED BY <3>1, <3>3
  <2> DEFINE left == {b.surf[s] : s \in Surfaces(b)}
  <2>8. \A y \in left : y # 0 => y \notin gone
    BY <2>5
  <2>9. lost \subseteq gone \ {0} /\ f \subseteq 1 .. n
    BY DEF ResOK
  <2>10. \A y \in Surfaces(b) : b.surf[y] \in left
    OBVIOUS
  <2> HIDE DEF gone, left
  <2>11. res \ (gone \ lost) = (left \ {0}) \cup (f \cup lost)
    BY <2>4, <2>7, <2>8, <2>9 DEF left
  <2>12. f \cup lost \subseteq 1 .. n
    BY <2>6, <2>9
  <2>13. \A y \in Surfaces(b) : b.surf[y] <= n /\ b.surf[y] \notin f \cup lost
    BY <2>2, <2>8, <2>9, <2>10
  <2> QED BY <2>3, <2>11, <2>12, <2>13 DEF ResOK, left
<1> QED BY <1>2, <1>8, <1>10, <1>12, <1>13, <1>14, <1>15

-----------------------------------------------------------------------------
(* Surfaces.                                                               *)

\* A step that changes surfaces, bindings and resources only.
LEMMA SurfaceStep ==
    ASSUME Inv, AccOK(acc'), SameNames(acc, acc'), acc'.nextSurf <= MaxSurfaces,
           DOMAIN dev' = DOMAIN dev, dev'.ctxs = dev.ctxs, dev'.next = dev.next,
           dev'.tracked = dev.tracked, dev'.nextRes \in Nat, ResInv',
           UNCHANGED ended, stray' \subseteq ended
    PROVE  TableInv' /\ DevInv' /\ HostInv' /\ SameOwners(acc, acc')
<1>1. TableInv /\ DevInv /\ HostInv
  BY DEF Inv
<1>2. TableInv'
  BY <1>1 DEF TableInv, SameNames
<1>3. dev'.res \subseteq 1 .. dev'.nextRes
  <2> DEFINE b == acc'
             n == dev'.nextRes
             f == forgotten'
  <2>1. \A s \in Surfaces(b) : b.surf[s] \in Nat
    BY DEF AccOK, IsAcc, Surfaces
  <2>2. /\ dev'.res = ({b.surf[s] : s \in Surfaces(b)} \ {0}) \cup f /\ f \subseteq 1 .. n
        /\ \A s \in Surfaces(b) : b.surf[s] <= n
    BY DEF ResInv, ResOK, Surfaces
  <2>3. n \in Nat
    OBVIOUS
  <2> HIDE DEF b, f, n
  <2>4. \A s \in Surfaces(b) : b.surf[s] # 0 => b.surf[s] \in 1 .. n
    BY <2>1, <2>2, <2>3
  <2> QED BY <2>2, <2>4 DEF n
<1>4. DevInv'
  BY <1>1, <1>3 DEF DevInv
<1>5. HostInv'
  <2>1. Live(acc)' = Live(acc)
    BY DEF SameNames, Live
  <2> QED BY <1>1, <2>1 DEF HostInv, HostContextAlive, StrayExplained, SameNames
<1>6. SameOwners(acc, acc')
  BY DEF SameNames, SameOwners
<1> QED BY <1>2, <1>4, <1>5, <1>6

LEMMA garbageCollectTexturesInv ==
    ASSUME Inv, NEW t \in Threads, garbageCollectTextures(t) PROVE Inv'
<1> DEFINE gone == {acc.surf[s] : s \in Lost(acc)}
<1>1. thr[t].pc \in KernelPCs /\ thr[t].pc # "idle"
  BY DEF garbageCollectTextures, KernelPCs
<1>2. /\ TableInv /\ AccOK(acc) /\ BoundOK(acc, crossed) /\ GivenOK(acc, given, unbound) /\ DevInv
      /\ ResOK(acc, dev.res, dev.nextRes, forgotten) /\ HostInv
  BY DEF Inv, TableInv, GivenInv, ResInv, BoundInv
<1>3. PICK lost \in SUBSET (gone \ {0}) :
         /\ dev' = deallocateResources(dev, gone, lost)
         /\ forgotten' = forgotten \cup lost
  BY DEF garbageCollectTextures
<1>4. acc' = Collect(acc)
  BY DEF garbageCollectTextures, Collect
<1>5. /\ AccOK(acc') /\ BoundOK(acc', crossed) /\ GivenOK(acc', given, unbound)
      /\ SameNames(acc, acc')
      /\ ResOK(acc', dev.res \ (gone \ lost), dev.nextRes, forgotten \cup lost)
      /\ acc'.nextSurf = acc.nextSurf
  BY ONLY <1>2, <1>4, Collected
<1> HIDE DEF gone
<1>6. /\ dev'.res = dev.res \ (gone \ lost) /\ dev'.nextRes = dev.nextRes
      /\ DOMAIN dev' = DOMAIN dev /\ dev'.ctxs = dev.ctxs /\ dev'.next = dev.next
      /\ dev'.tracked = dev.tracked
  BY <1>2, <1>3 DEF deallocateResources, DevInv
<1>7. UNCHANGED <<cli, stopped, overlap, given, unbound, ended, stray, crossed, raced, faults>>
  BY DEF garbageCollectTextures
<1>8. GivenInv' /\ ResInv' /\ BoundInv'
  BY <1>3, <1>5, <1>6, <1>7 DEF GivenInv, ResInv, BoundInv
<1>9. TableInv' /\ DevInv' /\ HostInv' /\ SameOwners(acc, acc')
  <2>1. dev'.nextRes \in Nat /\ stray' \subseteq ended /\ ended' = ended
        /\ acc'.nextSurf <= MaxSurfaces
    BY <1>2, <1>5, <1>6, <1>7 DEF DevInv, HostInv, StrayExplained, TableInv
  <2> QED BY <1>5, <1>6, <1>8, <2>1, SurfaceStep
<1>10. WalksKept(Threads \ {t})
  <2>1. \A u \in Threads \ {t} : thr[u].pc \in WalkPCs => Kernel \in overlap'
    <3> SUFFICES ASSUME NEW u \in Threads \ {t}, thr[u].pc \in WalkPCs PROVE Kernel \in overlap'
      OBVIOUS
    <3>1. thr[u].pc \in KernelPCs /\ thr[u].pc # "idle"
      BY DEF KernelPCs, WalkPCs
    <3>2. Owner[u] = Kernel /\ Owner[t] = Kernel
      BY <1>1, <3>1 DEF Inv, ThrInv, ThreadOK
    <3> QED BY <1>1, <1>7, <3>1, <3>2 DEF Inv, OwnInv, LoneInv
  <2> QED BY <2>1 DEF WalksKept
<1>11. FaultsNeedRace'
  BY <1>7, NoFault
<1>12. \E x : /\ thr' = [thr EXCEPT ![t] = x]
              /\ \E pc \in KernelPCs \ (Looking \cup WalkPCs) : x = [thr[t] EXCEPT !.pc = pc]
  <2>1. "finish" \in KernelPCs \ (Looking \cup WalkPCs)
    BY DEF KernelPCs, Looking, WalkPCs
  <2>2. thr' = [thr EXCEPT ![t].pc = "finish"]
    BY DEF garbageCollectTextures, Goes
  <2> QED BY ONLY <2>1, <2>2
<1>13. CliInv' /\ ThrInv' /\ OwnInv'
  BY <1>1, <1>7, <1>9, <1>10, <1>11, <1>12, KernelMoves
<1> QED BY <1>8, <1>9, <1>13 DEF Inv

\* A call counts, and an overlapping one is noted.
LEMMA CallNoted ==
    ASSUME NEW t \in Threads, Calls(t)
    PROVE  overlap \subseteq overlap'
BY DEF Calls

LEMMA submit3DCommandsInv ==
    ASSUME Inv, NEW t \in Threads, NEW c \in Live(acc), submit3DCommands(t, c) PROVE Inv'
<1>1. /\ UNCHANGED <<core, cli, thr, stopped, given, unbound, ended, forgotten, crossed, raced,
                      faults>>
      /\ stray' = stray \cup Strays(acc, c) /\ overlap \subseteq overlap'
  BY CallNoted DEF submit3DCommands
<1>2. HostInv'
  <2>1. Strays(acc, c) \subseteq ended
    BY StraysEnded DEF Inv
  <2> QED BY <1>1, <2>1 DEF Inv, core, HostInv, StrayExplained, HostContextAlive, Live
<1>3. TableInv' /\ DevInv' /\ BoundInv' /\ GivenInv' /\ ResInv' /\ SameOwners(acc, acc')
      /\ WalksKept(Threads)
  BY <1>1 DEF Inv, core, TableInv, DevInv, BoundInv, GivenInv, ResInv, SameOwners, WalksKept
<1>4. CliInv' /\ ThrInv' /\ OwnInv'
  BY <1>1, <1>3, NoThreadMoves
<1> QED BY <1>2, <1>3, <1>4 DEF Inv

\* A resource made, and lost or taken back.
LEMMA ResourceUnmade ==
    ASSUME NEW a, NEW res, NEW n \in Nat, NEW f, AccOK(a), ResOK(a, res, n, f),
           n + 1 \notin res, NEW lost \in SUBSET {n + 1}
    PROVE  ResOK(a, (res \cup {n + 1}) \ ({n + 1} \ lost), n + 1, f \cup lost)
<1> DEFINE r == n + 1
<1>1. \A s \in Surfaces(a) : a.surf[s] \in Nat
  BY DEF AccOK, IsAcc, Surfaces
<1>2. \A x \in Nat : x <= n => x <= r /\ x # r
  OBVIOUS
<1>3. \A x \in 1 .. n : x \in 1 .. r
  OBVIOUS
<1>4. r \in 1 .. r /\ lost \subseteq {r} /\ r \notin res
  OBVIOUS
<1> HIDE DEF r
<1>5. (res \cup {r}) \ ({r} \ lost) = res \cup lost
  BY <1>4
<1>6. ResOK(a, res \cup lost, r, f \cup lost)
  BY <1>1, <1>2, <1>3, <1>4 DEF ResOK
<1> QED BY <1>5, <1>6 DEF r

LEMMA create3DSurfaceInv ==
    ASSUME Inv, NEW t \in Threads, NEW c \in Live(acc), create3DSurface(t, c) PROVE Inv'
<1> DEFINE r == dev.nextRes + 1
           made == [dev EXCEPT !.nextRes = r, !.res = @ \cup {r}]
<1>1. /\ TableInv /\ AccOK(acc) /\ BoundOK(acc, crossed) /\ GivenOK(acc, given, unbound) /\ DevInv
      /\ ResOK(acc, dev.res, dev.nextRes, forgotten) /\ HostInv
  BY DEF Inv, TableInv, GivenInv, ResInv, BoundInv
<1>2. /\ UNCHANGED <<cli, thr, stopped, ended, stray, crossed, raced, faults>>
      /\ overlap \subseteq overlap' /\ acc.nextSurf < MaxSurfaces
  BY CallNoted DEF create3DSurface
<1>3. \/ \E lost \in SUBSET {r} :
            /\ dev' = deallocateResources(made, {r}, lost)
            /\ forgotten' = forgotten \cup lost
            /\ acc' \in {acc, [acc EXCEPT !.nextSurf = @ + 1]}
            /\ UNCHANGED <<given, unbound>>
      \/ \E memory \in BOOLEAN :
            /\ acc' = AddSurface(acc, c, r, memory)
            /\ dev' = made
            /\ Handed(c, {acc'.nextSurf})
            /\ UNCHANGED forgotten
  BY DEF create3DSurface
<1>4. /\ dev.nextRes \in Nat /\ r \in Nat /\ r # 0 /\ r \notin dev.res /\ dev.nextRes <= r
      /\ acc.nextSurf \in Nat /\ MaxSurfaces \in Nat /\ acc.nextSurf + 1 <= MaxSurfaces
  BY <1>1, <1>2, AcceleratorAssumption, SMTT(30) DEF DevInv, AccOK, IsAcc
<1>5. /\ DOMAIN made = DOMAIN dev /\ made.nextRes = r /\ made.res = dev.res \cup {r}
      /\ made.ctxs = dev.ctxs /\ made.next = dev.next /\ made.tracked = dev.tracked
  BY <1>1 DEF DevInv
<1> HIDE DEF made
<1>6. \A lost : dev' = deallocateResources(made, {r}, lost) =>
         /\ DOMAIN dev' = DOMAIN made /\ dev'.nextRes = made.nextRes
         /\ dev'.res = made.res \ ({r} \ lost) /\ dev'.ctxs = made.ctxs
         /\ dev'.next = made.next /\ dev'.tracked = made.tracked
  BY <1>1, <1>5 DEF deallocateResources, DevInv
<1>7. /\ DOMAIN dev' = DOMAIN dev /\ dev'.ctxs = dev.ctxs /\ dev'.next = dev.next
      /\ dev'.tracked = dev.tracked /\ dev'.nextRes = r
  BY <1>3, <1>5, <1>6
<1>8. /\ AccOK(acc') /\ BoundInv' /\ SameNames(acc, acc') /\ acc'.nextSurf <= MaxSurfaces
      /\ GivenInv' /\ ResInv' /\ Surfaces(acc) \subseteq Surfaces(acc')
  <2>1. ASSUME NEW lost \in SUBSET {r}, dev' = deallocateResources(made, {r}, lost),
               forgotten' = forgotten \cup lost,
               acc' \in {acc, [acc EXCEPT !.nextSurf = @ + 1]}, UNCHANGED <<given, unbound>>
        PROVE  /\ AccOK(acc') /\ BoundInv' /\ SameNames(acc, acc') /\ acc'.nextSurf <= MaxSurfaces
               /\ GivenInv' /\ ResInv' /\ Surfaces(acc) \subseteq Surfaces(acc')
    <3>1. dev'.res = (dev.res \cup {r}) \ ({r} \ lost)
      BY <1>5, <1>6, <2>1
    <3>2. \A a : AccOK(a) /\ ResOK(a, dev.res, dev.nextRes, forgotten) =>
                 ResOK(a, dev'.res, r, forgotten')
      <4>1. ASSUME NEW a, AccOK(a), ResOK(a, dev.res, dev.nextRes, forgotten)
            PROVE  ResOK(a, (dev.res \cup {r}) \ ({r} \ lost), r, forgotten \cup lost)
        BY <1>4, <4>1, ResourceUnmade
      <4> HIDE DEF r
      <4> QED BY <2>1, <3>1, <4>1
    <3> HIDE DEF r
    <3>3. CASE acc' = acc
      <4>1. ResInv'
        BY <1>1, <1>7, <3>2, <3>3 DEF ResInv
      <4> QED BY <1>1, <1>2, <2>1, <3>3, <4>1 DEF SameNames, GivenInv, TableInv, BoundInv
    <3>4. CASE acc' = [acc EXCEPT !.nextSurf = @ + 1]
      <4>1. /\ BoundOK(acc', crossed) /\ SameNames(acc, acc') /\ GivenOK(acc', given, unbound)
            /\ ResOK(acc', dev.res, dev.nextRes, forgotten) /\ Surfaces(acc') = Surfaces(acc)
        BY ONLY <1>1, <3>4, SurfaceIdTaken
      <4>2. AccOK(acc') /\ acc'.nextSurf = acc.nextSurf + 1
        BY <1>1, <3>4, BumpOK
      <4>3. ResInv'
        BY <1>7, <3>2, <4>1, <4>2 DEF ResInv
      <4> QED BY <1>2, <1>4, <2>1, <4>1, <4>2, <4>3 DEF GivenInv, BoundInv
    <3> QED BY <2>1, <3>3, <3>4
  <2>2. ASSUME NEW memory \in BOOLEAN, acc' = AddSurface(acc, c, r, memory), dev' = made,
               Handed(c, {acc'.nextSurf}), UNCHANGED forgotten
        PROVE  /\ AccOK(acc') /\ BoundInv' /\ SameNames(acc, acc') /\ acc'.nextSurf <= MaxSurfaces
               /\ GivenInv' /\ ResInv' /\ Surfaces(acc) \subseteq Surfaces(acc')
    <3> DEFINE b == AddSurface(acc, c, r, memory)
               s == acc.nextSurf + 1
    <3>1. SurfaceAdded(acc, b, c, s, r)
      BY <1>1, <1>4, AddSurfaceOK
    <3>2. acc' = b
      BY <2>2
    <3> HIDE DEF b, s
    <3>3. /\ AccOK(b) /\ b.nextSurf = s /\ BoundOK(b, crossed) /\ SameNames(acc, b)
          /\ GivenOK(b, given \cup {<<c, s>>}, unbound \cup ({s} \ b.ctx[c].bound))
          /\ Surfaces(acc) \subseteq Surfaces(b)
      BY <1>1, <3>1, SurfaceMade DEF SurfaceAdded
    <3>4. /\ ResOK(b, dev.res \cup {r}, r, forgotten)
          /\ dev'.res = dev.res \cup {r} /\ dev'.nextRes = r
      BY <1>1, <1>4, <1>5, <2>2, <3>1, ResourceMade
    <3>5. given' = given \cup {<<c, s>>} /\ unbound' = unbound \cup ({s} \ b.ctx[c].bound)
      BY <2>2, <3>2, <3>3 DEF Handed
    <3>6. GivenInv' /\ ResInv' /\ BoundInv'
      BY <1>2, <2>2, <3>2, <3>3, <3>4, <3>5 DEF GivenInv, ResInv, BoundInv
    <3> QED BY <1>4, <3>2, <3>3, <3>6 DEF s
  <2> QED BY <1>3, <2>1, <2>2
<1>9. TableInv' /\ DevInv' /\ HostInv' /\ SameOwners(acc, acc')
  <2>1. dev'.nextRes \in Nat /\ stray' \subseteq ended /\ ended' = ended
    BY <1>1, <1>2, <1>4, <1>7 DEF HostInv, StrayExplained
  <2> QED BY <1>7, <1>8, <2>1, SurfaceStep
<1>10. CliInv' /\ ThrInv' /\ OwnInv'
  BY <1>2, <1>8, <1>9, NoThreadMoves DEF WalksKept
<1> QED BY <1>8, <1>9, <1>10 DEF Inv

\* createFramebuffer's colour surface is taken back, its depth surface not made.
LEMMA SurfaceUndone ==
    ASSUME NEW a, NEW g, NEW u, NEW res, NEW n \in Nat, NEW f, NEW b, NEW d,
           NEW z, AccOK(a), BoundOK(a, z), GivenOK(a, g, u), ResOK(a, res, n, f),
           NEW c \in Live(a), NEW memory \in BOOLEAN,
           b = AddSurface(a, c, 0, memory), d \in failedSurface(b)
    PROVE  LET e == destroySurfaceInternal(d, c, b.nextSurf)
           IN  /\ AccOK(e) /\ BoundOK(e, z) /\ SameNames(a, e) /\ GivenOK(e, g, u)
               /\ ResOK(e, res, n, f) /\ e.nextSurf = d.nextSurf
               /\ Surfaces(a) \subseteq Surfaces(e)
<1> DEFINE s == b.nextSurf
           e == RemoveSurfaces(Unbind(d, c, s), {s})
<1>0. 0 \in Nat /\ n \in Nat
  OBVIOUS
<1>1. SurfaceAdded(a, b, c, s, 0)
  BY <1>0, AddSurfaceOK DEF SurfaceAdded
<1> HIDE DEF s
<1>2. /\ AccOK(b) /\ BoundOK(b, z) /\ SameNames(a, b) /\ Live(b) = Live(a)
      /\ \A x \in Live(a) \ {c} : b.ctx[x] = a.ctx[x]
      /\ a.ctx[c].bound \subseteq b.ctx[c].bound
      /\ b.ctx[c].bound \subseteq a.ctx[c].bound \cup {s}
      /\ s = a.nextSurf + 1 /\ Surfaces(b) = Surfaces(a) \cup {s} /\ s \notin Surfaces(a)
      /\ b.surf[s] = 0
      /\ \A x \in Surfaces(a) : b.surf[x] = a.surf[x]
  BY <1>1, SurfaceMade, ZenonT(30) DEF SurfaceAdded
<1>3. /\ AccOK(d) /\ d.surf = b.surf /\ SameCtx(b, d) /\ d.nextSurf \in Nat
      /\ d.nextSurf = b.nextSurf \/ d.nextSurf = b.nextSurf + 1
  <2>1. CASE d = b
    BY <1>2, <2>1 DEF SameCtx, AccOK, IsAcc
  <2>2. CASE d = [b EXCEPT !.nextSurf = @ + 1]
    <3>1. AccOK(d) /\ d.surf = b.surf /\ SameCtx(b, d) /\ d.nextSurf = b.nextSurf + 1
      BY <1>2, <2>2, BumpOK
    <3> QED BY <3>1 DEF AccOK, IsAcc
  <2> QED BY <2>1, <2>2 DEF failedSurface
<1> HIDE DEF e
<1>4. /\ Live(d) = Live(a) /\ Surfaces(d) = Surfaces(b) /\ d.ctx = b.ctx
      /\ s \in Surfaces(d) /\ c \in Live(d)
  BY <1>2, <1>3 DEF SameCtx, Live, Surfaces
<1>5. /\ AccOK(e) /\ SameNames(d, e)
      /\ e.nextSurf = d.nextSurf /\ Surfaces(e) = Surfaces(d) \ {s}
      /\ \A x \in Surfaces(e) : e.surf[x] = d.surf[x]
      /\ e.ctx[c].bound = d.ctx[c].bound \ {s}
      /\ \A x \in Live(d) \ {c} : e.ctx[x].bound = d.ctx[x].bound
  BY ONLY <1>3, <1>4, SurfaceFreed DEF e
<1>6. SameNames(a, e) /\ Live(e) = Live(a)
  BY <1>2, <1>3, <1>4, <1>5 DEF SameNames, SameCtx
<1>7. /\ Surfaces(e) = Surfaces(a) /\ \A x \in Surfaces(a) : e.surf[x] = a.surf[x]
  BY <1>2, <1>3, <1>4, <1>5
<1>8. \A x \in Live(a) : /\ e.ctx[x].bound \subseteq a.ctx[x].bound
                         /\ a.ctx[x].bound \cap Surfaces(a) \subseteq e.ctx[x].bound
  <2> TAKE x \in Live(a)
  <2>1. CASE x = c
    BY ONLY <1>2, <1>4, <1>5, <2>1
  <2>2. CASE x # c
    BY ONLY <1>2, <1>4, <1>5, <2>2
  <2> QED BY <2>1, <2>2
<1>9. BoundOK(e, z) /\ GivenOK(e, g, u)
  BY <1>6, <1>7, <1>8 DEF BoundOK, GivenOK
<1>10. ResOK(e, res, n, f)
  BY <1>7 DEF ResOK
<1> QED BY <1>5, <1>6, <1>7, <1>9, <1>10 DEF e, s, destroySurfaceInternal

LEMMA createFramebufferInv ==
    ASSUME Inv, NEW t \in Threads, NEW c \in Live(acc), createFramebuffer(t, c) PROVE Inv'
<1>1. /\ TableInv /\ AccOK(acc) /\ BoundOK(acc, crossed) /\ GivenOK(acc, given, unbound) /\ DevInv
      /\ ResOK(acc, dev.res, dev.nextRes, forgotten) /\ HostInv
  BY DEF Inv, TableInv, GivenInv, ResInv, BoundInv
<1>2. /\ UNCHANGED <<dev, cli, thr, stopped, ended, stray, forgotten, crossed, raced, faults>>
      /\ overlap \subseteq overlap' /\ acc.nextSurf + 2 <= MaxSurfaces
  BY CallNoted DEF createFramebuffer
<1>3. /\ dev.nextRes \in Nat /\ 0 \in Nat /\ acc.nextSurf \in Nat /\ MaxSurfaces \in Nat
      /\ acc.nextSurf <= MaxSurfaces /\ acc.nextSurf + 1 <= MaxSurfaces
      /\ acc.nextSurf + 1 + 1 <= MaxSurfaces
  BY <1>1, <1>2, AcceleratorAssumption DEF DevInv, AccOK, IsAcc
<1>4. /\ AccOK(acc') /\ BoundOK(acc', crossed) /\ SameNames(acc, acc')
      /\ acc'.nextSurf <= MaxSurfaces /\ GivenOK(acc', given', unbound')
      /\ ResOK(acc', dev.res, dev.nextRes, forgotten) /\ Surfaces(acc) \subseteq Surfaces(acc')
  <2>1. CASE acc' = acc /\ UNCHANGED <<given, unbound>>
    BY <1>1, <1>3, <2>1 DEF SameNames
  <2>2. CASE acc' = [acc EXCEPT !.nextSurf = @ + 1] /\ UNCHANGED <<given, unbound>>
    <3>1. /\ BoundOK(acc', crossed) /\ SameNames(acc, acc') /\ GivenOK(acc', given, unbound)
          /\ ResOK(acc', dev.res, dev.nextRes, forgotten) /\ Surfaces(acc') = Surfaces(acc)
      BY ONLY <1>1, <2>2, SurfaceIdTaken
    <3>2. AccOK(acc') /\ acc'.nextSurf = acc.nextSurf + 1
      BY <1>1, <2>2, BumpOK
    <3> QED BY <1>3, <2>2, <3>1, <3>2
  <2>3. ASSUME NEW memory \in BOOLEAN, NEW a, a = AddSurface(acc, c, 0, memory)
        PROVE  /\ AccOK(a) /\ BoundOK(a, crossed) /\ SameNames(acc, a) /\ c \in Live(a)
               /\ a.nextSurf = acc.nextSurf + 1 /\ Surfaces(acc) \subseteq Surfaces(a)
               /\ GivenOK(a, given \cup {<<c, a.nextSurf>>},
                          unbound \cup ({a.nextSurf} \ a.ctx[c].bound))
               /\ ResOK(a, dev.res, dev.nextRes, forgotten)
    <3>1. SurfaceAdded(acc, a, c, acc.nextSurf + 1, 0)
      BY <1>1, <1>3, <2>3, AddSurfaceOK
    <3>2. /\ AccOK(a) /\ c \in Live(a) /\ a.nextSurf = acc.nextSurf + 1
          /\ Surfaces(acc) \subseteq Surfaces(a)
      BY <3>1 DEF SurfaceAdded
    <3>3. SurfaceAdded(acc, a, c, a.nextSurf, 0)
      BY <3>1, <3>2
    <3>4. /\ BoundOK(a, crossed) /\ SameNames(acc, a)
          /\ GivenOK(a, given \cup {<<c, a.nextSurf>>},
                     unbound \cup ({a.nextSurf} \ a.ctx[c].bound))
      BY <1>1, <3>3, SurfaceMade
    <3>5. ResOK(a, dev.res, dev.nextRes, forgotten)
      BY <1>1, <1>3, <3>3, ResourceMade
    <3> QED BY <3>2, <3>4, <3>5
  <2>4. ASSUME NEW memory \in BOOLEAN, NEW a, a = AddSurface(acc, c, 0, memory),
               acc' = a, Handed(c, {a.nextSurf})
        PROVE  /\ AccOK(acc') /\ BoundOK(acc', crossed) /\ SameNames(acc, acc')
               /\ acc'.nextSurf <= MaxSurfaces /\ GivenOK(acc', given', unbound')
               /\ ResOK(acc', dev.res, dev.nextRes, forgotten)
               /\ Surfaces(acc) \subseteq Surfaces(acc')
    <3>1. given' = given \cup {<<c, a.nextSurf>>}
          /\ unbound' = unbound \cup ({a.nextSurf} \ a.ctx[c].bound)
      BY <2>4 DEF Handed
    <3> QED BY <1>3, <2>3, <2>4, <3>1
  <2>5. ASSUME NEW memory \in BOOLEAN, NEW a, a = AddSurface(acc, c, 0, memory),
               NEW d \in failedSurface(a), acc' = destroySurfaceInternal(d, c, a.nextSurf),
               UNCHANGED <<given, unbound>>
        PROVE  /\ AccOK(acc') /\ BoundOK(acc', crossed) /\ SameNames(acc, acc')
               /\ acc'.nextSurf <= MaxSurfaces /\ GivenOK(acc', given', unbound')
               /\ ResOK(acc', dev.res, dev.nextRes, forgotten)
               /\ Surfaces(acc) \subseteq Surfaces(acc')
    <3>1. c \in Live(acc) /\ memory \in BOOLEAN /\ d \in failedSurface(a)
      OBVIOUS
    <3>2. LET e == destroySurfaceInternal(d, c, a.nextSurf)
          IN  /\ AccOK(e) /\ BoundOK(e, crossed) /\ SameNames(acc, e) /\ GivenOK(e, given, unbound)
              /\ ResOK(e, dev.res, dev.nextRes, forgotten) /\ e.nextSurf = d.nextSurf
              /\ Surfaces(acc) \subseteq Surfaces(e)
      BY ONLY <1>1, <1>3, <2>5, <3>1, SurfaceUndone
    <3>3. d.nextSurf = acc.nextSurf + 1 \/ d.nextSurf = acc.nextSurf + 1 + 1
      <4>1. AccOK(a) /\ a.nextSurf = acc.nextSurf + 1
        BY <2>3, <2>5
      <4>2. CASE d = a
        BY <4>1, <4>2
      <4>3. CASE d = [a EXCEPT !.nextSurf = @ + 1]
        BY <4>1, <4>3, BumpOK
      <4> QED BY <4>2, <4>3 DEF failedSurface
    <3> QED BY <1>3, <2>5, <3>2, <3>3
  <2>6. ASSUME NEW memory \in BOOLEAN, NEW a, a = AddSurface(acc, c, 0, memory),
               NEW again \in BOOLEAN, acc' = AddSurface(a, c, 0, again),
               Handed(c, {a.nextSurf, a.nextSurf + 1})
        PROVE  /\ AccOK(acc') /\ BoundOK(acc', crossed) /\ SameNames(acc, acc')
               /\ acc'.nextSurf <= MaxSurfaces /\ GivenOK(acc', given', unbound')
               /\ ResOK(acc', dev.res, dev.nextRes, forgotten)
               /\ Surfaces(acc) \subseteq Surfaces(acc')
    <3> DEFINE b == AddSurface(a, c, 0, again)
               s == a.nextSurf + 1
               g == given \cup {<<c, a.nextSurf>>}
               u == unbound \cup ({a.nextSurf} \ a.ctx[c].bound)
    <3>1. /\ AccOK(a) /\ BoundOK(a, crossed) /\ SameNames(acc, a) /\ c \in Live(a)
          /\ a.nextSurf = acc.nextSurf + 1 /\ Surfaces(acc) \subseteq Surfaces(a)
          /\ GivenOK(a, g, u)
          /\ ResOK(a, dev.res, dev.nextRes, forgotten)
      BY <2>3, <2>6
    <3>2. SurfaceAdded(a, b, c, s, 0)
      BY <1>3, <3>1, AddSurfaceOK
    <3> HIDE DEF b, s, g, u
    <3>3. /\ AccOK(b) /\ b.nextSurf = s /\ BoundOK(b, crossed) /\ SameNames(a, b)
          /\ Surfaces(a) \subseteq Surfaces(b)
          /\ a.ctx[c].bound \subseteq b.ctx[c].bound
          /\ b.ctx[c].bound \subseteq a.ctx[c].bound \cup {s}
          /\ GivenOK(b, g \cup {<<c, s>>}, u \cup ({s} \ b.ctx[c].bound))
      BY <3>1, <3>2, SurfaceMade DEF SurfaceAdded
    <3>4. ResOK(b, dev.res, dev.nextRes, forgotten)
      BY <1>3, <3>1, <3>2, ResourceMade
    <3>5. g \cup {<<c, s>>} = given'
      BY <2>6 DEF g, s, Handed
    <3>6. u \cup ({s} \ b.ctx[c].bound) = unbound'
      <4>1. a.nextSurf # s
        BY <1>3, <3>1 DEF s
      <4>2. unbound' = unbound \cup ({a.nextSurf, s} \ b.ctx[c].bound)
        BY <2>6 DEF b, s, Handed
      <4> QED BY <3>3, <4>1, <4>2 DEF u
    <3>7. SameNames(acc, b) /\ Surfaces(acc) \subseteq Surfaces(b)
      BY <3>1, <3>3 DEF SameNames
    <3>8. acc' = b /\ s = acc.nextSurf + 1 + 1
      BY <2>6, <3>1 DEF b, s
    <3> QED BY <1>3, <3>3, <3>4, <3>5, <3>6, <3>7, <3>8
  <2> QED BY <2>1, <2>2, <2>4, <2>5, <2>6
          DEF createFramebuffer, createSurfaceInternal, failedSurface
<1>5. GivenInv' /\ ResInv' /\ BoundInv' /\ WalksKept(Threads)
  BY <1>2, <1>4 DEF GivenInv, ResInv, BoundInv, WalksKept
<1>6. TableInv' /\ DevInv' /\ HostInv' /\ SameOwners(acc, acc')
  <2>1. /\ dev' = dev /\ dev.nextRes \in Nat /\ stray' \subseteq ended /\ ended' = ended
    BY <1>1, <1>2, <1>3 DEF HostInv, StrayExplained
  <2> QED BY <1>4, <1>5, <2>1, SurfaceStep
<1>7. CliInv' /\ ThrInv' /\ OwnInv'
  BY <1>2, <1>5, <1>6, NoThreadMoves
<1> QED BY <1>4, <1>5, <1>6, <1>7 DEF Inv

\* A surface freed whose resource stays on the device.
LEMMA ResourceForgotten ==
    ASSUME NEW a, NEW b, NEW s \in Surfaces(a), NEW res, NEW n \in Nat, NEW f, AccOK(a),
           ResOK(a, res, n, f), Surfaces(b) = Surfaces(a) \ {s},
           \A x \in Surfaces(b) : b.surf[x] = a.surf[x]
    PROVE  ResOK(b, res, n, f \cup ({a.surf[s]} \ {0}))
<1> DEFINE r == a.surf[s]
           h == f \cup ({r} \ {0})
<1>1. r \in Nat /\ r <= n /\ \A x \in Surfaces(b) : b.surf[x] # 0 => b.surf[x] # r
  BY DEF AccOK, IsAcc, Surfaces, ResOK
<1>2. res = ({b.surf[x] : x \in Surfaces(b)} \ {0}) \cup h
  <2>1. res = ({a.surf[x] : x \in Surfaces(a)} \ {0}) \cup f
    BY DEF ResOK
  <2>2. {a.surf[x] : x \in Surfaces(a)} = {b.surf[x] : x \in Surfaces(b)} \cup {r}
    OBVIOUS
  <2> QED BY <2>1, <2>2
<1> HIDE DEF r
<1>3. \A x, y \in Surfaces(b) : b.surf[x] = b.surf[y] /\ b.surf[x] # 0 => x = y
  BY DEF ResOK
<1>4. \A x \in Surfaces(b) : b.surf[x] <= n /\ b.surf[x] \notin h
  <2>1. \A x \in Surfaces(a) : a.surf[x] <= n /\ a.surf[x] \notin f
    BY DEF ResOK
  <2> QED BY <1>1, <2>1
<1>5. h \subseteq 1 .. n
  BY <1>1 DEF ResOK
<1> QED BY <1>2, <1>3, <1>4, <1>5 DEF ResOK, r

LEMMA destroy3DSurfaceInv ==
    ASSUME Inv, NEW t \in Threads, NEW c \in Live(acc), NEW s \in {0} \cup Surfaces(acc),
           destroy3DSurface(t, c, s)
    PROVE  Inv'
<1>1. /\ TableInv /\ AccOK(acc) /\ BoundOK(acc, crossed) /\ GivenOK(acc, given, unbound) /\ DevInv
      /\ ResOK(acc, dev.res, dev.nextRes, forgotten) /\ HostInv
  BY DEF Inv, TableInv, GivenInv, ResInv, BoundInv
<1>2. /\ UNCHANGED <<dev, cli, thr, stopped, unbound, ended, stray, raced, faults>>
      /\ overlap \subseteq overlap' /\ Calls(t) /\ Owner[t] = Kernel
  BY CallNoted DEF destroy3DSurface
<1>3. CASE s \notin Surfaces(acc)
  <2>1. UNCHANGED <<core, cli, thr, stopped, given, unbound, ended, stray, forgotten, crossed,
                    raced, faults>>
    BY <1>2, <1>3 DEF destroy3DSurface, core
  <2>2. /\ TableInv' /\ DevInv' /\ HostInv' /\ BoundInv' /\ GivenInv' /\ ResInv'
        /\ SameOwners(acc, acc') /\ \A T : WalksKept(T)
    BY <2>1, TablesAlone
  <2>3. CliInv' /\ ThrInv' /\ OwnInv'
    BY <1>2, <2>1, <2>2, NoThreadMoves
  <2> QED BY <2>2, <2>3 DEF Inv
<1>4. CASE s \in Surfaces(acc)
  <2>1. /\ acc' = RemoveSurfaces(Unbind(acc, c, s), {s})
        /\ given' = {p \in given : p[2] # s}
        /\ forgotten' = forgotten \cup ({acc.surf[s]} \ {0})
        /\ crossed' = IF \E d \in Live(acc) \ {c} : s \in acc.ctx[d].bound
                      THEN crossed \cup {s} ELSE crossed
    BY <1>4 DEF destroy3DSurface
  <2>2. LET b == RemoveSurfaces(Unbind(acc, c, s), {s})
        IN  /\ AccOK(b) /\ SameNames(acc, b)
            /\ b.nextSurf = acc.nextSurf /\ Surfaces(b) = Surfaces(acc) \ {s}
            /\ \A x \in Surfaces(b) : b.surf[x] = acc.surf[x]
            /\ b.ctx[c].bound = acc.ctx[c].bound \ {s}
            /\ \A x \in Live(acc) \ {c} : b.ctx[x].bound = acc.ctx[x].bound
    BY <1>1, <1>4, SurfaceFreed
  <2>3. /\ AccOK(acc') /\ SameNames(acc, acc') /\ Live(acc') = Live(acc)
        /\ acc'.nextSurf = acc.nextSurf /\ Surfaces(acc') = Surfaces(acc) \ {s}
        /\ \A x \in Surfaces(acc') : acc'.surf[x] = acc.surf[x]
        /\ acc'.ctx[c].bound = acc.ctx[c].bound \ {s}
        /\ \A x \in Live(acc) \ {c} : acc'.ctx[x].bound = acc.ctx[x].bound
    BY <2>1, <2>2 DEF SameNames
  <2>4. GivenOK(acc', given', unbound)
    <3>1. \A x \in Live(acc) : acc.ctx[x].bound \ {s} \subseteq acc'.ctx[x].bound
      BY ONLY <2>3
    <3> QED BY <1>1, <2>1, <2>3, <3>1 DEF GivenOK
  <2>5. BoundOK(acc', crossed')
    <3> SUFFICES ASSUME NEW x \in Live(acc)
                 PROVE  acc'.ctx[x].bound \subseteq Surfaces(acc') \cup crossed'
      BY <2>3 DEF BoundOK
    <3>1. acc.ctx[x].bound \subseteq Surfaces(acc) \cup crossed /\ crossed \subseteq crossed'
      BY <1>1, <2>1 DEF BoundOK
    <3>2. CASE x = c
      BY ONLY <2>3, <3>1, <3>2
    <3>3. CASE x # c
      <4>1. acc'.ctx[x].bound = acc.ctx[x].bound
        BY <2>3, <3>3
      <4>2. s \in acc.ctx[x].bound => s \in crossed'
        BY <2>1, <3>3
      <4> QED BY ONLY <2>3, <3>1, <4>1, <4>2
    <3> QED BY <3>2, <3>3
  <2>6. ResOK(acc', dev.res, dev.nextRes, forgotten')
    BY <1>1, <1>4, <2>1, <2>3, ResourceForgotten DEF DevInv
  <2>7. GivenInv' /\ ResInv' /\ BoundInv'
    BY <1>2, <2>4, <2>5, <2>6 DEF GivenInv, ResInv, BoundInv
  <2>8. TableInv' /\ DevInv' /\ HostInv' /\ SameOwners(acc, acc')
    <3>1. /\ dev' = dev /\ dev.nextRes \in Nat /\ stray' \subseteq ended /\ ended' = ended
          /\ acc'.nextSurf <= MaxSurfaces
      BY <1>1, <1>2, <2>3 DEF HostInv, StrayExplained, DevInv, TableInv
    <3> QED BY <2>3, <2>7, <3>1, SurfaceStep
  <2>9. WalksKept(Threads)
    <3>1. Kernel \in overlap' \/ \A u \in Threads : Owner[u] = Kernel => thr[u].pc = "idle"
      BY <1>2, SoleCall
    <3>2. \A u \in Threads : thr[u].pc \in WalkPCs => Owner[u] = Kernel /\ thr[u].pc # "idle"
      BY DEF Inv, ThrInv, ThreadOK, KernelPCs, WalkPCs
    <3> QED BY <3>1, <3>2 DEF WalksKept
  <2>10. CliInv' /\ ThrInv' /\ OwnInv'
    BY <1>2, <2>8, <2>9, NoThreadMoves
  <2> QED BY <2>7, <2>8, <2>10 DEF Inv
<1> QED BY <1>3, <1>4

-----------------------------------------------------------------------------
(* The calls of the clients.                                               *)

\* The steps of a call on Idle.
LEMMA IdleRec == Idle \in ThrRec /\ Idle.pc = "idle" /\ Idle.c = 0
BY DEF Idle, ThrRec

\* Which steps belong to whom.
LEMMA Steps ==
    /\ {"create", "created", "destroy", "destroyed", "close", "closed"} = ClientPCs
    /\ ClientPCs \cap KernelPCs = {} /\ Looking \cup WalkPCs \subseteq KernelPCs
    /\ "idle" \notin ClientPCs /\ "idle" \notin KernelPCs
BY DEF ClientPCs, KernelPCs, Looking, WalkPCs

\* A client's thread goes on to x, where the contexts stay.
LEMMA ThreadSet ==
    ASSUME Inv, SameOwners(acc, acc'), UNCHANGED <<stopped, raced, faults>>,
           overlap \subseteq overlap', \A T : WalksKept(T),
           NEW t \in Threads, NEW x \in ThrRec, thr' = [thr EXCEPT ![t] = x],
           x.pc \notin KernelPCs, x.c \in {0} \cup 2 .. acc.nextCtx,
           x.pc \in ClientPCs => Owner[t] \in Clients,
           x.pc = "destroy" /\ x.c \in Live(acc) => acc.ctx[x.c].owner = Owner[t]
    PROVE  ThrInv'
<1>1. thr'[t] = x
  BY DEF Inv, ThrInv
<1>2. ThreadOK(t)'
  <2>1. x.pc \notin Looking /\ x.pc \notin WalkPCs
    BY Steps
  <2> QED BY <1>1, <2>1 DEF ThreadOK, SameOwners, Live
<1>3. FaultsNeedRace'
  BY NoFault
<1> QED BY <1>2, <1>3, OneThread

LEMMA sCreate3DContextInv == ASSUME Inv, NEW t \in Threads, sCreate3DContext(t) PROVE Inv'
<1> DEFINE x == [thr[t] EXCEPT !.pc = "create"]
<1>0. Inv /\ ThrInv /\ OwnInv
  BY DEF Inv
<1>1. /\ UNCHANGED <<core, cli, stopped, given, unbound, ended, stray, forgotten, crossed,
                      raced, faults>>
      /\ Calls(t) /\ overlap \subseteq overlap' /\ Owner[t] \in Clients
      /\ thr' = [thr EXCEPT ![t] = x] /\ ~cli[Owner[t]].closed /\ ~cli[Owner[t]].has
      /\ thr[t].pc = "idle"
  BY CallNoted DEF sCreate3DContext, ghosts, marks, IsClient, Mine, Goes, Calls
<1>2. /\ TableInv' /\ DevInv' /\ HostInv' /\ BoundInv' /\ GivenInv' /\ ResInv'
      /\ SameOwners(acc, acc') /\ \A T : WalksKept(T)
  BY <1>0, <1>1, TablesAlone
<1>3. x \in ThrRec /\ x.pc = "create" /\ x.c \in {0} \cup 2 .. acc.nextCtx
  BY <1>0, Steps DEF ThrInv, ThreadOK, ThrRec
<1>4. thr'[t] = x /\ \A u \in Threads \ {t} : thr'[u] = thr[u]
  BY <1>0, <1>1 DEF ThrInv, ThreadOK
<1> HIDE DEF x
<1>5. ThrInv'
  BY <1>0, <1>1, <1>2, <1>3, Steps, ThreadSet
<1>6. CliInv'
  BY <1>0, <1>1, <1>2 DEF Inv, CliInv, SameOwners
<1>7. OwnInv'
  <2>1. LeakedContextExplained'
    <3>1. \A u \in Threads : thr[u].pc = "created" => thr'[u].pc = "created"
      BY <1>1, <1>4
    <3> QED BY <1>0, <1>1, <1>2, <3>1 DEF OwnInv, LoneInv, LeakedContextExplained, SameOwners
  <2>2. Owner[t] \notin overlap' => \A u \in Threads : Owner[u] = Owner[t] => thr[u].pc = "idle"
    BY <1>1, SoleCall
  <2> QED BY <1>0, <1>1, <1>2, <1>3, <1>4, <2>1, <2>2 DEF OwnInv, LoneInv, SameOwners
<1> QED BY <1>2, <1>5, <1>6, <1>7 DEF Inv

LEMMA sDestroy3DContextInv == ASSUME Inv, NEW t \in Threads, sDestroy3DContext(t) PROVE Inv'
<1> DEFINE x == [Idle EXCEPT !.pc = "destroy", !.c = cli[Owner[t]].id]
<1>0. Inv /\ ThrInv /\ OwnInv /\ CliInv
  BY DEF Inv
<1>1. /\ UNCHANGED <<core, cli, stopped, given, unbound, ended, stray, forgotten, crossed,
                      raced, faults>>
      /\ Calls(t) /\ overlap \subseteq overlap' /\ Owner[t] \in Clients
      /\ thr' = [thr EXCEPT ![t] = x] /\ thr[t].pc = "idle"
  BY CallNoted DEF sDestroy3DContext, ghosts, marks, IsClient, Mine, Calls, GoesOn
<1>2. /\ TableInv' /\ DevInv' /\ HostInv' /\ BoundInv' /\ GivenInv' /\ ResInv'
      /\ SameOwners(acc, acc') /\ \A T : WalksKept(T)
  BY <1>0, <1>1, TablesAlone
<1>3. /\ x.pc = "destroy" /\ x.c = cli[Owner[t]].id
      /\ x.c \in {0} \cup 2 .. acc.nextCtx
      /\ x.c \in Live(acc) => acc.ctx[x.c].owner = Owner[t]
  BY <1>0, <1>1 DEF CliInv, Idle
<1>4. x \in ThrRec
  BY <1>0, <1>1, Steps DEF CliInv, Idle, ThrRec
<1>5. thr'[t] = x /\ \A u \in Threads \ {t} : thr'[u] = thr[u]
  BY <1>0, <1>1 DEF ThrInv, ThreadOK
<1> HIDE DEF x
<1>6. ThrInv'
  BY <1>0, <1>1, <1>2, <1>3, <1>4, Steps, ThreadSet
<1>7. CliInv'
  BY <1>0, <1>1, <1>2 DEF CliInv, SameOwners
<1>8. OwnInv'
  <2>1. LeakedContextExplained'
    <3>1. \A u \in Threads : thr[u].pc = "created" => thr'[u].pc = "created"
      BY <1>1, <1>5
    <3> QED BY <1>0, <1>1, <1>2, <3>1 DEF OwnInv, LoneInv, LeakedContextExplained, SameOwners
  <2>2. Owner[t] \notin overlap' => \A u \in Threads : Owner[u] = Owner[t] => thr[u].pc = "idle"
    BY <1>1, SoleCall
  <2> QED BY <1>0, <1>1, <1>2, <1>3, <1>5, <2>1, <2>2 DEF OwnInv, LoneInv, SameOwners
<1> QED BY <1>2, <1>6, <1>7, <1>8 DEF Inv

LEMMA clientCloseInv == ASSUME Inv, NEW t \in Threads, clientClose(t) PROVE Inv'
<1> DEFINE k == Owner[t]
<1>0. Inv /\ ThrInv /\ OwnInv /\ CliInv
  BY DEF Inv
<1>1. /\ UNCHANGED <<core, stopped, given, unbound, ended, stray, forgotten, crossed,
                      raced, faults>>
      /\ Calls(t) /\ overlap \subseteq overlap' /\ k \in Clients
      /\ ~cli[k].closed /\ thr[t].pc = "idle"
  BY CallNoted DEF clientClose, ghosts, marks, IsClient, Mine, Calls
<1>2. /\ TableInv' /\ DevInv' /\ HostInv' /\ BoundInv' /\ GivenInv' /\ ResInv'
      /\ SameOwners(acc, acc') /\ \A T : WalksKept(T)
  BY <1>0, <1>1, TablesAlone
<1>3. k \notin overlap' => \A u \in Threads : Owner[u] = k => thr[u].pc = "idle"
  BY <1>1, SoleCall
<1>4. CASE cli[k].has
  <2> DEFINE x == [thr[t] EXCEPT !.pc = "close"]
  <2>1. thr' = [thr EXCEPT ![t] = x] /\ cli' = cli
    BY <1>4 DEF clientClose, Mine, Goes
  <2>2. x \in ThrRec /\ x.pc = "close" /\ x.c \in {0} \cup 2 .. acc.nextCtx
    BY <1>0, Steps DEF ThrInv, ThreadOK, ThrRec
  <2>3. thr'[t] = x /\ \A u \in Threads \ {t} : thr'[u] = thr[u]
    BY <1>0, <2>1 DEF ThrInv, ThreadOK
  <2> HIDE DEF x
  <2>4. ThrInv'
    BY <1>0, <1>1, <1>2, <2>1, <2>2, Steps, ThreadSet
  <2>5. CliInv'
    BY <1>0, <1>2, <2>1 DEF CliInv, SameOwners
  <2>6. LeakedContextExplained'
    <3>1. \A u \in Threads : thr[u].pc = "created" => thr'[u].pc = "created"
      BY <1>1, <2>3
    <3> QED BY <1>0, <1>1, <1>2, <2>1, <3>1 DEF OwnInv, LoneInv, LeakedContextExplained, SameOwners
  <2>7. OwnInv'
    BY <1>0, <1>1, <1>2, <1>3, <2>1, <2>2, <2>3, <2>6 DEF OwnInv, LoneInv, SameOwners
  <2> QED BY <1>2, <2>4, <2>5, <2>7 DEF Inv
<1>5. CASE ~cli[k].has
  <2>1. cli' = [cli EXCEPT ![k].closed = TRUE] /\ thr' = thr
    BY <1>5 DEF clientClose, Mine
  <2>2. /\ cli' \in [Clients -> [has : BOOLEAN, id : Nat, closed : BOOLEAN]]
        /\ \A j \in Clients : /\ cli'[j].id = cli[j].id /\ cli'[j].has = cli[j].has
                              /\ j # k => cli'[j].closed = cli[j].closed
    BY <1>0, <2>1 DEF CliInv
  <2>3. CliInv'
    BY <1>0, <1>2, <2>2 DEF CliInv, SameOwners
  <2>4. ThrInv'
    <3>1. FaultsNeedRace'
      BY <1>0, <1>1, NoFault
    <3>2. \A u \in Threads : ThreadOK(u)'
      <4>1. Threads \in SUBSET Threads /\ \A u \in Threads : thr'[u] = thr[u]
        BY <2>1
      <4> QED BY <1>0, <1>1, <1>2, <4>1, OtherThread
    <3> QED BY <1>0, <2>1, <3>1, <3>2 DEF ThrInv
  <2>5. \A c \in Live(acc) : k \notin overlap' => acc.ctx[c].owner # k
    BY <1>0, <1>1, <1>3, <1>5 DEF OwnInv, LoneInv, LeakedContextExplained
  <2>6. LeakedContextExplained'
    BY <1>0, <1>1, <1>2, <2>1, <2>2, <2>5 DEF OwnInv, LoneInv, LeakedContextExplained, SameOwners
  <2>7. OwnInv'
    BY <1>0, <1>1, <1>2, <1>3, <2>1, <2>2, <2>6 DEF OwnInv, LoneInv, SameOwners
  <2> QED BY <1>2, <2>3, <2>4, <2>7 DEF Inv
<1> QED BY <1>4, <1>5

LEMMA haveContextInv == ASSUME Inv, NEW t \in Threads, haveContext(t) PROVE Inv'
<1> DEFINE k == Owner[t]
<1>0. Inv /\ ThrInv /\ OwnInv /\ CliInv
  BY DEF Inv
<1>1. /\ UNCHANGED <<core, stopped, overlap, given, unbound, ended, stray, forgotten, crossed,
                      raced, faults>>
      /\ thr[t].pc = "created" /\ thr' = [thr EXCEPT ![t] = Idle]
      /\ cli' = [cli EXCEPT ![k].has = TRUE]
  BY DEF haveContext, history, ghosts, marks, Returns
<1>2. /\ TableInv' /\ DevInv' /\ HostInv' /\ BoundInv' /\ GivenInv' /\ ResInv'
      /\ SameOwners(acc, acc') /\ \A T : WalksKept(T)
  BY <1>0, <1>1, TablesAlone
<1>3. thr'[t] = Idle /\ \A u \in Threads \ {t} : thr'[u] = thr[u]
  BY <1>0, <1>1 DEF ThrInv, ThreadOK
<1>4. k \in Clients
  BY <1>0, <1>1, Steps DEF ThrInv, ThreadOK
<1>5. /\ cli' \in [Clients -> [has : BOOLEAN, id : Nat, closed : BOOLEAN]] /\ cli'[k].has
      /\ \A j \in Clients : /\ cli'[j].id = cli[j].id /\ cli'[j].closed = cli[j].closed
                            /\ j # k => cli'[j].has = cli[j].has
  BY <1>0, <1>1, <1>4 DEF CliInv
<1>6. CliInv'
  BY <1>0, <1>2, <1>5 DEF CliInv, SameOwners
<1>7. ThrInv'
  BY <1>0, <1>1, <1>2, IdleRec, Steps, ThreadSet
<1>8. LeakedContextExplained'
  <2>1. \A u \in Threads : thr[u].pc = "created" => thr'[u].pc = "created" \/ Owner[u] = k
    BY <1>3
  <2> QED BY <1>0, <1>1, <1>2, <1>5, <2>1 DEF OwnInv, LoneInv, LeakedContextExplained, SameOwners
<1>9. OwnInv'
  BY <1>0, <1>1, <1>2, <1>3, <1>5, <1>8, IdleRec DEF OwnInv, LoneInv, SameOwners
<1> QED BY <1>2, <1>6, <1>7, <1>9 DEF Inv

LEMMA forgetContextInv == ASSUME Inv, NEW t \in Threads, forgetContext(t) PROVE Inv'
<1> DEFINE k == Owner[t]
           y == [has |-> FALSE, id |-> 0, closed |-> cli[k].closed \/ thr[t].pc = "closed"]
<1>0. Inv /\ ThrInv /\ OwnInv /\ CliInv
  BY DEF Inv
<1>1. /\ UNCHANGED <<core, stopped, overlap, given, unbound, ended, stray, forgotten, crossed,
                      raced, faults>>
      /\ thr[t].pc \in {"destroyed", "closed"} /\ thr' = [thr EXCEPT ![t] = Idle]
      /\ cli' = [cli EXCEPT ![k] = [has |-> FALSE, id |-> 0,
                                    closed |-> @.closed \/ thr[t].pc = "closed"]]
  BY DEF forgetContext, history, ghosts, marks, Returns
<1>2. /\ TableInv' /\ DevInv' /\ HostInv' /\ BoundInv' /\ GivenInv' /\ ResInv'
      /\ SameOwners(acc, acc') /\ \A T : WalksKept(T)
  BY <1>0, <1>1, TablesAlone
<1>3. thr'[t] = Idle /\ \A u \in Threads \ {t} : thr'[u] = thr[u]
  BY <1>0, <1>1 DEF ThrInv, ThreadOK
<1>4. k \in Clients
  BY <1>0, <1>1, Steps DEF ThrInv, ThreadOK
<1>5. cli' = [cli EXCEPT ![k] = y]
  BY <1>0, <1>1, <1>4 DEF CliInv
<1>6. y \in [has : BOOLEAN, id : Nat, closed : BOOLEAN] /\ y.id = 0 /\ ~y.has
  BY <1>0, <1>4 DEF CliInv
<1> HIDE DEF y
<1>7. /\ cli' \in [Clients -> [has : BOOLEAN, id : Nat, closed : BOOLEAN]] /\ cli'[k] = y
      /\ \A j \in Clients : j # k => cli'[j] = cli[j]
  BY <1>0, <1>4, <1>5, <1>6 DEF CliInv
<1>8. 0 \notin Live(acc)
  BY <1>0 DEF Inv, TableInv, AccOK
<1>9. CliInv'
  BY <1>0, <1>2, <1>6, <1>7, <1>8 DEF CliInv, SameOwners
<1>10. ThrInv'
  BY <1>0, <1>1, <1>2, IdleRec, Steps, ThreadSet
<1>11. k \notin overlap => \A c \in Live(acc) : acc.ctx[c].owner # k
  BY <1>0, <1>1, <1>4 DEF OwnInv, LoneInv
<1>12. LeakedContextExplained'
  <2>1. \A u \in Threads : thr[u].pc = "created" => thr'[u].pc = "created"
    BY <1>1, <1>3
  <2> QED BY <1>0, <1>1, <1>2, <1>7, <1>11, <2>1 DEF OwnInv, LoneInv, LeakedContextExplained, SameOwners
<1>13. OwnInv'
  <2>1. \A u \in Threads \ {t} : Owner[u] = k /\ k \notin overlap => thr[u].pc = "idle"
    BY <1>0, <1>1, <1>4 DEF OwnInv, LoneInv
  <2> QED BY <1>0, <1>1, <1>2, <1>3, <1>4, <1>7, <1>12, <2>1, IdleRec DEF OwnInv, LoneInv, SameOwners
<1> QED BY <1>2, <1>9, <1>10, <1>13 DEF Inv

-----------------------------------------------------------------------------
(* Contexts come and go.                                                   *)

\* What a thread knows outlasts a context more.
LEMMA ContextsGrow ==
    ASSUME Inv, NEW u \in Threads, thr'[u] = thr[u], UNCHANGED <<stopped, raced, faults>>,
           overlap \subseteq overlap', Surfaces(acc') = Surfaces(acc),
           \A y \in {0} \cup 2 .. acc.nextCtx :
              /\ y \in {0} \cup 2 .. acc'.nextCtx
              /\ y \in Live(acc') <=> y \in Live(acc),
           \A y \in Live(acc) : acc'.ctx[y].owner = acc.ctx[y].owner
    PROVE  ThreadOK(u)'
<1> DEFINE new == Live(acc')
<1>1. ThreadOK(u) /\ \A y \in Live(acc) : y \in 2 .. acc.nextCtx
  BY DEF Inv, ThrInv, TableInv, AccOK
<1>2. thr[u].pc \in Looking =>
         /\ thr[u].held \in {0} \cup 2 .. acc'.nextCtx
         /\ thr[u].held # 0 => Walking(u) /\ (thr[u].held \in new \/ raced)
  BY <1>1 DEF ThreadOK
<1>3. thr[u].c \in {0} \cup 2 .. acc'.nextCtx /\ (thr[u].c \in new <=> thr[u].c \in Live(acc))
  BY <1>1 DEF ThreadOK
<1>4. thr[u].pc \in WalkPCs =>
         thr[u].held \in {0} \cup Surfaces(acc') \/ Kernel \in overlap' \/ stopped'
  BY <1>1 DEF ThreadOK
<1>5. thr[u].pc \in KernelPCs =>
          /\ Owner[u] = Kernel
          /\ \/ thr[u].c \in new /\ acc'.ctx[thr[u].c].owner = Kernel
             \/ Kernel \in overlap' \/ stopped' \/ {"freedEntry", "movedPool"} \cap faults # {}
  BY <1>1, <1>3 DEF ThreadOK
<1>6. /\ thr[u].pc \in ClientPCs => Owner[u] \in Clients
      /\ thr[u].pc = "destroy" /\ thr[u].c \in new => acc'.ctx[thr[u].c].owner = Owner[u]
  BY <1>1, <1>3 DEF ThreadOK
<1> QED BY <1>2, <1>3, <1>4, <1>5, <1>6 DEF ThreadOK, Walking, Live, Surfaces

\* create3DContext that fails: a device context is left behind or not made, an
\* id may be lost.
LEMMA NoContextMade ==
    ASSUME Inv, NEW t \in Threads, Owner[t] = Kernel \/ thr[t].pc = "create",
           UNCHANGED <<cli, stopped, given, unbound, ended, stray, forgotten, crossed,
                     raced, faults>>,
           overlap \subseteq overlap', thr' = [thr EXCEPT ![t] = Idle],
           acc' = acc \/ acc' = [acc EXCEPT !.nextCtx = @ + 1],
           acc.nextCtx < MaxContexts, dev.next < MaxDeviceContexts,
           DOMAIN dev' = DOMAIN dev, dev'.res = dev.res, dev'.nextRes = dev.nextRes,
           dev'.tracked = dev.tracked, dev'.next = dev.next + 1,
           dev.ctxs \subseteq dev'.ctxs, dev'.ctxs \subseteq dev.ctxs \cup {dev.next + 1}
    PROVE  Inv'
<1>0. /\ Inv /\ TableInv /\ DevInv /\ HostInv /\ GivenInv /\ ResInv /\ CliInv /\ ThrInv /\ OwnInv
      /\ AccOK(acc)
  BY DEF Inv, TableInv
<1>1. /\ AccOK(acc') /\ acc'.ctx = acc.ctx /\ acc'.surf = acc.surf /\ acc'.ctxPool = acc.ctxPool
      /\ acc'.nextSurf = acc.nextSurf /\ acc'.nextCtx \in Nat
      /\ acc.nextCtx <= acc'.nextCtx /\ acc'.nextCtx <= MaxContexts
  <2>1. acc.nextCtx \in Nat /\ MaxContexts \in Nat
    BY <1>0, AcceleratorAssumption DEF AccOK, IsAcc
  <2>2. CASE acc' = acc
    BY <1>0, <2>1, <2>2
  <2>3. CASE acc' = [acc EXCEPT !.nextCtx = @ + 1]
    <3>1. LET b == [acc EXCEPT !.nextCtx = @ + 1]
          IN  /\ AccOK(b) /\ SameSurf(acc, b) /\ b.nextCtx = acc.nextCtx + 1
              /\ b.ctx = acc.ctx /\ b.ctxPool = acc.ctxPool
      BY <1>0, BumpOK
    <3> QED BY <2>1, <2>3, <3>1 DEF SameSurf
  <2> QED BY <2>2, <2>3
<1>2. Live(acc') = Live(acc) /\ Surfaces(acc') = Surfaces(acc)
  BY <1>1 DEF Live, Surfaces
<1>3. acc.nextCtx \in Nat /\ \A x \in 2 .. acc.nextCtx : x \in 2 .. acc'.nextCtx
  BY <1>0, <1>1 DEF AccOK, IsAcc
<1>4. TableInv'
  BY <1>0, <1>1 DEF TableInv
<1>5. DevInv'
  <2>1. dev.next \in Nat /\ MaxDeviceContexts \in Nat
    BY <1>0, AcceleratorAssumption DEF DevInv
  <2>2. dev'.next \in 1 .. MaxDeviceContexts /\ dev'.ctxs \subseteq 2 .. dev'.next
    BY <1>0, <2>1 DEF DevInv
  <2> QED BY <1>0, <2>2 DEF DevInv
<1>6. HostInv'
  BY <1>0, <1>1, <1>2 DEF HostInv, HostContextAlive, StrayExplained
<1>7. BoundInv' /\ GivenInv' /\ ResInv'
  BY <1>0, <1>1, <1>2 DEF Inv, BoundInv, BoundOK, GivenInv, GivenOK, ResInv, ResOK
<1>8. CliInv'
  BY <1>0, <1>1, <1>2, <1>3 DEF CliInv
<1>9. thr'[t] = Idle /\ \A u \in Threads \ {t} : thr'[u] = thr[u]
  BY <1>0 DEF ThrInv
<1>10. ThrInv'
  <2>1. thr' \in [Threads -> ThrRec] /\ thr'[t].pc = "idle" /\ thr'[t].c = 0
    BY <1>0, <1>9, IdleRec DEF ThrInv
  <2>2. FaultsNeedRace'
    BY <1>0, NoFault
  <2>3. ThreadOK(t)'
    BY <2>1, Steps DEF ThreadOK
  <2>4. \A u \in Threads \ {t} : ThreadOK(u)'
    BY <1>0, <1>1, <1>2, <1>3, <1>9, ContextsGrow
  <2> QED BY <2>1, <2>2, <2>3, <2>4 DEF ThrInv
<1>11. OwnInv'
  <2>1. \A u \in Threads : Owner[u] \in Clients /\ thr[u].pc = "created" => thr'[u].pc = "created"
    BY <1>9, AcceleratorAssumption
  <2>2. LeakedContextExplained'
    BY <1>0, <1>1, <1>2, <2>1 DEF OwnInv, LeakedContextExplained
  <2>3. \A u \in Threads : thr'[u] = Idle \/ thr'[u] = thr[u]
    BY <1>9
  <2> QED BY <1>0, <1>1, <1>2, <2>2, <2>3, IdleRec DEF OwnInv, LoneInv
<1> QED BY <1>4, <1>5, <1>6, <1>7, <1>8, <1>10, <1>11 DEF Inv

\* create3DContext that succeeds.
LEMMA ContextMade ==
    ASSUME Inv, NEW t \in Threads,
           UNCHANGED <<stopped, given, unbound, ended, stray, forgotten, crossed,
                     raced, faults>>,
           overlap \subseteq overlap', acc.nextCtx < MaxContexts, dev.next < MaxDeviceContexts,
           dev' = createRenderContext(dev), acc' = AddContext(acc, dev'.next, Owner[t]),
           \/ /\ thr[t].pc = "create" /\ cli' = [cli EXCEPT ![Owner[t]].id = acc'.nextCtx]
              /\ Goes(t, "created")
           \/ Owner[t] = Kernel /\ Returns(t) /\ UNCHANGED cli
    PROVE  Inv'
<1> DEFINE c == acc.nextCtx + 1
           k == Owner[t]
<1>0. /\ Inv /\ TableInv /\ DevInv /\ HostInv /\ GivenInv /\ ResInv /\ CliInv /\ ThrInv /\ OwnInv
      /\ AccOK(acc) /\ BoundOK(acc, crossed)
  BY DEF Inv, TableInv, BoundInv
<1>1. /\ DOMAIN dev' = DOMAIN dev /\ dev'.next = dev.next + 1 /\ dev'.tracked = dev.tracked
      /\ dev'.ctxs = dev.ctxs \cup {dev.next + 1} /\ dev'.res = dev.res
      /\ dev'.nextRes = dev.nextRes
  BY <1>0 DEF createRenderContext, DevInv
<1>2. /\ dev.next \in Nat /\ MaxDeviceContexts \in Nat /\ dev.next + 1 \in Nat
      /\ MaxContexts \in Nat /\ acc.nextCtx \in Nat /\ k \in Clients \cup {Kernel}
  BY <1>0, AcceleratorAssumption DEF DevInv, AccOK, IsAcc
<1>3. /\ AccOK(acc') /\ SameSurf(acc, acc')
      /\ acc'.nextCtx = c /\ Live(acc') = Live(acc) \cup {c} /\ c \notin Live(acc)
      /\ acc'.ctx[c] = NewContext(dev.next + 1, k)
      /\ \A x \in Live(acc) : acc'.ctx[x] = acc.ctx[x]
      /\ Len(acc'.ctxPool) >= Len(acc.ctxPool)
  <2>1. acc' = AddContext(acc, dev.next + 1, k)
    BY <1>1
  <2>2. LET b == AddContext(acc, dev.next + 1, k)
        IN  /\ AccOK(b) /\ SameSurf(acc, b)
            /\ b.nextCtx = c /\ Live(b) = Live(acc) \cup {c} /\ c \notin Live(acc)
            /\ b.ctx[c] = NewContext(dev.next + 1, k)
            /\ \A x \in Live(acc) : b.ctx[x] = acc.ctx[x]
            /\ Len(b.ctxPool) >= Len(acc.ctxPool)
    BY <1>0, <1>2, AddContextOK
  <2> QED BY <2>1, <2>2
<1>4. /\ acc'.ctx[c].gpu = dev.next + 1 /\ acc'.ctx[c].born = dev.next + 1
      /\ acc'.ctx[c].owner = k /\ acc'.ctx[c].bound = {}
  BY <1>3 DEF NewContext
<1>5. /\ c \in Nat /\ c \in 2 .. c /\ c <= MaxContexts
      /\ \A x \in 2 .. acc.nextCtx : x \in 2 .. c /\ x # c
      /\ c # 0
  <2>1. acc.nextCtx # 0
    BY <1>0 DEF AccOK, IsAcc
  <2> QED BY <1>2, <2>1
<1>6. Surfaces(acc') = Surfaces(acc) /\ acc'.surf = acc.surf /\ acc'.nextSurf = acc.nextSurf
  BY <1>3 DEF SameSurf, Surfaces
<1> HIDE DEF c, k
<1>7. TableInv'
  BY <1>0, <1>3, <1>5, <1>6 DEF TableInv
<1>8. DevInv'
  <2>1. dev'.next \in 1 .. MaxDeviceContexts /\ dev'.ctxs \subseteq 2 .. dev'.next
    BY <1>0, <1>1, <1>2 DEF DevInv
  <2> QED BY <1>0, <1>1, <2>1 DEF DevInv
<1>9. HostInv'
  <2>1. \A x \in Live(acc) : acc.ctx[x].born # dev.next + 1
    BY <1>0, <1>2 DEF HostInv, HostContextAlive, DevInv
  <2> QED BY <1>0, <1>1, <1>3, <1>4, <2>1 DEF HostInv, HostContextAlive, StrayExplained
<1>10. BoundInv'
  BY <1>0, <1>3, <1>4, <1>6 DEF BoundInv, BoundOK
<1>11. GivenInv' /\ ResInv'
  <2>1. GivenInv'
    BY <1>0, <1>3, <1>4, <1>6 DEF GivenInv, GivenOK
  <2>2. ResInv'
    BY <1>0, <1>1, <1>6 DEF ResInv, ResOK
  <2> QED BY <2>1, <2>2
<1>12. /\ thr[t].pc = "create" => k \in Clients
       /\ k = Kernel => k \notin Clients
  BY <1>0, Steps, AcceleratorAssumption DEF ThrInv, ThreadOK, k
<1>13. CliInv'
  <2>1. CASE thr[t].pc = "create" /\ cli' = [cli EXCEPT ![k].id = acc'.nextCtx]
    <3>1. /\ cli' \in [Clients -> [has : BOOLEAN, id : Nat, closed : BOOLEAN]]
          /\ cli'[k].id = c /\ \A j \in Clients : j # k => cli'[j] = cli[j]
      BY <1>0, <1>3, <1>5, <1>12, <2>1, SMTT(30) DEF CliInv
    <3>2. \A j \in Clients : /\ cli'[j].id \in {0} \cup 2 .. acc'.nextCtx
                             /\ cli'[j].id \in Live(acc') => acc'.ctx[cli'[j].id].owner = j
      <4> TAKE j \in Clients
      <4>1. CASE j = k
        BY ONLY <1>3, <1>4, <1>5, <3>1, <4>1
      <4>2. CASE j # k
        <5>1. cli'[j].id = cli[j].id /\ cli[j].id # c
              /\ cli[j].id \in {0} \cup 2 .. acc.nextCtx
          BY <1>0, <1>5, <3>1, <4>2 DEF CliInv
        <5> QED BY <1>0, <1>3, <1>5, <5>1 DEF CliInv
      <4> QED BY <4>1, <4>2
    <3> QED BY <3>1, <3>2 DEF CliInv, Live
  <2>2. CASE cli' = cli
    BY <1>0, <1>3, <1>4, <1>5, <2>2 DEF CliInv
  <2> QED BY <2>1, <2>2 DEF k
<1> DEFINE x == IF thr[t].pc = "create" THEN [thr[t] EXCEPT !.pc = "created"] ELSE Idle
<1>14. /\ thr' = [thr EXCEPT ![t] = x] /\ x \in ThrRec /\ x.c \in {0} \cup 2 .. acc.nextCtx
       /\ x.pc \in {"created", "idle"} /\ (x.pc = "created" <=> thr[t].pc = "create")
  <2>1. thr[t] \in ThrRec /\ thr[t].c \in {0} \cup 2 .. acc.nextCtx
    BY <1>0 DEF ThrInv, ThreadOK
  <2>2. CASE thr[t].pc = "create"
    BY <1>12, <2>1, <2>2, Steps DEF Goes, ThrRec, k
  <2>3. CASE thr[t].pc # "create"
    BY <2>3, IdleRec DEF Returns
  <2> QED BY <2>2, <2>3
<1> HIDE DEF x
<1>15. thr'[t] = x /\ \A u \in Threads \ {t} : thr'[u] = thr[u]
  BY <1>0, <1>14 DEF ThrInv
<1>16. ThrInv'
  <2>1. thr' \in [Threads -> ThrRec]
    <3>1. thr \in [Threads -> ThrRec] /\ x \in ThrRec /\ thr' = [thr EXCEPT ![t] = x]
      BY <1>0, <1>14 DEF ThrInv
    <3> QED BY ONLY <3>1, t \in Threads
  <2>2. FaultsNeedRace'
    BY <1>0, NoFault
  <2>3. ThreadOK(t)'
    <3>1. x.pc \notin KernelPCs /\ x.pc \notin Looking /\ x.pc # "destroy" /\ x.pc \notin WalkPCs
      BY <1>14, Steps
    <3>2. x.pc \in ClientPCs => Owner[t] \in Clients
      BY <1>12, <1>14, Steps DEF k
    <3>3. x.c \in {0} \cup 2 .. acc'.nextCtx
      BY <1>3, <1>5, <1>14
    <3> QED BY <1>15, <3>1, <3>2, <3>3 DEF ThreadOK
  <2>4. \A u \in Threads \ {t} : ThreadOK(u)'
    <3>1. /\ \A y \in {0} \cup 2 .. acc.nextCtx :
                y \in {0} \cup 2 .. acc'.nextCtx /\ (y \in Live(acc') <=> y \in Live(acc))
          /\ \A y \in Live(acc) : acc'.ctx[y].owner = acc.ctx[y].owner
      BY <1>3, <1>5
    <3> QED BY <1>0, <1>6, <1>15, <3>1, ContextsGrow
  <2> QED BY <2>1, <2>2, <2>3, <2>4 DEF ThrInv
<1>17. OwnInv'
  <2>0. LoneInv'
    <3>1. \A u \in Threads : thr[u].pc = "idle" => thr'[u].pc = "idle"
      BY <1>14, <1>15
    <3> QED BY <1>0, <3>1 DEF OwnInv, LoneInv
  <2>1. CASE k = Kernel
    <3>1. cli' = cli /\ \A u \in Threads : Owner[u] \in Clients => thr'[u] = thr[u]
      BY <1>12, <1>15, <2>1 DEF k
    <3>2. LeakedContextExplained'
      BY <1>0, <1>3, <1>4, <1>12, <2>1, <3>1 DEF OwnInv, LoneInv, LeakedContextExplained
    <3> QED BY <1>0, <1>3, <1>4, <1>12, <2>0, <2>1, <3>1, <3>2 DEF OwnInv
  <2>2. CASE k # Kernel
    <3>1. thr[t].pc = "create" /\ k \in Clients /\ x.pc = "created"
          /\ cli' = [cli EXCEPT ![k].id = acc'.nextCtx]
      BY <1>12, <1>14, <2>2 DEF k
    <3>2. /\ cli'[k].id = c /\ cli'[k].has = cli[k].has /\ cli'[k].closed = cli[k].closed
          /\ \A j \in Clients : j # k => cli'[j] = cli[j]
      BY <1>0, <1>3, <3>1 DEF CliInv
    <3>3. k \notin overlap =>
            /\ \A u \in Threads \ {t} : Owner[u] = k => thr[u].pc = "idle"
            /\ ~cli[k].has /\ ~cli[k].closed
      BY <1>0, <3>1 DEF OwnInv, LoneInv, k
    <3>4. k \notin overlap => \A y \in Live(acc) : acc.ctx[y].owner # k
      BY <1>0, <3>1, <3>3 DEF OwnInv, LoneInv, LeakedContextExplained, k
    <3>5. LeakedContextExplained'
      <4> SUFFICES ASSUME NEW y \in Live(acc'), acc'.ctx[y].owner \in Clients \ overlap'
                   PROVE  LET j == acc'.ctx[y].owner
                          IN  /\ cli'[j].id = y /\ ~cli'[j].closed
                              /\ \/ cli'[j].has
                                 \/ \E u \in Threads : Owner[u] = j /\ thr'[u].pc = "created"
        BY DEF LeakedContextExplained, Live
      <4>1. CASE y = c
        BY <1>4, <1>15, <3>1, <3>2, <3>3, <4>1 DEF k
      <4>2. CASE y # c
        <5>1. y \in Live(acc) /\ acc'.ctx[y].owner = acc.ctx[y].owner /\ acc.ctx[y].owner # k
          BY <1>3, <3>4, <4>2
        <5>2. \A u \in Threads : Owner[u] # k => thr'[u] = thr[u]
          BY <1>15 DEF k
        <5> QED BY <1>0, <3>2, <5>1, <5>2 DEF OwnInv, LoneInv, LeakedContextExplained
      <4> QED BY <4>1, <4>2
    <3>6. \A u \in Threads : Owner[u] \in Clients \ overlap' =>
            /\ thr'[u].pc = "create" => ~cli'[Owner[u]].has /\ ~cli'[Owner[u]].closed
            /\ thr'[u].pc = "destroy" => thr'[u].c = cli'[Owner[u]].id
            /\ thr'[u].pc \in {"destroyed", "closed"} =>
                  \A y \in Live(acc') : acc'.ctx[y].owner # Owner[u]
      <4> TAKE u \in Threads
      <4> HAVE Owner[u] \in Clients \ overlap'
      <4>1. CASE u = t
        BY <1>14, <1>15, <3>1, <4>1
      <4>2. CASE u # t /\ Owner[u] = k
        BY <1>15, <3>3, <4>2
      <4>3. CASE u # t /\ Owner[u] # k
        BY <1>0, <1>3, <1>4, <1>15, <3>2, <4>3 DEF OwnInv, LoneInv
      <4> QED BY <4>1, <4>2, <4>3
    <3> QED BY <2>0, <3>5, <3>6 DEF OwnInv, Live
  <2> QED BY <2>1, <2>2
<1> QED BY <1>7, <1>8, <1>9, <1>10, <1>11, <1>13, <1>16, <1>17 DEF Inv

LEMMA create3DContextInv == ASSUME Inv, NEW t \in Threads, create3DContext(t) PROVE Inv'
<1>0. DevInv /\ ThrInv
  BY DEF Inv
<1>1. /\ UNCHANGED <<stopped, given, unbound, ended, stray, forgotten, crossed,
                     raced, faults>>
      /\ overlap \subseteq overlap' /\ acc.nextCtx < MaxContexts /\ dev.next < MaxDeviceContexts
      /\ Owner[t] = Kernel \/ thr[t].pc = "create"
  BY CallNoted DEF create3DContext, ghosts, marks
<1>2. /\ IsClient(t) <=> thr[t].pc = "create"
      /\ IsClient(t) <=> Owner[t] # Kernel
  BY <1>0, <1>1, Steps, AcceleratorAssumption DEF IsClient, ThrInv, ThreadOK
<1>3. CASE dev' = [dev EXCEPT !.next = @ + 1] /\ Returns(t) /\ UNCHANGED <<acc, cli>>
  <2>1. /\ DOMAIN dev' = DOMAIN dev /\ dev'.res = dev.res /\ dev'.nextRes = dev.nextRes
        /\ dev'.tracked = dev.tracked /\ dev'.next = dev.next + 1 /\ dev'.ctxs = dev.ctxs
    BY <1>0, <1>3 DEF DevInv
  <2> QED BY <1>1, <1>3, <2>1, NoContextMade DEF Returns
<1>4. CASE LET d == createRenderContext(dev) IN
           /\ dev' = destroyRenderContexts(d, {d.next})
           /\ \/ UNCHANGED acc
              \/ Slots(acc.ctxPool) = {} /\ acc' = [acc EXCEPT !.nextCtx = @ + 1]
           /\ Returns(t)
           /\ UNCHANGED cli
  <2> DEFINE d == createRenderContext(dev)
  <2>1. /\ DOMAIN d = DOMAIN dev /\ d.res = dev.res /\ d.nextRes = dev.nextRes
        /\ d.tracked = dev.tracked /\ d.next = dev.next + 1
        /\ d.ctxs = dev.ctxs \cup {dev.next + 1}
    BY <1>0 DEF DevInv, createRenderContext
  <2>2. dev' = destroyRenderContexts(d, {d.next})
    BY <1>4
  <2> HIDE DEF d
  <2>3. /\ DOMAIN dev' = DOMAIN d /\ dev'.res = d.res /\ dev'.nextRes = d.nextRes
        /\ dev'.tracked = d.tracked \ {d.next} /\ dev'.next = d.next
        /\ dev'.ctxs = d.ctxs \ ({d.next} \cap d.tracked)
    BY <1>0, <2>1, <2>2 DEF DevInv, destroyRenderContexts
  <2>4. /\ DOMAIN dev' = DOMAIN dev /\ dev'.res = dev.res /\ dev'.nextRes = dev.nextRes
        /\ dev'.tracked = dev.tracked /\ dev'.next = dev.next + 1
        /\ dev'.ctxs = dev.ctxs \cup {dev.next + 1}
    BY <1>0, <2>1, <2>3 DEF DevInv
  <2> QED BY <1>1, <1>4, <2>4, NoContextMade DEF Returns
<1>5. CASE /\ dev' = createRenderContext(dev)
           /\ acc' = AddContext(acc, dev'.next, Owner[t])
           /\ IF IsClient(t)
              THEN cli' = [cli EXCEPT ![Owner[t]].id = acc'.nextCtx] /\ Goes(t, "created")
              ELSE Returns(t) /\ UNCHANGED cli
  BY <1>1, <1>2, <1>5, ContextMade
<1> QED BY <1>3, <1>4, <1>5 DEF create3DContext

\* destroyRenderContext finds nothing in m_contexts: the device keeps them all.
LEMMA DeviceKeeps ==
    ASSUME DevInv, NEW S, dev' = destroyRenderContexts(dev, S)
    PROVE  /\ DOMAIN dev' = DOMAIN dev /\ dev'.ctxs = dev.ctxs /\ dev'.tracked = dev.tracked
           /\ dev'.next = dev.next /\ dev'.res = dev.res /\ dev'.nextRes = dev.nextRes
BY DEF DevInv, destroyRenderContexts

\* The contexts of S are gone, the others as they were.
OnlyGone(a, b, S) ==
    /\ Live(b) = Live(a) \ S /\ b.nextCtx = a.nextCtx /\ Len(b.ctxPool) = Len(a.ctxPool)
    /\ \A x \in Live(b) : b.ctx[x] = a.ctx[x]

\* destroyContextInternal: a given surface whose context goes is given no more.
LEMMA ContextsGone ==
    ASSUME Inv, NEW S \in SUBSET Live(acc), Destroyed(S),
           UNCHANGED <<unbound, ended, stray, forgotten, crossed>>
    PROVE  /\ TableInv' /\ DevInv' /\ HostInv' /\ BoundInv' /\ GivenInv' /\ ResInv'
           /\ OnlyGone(acc, acc', S) /\ Races(S) /\ Surfaces(acc') = Surfaces(acc)
<1>0. /\ TableInv /\ DevInv /\ HostInv /\ GivenInv /\ ResInv /\ AccOK(acc)
      /\ BoundOK(acc, crossed)
  BY DEF Inv, TableInv, BoundInv
<1>1. /\ AccOK(acc') /\ SameSurf(acc, acc') /\ OnlyGone(acc, acc', S)
  <2>1. acc' = RemoveContexts(acc, S)
    BY DEF Destroyed
  <2>2. LET b == RemoveContexts(acc, S)
        IN  /\ AccOK(b) /\ SameSurf(acc, b)
            /\ b.nextCtx = acc.nextCtx /\ Live(b) = Live(acc) \ S
            /\ \A x \in Live(b) : b.ctx[x] = acc.ctx[x]
            /\ Len(b.ctxPool) = Len(acc.ctxPool)
    BY <1>0, RemoveContextsOK
  <2> QED BY <2>1, <2>2 DEF OnlyGone
<1>2. /\ Surfaces(acc') = Surfaces(acc) /\ acc'.surf = acc.surf /\ acc'.nextSurf = acc.nextSurf
      /\ Live(acc') = Live(acc) \ S /\ \A x \in Live(acc') : acc'.ctx[x] = acc.ctx[x]
      /\ acc'.nextCtx = acc.nextCtx
  BY <1>1 DEF SameSurf, Surfaces, OnlyGone
<1>3. /\ DOMAIN dev' = DOMAIN dev /\ dev'.ctxs = dev.ctxs /\ dev'.tracked = dev.tracked
      /\ dev'.next = dev.next /\ dev'.res = dev.res /\ dev'.nextRes = dev.nextRes
  BY <1>0, DeviceKeeps DEF Destroyed
<1>4. given' = {p \in given : p[1] \notin S}
  BY DEF Destroyed
<1>5. TableInv'
  BY <1>0, <1>1, <1>2 DEF TableInv
<1>6. DevInv'
  BY <1>0, <1>3 DEF DevInv
<1>7. HostInv'
  BY <1>0, <1>2, <1>3 DEF HostInv, HostContextAlive, StrayExplained
<1>8. BoundInv'
  BY <1>0, <1>2 DEF BoundInv, BoundOK
<1>9. GivenInv'
  <2>1. GivenOK(acc, given, unbound) /\ unbound' = unbound
    BY <1>0 DEF GivenInv
  <2>2. GivenOK(acc', given', unbound')
    BY ONLY <1>2, <1>4, <2>1 DEF GivenOK
  <2> QED BY <2>2 DEF GivenInv
<1>10. ResInv'
  BY <1>0, <1>2, <1>3 DEF ResInv, ResOK
<1>11. Races(S)
  BY DEF Destroyed
<1> QED BY <1>1, <1>2, <1>5, <1>6, <1>7, <1>8, <1>9, <1>10, <1>11

\* What a thread knows when contexts of others go.
LEMMA ThreadLoses ==
    ASSUME Inv, NEW S \in SUBSET Live(acc), OnlyGone(acc, acc', S), Races(S),
           Surfaces(acc') = Surfaces(acc) \/ stopped',
           stopped => stopped', overlap \subseteq overlap', UNCHANGED faults,
           NEW u \in Threads, thr'[u] = thr[u],
           thr[u].pc \in KernelPCs =>
              (\A y \in S : acc.ctx[y].owner # Kernel) \/ Kernel \in overlap' \/ stopped'
    PROVE  ThreadOK(u)'
<1> DEFINE new == Live(acc')
<1>1. ThreadOK(u) /\ acc'.nextCtx = acc.nextCtx
  BY DEF Inv, ThrInv, OnlyGone
<1>2. /\ new = Live(acc) \ S /\ \A y \in new : acc'.ctx[y] = acc.ctx[y]
  BY DEF OnlyGone
<1>3. raced => raced'
  BY DEF Races
<1>4. thr[u].pc \in Looking =>
         /\ thr[u].held \in {0} \cup 2 .. acc'.nextCtx
         /\ thr[u].held # 0 => Walking(u) /\ (thr[u].held \in new \/ raced')
  <2> SUFFICES ASSUME thr[u].pc \in Looking, thr[u].held # 0, thr[u].held \notin new
               PROVE  raced'
    BY <1>1 DEF ThreadOK
  <2>1. Walking(u) /\ (thr[u].held \in S \/ raced)
    BY <1>1, <1>2 DEF ThreadOK
  <2> QED BY <2>1 DEF Races
<1>5. thr[u].pc \in WalkPCs =>
         thr[u].held \in {0} \cup Surfaces(acc') \/ Kernel \in overlap' \/ stopped'
  BY <1>1 DEF ThreadOK
<1>6. thr[u].pc \in KernelPCs =>
          /\ Owner[u] = Kernel
          /\ \/ thr[u].c \in new /\ acc'.ctx[thr[u].c].owner = Kernel
             \/ Kernel \in overlap' \/ stopped' \/ {"freedEntry", "movedPool"} \cap faults # {}
  <2> SUFFICES ASSUME thr[u].pc \in KernelPCs, thr[u].c \in Live(acc),
                      acc.ctx[thr[u].c].owner = Kernel
               PROVE  \/ thr[u].c \in new /\ acc'.ctx[thr[u].c].owner = Kernel
                      \/ Kernel \in overlap' \/ stopped'
    BY <1>1 DEF ThreadOK
  <2> QED BY <1>2
<1>7. /\ thr[u].c \in {0} \cup 2 .. acc'.nextCtx
      /\ thr[u].pc \in ClientPCs => Owner[u] \in Clients
      /\ thr[u].pc = "destroy" /\ thr[u].c \in new => acc'.ctx[thr[u].c].owner = Owner[u]
  BY <1>1, <1>2 DEF ThreadOK
<1> QED BY <1>4, <1>5, <1>6, <1>7 DEF ThreadOK, Walking, Live, Surfaces

LEMMA destroy3DContextInv == ASSUME Inv, NEW t \in Threads, destroy3DContext(t) PROVE Inv'
<1> DEFINE k == Owner[t]
           i == IF thr[t].pc = "destroy" THEN thr[t].c ELSE cli[k].id
           S == {i} \cap Live(acc)
<1>0. Inv /\ ThrInv /\ OwnInv /\ CliInv
  BY DEF Inv
<1>1. /\ UNCHANGED <<cli, stopped, overlap, unbound, ended, stray, forgotten, crossed,
                    faults>>
      /\ thr[t].pc \in {"destroy", "close"} /\ Destroyed(S)
      /\ IF thr[t].pc = "close" THEN Goes(t, "closed")
         ELSE IF S # {} THEN Goes(t, "destroyed") ELSE Returns(t)
  BY DEF destroy3DContext, Mine
<1>2. /\ TableInv' /\ DevInv' /\ HostInv' /\ BoundInv' /\ GivenInv' /\ ResInv'
      /\ OnlyGone(acc, acc', S) /\ Races(S) /\ Surfaces(acc') = Surfaces(acc)
  <2>1. S \in SUBSET Live(acc)
    OBVIOUS
  <2> HIDE DEF S
  <2> QED BY <1>0, <1>1, <2>1, ContextsGone
<1>3. k \in Clients /\ k # Kernel
  BY <1>0, <1>1, Steps, AcceleratorAssumption DEF ThrInv, ThreadOK
<1>4. \A y \in S : acc.ctx[y].owner = k
  BY <1>0, <1>1, <1>3 DEF ThrInv, ThreadOK, CliInv
<1>5. k \notin overlap => \A y \in Live(acc) : acc.ctx[y].owner = k => y \in S
  <2>1. k \notin overlap => i = cli[k].id
    BY <1>0, <1>1, <1>3 DEF OwnInv
  <2> HIDE DEF i
  <2> QED BY <1>0, <1>3, <2>1 DEF OwnInv, LeakedContextExplained
<1>own. S \in SUBSET Live(acc)
  OBVIOUS
<1> HIDE DEF S
<1>6. PICK x \in ThrRec : /\ thr' = [thr EXCEPT ![t] = x] /\ x.c \in {0} \cup 2 .. acc.nextCtx
                          /\ x.pc \in {"idle", "destroyed", "closed"}
  <2>1. thr[t] \in ThrRec /\ thr[t].c \in {0} \cup 2 .. acc.nextCtx
    BY <1>0 DEF ThrInv, ThreadOK
  <2>2. CASE Goes(t, "closed")
    <3>1. [thr[t] EXCEPT !.pc = "closed"] \in ThrRec
      BY <2>1, Steps DEF ThrRec
    <3> QED BY <2>1, <2>2, <3>1 DEF Goes, ThrRec
  <2>3. CASE Goes(t, "destroyed")
    <3>1. [thr[t] EXCEPT !.pc = "destroyed"] \in ThrRec
      BY <2>1, Steps DEF ThrRec
    <3> QED BY <2>1, <2>3, <3>1 DEF Goes, ThrRec
  <2>4. CASE Returns(t)
    BY <2>4, IdleRec DEF Returns
  <2> QED BY <1>1, <2>2, <2>3, <2>4
<1>7. thr'[t] = x /\ \A u \in Threads \ {t} : thr'[u] = thr[u]
  BY <1>0, <1>6 DEF ThrInv
<1>8. CliInv'
  BY <1>0, <1>1, <1>2 DEF CliInv, OnlyGone
<1>9. ThrInv'
  <2>1. thr' \in [Threads -> ThrRec]
    BY <1>0, <1>6 DEF ThrInv
  <2>2. FaultsNeedRace'
    BY <1>0, <1>1, <1>2, NoFault DEF Races
  <2>3. ThreadOK(t)'
    <3>1. x.pc \notin KernelPCs /\ x.pc \notin Looking /\ x.pc # "destroy" /\ x.pc \notin WalkPCs
      BY <1>6, Steps
    <3> QED BY <1>2, <1>3, <1>6, <1>7, <3>1 DEF ThreadOK, OnlyGone
  <2>4. \A u \in Threads \ {t} : ThreadOK(u)'
    BY <1>0, <1>1, <1>2, <1>3, <1>4, <1>7, <1>own, ThreadLoses
  <2> QED BY <2>1, <2>2, <2>3, <2>4 DEF ThrInv
<1>10. OwnInv'
  <2>0. k \notin overlap => \A u \in Threads \ {t} : Owner[u] = k => thr[u].pc = "idle"
    BY <1>0, <1>1, <1>3 DEF OwnInv, LoneInv
  <2>1. k \notin overlap => \A y \in Live(acc') : acc'.ctx[y].owner # k
    BY <1>2, <1>5 DEF OnlyGone
  <2>2. LeakedContextExplained'
    <3>1. \A u \in Threads : Owner[u] # k => thr'[u] = thr[u]
      BY <1>7
    <3>2. OwnInv /\ overlap' = overlap /\ cli' = cli
      BY <1>0, <1>1
    <3> QED BY ONLY <1>2, <2>1, <3>1, <3>2 DEF OwnInv, LeakedContextExplained, OnlyGone, Live
  <2>3. LoneInv'
    <3>1. \A u \in Threads : thr[u].pc = "idle" => thr'[u].pc = "idle"
      BY <1>1, <1>7
    <3> QED BY <1>0, <1>1, <3>1 DEF OwnInv, LoneInv
  <2>4. \A u \in Threads : Owner[u] \in Clients \ overlap' =>
            /\ thr'[u].pc = "create" => ~cli'[Owner[u]].has /\ ~cli'[Owner[u]].closed
            /\ thr'[u].pc = "destroy" => thr'[u].c = cli'[Owner[u]].id
            /\ thr'[u].pc \in {"destroyed", "closed"} =>
                  \A y \in Live(acc') : acc'.ctx[y].owner # Owner[u]
    <3> TAKE u \in Threads
    <3> HAVE Owner[u] \in Clients \ overlap'
    <3>1. CASE u = t
      BY <1>1, <1>6, <1>7, <2>1, <3>1
    <3>2. CASE u # t
      BY <1>0, <1>1, <1>2, <1>7, <3>2 DEF OwnInv, OnlyGone
    <3> QED BY <3>1, <3>2
  <2> QED BY <2>2, <2>3, <2>4 DEF OwnInv, Live
<1> QED BY <1>2, <1>8, <1>9, <1>10 DEF Inv

LEMMA kernelDestroyInv ==
    ASSUME Inv, NEW t \in Threads, NEW c \in Live(acc), kernelDestroy(t, c) PROVE Inv'
<1> DEFINE S == {c}
<1>0. Inv /\ ThrInv /\ OwnInv /\ CliInv
  BY DEF Inv
<1>1. /\ UNCHANGED <<cli, thr, stopped, unbound, ended, stray, forgotten, crossed,
                    faults>>
      /\ Calls(t) /\ overlap \subseteq overlap' /\ Owner[t] = Kernel /\ Kernel \notin Clients
      /\ thr[t].pc = "idle" /\ acc.ctx[c].owner = Kernel /\ Destroyed(S) /\ S \in SUBSET Live(acc)
  BY CallNoted, AcceleratorAssumption DEF kernelDestroy, Names, Calls, IsClient
<1> HIDE DEF S
<1>2. /\ TableInv' /\ DevInv' /\ HostInv' /\ BoundInv' /\ GivenInv' /\ ResInv'
      /\ OnlyGone(acc, acc', S) /\ Races(S) /\ Surfaces(acc') = Surfaces(acc)
  BY <1>0, <1>1, ContextsGone
<1>3. CliInv'
  BY <1>0, <1>1, <1>2 DEF CliInv, OnlyGone
<1>4. ThrInv'
  <2>1. Kernel \notin overlap' => \A u \in Threads : Owner[u] = Kernel => thr[u].pc = "idle"
    BY <1>1, SoleCall
  <2>2. FaultsNeedRace'
    BY <1>0, <1>1, <1>2, NoFault DEF Races
  <2>3. \A u \in Threads : thr[u].pc \in KernelPCs => Kernel \in overlap'
    BY <1>0, <2>1, Steps DEF ThrInv, ThreadOK
  <2>4. \A u \in Threads : ThreadOK(u)'
    BY <1>0, <1>1, <1>2, <2>3, ThreadLoses
  <2> QED BY <1>0, <1>1, <2>2, <2>4 DEF ThrInv
<1>5. OwnInv'
  <2>1. LeakedContextExplained'
    BY <1>0, <1>1, <1>2 DEF OwnInv, LeakedContextExplained, OnlyGone
  <2> QED BY <1>0, <1>1, <1>2, <2>1 DEF OwnInv, LoneInv, OnlyGone
<1> QED BY <1>2, <1>3, <1>4, <1>5 DEF Inv

LEMMA stopInv == ASSUME Inv, stop PROVE Inv'
<1> DEFINE a == RemoveContexts(acc, Live(acc))
<1>0. /\ Inv /\ TableInv /\ DevInv /\ HostInv /\ GivenInv /\ ResInv /\ CliInv /\ ThrInv /\ OwnInv
      /\ AccOK(acc)
  BY DEF Inv, TableInv
<1>1. /\ UNCHANGED <<cli, thr, calls, overlap, unbound, ended, stray, crossed, faults>> /\ stopped'
      /\ Races(Live(acc))
      /\ acc' = [a EXCEPT !.surfPool = PoolRemove(@, Surfaces(a)), !.surfCount = 0, !.surf = <<>>]
      /\ given' = {} /\ forgotten' = forgotten \cup ({acc.surf[s] : s \in Surfaces(acc)} \ {0})
  BY DEF stop
<1>2. /\ DOMAIN dev' = DOMAIN dev /\ dev'.ctxs = dev.ctxs /\ dev'.tracked = dev.tracked
      /\ dev'.next = dev.next /\ dev'.res = dev.res /\ dev'.nextRes = dev.nextRes
  BY <1>0, DeviceKeeps DEF stop
<1>3. /\ AccOK(a) /\ SameSurf(acc, a) /\ a.nextCtx = acc.nextCtx /\ Live(a) = {}
      /\ Len(a.ctxPool) = Len(acc.ctxPool)
  <2>1. Live(acc) \ Live(acc) = {}
    OBVIOUS
  <2> QED BY <1>0, <2>1, RemoveContextsOK
<1> HIDE DEF a
<1>4. /\ DOMAIN acc' = Fields /\ acc'.ctxPool = a.ctxPool /\ acc'.ctxCount = a.ctxCount
      /\ acc'.surfPool = PoolRemove(a.surfPool, Surfaces(a)) /\ acc'.surfCount = 0
      /\ acc'.nextCtx = a.nextCtx /\ acc'.nextSurf = a.nextSurf /\ acc'.ctx = a.ctx
      /\ acc'.surf = <<>>
  BY <1>1, <1>3 DEF AccOK, IsAcc, Fields
<1>5. Live(acc') = {} /\ Surfaces(acc') = {}
  BY <1>3, <1>4 DEF Live, Surfaces
<1>6. PoolOK(acc'.surfPool, acc'.surfCount, Surfaces(acc'))
  <2>1. PoolOK(a.surfPool, a.surfCount, Surfaces(a))
    BY <1>3 DEF AccOK
  <2>2. PoolOK(acc'.surfPool, a.surfCount - Cardinality(Surfaces(a) \cap Surfaces(a)),
               Surfaces(a) \ Surfaces(a))
    BY <1>4, <2>1, PoolRemoveOK
  <2>3. Surfaces(a) \ Surfaces(a) = {} /\ Cardinality({}) = 0
    BY FS_EmptySet
  <2> QED BY <1>4, <1>5, <2>2, <2>3 DEF PoolOK
<1>7. AccOK(acc')
  <2>1. IsAcc(acc')
    BY <1>3, <1>4, <1>5 DEF AccOK, IsAcc, Live, Surfaces
  <2>2. Live(acc') \subseteq 2 .. acc'.nextCtx /\ Surfaces(acc') \subseteq 2 .. acc'.nextSurf
    BY <1>5
  <2>3. PoolOK(acc'.ctxPool, acc'.ctxCount, Live(acc')) /\ Len(acc'.ctxPool) >= InitialCapacity
    BY <1>3, <1>4, <1>5 DEF AccOK
  <2> QED BY <1>6, <2>1, <2>2, <2>3 DEF AccOK
<1>8. TableInv' /\ BoundInv'
  BY <1>0, <1>3, <1>4, <1>5, <1>7 DEF TableInv, BoundInv, BoundOK, SameSurf
<1>9. DevInv'
  BY <1>0, <1>2 DEF DevInv
<1>10. HostInv'
  BY <1>0, <1>1, <1>5 DEF HostInv, HostContextAlive, StrayExplained
<1>11. GivenInv'
  BY <1>1 DEF GivenInv, GivenOK
<1>12. ResInv'
  <2> DEFINE all == {acc.surf[s] : s \in Surfaces(acc)} \ {0}
             f == forgotten'
             n == dev.nextRes
  <2>1. dev.res = all \cup forgotten
    BY <1>0 DEF ResInv, ResOK
  <2>2. f = forgotten \cup all
    BY <1>1
  <2>3. f \subseteq 1 .. n
    BY <1>0, <2>1, <2>2 DEF DevInv
  <2> HIDE DEF all, f, n
  <2>4. ResOK(acc', dev.res, n, f)
    <3>1. {acc'.surf[s] : s \in Surfaces(acc')} = {}
      BY ONLY <1>5
    <3> QED BY ONLY <1>5, <2>1, <2>2, <2>3, <3>1 DEF ResOK
  <2> QED BY <1>2, <2>4 DEF ResInv, f, n
<1>13. CliInv'
  BY <1>0, <1>1, <1>3, <1>4, <1>5 DEF CliInv
<1>14. ThrInv'
  <2>1. FaultsNeedRace'
    BY <1>0, <1>1, NoFault DEF Races
  <2>2. OnlyGone(acc, acc', Live(acc))
    BY <1>3, <1>4, <1>5 DEF OnlyGone
  <2>3. Live(acc) \in SUBSET Live(acc)
    OBVIOUS
  <2>4. \A u \in Threads : ThreadOK(u)'
    BY <1>0, <1>1, <2>2, <2>3, ThreadLoses
  <2> QED BY <1>0, <1>1, <2>1, <2>4 DEF ThrInv
<1>15. OwnInv'
  BY <1>0, <1>1, <1>5 DEF OwnInv, LoneInv, LeakedContextExplained
<1> QED BY <1>8, <1>9, <1>10, <1>11, <1>12, <1>13, <1>14, <1>15 DEF Inv

-----------------------------------------------------------------------------
(* The theorems.                                                           *)

LEMMA InitInv == Init => Inv
<1> SUFFICES ASSUME Init PROVE Inv
  OBVIOUS
<1> USE DEF Init
<1> DEFINE pool == [i \in 1 .. InitialCapacity |-> 0]
<1>1. /\ InitialCapacity \in Nat \ {0}
      /\ {MaxContexts, MaxSurfaces, MaxDeviceContexts} \subseteq Nat \ {0}
  BY AcceleratorAssumption
<1>2. /\ DOMAIN acc = Fields /\ acc.ctxPool = pool /\ acc.ctxCount = 0
      /\ acc.surfPool = pool /\ acc.surfCount = 0 /\ acc.nextCtx = 1 /\ acc.nextSurf = 1
      /\ acc.ctx = <<>> /\ acc.surf = <<>>
  BY DEF Fields
<1>3. Live(acc) = {} /\ Surfaces(acc) = {}
  BY <1>2 DEF Live, Surfaces
<1>4. PoolOK(pool, 0, {})
  <2>1. pool \in Seq(Nat) /\ Len(pool) = InitialCapacity /\ DOMAIN pool = 1 .. InitialCapacity
    BY <1>1
  <2>2. \A i \in DOMAIN pool : pool[i] = 0
    OBVIOUS
  <2>3. Len(pool) > 0
    BY <1>1, <2>1
  <2> HIDE DEF pool
  <2>4. Filled(pool) = {}
    BY <2>2 DEF Filled
  <2> QED BY <2>1, <2>2, <2>3, <2>4, FS_EmptySet DEF PoolOK
<1>5. Len(pool) >= InitialCapacity
  BY <1>1
<1> HIDE DEF pool
<1>6. AccOK(acc)
  <2>1. IsAcc(acc)
    <3> DEFINE e == <<>>
    <3>1. e = [x \in DOMAIN e |-> e[x]] /\ DOMAIN e = {}
      OBVIOUS
    <3> HIDE DEF e
    <3>2. acc.ctx = e /\ acc.surf = e
      BY <1>2 DEF e
    <3> QED BY ONLY <1>2, <3>1, <3>2 DEF IsAcc
  <2> QED BY ONLY <1>2, <1>3, <1>4, <1>5, <2>1 DEF AccOK
<1>7. TableInv
  BY <1>1, <1>2, <1>6 DEF TableInv
<1>8. DevInv
  BY <1>1 DEF DevInv
<1>9. HostInv /\ BoundInv /\ GivenInv
  BY <1>3 DEF HostInv, HostContextAlive, StrayExplained, BoundInv, BoundOK, GivenInv, GivenOK
<1>10. ResInv
  BY <1>3 DEF ResInv, ResOK
<1>11. CliInv
  BY <1>3 DEF CliInv
<1>12. ThrInv
  <2>1. \A t \in Threads : thr[t] = Idle
    OBVIOUS
  <2>2. thr \in [Threads -> ThrRec]
    BY IdleRec
  <2>3. FaultsNeedRace
    BY DEF FaultsNeedRace
  <2>4. \A t \in Threads : ThreadOK(t)
    BY <2>1, IdleRec, Steps DEF ThreadOK
  <2> QED BY <2>2, <2>3, <2>4 DEF ThrInv
<1>13. OwnInv
  <2>1. \A t \in Threads : thr[t].pc = "idle"
    BY IdleRec
  <2> QED BY <1>3, <2>1 DEF OwnInv, LoneInv, LeakedContextExplained
<1> QED BY <1>7, <1>8, <1>9, <1>10, <1>11, <1>12, <1>13 DEF Inv

LEMMA StutterInv == ASSUME Inv, UNCHANGED vars PROVE Inv'
<1>1. UNCHANGED <<acc, dev, cli, thr, stopped, overlap, given, unbound, ended, stray, forgotten,
                  crossed, raced, faults>>
  BY DEF vars, core, history, ghosts, marks
<1>2. /\ TableInv' /\ DevInv' /\ HostInv' /\ BoundInv' /\ GivenInv' /\ ResInv'
      /\ SameOwners(acc, acc') /\ \A T : WalksKept(T)
  BY <1>1, TablesAlone DEF core
<1>3. CliInv' /\ ThrInv' /\ OwnInv'
  BY <1>1, <1>2, NoThreadMoves
<1> QED BY <1>2, <1>3 DEF Inv

LEMMA NextInv == Inv /\ [Next]_vars => Inv'
<1> SUFFICES ASSUME Inv, [Next]_vars PROVE Inv'
  OBVIOUS
<1>1. CASE stop
  BY <1>1, stopInv
<1>2. ASSUME NEW t \in Threads,
             \/ sCreate3DContext(t) \/ create3DContext(t) \/ haveContext(t)
             \/ sDestroy3DContext(t) \/ clientClose(t) \/ destroy3DContext(t) \/ forgetContext(t)
             \/ findContext(t) \/ foundContext(t) \/ walkSurfaces(t) \/ walkedSurfaces(t)
             \/ drawPrimitives(t) \/ beginRenderPass(t)
             \/ endRenderPass(t) \/ garbageCollectTextures(t) \/ finishPass(t)
      PROVE  Inv'
  BY <1>2, sCreate3DContextInv, create3DContextInv, haveContextInv, sDestroy3DContextInv,
     clientCloseInv, destroy3DContextInv, forgetContextInv, findContextInv, foundContextInv,
     walkSurfacesInv, walkedSurfacesInv, drawPrimitivesInv,
     beginRenderPassInv, endRenderPassInv, garbageCollectTexturesInv, finishPassInv
<1>3. ASSUME NEW t \in Threads, NEW c \in Live(acc),
             \/ kernelDestroy(t, c) \/ create3DSurface(t, c) \/ createFramebuffer(t, c)
             \/ submit3DCommands(t, c)
             \/ \E s \in {0} \cup Surfaces(acc) : destroy3DSurface(t, c, s)
             \/ \E op \in Looking \ {"findReturn"} : Lookup(t, op, c)
      PROVE  Inv'
  BY <1>3, kernelDestroyInv, create3DSurfaceInv, createFramebufferInv, submit3DCommandsInv,
     destroy3DSurfaceInv, LookupInv
<1>4. CASE UNCHANGED vars
  BY <1>4, StutterInv
<1> QED BY <1>1, <1>2, <1>3, <1>4 DEF Next

LEMMA InvAlways == Spec => []Inv
BY InitInv, NextInv, PTL DEF Spec

\* The tables of the accelerator are sound whatever its callers do: the pools
\* hold each object once, the counts that poolAdd relies on after growing are
\* exact, and contexts have only existing surfaces bound, but for surfaces that
\* destroy3DSurface destroyed through another context.
THEOREM PoolsTheorem == Spec => []PoolsKept
<1>1. Inv => PoolsKept
  <2> SUFFICES ASSUME Inv PROVE PoolsKept
    OBVIOUS
  <2>1. TableInv /\ AccOK(acc) /\ DevInv /\ CliInv /\ ThrInv /\ BoundInv
    BY DEF Inv, TableInv
  <2>2. acc.nextCtx \in Nat \ {0} /\ acc.nextSurf \in Nat \ {0}
    BY <2>1 DEF AccOK, IsAcc
  <2>3. /\ MaxContexts \in Nat /\ MaxSurfaces \in Nat /\ MaxDeviceContexts \in Nat
        /\ acc.nextCtx <= MaxContexts /\ acc.nextSurf <= MaxSurfaces
    BY <2>1, AcceleratorAssumption DEF TableInv
  <2>4. \A x \in 2 .. acc.nextCtx : x \in 2 .. MaxContexts
    BY <2>2, <2>3
  <2>5. dev.ctxs \subseteq 2 .. MaxDeviceContexts
    BY <2>1, <2>3 DEF DevInv
  <2>6. TypeOK
    BY <2>1, <2>2, <2>3, <2>4, <2>5 DEF TypeOK, DevInv, CliInv, ThrInv, ThreadOK
  <2>7. /\ PoolOK(acc.ctxPool, acc.ctxCount, Live(acc))
        /\ PoolOK(acc.surfPool, acc.surfCount, Surfaces(acc))
    BY <2>1 DEF AccOK
  <2>8. /\ Cardinality(DOMAIN acc.ctxPool \ Slots(acc.ctxPool)) = acc.ctxCount
        /\ Cardinality(DOMAIN acc.surfPool \ Slots(acc.surfPool)) = acc.surfCount
    BY <2>7, SlotsCounted
  <2>9. PoolExact
    BY <2>7, <2>8 DEF PoolExact, PoolOK
  <2>10. BoundInPool
    BY <2>1 DEF BoundInv, BoundOK, BoundInPool
  <2> QED BY <2>6, <2>9, <2>10 DEF PoolsKept
<1> QED BY <1>1, InvAlways, PTL

\* Each context keeps the device context it was created with: no command of it
\* reaches another's before endRenderPass counts its gpu_context_id up, and no
\* destruction takes it away.
THEOREM DeviceContextTheorem == Spec => []OwnDeviceContext
<1>1. Inv => OwnDeviceContext
  BY DEF Inv, HostInv, OwnDeviceContext
<1> QED BY <1>1, InvAlways, PTL

\* A context is left behind only by a client that had two calls at once, and a
\* device resource only by destroy3DSurface, by stop or by a command that failed.
THEOREM LeftoversTheorem == Spec => []LeftoversExplained
<1>1. Inv => LeftoversExplained
  BY DEF Inv, OwnInv, ResInv, ResOK, ResourceLeaksExplained, LeftoversExplained
<1> QED BY <1>1, InvAlways, PTL

\* garbageCollectTextures takes no surface that a caller had made and whose
\* context is there, but for one that contextBindSurface had no memory to bind.
THEOREM GivenTheorem == Spec => []GivenSurfaceLives
<1>1. Inv => GivenSurfaceLives
  BY DEF Inv, GivenInv, GivenOK, GivenSurfaceLives
<1> QED BY <1>1, InvAlways, PTL

\* The walks without m_lock, and what follows them, touch freed memory only in a
\* race that is named: findContext when some context, of any client's, was
\* destroyed while a lookup was reading the pool; a surface, or the context that
\* was found, when two calls of the kernel's overlap or stop comes; and that
\* context also when a lookup read freed memory and took what it found for it.
THEOREM RaceTheorem == Spec => []FaultsNeedRace
<1>1. Inv => FaultsNeedRace
  BY DEF Inv, ThrInv
<1> QED BY <1>1, InvAlways, PTL
=============================================================================
