--------------------------- MODULE FbImporterProofs ---------------------------
(***************************************************************************)
(* Proofs about the framebuffer cache, for any buffers, planes, layers and *)
(* frames, and however often the cache is emptied: the properties hold     *)
(* until a buffer is imported anew while a framebuffer of it lives outside *)
(* the cache.  Moreover, this never happens to a device that is given at   *)
(* most CleanupSize + 1 buffers in all.                                    *)
(***************************************************************************)
EXTENDS FbImporter, FiniteSetTheorems, WellFoundedInduction, TLAPS

(* The allocator gives no memory to two buffers.                           *)
MemOf(b) == Range(Mem[b])
DistinctMemory == \A a, b \in Bufs : a # b => MemOf(a) \cap MemOf(b) = {}

(* The memory of a buffer.                                                 *)
LEMMA MemFacts ==
    ASSUME NEW b \in Bufs
    PROVE  /\ MemOf(b) \subseteq Objects /\ None \notin MemOf(b)
           /\ Mem[b][1] \in MemOf(b) /\ Mem[b][1] \in Objects
           /\ Len(Mem[b]) \in Nat
           /\ \A k \in 1 .. Len(Mem[b]) : Mem[b][k] \in MemOf(b)
           /\ \A o \in MemOf(b) : \E k \in 1 .. Len(Mem[b]) : o = Mem[b][k]
<1>1. Mem[b] \in Seq(Objects) /\ Mem[b] # <<>>
  BY ImporterAssumption
<1>2. DOMAIN Mem[b] = 1 .. Len(Mem[b]) /\ Len(Mem[b]) \in Nat /\ 1 \in DOMAIN Mem[b]
  BY <1>1
<1>3. MemOf(b) = {Mem[b][k] : k \in 1 .. Len(Mem[b])}
  BY <1>2 DEF MemOf, Range
<1>4. \A k \in 1 .. Len(Mem[b]) : Mem[b][k] \in Objects
  BY <1>1
<1>5. None \notin Objects
  BY ImporterAssumption
<1> QED
  BY <1>2, <1>3, <1>4, <1>5

(* An object belongs to one buffer.                                        *)
LEMMA OneBuffer ==
    ASSUME DistinctMemory, NEW a \in Bufs, NEW b \in Bufs, NEW o, o \in MemOf(a), o \in MemOf(b)
    PROVE  a = b
BY DEF DistinctMemory

(* A nonempty set of numbers has a least one.                              *)
LEMMA LeastNatural ==
    ASSUME NEW T, T \subseteq Nat, T # {}
    PROVE  \E x \in T : \A y \in T : x <= y
<1> DEFINE R == OpToRel(<, Nat)
<1>1. IsWellFoundedOn(R, Nat)
  BY NatLessThanWellFounded
<1>2. \A x, y \in Nat : x < y => <<x, y>> \in R
  BY DEF OpToRel
<1> HIDE DEF R
<1>3. PICK x \in T : \A y \in T : ~ (<<y, x>> \in R)
  BY <1>1, WFMin
<1>4. \A y \in T : ~(y < x)
  BY <1>2, <1>3
<1> QED
  BY <1>3, <1>4

(* So Min picks a member.                                                  *)
LEMMA MinMember ==
    ASSUME NEW T, T \subseteq Nat, T # {}
    PROVE  Min(T) \in T
<1>1. \E x \in T : \A y \in T : x <= y
  BY LeastNatural
<1> QED
  BY <1>1 DEF Min

-----------------------------------------------------------------------------
(* The table of GEM handles                                                *)

IsTable(t) ==
    /\ t \in [GemHandle -> Objects \cup {None}]
    /\ \A h, k \in GemHandle : t[h] = t[k] /\ t[h] # None => h = k

(* u has what t has, and besides it only handles of objects in X.          *)
Extends(t, u, X) ==
    /\ IsTable(u)
    /\ \A h \in GemHandle : t[h] # None => u[h] = t[h]
    /\ \A h \in GemHandle : u[h] # t[h] => u[h] \in X

(* There is a free handle for an object that has none.                     *)
LEMMA FreeHandle ==
    ASSUME NEW t, IsTable(t), NEW o \in Objects, \A h \in GemHandle : t[h] # o
    PROVE  \E h \in GemHandle : t[h] = None
<1>1. SUFFICES ASSUME \A h \in GemHandle : t[h] # None PROVE FALSE
  OBVIOUS
<1> DEFINE S == Objects \ {o}
<1>2. t \in [GemHandle -> S]
  BY <1>1 DEF IsTable
<1>3. t \in Injection(GemHandle, S)
  BY <1>1, <1>2 DEF IsTable, Injection, IsInjective
<1>4. IsFiniteSet(Objects) /\ NumHandles \in Nat /\ NumHandles >= Cardinality(Objects)
  BY ImporterAssumption
<1>5. IsFiniteSet(S) /\ Cardinality(S) = Cardinality(Objects) - 1
  BY <1>4, FS_RemoveElement
<1>6. Cardinality(GemHandle) <= Cardinality(S)
  BY <1>3, <1>5, FS_Injection
<1>7. Cardinality(GemHandle) = NumHandles
  BY <1>4, FS_Interval DEF GemHandle
<1>8. Cardinality(Objects) \in Nat
  BY <1>4, FS_CardinalityType
<1> QED
  BY <1>4, <1>5, <1>6, <1>7, <1>8

(* drmPrimeFDToHandle opens one handle at most, for the object.            *)
LEMMA PrimeFacts ==
    ASSUME NEW t, IsTable(t), NEW o \in Objects,
           NEW h, h = HandleFor(t, o), NEW u, u = PrimeFDToHandle(t, o)
    PROVE  /\ h \in GemHandle
           /\ u[h] = o
           /\ t[h] \in {o, None}
           /\ Extends(t, u, {o})
           /\ (\E k \in GemHandle : t[k] = o) => t[h] = o /\ u = t
<1>1. o # None
  BY ImporterAssumption
<1>2. u = [t EXCEPT ![h] = o]
  BY DEF PrimeFDToHandle
<1>3. CASE \E k \in GemHandle : t[k] = o
  <2>1. h \in GemHandle /\ t[h] = o
    BY <1>3 DEF HandleFor
  <2>2. u = t
    BY <1>2, <2>1 DEF IsTable
  <2> QED
    BY <2>1, <2>2 DEF Extends
<1>4. CASE ~\E k \in GemHandle : t[k] = o
  <2> DEFINE F == {k \in GemHandle : t[k] = None}
  <2>1. F # {}
    BY <1>4, FreeHandle
  <2>2. F \subseteq Nat
    BY DEF GemHandle
  <2>3. h = Min(F)
    BY <1>4 DEF HandleFor
  <2> HIDE DEF F
  <2>4. h \in F
    BY <2>1, <2>2, <2>3, MinMember
  <2>5. h \in GemHandle /\ t[h] = None
    BY <2>4 DEF F
  <2>6. u \in [GemHandle -> Objects \cup {None}] /\ u[h] = o
        /\ \A k \in GemHandle : k # h => u[k] = t[k]
    BY <1>2, <2>5 DEF IsTable
  <2>7. \A k, m \in GemHandle : u[k] = u[m] /\ u[k] # None => k = m
    BY <1>4, <2>6 DEF IsTable
  <2>8. Extends(t, u, {o})
    BY <2>5, <2>6, <2>7 DEF Extends, IsTable
  <2> QED
    BY <1>4, <2>5, <2>6, <2>8
<1> QED
  BY <1>3, <1>4

(* Tables grow one after the other.                                        *)
LEMMA ExtendsTrans ==
    ASSUME NEW t, NEW u, NEW v, NEW X, NEW Y, Y \subseteq X, Extends(t, u, X), Extends(u, v, Y)
    PROVE  Extends(t, v, X)
BY DEF Extends

(* A state with one field replaced, and a table with one entry replaced.   *)
WithFbs(s, F)    == [s EXCEPT !.fbs = F]
WithGem(s, g)    == [s EXCEPT !.gem = g]
WithCache(s, C)  == [s EXCEPT !.cache = C]
WithHolder(s, H) == [s EXCEPT !.holder = H]
WithChain(s, K)  == [s EXCEPT !.chain = K]
Put(f, x, v)     == [f EXCEPT ![x] = v]

-----------------------------------------------------------------------------
(* The planes of a buffer, one after the other                             *)

PlanePass(t, b, f, k) == IF k = 0 THEN t ELSE PrimeFDToHandle(f[k - 1], Mem[b][k])
IsWalk(f, t, b, N) == f = [k \in 0 .. N |-> PlanePass(t, b, f, k)]

(* The passes exist: take the least number for which they do not.         *)
LEMMA WalkDefined ==
    ASSUME NEW t, NEW b, NEW N \in Nat
    PROVE  \E f : IsWalk(f, t, b, N)
<1> SUFFICES \E f : f = [k \in 0 .. N |-> PlanePass(t, b, f, k)]
  BY DEF IsWalk
<1> DEFINE T == {m \in Nat : ~\E f : f = [k \in 0 .. m |-> PlanePass(t, b, f, k)]}
<1>1. SUFFICES ASSUME T # {} PROVE FALSE
  OBVIOUS
<1>2. PICK m \in T : \A y \in T : m <= y
  <2>1. T \subseteq Nat
    OBVIOUS
  <2> QED
    BY <1>1, <2>1, LeastNatural
<1>3. CASE m = 0
  <2> DEFINE f == [k \in 0 .. 0 |-> t]
  <2>1. \A k \in 0 .. 0 : k = 0
    OBVIOUS
  <2>2. PlanePass(t, b, f, 0) = t
    BY DEF PlanePass
  <2>3. f = [k \in 0 .. 0 |-> PlanePass(t, b, f, k)]
    BY <2>1, <2>2
  <2> QED
    BY <2>3, <1>2, <1>3
<1>4. CASE m # 0
  <2>1. m \in Nat /\ m - 1 \in Nat /\ ~(m <= m - 1)
    BY <1>4
  <2>2. m - 1 \notin T
    BY <2>1, <1>2
  <2>3. PICK f : f = [k \in 0 .. m - 1 |-> PlanePass(t, b, f, k)]
    BY <2>1, <2>2
  <2> DEFINE g == [k \in 0 .. m |-> IF k = m THEN PlanePass(t, b, f, m) ELSE f[k]]
  <2>4. \A k \in 0 .. m - 1 : g[k] = f[k] /\ f[k] = PlanePass(t, b, f, k)
    <3>1. \A k \in 0 .. m - 1 : k \in 0 .. m /\ k # m
      BY <2>1
    <3>2. \A k \in 0 .. m - 1 : f[k] = PlanePass(t, b, f, k)
      BY <2>3
    <3> QED
      BY <3>1, <3>2
  <2>5. g[m] = PlanePass(t, b, f, m)
    BY <2>1
  <2>6. g = [k \in 0 .. m |-> g[k]]
    OBVIOUS
  <2> HIDE DEF g
  <2>7. \A k \in 0 .. m : PlanePass(t, b, g, k) = PlanePass(t, b, f, k)
    <3>1. \A k \in 0 .. m : k # 0 => k - 1 \in 0 .. m - 1
      BY <2>1
    <3> QED
      BY <3>1, <2>4 DEF PlanePass
  <2>8. \A k \in 0 .. m : g[k] = PlanePass(t, b, f, k)
    <3>1. \A k \in 0 .. m : k = m \/ k \in 0 .. m - 1
      BY <2>1
    <3> QED
      BY <3>1, <2>4, <2>5
  <2>9. g = [k \in 0 .. m |-> PlanePass(t, b, g, k)]
    BY <2>6, <2>7, <2>8
  <2> QED
    BY <2>9, <1>2
<1> QED
  BY <1>3, <1>4

(* Every object of the buffer has its handle, and nothing else was opened  *)
(* or closed.                                                              *)
LEMMA PlanesFacts ==
    ASSUME NEW s, IsTable(s.gem), NEW b \in Bufs
    PROVE  \E u : /\ ImportPlanes(s, b) = WithGem(s, u)
                  /\ Extends(s.gem, u, MemOf(b))
                  /\ \A o \in MemOf(b) : \E h \in GemHandle : u[h] = o
<1> DEFINE N == Len(Mem[b])
           f == CHOOSE g : g = [k \in 0 .. N |-> PlanePass(s.gem, b, g, k)]
<1>1. N \in Nat
  BY MemFacts
<1>2. ImportPlanes(s, b) = [s EXCEPT !.gem = f[N]]
  BY Zenon DEF ImportPlanes, PlanePass
<1>3. \E g : g = [k \in 0 .. N |-> PlanePass(s.gem, b, g, k)]
  BY <1>1, WalkDefined DEF IsWalk
<1>4. f = [k \in 0 .. N |-> PlanePass(s.gem, b, f, k)]
  BY <1>3, Zenon
<1> HIDE DEF f
<1>5. \A k \in 0 .. N : f[k] = PlanePass(s.gem, b, f, k)
  BY <1>4
<1> DEFINE Fine(k) == /\ Extends(s.gem, f[k], MemOf(b))
                      /\ \A m \in 1 .. k : \E h \in GemHandle : f[k][h] = Mem[b][m]
           T == {k \in 0 .. N : ~Fine(k)}
<1>6. T = {}
  <2>1. SUFFICES ASSUME T # {} PROVE FALSE
    OBVIOUS
  <2>2. T \subseteq Nat
    BY <1>1
  <2>3. PICK k \in T : \A y \in T : k <= y
    BY <2>1, <2>2, LeastNatural
  <2>4. k \in 0 .. N /\ ~Fine(k)
    OBVIOUS
  <2>5. CASE k = 0
    <3>1. f[k] = s.gem
      BY <1>5, <2>4, <2>5 DEF PlanePass
    <3>2. Extends(s.gem, s.gem, MemOf(b))
      BY DEF Extends
    <3> QED
      BY <2>4, <2>5, <3>1, <3>2
  <2>6. CASE k # 0
    <3>1. k - 1 \in 0 .. N /\ ~(k <= k - 1) /\ k \in 1 .. N /\ k - 1 \in Nat
      BY <1>1, <2>4, <2>6
    <3>2. Fine(k - 1)
      BY <2>3, <3>1
    <3>3. f[k] = PrimeFDToHandle(f[k - 1], Mem[b][k])
      BY <1>5, <2>4, <2>6 DEF PlanePass
    <3>4. Mem[b][k] \in MemOf(b) /\ MemOf(b) \subseteq Objects
      BY <3>1, MemFacts
    <3>5. PICK v, w, o, h : /\ v = f[k - 1] /\ w = f[k] /\ o = Mem[b][k]
                            /\ h = HandleFor(v, o)
      OBVIOUS
    <3>6. IsTable(v)
      BY <3>2, <3>5 DEF Extends
    <3>7. h \in GemHandle /\ w[h] = o /\ Extends(v, w, {o})
      <4>1. o \in Objects
        BY <3>4, <3>5
      <4>2. w = PrimeFDToHandle(v, o)
        BY <3>3, <3>5
      <4>3. h = HandleFor(v, o)
        BY <3>5
      <4> QED
        BY <3>6, <4>1, <4>2, <4>3, PrimeFacts, SMTT(40)
    <3>8. Extends(s.gem, w, MemOf(b))
      BY <3>2, <3>4, <3>5, <3>7, ExtendsTrans
    <3>9. ASSUME NEW m \in 1 .. k PROVE \E x \in GemHandle : w[x] = Mem[b][m]
      <4>1. CASE m = k
        BY <3>5, <3>7, <4>1
      <4>2. CASE m # k
        <5>1. m \in 1 .. k - 1 /\ m \in 1 .. N
          BY <1>1, <3>1, <4>2
        <5>2. PICK x \in GemHandle : v[x] = Mem[b][m]
          BY <3>2, <3>5, <5>1
        <5>3. Mem[b][m] # None
          BY <5>1, MemFacts
        <5>4. w[x] = v[x]
          BY <3>7, <5>2, <5>3 DEF Extends
        <5> QED
          BY <5>2, <5>4
      <4> QED
        BY <4>1, <4>2
    <3>10. Fine(k)
      BY <3>5, <3>8, <3>9
    <3> QED
      BY <2>4, <3>10
  <2> QED
    BY <2>5, <2>6
<1>7. N \in 0 .. N
  BY <1>1
<1>8. Fine(N)
  BY <1>6, <1>7
<1>9. \A o \in MemOf(b) : \E h \in GemHandle : f[N][h] = o
  BY <1>8, MemFacts
<1> QED
  BY <1>2, <1>8, <1>9 DEF WithGem

-----------------------------------------------------------------------------
(* What is true of a state between the statements of an operation          *)

Live(s, i) == i \in FbId /\ s.fbs[i] # None

IsState(s) ==
    s = [fbs |-> s.fbs, gem |-> s.gem, cache |-> s.cache, holder |-> s.holder,
         chain |-> s.chain]

IsChain(c) ==
    /\ c = [order |-> c.order, kept |-> c.kept, whole |-> c.whole]
    /\ c.order \in Seq(Bufs)
    /\ c.kept \in [DOMAIN c.kept -> FbId]
    /\ c.whole \in BOOLEAN

TypedState(s) ==
    /\ IsState(s)
    /\ s.fbs \in [FbId -> DrmFbIdHandle \cup {None}]
    /\ IsTable(s.gem)
    /\ s.cache \in [DOMAIN s.cache -> FbId] /\ DOMAIN s.cache \subseteq GemHandle
    /\ s.holder \in [Holders -> FbId \cup {None}]
    /\ s.chain = [l \in Layers |-> s.chain[l]]
    /\ \A l \in Layers : IsChain(s.chain[l])

(* A live framebuffer has the handles of its buffer's memory, all open.    *)
OwnInv(s) ==
    \A i \in FbId : s.fbs[i] # None =>
        /\ \A h \in GemHandle : h \in s.fbs[i].handles <=> s.gem[h] \in MemOf(s.fbs[i].buf)
        /\ \A o \in MemOf(s.fbs[i].buf) : \E h \in GemHandle : s.gem[h] = o

(* No buffer has two of them.                                              *)
OneEach(s) ==
    \A i, j \in FbId :
        s.fbs[i] # None /\ s.fbs[j] # None /\ s.fbs[i].buf = s.fbs[j].buf => i = j

(* An open handle belongs to one of them, but for those of an import that  *)
(* is under way, whose objects are in X.                                   *)
Owned(s, X) ==
    \A h \in GemHandle : s.gem[h] # None =>
        s.gem[h] \in X \/ \E i \in FbId : s.fbs[i] # None /\ h \in s.fbs[i].handles

(* Who refers to a framebuffer refers to a live one, the cache by the      *)
(* handle of its first plane, a swap chain in the place of its buffer.     *)
CacheInv(s) ==
    \A h \in DOMAIN s.cache : /\ Live(s, s.cache[h])
                              /\ s.gem[h] = Mem[s.fbs[s.cache[h]].buf][1]
HolderInv(s) == \A l \in Holders : s.holder[l] # None => Live(s, s.holder[l])
KeptInv(s, c) ==
    \A n \in DOMAIN c.kept : /\ n \in DOMAIN c.order /\ Live(s, c.kept[n])
                             /\ s.fbs[c.kept[n]].buf = c.order[n]
ChainInv(s) == \A l \in Layers : KeptInv(s, s.chain[l])

Sound(s, X) ==
    /\ TypedState(s)
    /\ OwnInv(s)
    /\ OneEach(s)
    /\ Owned(s, X)
    /\ CacheInv(s)
    /\ HolderInv(s)
    /\ ChainInv(s)

(* The fields of a state.                                                  *)
LEMMA StateFields ==
    ASSUME NEW F, NEW G, NEW C, NEW H, NEW K,
           NEW t, t = [fbs |-> F, gem |-> G, cache |-> C, holder |-> H, chain |-> K]
    PROVE  t.fbs = F /\ t.gem = G /\ t.cache = C /\ t.holder = H /\ t.chain = K /\ IsState(t)
BY DEF IsState

(* The fields of a state with another fbs field.                           *)
LEMMA WithFbsFields ==
    ASSUME NEW s, TypedState(s), NEW F, NEW t, t = WithFbs(s, F)
    PROVE  /\ t.fbs = F /\ t.gem = s.gem /\ t.cache = s.cache /\ t.holder = s.holder /\ t.chain = s.chain
           /\ IsState(t)
<1>1. t = [fbs |-> F, gem |-> s.gem, cache |-> s.cache, holder |-> s.holder, chain |-> s.chain]
  BY DEF TypedState, IsState, WithFbs
<1> QED
  BY <1>1, StateFields

(* The fields of a state with another gem field.                           *)
LEMMA WithGemFields ==
    ASSUME NEW s, TypedState(s), NEW g, NEW t, t = WithGem(s, g)
    PROVE  /\ t.fbs = s.fbs /\ t.gem = g /\ t.cache = s.cache /\ t.holder = s.holder /\ t.chain = s.chain
           /\ IsState(t)
<1>1. t = [fbs |-> s.fbs, gem |-> g, cache |-> s.cache, holder |-> s.holder, chain |-> s.chain]
  BY DEF TypedState, IsState, WithGem
<1> QED
  BY <1>1, StateFields

(* The fields of a state with another cache field.                         *)
LEMMA WithCacheFields ==
    ASSUME NEW s, TypedState(s), NEW C, NEW t, t = WithCache(s, C)
    PROVE  /\ t.fbs = s.fbs /\ t.gem = s.gem /\ t.cache = C /\ t.holder = s.holder /\ t.chain = s.chain
           /\ IsState(t)
<1>1. t = [fbs |-> s.fbs, gem |-> s.gem, cache |-> C, holder |-> s.holder, chain |-> s.chain]
  BY DEF TypedState, IsState, WithCache
<1> QED
  BY <1>1, StateFields

(* The fields of a state with another holder field.                        *)
LEMMA WithHolderFields ==
    ASSUME NEW s, TypedState(s), NEW H, NEW t, t = WithHolder(s, H)
    PROVE  /\ t.fbs = s.fbs /\ t.gem = s.gem /\ t.cache = s.cache /\ t.holder = H /\ t.chain = s.chain
           /\ IsState(t)
<1>1. t = [fbs |-> s.fbs, gem |-> s.gem, cache |-> s.cache, holder |-> H, chain |-> s.chain]
  BY DEF TypedState, IsState, WithHolder
<1> QED
  BY <1>1, StateFields

(* The fields of a state with another chain field.                         *)
LEMMA WithChainFields ==
    ASSUME NEW s, TypedState(s), NEW K, NEW t, t = WithChain(s, K)
    PROVE  /\ t.fbs = s.fbs /\ t.gem = s.gem /\ t.cache = s.cache /\ t.holder = s.holder /\ t.chain = K
           /\ IsState(t)
<1>1. t = [fbs |-> s.fbs, gem |-> s.gem, cache |-> s.cache, holder |-> s.holder, chain |-> K]
  BY DEF TypedState, IsState, WithChain
<1> QED
  BY <1>1, StateFields

(* A live framebuffer is one of a buffer.                                  *)
LEMMA LiveTyped ==
    ASSUME NEW s, TypedState(s), NEW i \in FbId, s.fbs[i] # None
    PROVE  s.fbs[i] \in DrmFbIdHandle /\ s.fbs[i].buf \in Bufs
           /\ s.fbs[i].handles \subseteq GemHandle
<1>1. s.fbs[i] \in DrmFbIdHandle
  BY DEF TypedState
<1> QED
  BY <1>1 DEF DrmFbIdHandle

Dead(s, i) == s.fbs[i] # None /\ i \notin Referenced(s)

(* What the destructors change.                                            *)
LEMMA CollectFields ==
    ASSUME NEW s, TypedState(s), NEW t, t = Collect(s)
    PROVE  /\ IsState(t) /\ t.cache = s.cache /\ t.holder = s.holder /\ t.chain = s.chain
           /\ t.fbs = [i \in FbId |-> IF Dead(s, i) THEN None ELSE s.fbs[i]]
           /\ t.gem = [h \in GemHandle |->
                         IF \E i \in FbId : Dead(s, i) /\ h \in s.fbs[i].handles
                         THEN None ELSE s.gem[h]]
<1> DEFINE dead   == {i \in FbId : s.fbs[i] # None /\ i \notin Referenced(s)}
           closed == UNION {s.fbs[i].handles : i \in dead}
<1>1. PICK F, G : /\ F = [i \in FbId |-> IF i \in dead THEN None ELSE s.fbs[i]]
                  /\ G = [h \in GemHandle |-> IF h \in closed THEN None ELSE s.gem[h]]
  OBVIOUS
<1>2. t = [s EXCEPT !.fbs = F, !.gem = G]
  BY <1>1 DEF Collect
<1>3. s = [fbs |-> s.fbs, gem |-> s.gem, cache |-> s.cache, holder |-> s.holder,
           chain |-> s.chain]
  BY DEF TypedState, IsState
<1>4. t = [fbs |-> F, gem |-> G, cache |-> s.cache, holder |-> s.holder, chain |-> s.chain]
  BY <1>2, <1>3
<1>5. \A i \in FbId : i \in dead <=> Dead(s, i)
  BY DEF Dead
<1>6. \A h : h \in closed <=> \E i \in FbId : Dead(s, i) /\ h \in s.fbs[i].handles
  BY <1>5
<1>7. F = [i \in FbId |-> IF Dead(s, i) THEN None ELSE s.fbs[i]]
  BY <1>1, <1>5
<1>8. G = [h \in GemHandle |-> IF \E i \in FbId : Dead(s, i) /\ h \in s.fbs[i].handles
                               THEN None ELSE s.gem[h]]
  <2> HIDE DEF closed
  <2> QED
    BY <1>1, <1>6
<1> HIDE DEF dead, closed
<1> QED
  BY <1>4, <1>7, <1>8 DEF IsState

(* A framebuffer survives as long as it is referred to; the last reference *)
(* to go closes its handles and no others.                                 *)
LEMMA CollectSound ==
    ASSUME DistinctMemory, NEW s, NEW X, Sound(s, X), NEW t, t = Collect(s)
    PROVE  /\ Sound(t, X)
           /\ t.cache = s.cache /\ t.holder = s.holder /\ t.chain = s.chain
           /\ \A i \in FbId : s.fbs[i] # None /\ i \in Referenced(s) => t.fbs[i] = s.fbs[i]
           /\ \A i \in FbId : t.fbs[i] # None => t.fbs[i] = s.fbs[i] /\ i \in Referenced(s)
           /\ \A h \in GemHandle : (\A i \in FbId : s.fbs[i] # None => h \notin s.fbs[i].handles)
                                     => t.gem[h] = s.gem[h]
<1>1. TypedState(s) /\ OwnInv(s) /\ OneEach(s) /\ Owned(s, X) /\ CacheInv(s)
      /\ HolderInv(s) /\ ChainInv(s)
  BY DEF Sound
<1>2. IsState(t) /\ t.cache = s.cache /\ t.holder = s.holder /\ t.chain = s.chain
  BY <1>1, CollectFields
<1>3. /\ t.fbs = [i \in FbId |-> IF Dead(s, i) THEN None ELSE s.fbs[i]]
      /\ t.gem = [h \in GemHandle |->
                    IF \E i \in FbId : Dead(s, i) /\ h \in s.fbs[i].handles
                    THEN None ELSE s.gem[h]]
  BY <1>1, CollectFields
<1>4. \A i \in FbId : /\ Dead(s, i) => t.fbs[i] = None
                      /\ ~Dead(s, i) => t.fbs[i] = s.fbs[i]
  BY <1>3
<1>5. \A h \in GemHandle :
        /\ (\E i \in FbId : Dead(s, i) /\ h \in s.fbs[i].handles) => t.gem[h] = None
        /\ (\A i \in FbId : Dead(s, i) => h \notin s.fbs[i].handles) => t.gem[h] = s.gem[h]
  BY <1>3
<1>6. \A i \in FbId : s.fbs[i] # None /\ i \in Referenced(s) => t.fbs[i] = s.fbs[i]
  BY <1>4 DEF Dead
<1>7. \A i \in FbId : t.fbs[i] # None => t.fbs[i] = s.fbs[i] /\ i \in Referenced(s)
  BY <1>4 DEF Dead
<1>8. \A h \in GemHandle : t.gem[h] \in {s.gem[h], None}
  BY <1>5
<1>9. TypedState(t)
  <2>1. t.fbs \in [FbId -> DrmFbIdHandle \cup {None}]
    <3>1. \A i \in FbId : s.fbs[i] \in DrmFbIdHandle \cup {None}
      BY <1>1 DEF TypedState
    <3> QED
      BY <1>3, <3>1
  <2>2. IsTable(t.gem)
    <3>1. \A h \in GemHandle : s.gem[h] \in Objects \cup {None}
      BY <1>1 DEF TypedState, IsTable
    <3>2. t.gem \in [GemHandle -> Objects \cup {None}]
      BY <1>3, <3>1
    <3>3. \A h, k \in GemHandle : t.gem[h] = t.gem[k] /\ t.gem[h] # None => h = k
      BY <1>1, <1>8 DEF TypedState, IsTable
    <3> QED
      BY <3>2, <3>3 DEF IsTable
  <2> QED
    BY <1>1, <1>2, <2>1, <2>2 DEF TypedState
(* Nobody closes a handle of another framebuffer. *)
<1>10. ASSUME NEW i \in FbId, t.fbs[i] # None, NEW h \in GemHandle, h \in s.fbs[i].handles
       PROVE  t.gem[h] = s.gem[h]
  <2>1. s.fbs[i] # None
    BY <1>7, <1>10
  <2>2. ASSUME NEW j \in FbId, Dead(s, j), h \in s.fbs[j].handles PROVE FALSE
    <3>1. s.fbs[j] # None
      BY <2>2 DEF Dead
    <3>2. s.gem[h] \in MemOf(s.fbs[i].buf) /\ s.gem[h] \in MemOf(s.fbs[j].buf)
      BY <1>1, <1>10, <2>1, <2>2, <3>1 DEF OwnInv
    <3>3. s.fbs[i].buf \in Bufs /\ s.fbs[j].buf \in Bufs
      BY <1>1, <2>1, <3>1, LiveTyped
    <3>4. s.fbs[i].buf = s.fbs[j].buf
      BY <3>2, <3>3, OneBuffer
    <3>5. i = j
      BY <1>1, <2>1, <3>1, <3>4 DEF OneEach
    <3> QED
      BY <1>4, <1>10, <2>2, <3>5
  <2> QED
    BY <1>5, <2>2
<1>11. OwnInv(t)
  <2> SUFFICES ASSUME NEW i \in FbId, t.fbs[i] # None
               PROVE  /\ \A h \in GemHandle : h \in t.fbs[i].handles
                                                <=> t.gem[h] \in MemOf(t.fbs[i].buf)
                      /\ \A o \in MemOf(t.fbs[i].buf) : \E h \in GemHandle : t.gem[h] = o
    BY DEF OwnInv
  <2>1. t.fbs[i] = s.fbs[i] /\ s.fbs[i] # None
    BY <1>7
  <2>2. s.fbs[i].buf \in Bufs
    BY <1>1, <2>1, LiveTyped
  <2>3. None \notin MemOf(s.fbs[i].buf)
    BY <2>2, MemFacts
  <2>4. \A h \in GemHandle : h \in s.fbs[i].handles <=> s.gem[h] \in MemOf(s.fbs[i].buf)
    BY <1>1, <2>1 DEF OwnInv
  <2>5. \A o \in MemOf(s.fbs[i].buf) : \E h \in GemHandle : s.gem[h] = o
    BY <1>1, <2>1 DEF OwnInv
  <2>6. \A h \in GemHandle : h \in s.fbs[i].handles => t.gem[h] = s.gem[h]
    BY <1>10
  <2> QED
    BY <1>8, <2>1, <2>3, <2>4, <2>5, <2>6
<1>12. OneEach(t)
  BY <1>1, <1>7 DEF OneEach
<1>13. Owned(t, X)
  <2> SUFFICES ASSUME NEW h \in GemHandle, t.gem[h] # None, t.gem[h] \notin X
               PROVE  \E i \in FbId : t.fbs[i] # None /\ h \in t.fbs[i].handles
    BY DEF Owned
  <2>1. t.gem[h] = s.gem[h]
    BY <1>8
  <2>2. PICK i \in FbId : s.fbs[i] # None /\ h \in s.fbs[i].handles
    BY <1>1, <2>1 DEF Owned
  <2>3. ~Dead(s, i)
    BY <1>5, <2>2
  <2> QED
    BY <1>4, <2>2, <2>3
<1>14. \A i \in Referenced(s) : Live(s, i) => Live(t, i) /\ t.fbs[i] = s.fbs[i]
  BY <1>6 DEF Live
<1>15. CacheInv(t)
  <2> SUFFICES ASSUME NEW h \in DOMAIN s.cache
               PROVE  Live(t, s.cache[h]) /\ t.gem[h] = Mem[t.fbs[s.cache[h]].buf][1]
    BY <1>2 DEF CacheInv
  <2>1. PICK i : i = s.cache[h]
    OBVIOUS
  <2>2. Live(s, i) /\ s.gem[h] = Mem[s.fbs[i].buf][1] /\ h \in GemHandle
    BY <1>1, <2>1 DEF CacheInv, TypedState
  <2>3. i \in Referenced(s)
    BY <2>1 DEF Referenced, Range
  <2>4. Live(t, i) /\ t.fbs[i] = s.fbs[i]
    BY <1>14, <2>2, <2>3
  <2>5. s.fbs[i].buf \in Bufs
    BY <1>1, <2>2, LiveTyped DEF Live
  <2>6. s.gem[h] \in MemOf(s.fbs[i].buf)
    BY <2>2, <2>5, MemFacts
  <2>7. h \in s.fbs[i].handles
    BY <1>1, <2>2, <2>6 DEF OwnInv, Live
  <2>8. t.gem[h] = s.gem[h]
    BY <1>10, <2>2, <2>4, <2>7 DEF Live
  <2> QED
    BY <2>1, <2>2, <2>4, <2>8
<1>16. HolderInv(t)
  <2> SUFFICES ASSUME NEW l \in Holders, s.holder[l] # None
               PROVE  Live(t, s.holder[l])
    BY <1>2 DEF HolderInv
  <2>1. s.holder[l] \in Referenced(s)
    BY <1>1 DEF Referenced, Range, TypedState
  <2> QED
    BY <1>1, <1>14, <2>1 DEF HolderInv
<1>17. ChainInv(t)
  <2> SUFFICES ASSUME NEW l \in Layers, NEW n \in DOMAIN s.chain[l].kept
               PROVE  /\ n \in DOMAIN s.chain[l].order /\ Live(t, s.chain[l].kept[n])
                      /\ t.fbs[s.chain[l].kept[n]].buf = s.chain[l].order[n]
    BY <1>2 DEF ChainInv, KeptInv
  <2>1. s.chain[l].kept[n] \in Referenced(s)
    <3>1. s.chain[l].kept[n] \in Range(s.chain[l].kept)
      BY DEF Range
    <3> QED
      BY <3>1 DEF Referenced
  <2>2. /\ n \in DOMAIN s.chain[l].order /\ Live(s, s.chain[l].kept[n])
        /\ s.fbs[s.chain[l].kept[n]].buf = s.chain[l].order[n]
    BY <1>1 DEF ChainInv, KeptInv
  <2> QED
    BY <1>14, <2>1, <2>2
<1>18. \A h \in GemHandle : (\A i \in FbId : s.fbs[i] # None => h \notin s.fbs[i].handles)
                              => t.gem[h] = s.gem[h]
  BY <1>5 DEF Dead
<1> QED
  BY <1>2, <1>6, <1>7, <1>9, <1>11, <1>12, <1>13, <1>15, <1>16, <1>17, <1>18 DEF Sound

-----------------------------------------------------------------------------
(* The other statements                                                    *)

(* States that differ in who refers to what.                               *)
LEMMA SameFbsSound ==
    ASSUME NEW s, NEW X, Sound(s, X), NEW t, TypedState(t), t.fbs = s.fbs, t.gem = s.gem,
           CacheInv(t), HolderInv(t), ChainInv(t)
    PROVE  Sound(t, X)
BY DEF Sound, OwnInv, OneEach, Owned

(* A holder's reference is replaced by one to a live framebuffer.          *)
LEMMA HoldSound ==
    ASSUME NEW s, NEW X, Sound(s, X), NEW l \in Holders, NEW i, i = None \/ Live(s, i),
           NEW H, H = Put(s.holder, l, i), NEW t, t = WithHolder(s, H)
    PROVE  /\ Sound(t, X)
           /\ t.fbs = s.fbs /\ t.gem = s.gem /\ t.cache = s.cache /\ t.chain = s.chain
           /\ t.holder = H
<1>1. TypedState(s) /\ CacheInv(s) /\ HolderInv(s) /\ ChainInv(s)
  BY DEF Sound
<1>5. H \in [Holders -> FbId \cup {None}]
      /\ \A k \in Holders : H[k] = IF k = l THEN i ELSE s.holder[k]
  BY <1>1 DEF TypedState, Live, Put
<1>6. t.fbs = s.fbs /\ t.gem = s.gem /\ t.cache = s.cache /\ t.chain = s.chain
      /\ t.holder = H /\ IsState(t)
  BY <1>1, WithHolderFields
<1>7. TypedState(t)
  BY <1>1, <1>5, <1>6, SMTT(40) DEF TypedState
<1>8. CacheInv(t) /\ ChainInv(t)
  BY <1>1, <1>6 DEF CacheInv, ChainInv, KeptInv, Live
<1>9. HolderInv(t)
  BY <1>1, <1>5, <1>6 DEF HolderInv, Live
<1> QED
  BY <1>6, <1>7, <1>8, <1>9, SameFbsSound

(* The shared_ptr of a holder is replaced, and what it held may go.        *)
LEMMA AssignSound ==
    ASSUME DistinctMemory, NEW s, NEW X, Sound(s, X), NEW l \in Holders,
           NEW i, i = None \/ Live(s, i), NEW t, t = Assign(s, l, i)
    PROVE  /\ Sound(t, X)
           /\ t.cache = s.cache /\ t.chain = s.chain
           /\ t.holder = Put(s.holder, l, i)
           /\ \A j \in FbId : t.fbs[j] # None => t.fbs[j] = s.fbs[j]
<1>1. PICK H : H = Put(s.holder, l, i)
  OBVIOUS
<1>2. PICK u : u = WithHolder(s, H)
  OBVIOUS
<1>3. /\ Sound(u, X) /\ u.fbs = s.fbs /\ u.gem = s.gem /\ u.cache = s.cache /\ u.chain = s.chain
      /\ u.holder = H
  BY <1>1, <1>2, HoldSound
<1>4. t = Collect(u)
  BY <1>1, <1>2 DEF Assign, WithHolder, Put
<1>5. Sound(u, X)
  BY <1>3
<1>6. /\ Sound(t, X) /\ t.cache = u.cache /\ t.holder = u.holder /\ t.chain = u.chain
      /\ \A j \in FbId : t.fbs[j] # None => t.fbs[j] = u.fbs[j]
  BY <1>4, <1>5, CollectSound
<1> QED
  BY <1>1, <1>3, <1>6

(* A swap chain is replaced by one that keeps live framebuffers in the     *)
(* places of their buffers.                                                *)
LEMMA RechainSound ==
    ASSUME NEW s, NEW X, Sound(s, X), NEW l \in Layers, NEW c, IsChain(c), KeptInv(s, c),
           NEW K, K = Put(s.chain, l, c), NEW t, t = WithChain(s, K)
    PROVE  /\ Sound(t, X)
           /\ t.fbs = s.fbs /\ t.gem = s.gem /\ t.cache = s.cache /\ t.holder = s.holder
           /\ t.chain = K
<1>1. TypedState(s) /\ CacheInv(s) /\ HolderInv(s) /\ ChainInv(s)
  BY DEF Sound
<1>5. K = [k \in Layers |-> K[k]] /\ \A k \in Layers : K[k] = IF k = l THEN c ELSE s.chain[k]
  BY <1>1 DEF TypedState, Put
<1>6. t.fbs = s.fbs /\ t.gem = s.gem /\ t.cache = s.cache /\ t.holder = s.holder
      /\ t.chain = K /\ IsState(t)
  BY <1>1, WithChainFields
<1>7. TypedState(t)
  <2>1. \A k \in Layers : IsChain(K[k])
    BY <1>1, <1>5 DEF TypedState
  <2> QED
    BY <1>1, <1>5, <1>6, <2>1 DEF TypedState
<1>8. CacheInv(t) /\ HolderInv(t)
  BY <1>1, <1>6 DEF CacheInv, HolderInv, Live
<1>9. ChainInv(t)
  <2>1. \A k \in Layers : KeptInv(s, K[k])
    BY <1>1, <1>5, SMTT(40) DEF ChainInv
  <2>2. \A k \in Layers : KeptInv(t, K[k])
    BY <1>6, <2>1 DEF KeptInv, Live
  <2> QED
    BY <1>6, <2>2 DEF ChainInv
<1> QED
  BY <1>6, <1>7, <1>8, <1>9, SameFbsSound

Covers(Z, X, Y) == X \subseteq Z /\ Y \subseteq Z

(* Handles are opened for objects in Y.                                    *)
LEMMA OpenSound ==
    ASSUME NEW s, NEW X, Sound(s, X), NEW Y, NEW g, Extends(s.gem, g, Y),
           NEW Z, Covers(Z, X, Y), NEW t, t = WithGem(s, g)
    PROVE  /\ Sound(t, Z)
           /\ t.fbs = s.fbs /\ t.gem = g /\ t.cache = s.cache /\ t.holder = s.holder
           /\ t.chain = s.chain
<1>1. TypedState(s) /\ OwnInv(s) /\ OneEach(s) /\ Owned(s, X) /\ CacheInv(s) /\ HolderInv(s)
      /\ ChainInv(s)
  BY DEF Sound
<1>3. t.fbs = s.fbs /\ t.gem = g /\ t.cache = s.cache /\ t.holder = s.holder
      /\ t.chain = s.chain /\ IsState(t)
  BY <1>1, WithGemFields
<1>4. IsTable(g) /\ (\A h \in GemHandle : s.gem[h] # None => g[h] = s.gem[h])
      /\ (\A h \in GemHandle : g[h] # s.gem[h] => g[h] \in Y)
  BY DEF Extends
<1>5. TypedState(t)
  BY <1>1, <1>3, <1>4 DEF TypedState
<1>6. OwnInv(t)
  <2> SUFFICES ASSUME NEW i \in FbId, s.fbs[i] # None
               PROVE  /\ \A h \in GemHandle : h \in s.fbs[i].handles
                                                <=> g[h] \in MemOf(s.fbs[i].buf)
                      /\ \A o \in MemOf(s.fbs[i].buf) : \E h \in GemHandle : g[h] = o
    BY <1>3 DEF OwnInv
  <2>1. PICK M : M = MemOf(s.fbs[i].buf)
    OBVIOUS
  <2>2. None \notin M
    BY <1>1, <2>1, LiveTyped, MemFacts
  <2>3. \A h \in GemHandle : h \in s.fbs[i].handles <=> s.gem[h] \in M
    BY <1>1, <2>1 DEF OwnInv
  <2>4. \A o \in M : \E h \in GemHandle : s.gem[h] = o
    BY <1>1, <2>1 DEF OwnInv
  <2>5. \A o \in M : \E h \in GemHandle : g[h] = o
    BY <1>4, <2>2, <2>4
  <2>6. ASSUME NEW h \in GemHandle
        PROVE  h \in s.fbs[i].handles <=> g[h] \in M
    <3>1. CASE s.gem[h] # None
      BY <1>4, <2>3, <3>1
    <3>2. CASE s.gem[h] = None
      <4>1. h \notin s.fbs[i].handles
        BY <2>2, <2>3, <3>2
      <4>2. ASSUME g[h] \in M PROVE FALSE
        <5>1. PICK k \in GemHandle : s.gem[k] = g[h]
          BY <2>4, <4>2
        <5>2. s.gem[k] # None
          BY <2>2, <4>2, <5>1
        <5>3. g[k] = g[h] /\ g[k] # None
          BY <1>4, <5>1, <5>2
        <5>4. k = h
          BY <1>4, <5>3 DEF IsTable
        <5> QED
          BY <3>2, <5>2, <5>4
      <4> QED
        BY <4>1, <4>2
    <3> QED
      BY <3>1, <3>2
  <2> QED
    BY <2>1, <2>5, <2>6
<1>7. OneEach(t)
  BY <1>1, <1>3 DEF OneEach
<1>8. Owned(t, Z)
  <2> SUFFICES ASSUME NEW h \in GemHandle, g[h] # None, g[h] \notin Z
               PROVE  \E i \in FbId : s.fbs[i] # None /\ h \in s.fbs[i].handles
    BY <1>3 DEF Owned
  <2>1. g[h] = s.gem[h]
    BY <1>4 DEF Covers
  <2> QED
    BY <1>1, <2>1 DEF Owned, Covers
<1>9. CacheInv(t)
  <2> SUFFICES ASSUME NEW h \in DOMAIN s.cache
               PROVE  Live(t, s.cache[h]) /\ t.gem[h] = Mem[t.fbs[s.cache[h]].buf][1]
    BY <1>3 DEF CacheInv
  <2>1. Live(s, s.cache[h]) /\ s.gem[h] = Mem[s.fbs[s.cache[h]].buf][1] /\ h \in GemHandle
    BY <1>1 DEF CacheInv, TypedState
  <2>2. s.gem[h] # None
    BY <1>1, <2>1, LiveTyped, MemFacts DEF Live
  <2> QED
    BY <1>3, <1>4, <2>1, <2>2 DEF Live
<1>10. HolderInv(t) /\ ChainInv(t)
  BY <1>1, <1>3 DEF HolderInv, ChainInv, KeptInv, Live
<1> QED
  BY <1>3, <1>5, <1>6, <1>7, <1>8, <1>9, <1>10 DEF Sound

(* Emptying the cache.                                                     *)
LEMMA CleanupSound ==
    ASSUME DistinctMemory, NEW s, NEW X, Sound(s, X), NEW t, t = CleanupCache(s)
    PROVE  /\ Sound(t, X)
           /\ DOMAIN t.cache \subseteq DOMAIN s.cache
           /\ t.holder = s.holder /\ t.chain = s.chain
           /\ \A i \in FbId : t.fbs[i] # None => t.fbs[i] = s.fbs[i]
           /\ \A h \in GemHandle : (\A i \in FbId : s.fbs[i] # None => h \notin s.fbs[i].handles)
                                     => t.gem[h] = s.gem[h]
           /\ Cardinality(DOMAIN s.cache) <= CleanupSize => t = s
<1>1. CASE ~(Cardinality(DOMAIN s.cache) > CleanupSize)
  BY <1>1 DEF CleanupCache
<1>2. CASE Cardinality(DOMAIN s.cache) > CleanupSize
  <2>1. TypedState(s) /\ HolderInv(s) /\ ChainInv(s)
    BY DEF Sound
  <2>2. PICK e : e = [h \in {} |-> None]
    OBVIOUS
  <2>3. PICK u : u = WithCache(s, e)
    OBVIOUS
  <2>4. t = Collect(u)
    BY <1>2, <2>2, <2>3 DEF CleanupCache, CleanupEmptyCacheElements, WithCache
  <2>6. u.fbs = s.fbs /\ u.gem = s.gem /\ u.cache = e /\ u.holder = s.holder
        /\ u.chain = s.chain /\ IsState(u)
    BY <2>1, <2>3, WithCacheFields
  <2>7. DOMAIN e = {} /\ e \in [DOMAIN e -> FbId]
    BY <2>2
  <2>8. TypedState(u)
    BY <2>1, <2>6, <2>7 DEF TypedState
  <2>9. CacheInv(u)
    BY <2>6, <2>7 DEF CacheInv
  <2>10. HolderInv(u) /\ ChainInv(u)
    BY <2>1, <2>6 DEF HolderInv, ChainInv, KeptInv, Live
  <2>11. Sound(u, X)
    BY <2>6, <2>8, <2>9, <2>10, SameFbsSound
  <2>12. /\ Sound(t, X) /\ t.cache = u.cache /\ t.holder = u.holder /\ t.chain = u.chain
         /\ \A i \in FbId : t.fbs[i] # None => t.fbs[i] = u.fbs[i]
         /\ \A h \in GemHandle : (\A i \in FbId : u.fbs[i] # None => h \notin u.fbs[i].handles)
                                   => t.gem[h] = u.gem[h]
    BY <2>4, <2>11, CollectSound
  <2>13. ~(Cardinality(DOMAIN s.cache) <= CleanupSize)
    <3>1. DOMAIN s.cache \subseteq GemHandle /\ NumHandles \in Nat /\ CleanupSize \in Nat
      BY <2>1, ImporterAssumption DEF TypedState
    <3>2. IsFiniteSet(GemHandle)
      BY <3>1, FS_Interval DEF GemHandle
    <3>3. Cardinality(DOMAIN s.cache) \in Nat
      BY <3>1, <3>2, FS_Subset, FS_CardinalityType
    <3> QED
      BY <1>2, <3>1, <3>3
  <2> QED
    BY <2>6, <2>7, <2>12, <2>13
<1> QED
  BY <1>1, <1>2

(* There is a free framebuffer id: each one in use is of another buffer.   *)
LEMMA FreeId ==
    ASSUME NEW s, TypedState(s), OneEach(s), NEW i, i = NewId(s)
    PROVE  i \in FbId /\ s.fbs[i] = None
<1> DEFINE U == {j \in FbId : s.fbs[j] = None}
<1>1. U \subseteq Nat
  BY DEF FbId
<1>2. U # {}
  <2>1. SUFFICES ASSUME \A j \in FbId : s.fbs[j] # None PROVE FALSE
    OBVIOUS
  <2> DEFINE f == [j \in FbId |-> s.fbs[j].buf]
  <2>2. \A j \in FbId : s.fbs[j].buf \in Bufs
    BY <2>1, LiveTyped
  <2>3. f \in Injection(FbId, Bufs)
    BY <2>1, <2>2 DEF OneEach, Injection, IsInjective
  <2> HIDE DEF f
  <2>4. IsFiniteSet(Bufs) /\ IsFiniteSet(Layers) /\ IsFiniteSet(Frames) /\ NumFbs \in Nat
    BY ImporterAssumption
  <2>5. NumFbs > Cardinality(Holders) + (1 + Cardinality(Layers)) * Cardinality(Bufs)
    BY ImporterAssumption
  <2>6. IsFiniteSet(Holders)
    BY <2>4, FS_Union DEF Holders
  <2>7. PICK h, n, m : h = Cardinality(Holders) /\ n = Cardinality(Layers) /\ m = Cardinality(Bufs)
    OBVIOUS
  <2>8. h \in Nat /\ n \in Nat /\ m \in Nat
    BY <2>4, <2>6, <2>7, FS_CardinalityType
  <2>9. n * m \in Nat /\ (1 + n) * m = m + n * m
    BY <2>8
  <2>10. NumFbs > m
    BY <2>4, <2>5, <2>7, <2>8, <2>9
  <2>11. Cardinality(FbId) = NumFbs
    BY <2>4, FS_Interval DEF FbId
  <2>12. Cardinality(FbId) <= m
    BY <2>3, <2>4, <2>7, FS_Injection
  <2> QED
    BY <2>4, <2>8, <2>10, <2>11, <2>12
<1>3. i = Min(U)
  BY DEF NewId
<1> HIDE DEF U
<1>4. i \in U
  BY <1>1, <1>2, <1>3, MinMember
<1> QED
  BY <1>4 DEF U

NewFb(s, b)   == [buf |-> b, handles |-> {h \in GemHandle : s.gem[h] \in MemOf(b)}]
AllOpen(s, b) == \A o \in MemOf(b) : \E h \in GemHandle : s.gem[h] = o
NoFbOf(s, b)  == \A j \in FbId : s.fbs[j] # None => s.fbs[j].buf # b

(* ADDFB2 for a buffer whose objects are open and that has no framebuffer. *)
LEMMA PlaceSound ==
    ASSUME DistinctMemory, NEW b \in Bufs, NEW s, Sound(s, MemOf(b)), AllOpen(s, b), NoFbOf(s, b),
           NEW i \in FbId, s.fbs[i] = None,
           NEW r, r = NewFb(s, b), NEW F, F = Put(s.fbs, i, r), NEW t, t = WithFbs(s, F)
    PROVE  /\ Sound(t, {})
           /\ t.fbs = F /\ t.gem = s.gem /\ t.cache = s.cache /\ t.holder = s.holder
           /\ t.chain = s.chain
           /\ F[i] # None /\ F[i].buf = b /\ \A j \in FbId : j # i => F[j] = s.fbs[j]
<1>1. TypedState(s) /\ OwnInv(s) /\ OneEach(s) /\ Owned(s, MemOf(b)) /\ CacheInv(s)
      /\ HolderInv(s) /\ ChainInv(s)
  BY DEF Sound
<1>3. t.fbs = F /\ t.gem = s.gem /\ t.cache = s.cache /\ t.holder = s.holder
      /\ t.chain = s.chain /\ IsState(t)
  BY <1>1, WithFbsFields
<1>4. r \in DrmFbIdHandle /\ r.buf = b /\ r.handles = {h \in GemHandle : s.gem[h] \in MemOf(b)}
  BY DEF DrmFbIdHandle, NewFb
<1>5. r # None
  BY <1>4, ImporterAssumption
<1>6. F \in [FbId -> DrmFbIdHandle \cup {None}] /\ F[i] = r
      /\ \A j \in FbId : j # i => F[j] = s.fbs[j]
  BY <1>1, <1>4 DEF TypedState, Put
<1>7. TypedState(t)
  BY <1>1, <1>3, <1>6 DEF TypedState
<1>8. OwnInv(t)
  <2> SUFFICES ASSUME NEW j \in FbId, F[j] # None
               PROVE  /\ \A h \in GemHandle : h \in F[j].handles <=> s.gem[h] \in MemOf(F[j].buf)
                      /\ \A o \in MemOf(F[j].buf) : \E h \in GemHandle : s.gem[h] = o
    BY <1>3 DEF OwnInv
  <2>1. CASE j = i
    BY <1>4, <1>6, <2>1 DEF AllOpen
  <2>2. CASE j # i
    BY <1>1, <1>6, <2>2 DEF OwnInv
  <2> QED
    BY <2>1, <2>2
<1>9. OneEach(t)
  <2>1. \A j \in FbId : F[j] # None => (F[j].buf = b <=> j = i)
    BY <1>4, <1>6 DEF NoFbOf
  <2>2. \A j, k \in FbId : F[j] # None /\ F[k] # None /\ F[j].buf = F[k].buf => j = k
    BY <1>1, <1>4, <1>6, <2>1 DEF OneEach
  <2> QED
    BY <1>3, <2>2 DEF OneEach
<1>10. Owned(t, {})
  <2> SUFFICES ASSUME NEW h \in GemHandle, s.gem[h] # None
               PROVE  \E j \in FbId : F[j] # None /\ h \in F[j].handles
    BY <1>3 DEF Owned
  <2>1. CASE s.gem[h] \in MemOf(b)
    BY <1>4, <1>5, <1>6, <2>1
  <2>2. CASE s.gem[h] \notin MemOf(b)
    BY <1>1, <1>6, <2>2 DEF Owned
  <2> QED
    BY <2>1, <2>2
<1>11. \A j : Live(s, j) => Live(t, j) /\ t.fbs[j] = s.fbs[j]
  BY <1>3, <1>6 DEF Live
<1>12. CacheInv(t)
  <2>1. \A h \in DOMAIN s.cache : Live(s, s.cache[h]) /\ s.gem[h] = Mem[s.fbs[s.cache[h]].buf][1]
    BY <1>1 DEF CacheInv
  <2>2. \A h \in DOMAIN s.cache : Live(t, s.cache[h]) /\ s.gem[h] = Mem[t.fbs[s.cache[h]].buf][1]
    BY <1>11, <2>1
  <2> QED
    BY <1>3, <2>2 DEF CacheInv
<1>13. HolderInv(t)
  BY <1>1, <1>3, <1>11 DEF HolderInv
<1>14. ChainInv(t)
  <2> SUFFICES ASSUME NEW l \in Layers, NEW n \in DOMAIN s.chain[l].kept
               PROVE  /\ n \in DOMAIN s.chain[l].order /\ Live(t, s.chain[l].kept[n])
                      /\ t.fbs[s.chain[l].kept[n]].buf = s.chain[l].order[n]
    BY <1>3 DEF ChainInv, KeptInv
  <2>1. /\ n \in DOMAIN s.chain[l].order /\ Live(s, s.chain[l].kept[n])
        /\ s.fbs[s.chain[l].kept[n]].buf = s.chain[l].order[n]
    BY <1>1 DEF ChainInv, KeptInv
  <2> QED
    BY <1>11, <2>1
<1> QED
  BY <1>3, <1>4, <1>5, <1>6, <1>7, <1>8, <1>9, <1>10, <1>12, <1>13, <1>14 DEF Sound

(* CreateInstance for a buffer that has no framebuffer.                    *)
LEMMA CreateSound ==
    ASSUME DistinctMemory, NEW b \in Bufs, NEW s, NEW X, Sound(s, X), X \subseteq MemOf(b),
           NoFbOf(s, b),
           NEW i, i = NewId(ImportPlanes(s, b)), NEW t, t = CreateInstance(s, b)
    PROVE  /\ Sound(t, {})
           /\ t.cache = s.cache /\ t.holder = s.holder /\ t.chain = s.chain
           /\ i \in FbId /\ s.fbs[i] = None /\ t.fbs[i] # None /\ t.fbs[i].buf = b
           /\ \A j \in FbId : j # i => t.fbs[j] = s.fbs[j]
           /\ \A h \in GemHandle : s.gem[h] # None => t.gem[h] = s.gem[h]
<1>1. IsTable(s.gem)
  BY DEF Sound, TypedState
<1>2. PICK g : /\ ImportPlanes(s, b) = WithGem(s, g)
               /\ Extends(s.gem, g, MemOf(b))
               /\ \A o \in MemOf(b) : \E h \in GemHandle : g[h] = o
  BY <1>1, PlanesFacts
<1>3. PICK p : p = WithGem(s, g)
  OBVIOUS
<1>4. Extends(s.gem, g, MemOf(b))
  BY <1>2
<1>5. PICK M : M = MemOf(b)
  OBVIOUS
<1>6. /\ Sound(p, M)
      /\ p.fbs = s.fbs /\ p.gem = g /\ p.cache = s.cache /\ p.holder = s.holder
      /\ p.chain = s.chain
  <2>1. Extends(s.gem, g, M) /\ Covers(M, X, M)
    BY <1>4, <1>5 DEF Covers
  <2>2. Sound(p, M)
    BY <1>3, <2>1, OpenSound
  <2>3. TypedState(s)
    BY DEF Sound
  <2> QED
    BY <1>3, <2>2, <2>3, WithGemFields
<1>7. Sound(p, MemOf(b))
  BY <1>5, <1>6
<1>8. i = NewId(p)
  BY <1>2, <1>3
<1>9. i \in FbId /\ p.fbs[i] = None
  <2>1. TypedState(p) /\ OneEach(p)
    BY <1>7 DEF Sound
  <2> QED
    BY <1>8, <2>1, FreeId
<1>10. PICK r : r = NewFb(p, b)
  OBVIOUS
<1>11. PICK F : F = Put(p.fbs, i, r)
  OBVIOUS
<1>12. t = WithFbs(p, F)
  BY <1>2, <1>3, <1>8, <1>10, <1>11 DEF CreateInstance, MemOf, NewFb, Put, WithFbs
<1>13. AllOpen(p, b)
  BY <1>2, <1>6 DEF AllOpen
<1>14. NoFbOf(p, b)
  BY <1>6 DEF NoFbOf
<1>15. /\ Sound(t, {})
       /\ t.fbs = F /\ t.gem = p.gem /\ t.cache = p.cache /\ t.holder = p.holder
       /\ t.chain = p.chain
       /\ F[i] # None /\ F[i].buf = b /\ \A j \in FbId : j # i => F[j] = p.fbs[j]
  BY <1>7, <1>9, <1>10, <1>11, <1>12, <1>13, <1>14, PlaceSound
<1> QED
  BY <1>4, <1>6, <1>9, <1>15 DEF Extends

-----------------------------------------------------------------------------
(* The swap chain                                                          *)

(* The place of a buffer that the chain has seen.                          *)
LEMMA SeqNoFacts ==
    ASSUME NEW c, NEW b, Tracked(c, b)
    PROVE  SeqNo(c, b) \in DOMAIN c.order /\ c.order[SeqNo(c, b)] = b
<1>1. \E n \in DOMAIN c.order : c.order[n] = b
  BY DEF Tracked, Range
<1> QED
  BY <1>1 DEF SeqNo

(* A chain that keeps nothing.                                             *)
LEMMA EmptyChain ==
    ASSUME NEW s, NEW c, c = NoChain
    PROVE  IsChain(c) /\ KeptInv(s, c)
<1>1. c.order = <<>> /\ c.kept = <<>> /\ c.whole = FALSE
      /\ c = [order |-> c.order, kept |-> c.kept, whole |-> c.whole]
  BY DEF NoChain
<1>2. DOMAIN c.kept = {}
  BY <1>1
<1>3. c.kept \in [DOMAIN c.kept -> FbId]
  BY <1>1
<1>4. c.order \in Seq(Bufs)
  BY <1>1
<1> QED
  BY <1>1, <1>2, <1>3, <1>4 DEF IsChain, KeptInv

(* Learning the order of the buffers moves none of those that are kept.    *)
LEMMA ReassembleSound ==
    ASSUME NEW s, NEW c, IsChain(c), KeptInv(s, c), NEW b \in Bufs,
           NEW d, d = SwChainReassemble(c, b)
    PROVE  IsChain(d) /\ KeptInv(s, d)
<1>1. /\ c = [order |-> c.order, kept |-> c.kept, whole |-> c.whole]
      /\ c.order \in Seq(Bufs) /\ c.kept \in [DOMAIN c.kept -> FbId] /\ c.whole \in BOOLEAN
  BY DEF IsChain
<1>2. \/ d = [c EXCEPT !.order = Append(@, b)]
      \/ d = c
      \/ d = [c EXCEPT !.whole = TRUE]
      \/ d = NoChain
  BY DEF SwChainReassemble, SwChainClearCache, NoChain
<1>3. CASE d = [c EXCEPT !.order = Append(@, b)]
  <2>1. PICK q : q = Append(c.order, b)
    OBVIOUS
  <2>2. d = [order |-> q, kept |-> c.kept, whole |-> c.whole]
    BY <1>1, <1>3, <2>1
  <2>3. d.order = q /\ d.kept = c.kept /\ d.whole = c.whole
        /\ d = [order |-> d.order, kept |-> d.kept, whole |-> d.whole]
    BY <2>2
  <2>4. q \in Seq(Bufs) /\ \A n \in DOMAIN c.order : n \in DOMAIN q /\ q[n] = c.order[n]
    BY <1>1, <2>1
  <2>5. IsChain(d)
    BY <1>1, <2>3, <2>4 DEF IsChain
  <2>6. KeptInv(s, d)
    BY <2>3, <2>4 DEF KeptInv
  <2> QED
    BY <2>5, <2>6
<1>4. CASE d = [c EXCEPT !.whole = TRUE]
  <2>1. PICK w : w = TRUE
    OBVIOUS
  <2>2. d = [order |-> c.order, kept |-> c.kept, whole |-> w]
    BY <1>1, <1>4, <2>1
  <2>3. d.order = c.order /\ d.kept = c.kept /\ d.whole = w
        /\ d = [order |-> d.order, kept |-> d.kept, whole |-> d.whole]
    BY <2>2
  <2>4. IsChain(d)
    BY <1>1, <2>1, <2>3 DEF IsChain
  <2>5. KeptInv(s, d)
    BY <2>3 DEF KeptInv
  <2> QED
    BY <2>4, <2>5
<1> QED
  BY <1>2, <1>3, <1>4, EmptyChain

(* The framebuffer of the buffer goes to the buffer's place.               *)
LEMMA AddBufferSound ==
    ASSUME NEW s, NEW c, IsChain(c), KeptInv(s, c), NEW b \in Bufs,
           NEW i, Live(s, i), s.fbs[i].buf = b, NEW e, e = SwChainAddCurrentBuffer(c, b, i)
    PROVE  IsChain(e) /\ KeptInv(s, e)
<1>1. PICK d : d = IF c.whole THEN c ELSE SwChainReassemble(c, b)
  OBVIOUS
<1>2. IsChain(d) /\ KeptInv(s, d)
  BY <1>1, ReassembleSound
<1>3. /\ d = [order |-> d.order, kept |-> d.kept, whole |-> d.whole]
      /\ d.order \in Seq(Bufs) /\ d.kept \in [DOMAIN d.kept -> FbId] /\ d.whole \in BOOLEAN
  BY <1>2 DEF IsChain
<1> DEFINE n == SeqNo(d, b)
           K == [m \in DOMAIN d.kept \cup {n} |-> IF m = n THEN i ELSE d.kept[m]]
<1>4. \/ e = d
      \/ e = NoChain
      \/ Tracked(d, b) /\ e = [d EXCEPT !.kept = K]
  BY <1>1 DEF SwChainAddCurrentBuffer, SwChainClearCache, NoChain
<1>5. ASSUME Tracked(d, b), e = [d EXCEPT !.kept = K]
      PROVE  IsChain(e) /\ KeptInv(s, e)
  <2>1. n \in DOMAIN d.order /\ d.order[n] = b
    BY <1>5, SeqNoFacts
  <2>2. PICK x : x = n
    OBVIOUS
  <2>3. PICK k : k = K
    OBVIOUS
  <2>4. DOMAIN k = DOMAIN d.kept \cup {x} /\ k \in [DOMAIN k -> FbId]
        /\ \A m \in DOMAIN k : k[m] = IF m = x THEN i ELSE d.kept[m]
    BY <1>3, <2>2, <2>3 DEF Live
  <2> HIDE DEF K, n
  <2>5. e = [order |-> d.order, kept |-> k, whole |-> d.whole]
    BY <1>3, <1>5, <2>3
  <2>6. e.order = d.order /\ e.kept = k /\ e.whole = d.whole
        /\ e = [order |-> e.order, kept |-> e.kept, whole |-> e.whole]
    BY <2>5
  <2>7. IsChain(e)
    BY <1>3, <2>4, <2>6 DEF IsChain
  <2>8. \A m \in DOMAIN k : m \in DOMAIN d.order /\ Live(s, k[m]) /\ s.fbs[k[m]].buf = d.order[m]
    BY <1>2, <2>1, <2>2, <2>4 DEF KeptInv
  <2>9. KeptInv(s, e)
    BY <2>6, <2>8 DEF KeptInv
  <2> QED
    BY <2>7, <2>9
<1> QED
  BY <1>2, <1>4, <1>5, EmptyChain

(* The layer has its framebuffer, and the swap chain learns of it.         *)
LEMMA LearnsSound ==
    ASSUME DistinctMemory, NEW s, NEW X, Sound(s, X), NEW l \in Layers, NEW b \in Bufs,
           Live(s, s.holder[l]), s.fbs[s.holder[l]].buf = b, NEW t, t = Learns(s, l, b)
    PROVE  /\ Sound(t, X)
           /\ t.cache = s.cache /\ t.holder = s.holder
           /\ \A j \in FbId : t.fbs[j] # None => t.fbs[j] = s.fbs[j]
<1>1. CASE b \notin Identified
  BY <1>1 DEF Learns
<1>2. CASE b \in Identified
  <2>1. PICK c : c = SwChainAddCurrentBuffer(s.chain[l], b, s.holder[l])
    OBVIOUS
  <2>2. PICK K : K = Put(s.chain, l, c)
    OBVIOUS
  <2>3. PICK u : u = WithChain(s, K)
    OBVIOUS
  <2>4. t = Collect(u)
    BY <1>2, <2>1, <2>2, <2>3 DEF Learns, WithChain, Put
  <2>5. IsChain(s.chain[l]) /\ KeptInv(s, s.chain[l])
    BY DEF Sound, TypedState, ChainInv
  <2>6. IsChain(c) /\ KeptInv(s, c)
    BY <2>1, <2>5, AddBufferSound
  <2>7. Sound(u, X)
    BY <2>2, <2>3, <2>6, RechainSound
  <2>8. u.fbs = s.fbs /\ u.cache = s.cache /\ u.holder = s.holder
    <3>1. TypedState(s)
      BY DEF Sound
    <3> QED
      BY <2>3, <3>1, WithChainFields
  <2>9. /\ Sound(t, X) /\ t.cache = u.cache /\ t.holder = u.holder
        /\ \A j \in FbId : t.fbs[j] # None => t.fbs[j] = u.fbs[j]
    BY <2>4, <2>7, CollectSound
  <2> QED
    BY <2>8, <2>9
<1> QED
  BY <1>1, <1>2

-----------------------------------------------------------------------------
(* The operations                                                          *)

(* What holder l's neighbours hold shows what they asked for.              *)
OthersWant(s, w, l) ==
    \A k \in Holders : k # l /\ s.holder[k] # None => s.fbs[s.holder[k]].buf = w[k]
Wants(s, w) == \A k \in Holders : s.holder[k] # None => s.fbs[s.holder[k]].buf = w[k]

(* Nothing happens to the neighbours of l between s and t.                 *)
Agrees(s, t, l) ==
    /\ \A k \in Holders : k # l => t.holder[k] = s.holder[k]
    /\ \A j \in FbId : s.fbs[j] # None /\ t.fbs[j] # None => t.fbs[j] = s.fbs[j]

(* Framebuffers may have gone, and the cache is as it was.                 *)
Fewer(s, t) == t.cache = s.cache /\ \A j \in FbId : t.fbs[j] # None => s.fbs[j] # None

Inv ==
    /\ wanted \in [Holders -> Bufs \cup {None}]
    /\ Sound(State, {})
    /\ Wants(State, wanted)

(* One operation after the other.                                          *)
LEMMA FewerTrans ==
    ASSUME NEW s, NEW t, NEW u, Fewer(s, t), Fewer(t, u)
    PROVE  Fewer(s, u)
BY DEF Fewer

(* Then they still show what they should: a holder's framebuffer is live   *)
(* all the while, so its id is not given to another.                       *)
LEMMA NeighboursKeep ==
    ASSUME NEW s, NEW t, HolderInv(s), HolderInv(t), NEW w, NEW l, OthersWant(s, w, l),
           Agrees(s, t, l)
    PROVE  OthersWant(t, w, l)
BY DEF HolderInv, OthersWant, Agrees, Live

(* An operation on l that asked for v is done, and t is its result.        *)
Done(t, w, l, v) ==
    /\ Sound(t, {}) /\ OthersWant(t, w, l)
    /\ w \in [Holders -> Bufs \cup {None}] /\ v \in Bufs \cup {None}
    /\ t.holder[l] # None => t.fbs[t.holder[l]].buf = v

(* The invariant holds of the result.                                      *)
LEMMA StoreKeeps ==
    ASSUME NEW l \in Holders, NEW t, NEW w, NEW v, Done(t, w, l, v),
           Store(t), wanted' = Put(w, l, v)
    PROVE  Inv' /\ State' = t
<1>1. State' = t
  BY DEF Store, State, Done, Sound, TypedState, IsState
<1>2. PICK x : x = Put(w, l, v)
  OBVIOUS
<1>3. x \in [Holders -> Bufs \cup {None}] /\ x[l] = v /\ \A k \in Holders : k # l => x[k] = w[k]
  BY <1>2 DEF Put, Done
<1>4. Wants(t, x) /\ Sound(t, {})
  BY <1>3 DEF Wants, OthersWant, Done
<1>5. wanted' = x
  BY <1>2
<1> QED
  BY <1>1, <1>3, <1>4, <1>5 DEF Inv

(* Initially nothing is open and nobody refers to anything.                *)
LEMMA InitInv ==
    ASSUME Init
    PROVE  Inv
<1>1. PICK s : s = State
  OBVIOUS
<1>2. s = [fbs |-> fbs, gem |-> gem, cache |-> cache, holder |-> holder, chain |-> chain]
  BY <1>1 DEF State
<1>3. s.fbs = fbs /\ s.gem = gem /\ s.cache = cache /\ s.holder = holder /\ s.chain = chain
      /\ IsState(s)
  BY <1>2, StateFields
<1>4. /\ s.fbs = [i \in FbId |-> None] /\ s.gem = [h \in GemHandle |-> None]
      /\ s.cache = [h \in {} |-> None] /\ s.holder = [l \in Holders |-> None]
      /\ s.chain = [l \in Layers |-> NoChain]
  BY <1>3 DEF Init
<1>5. \A l \in Layers : IsChain(s.chain[l]) /\ KeptInv(s, s.chain[l])
  BY <1>4, EmptyChain
<1>6. IsTable(s.gem)
  BY <1>4 DEF IsTable
<1>7. s.cache \in [DOMAIN s.cache -> FbId] /\ DOMAIN s.cache = {}
  BY <1>4
<1>8. TypedState(s)
  <2>1. s.fbs \in [FbId -> DrmFbIdHandle \cup {None}] /\ s.holder \in [Holders -> FbId \cup {None}]
    BY <1>4
  <2>2. s.chain = [l \in Layers |-> s.chain[l]]
    BY <1>4
  <2> QED
    BY <1>3, <1>5, <1>6, <1>7, <2>1, <2>2 DEF TypedState
<1>9. OwnInv(s) /\ OneEach(s) /\ Owned(s, {}) /\ HolderInv(s)
  BY <1>4 DEF OwnInv, OneEach, Owned, HolderInv
<1>10. CacheInv(s) /\ ChainInv(s)
  BY <1>5, <1>7 DEF CacheInv, ChainInv
<1>11. Sound(s, {})
  BY <1>8, <1>9, <1>10 DEF Sound
<1>12. Wants(s, wanted)
  BY <1>4 DEF Wants
<1>13. wanted \in [Holders -> Bufs \cup {None}]
  BY DEF Init
<1> QED
  BY <1>1, <1>11, <1>12, <1>13 DEF Inv

(* What a layer that drops its reference leaves.                           *)
LEMMA ReleasedSound ==
    ASSUME DistinctMemory, Inv, NEW l \in Holders, NEW r, r = Released(l), NEW w, w = wanted
    PROVE  /\ Sound(r, {}) /\ r.cache = cache /\ r.chain = chain
           /\ r.holder = Put(holder, l, None) /\ r.holder[l] = None
           /\ OthersWant(r, w, l) /\ w \in [Holders -> Bufs \cup {None}]
           /\ Fewer(State, r)
<1>1. PICK s : s = State
  OBVIOUS
<1>2. Sound(s, {}) /\ Wants(s, w) /\ w \in [Holders -> Bufs \cup {None}]
  BY <1>1 DEF Inv
<1>3. s.fbs = fbs /\ s.holder = holder /\ s.cache = cache /\ s.chain = chain
  BY <1>1 DEF State
<1>4. PICK i : i = None
  OBVIOUS
<1>5. r = Assign(s, l, i)
  BY <1>1, <1>4 DEF Released
<1>6. /\ Sound(r, {}) /\ r.cache = s.cache /\ r.chain = s.chain
      /\ r.holder = Put(s.holder, l, i)
      /\ \A j \in FbId : r.fbs[j] # None => r.fbs[j] = s.fbs[j]
  BY <1>2, <1>4, <1>5, AssignSound
<1>7. s.holder \in [Holders -> FbId \cup {None}]
  BY <1>2 DEF Sound, TypedState
<1>8. r.holder[l] = None /\ \A k \in Holders : k # l => r.holder[k] = s.holder[k]
  BY <1>4, <1>6, <1>7 DEF Put
<1>9. HolderInv(s) /\ HolderInv(r)
  BY <1>2, <1>6 DEF Sound
<1>10. OthersWant(s, w, l)
  BY <1>2 DEF Wants, OthersWant
<1>11. Agrees(s, r, l)
  BY <1>6, <1>8 DEF Agrees
<1>12. OthersWant(r, w, l)
  BY <1>9, <1>10, <1>11, NeighboursKeep
<1>13. Fewer(s, r)
  BY <1>6 DEF Fewer
<1> QED
  BY <1>1, <1>2, <1>3, <1>4, <1>6, <1>8, <1>12, <1>13

(* A holder lets go: the import failed before anything was opened, or a    *)
(* frame is retired.                                                       *)
LEMMA DropStep ==
    ASSUME DistinctMemory, Inv, NEW l \in Holders, Store(Released(l)),
           wanted' = [wanted EXCEPT ![l] = None]
    PROVE  Inv' /\ Fewer(State, State')
<1>1. PICK r, w, v : r = Released(l) /\ w = wanted /\ v = None
  OBVIOUS
<1>2. Sound(r, {}) /\ OthersWant(r, w, l) /\ w \in [Holders -> Bufs \cup {None}]
      /\ r.holder[l] = None /\ Fewer(State, r)
  BY <1>1, ReleasedSound
<1>3. Store(r) /\ wanted' = Put(w, l, v)
  BY <1>1 DEF Put
<1>4. Done(r, w, l, v)
  BY <1>1, <1>2 DEF Done
<1>5. Inv' /\ State' = r
  BY <1>3, <1>4, StoreKeeps
<1> QED
  BY <1>2, <1>5

(* A reference to a live framebuffer of b replaces l's, in a state where   *)
(* l has none.                                                             *)
LEMMA TakeSound ==
    ASSUME DistinctMemory, NEW s, Sound(s, {}), NEW l \in Holders, NEW w, OthersWant(s, w, l),
           NEW i, Live(s, i), s.holder[l] = None, NEW t, t = Assign(s, l, i)
    PROVE  /\ Sound(t, {}) /\ OthersWant(t, w, l)
           /\ t.holder[l] = i /\ Live(t, i) /\ t.fbs[i] = s.fbs[i]
           /\ Fewer(s, t)
<1>1. /\ Sound(t, {}) /\ t.holder = Put(s.holder, l, i) /\ t.cache = s.cache
      /\ \A j \in FbId : t.fbs[j] # None => t.fbs[j] = s.fbs[j]
  BY AssignSound
<1>2. s.holder \in [Holders -> FbId \cup {None}]
  BY DEF Sound, TypedState
<1>3. t.holder[l] = i /\ \A k \in Holders : k # l => t.holder[k] = s.holder[k]
  BY <1>1, <1>2 DEF Put
<1>4. HolderInv(s) /\ HolderInv(t)
  BY <1>1 DEF Sound
<1>5. i # None
  BY ImporterAssumption DEF Live
<1>6. Live(t, i)
  BY <1>3, <1>4, <1>5 DEF HolderInv
<1>7. Agrees(s, t, l)
  BY <1>1, <1>3 DEF Agrees
<1>8. OthersWant(t, w, l)
  BY <1>4, <1>7, NeighboursKeep
<1>9. Fewer(s, t)
  BY <1>1 DEF Fewer
<1> QED
  BY <1>1, <1>3, <1>6, <1>8, <1>9 DEF Live

(* The swap chain knows the framebuffer of the buffer.                     *)
LEMMA SwapChainHitStep ==
    ASSUME DistinctMemory, Inv, NEW l \in Layers, NEW b \in Bufs, SwapChainHit(l, b)
    PROVE  Inv' /\ Fewer(State, State')
<1>1. PICK r, w : r = Released(l) /\ w = wanted
  OBVIOUS
<1>2. l \in Holders
  BY DEF Holders
<1>3. /\ Sound(r, {}) /\ r.chain = chain /\ OthersWant(r, w, l) /\ Fewer(State, r)
      /\ w \in [Holders -> Bufs \cup {None}] /\ r.holder[l] = None
  BY <1>1, <1>2, ReleasedSound
<1>4. PICK c, n : c = r.chain[l] /\ n = SeqNo(c, b)
  OBVIOUS
<1>5. Tracked(c, b) /\ n \in DOMAIN c.kept
  BY <1>3, <1>4 DEF SwapChainHit, InSwapChain
<1>6. PICK i : i = c.kept[n]
  OBVIOUS
<1>7. Live(r, i) /\ r.fbs[i].buf = b
  <2>1. KeptInv(r, c)
    BY <1>3, <1>4 DEF Sound, ChainInv
  <2>2. Live(r, i) /\ r.fbs[i].buf = c.order[n]
    BY <1>5, <1>6, <2>1 DEF KeptInv
  <2>3. c.order[n] = b
    BY <1>4, <1>5, SeqNoFacts
  <2> QED
    BY <2>2, <2>3
<1>8. PICK t : t = Assign(r, l, i)
  OBVIOUS
<1>9. /\ Sound(t, {}) /\ OthersWant(t, w, l) /\ Fewer(r, t)
      /\ t.holder[l] = i /\ Live(t, i) /\ t.fbs[i] = r.fbs[i]
  BY <1>2, <1>3, <1>7, <1>8, TakeSound
<1>10. Store(t) /\ wanted' = Put(w, l, b)
  BY <1>1, <1>3, <1>4, <1>6, <1>8 DEF SwapChainHit, Put
<1>11. Done(t, w, l, b)
  BY <1>3, <1>7, <1>9 DEF Done
<1>12. Inv' /\ State' = t
  BY <1>2, <1>10, <1>11, StoreKeeps
<1> QED
  BY <1>3, <1>9, <1>12, FewerTrans

(* The first plane of the buffer has its handle.                           *)
LEMMA ImportedSound ==
    ASSUME DistinctMemory, Inv, NEW l \in Layers, NEW b \in Bufs,
           NEW s, s = Imported(l, b), NEW h, h = Key(l, b), NEW w, w = wanted,
           NEW X, X = {Mem[b][1]}
    PROVE  /\ l \in Holders /\ X \subseteq MemOf(b)
           /\ Sound(s, X) /\ s.cache = cache /\ OthersWant(s, w, l)
           /\ w \in [Holders -> Bufs \cup {None}] /\ s.holder[l] = None
           /\ s.holder = Put(holder, l, None)
           /\ h \in GemHandle /\ s.gem[h] = Mem[b][1]
           /\ s.fbs = Released(l).fbs /\ Fewer(State, s)
<1>1. l \in Holders
  BY DEF Holders
<1>2. PICK r : r = Released(l)
  OBVIOUS
<1>3. /\ Sound(r, {}) /\ r.cache = cache /\ OthersWant(r, w, l)
      /\ w \in [Holders -> Bufs \cup {None}] /\ r.holder[l] = None
      /\ r.holder = Put(holder, l, None) /\ Fewer(State, r)
  BY <1>1, <1>2, ReleasedSound
<1>4. PICK o, g, t : o = Mem[b][1] /\ t = r.gem /\ g = PrimeFDToHandle(t, o)
  OBVIOUS
<1>5. o \in Objects /\ o \in MemOf(b)
  BY <1>4, MemFacts
<1>6. IsTable(t)
  BY <1>3, <1>4 DEF Sound, TypedState
<1>7. h = HandleFor(t, o)
  BY <1>2, <1>4 DEF Key
<1>8. h \in GemHandle /\ g[h] = o /\ Extends(t, g, {o})
  <2>1. g = PrimeFDToHandle(t, o)
    BY <1>4
  <2> QED
    BY <1>5, <1>6, <1>7, <2>1, PrimeFacts
<1>9. s = WithGem(r, g)
  BY <1>2, <1>4 DEF Imported, WithGem
<1>10. Sound(s, X)
  <2>1. PICK Y : Y = {}
    OBVIOUS
  <2>2. Sound(r, Y)
    BY <1>3, <2>1
  <2>3. Covers(X, Y, X)
    BY <2>1 DEF Covers
  <2>4. Extends(r.gem, g, X)
    BY <1>4, <1>8
  <2> QED
    BY <1>9, <2>2, <2>3, <2>4, OpenSound
<1>11. s.gem = g /\ s.fbs = r.fbs /\ s.cache = r.cache /\ s.holder = r.holder
  <2>1. TypedState(r)
    BY <1>3 DEF Sound
  <2> QED
    BY <1>9, <2>1, WithGemFields
<1>12. OthersWant(s, w, l)
  BY <1>3, <1>11 DEF OthersWant
<1>13. Fewer(State, s)
  BY <1>3, <1>11 DEF Fewer
<1> QED
  BY <1>1, <1>2, <1>3, <1>4, <1>5, <1>8, <1>10, <1>11, <1>12, <1>13

(* The layer has a live framebuffer of b, and its swap chain learns of it. *)
LEMMA LearnsDone ==
    ASSUME DistinctMemory, NEW s, Sound(s, {}), NEW l \in Layers, NEW b \in Bufs, NEW w,
           OthersWant(s, w, l), w \in [Holders -> Bufs \cup {None}],
           s.holder[l] # None, s.fbs[s.holder[l]].buf = b, NEW t, t = Learns(s, l, b)
    PROVE  Done(t, w, l, b) /\ Fewer(s, t)
<1>1. l \in Holders
  BY DEF Holders
<1>2. HolderInv(s)
  BY DEF Sound
<1>3. Live(s, s.holder[l])
  BY <1>1, <1>2 DEF HolderInv
<1>4. /\ Sound(t, {}) /\ t.holder = s.holder /\ t.cache = s.cache
      /\ \A j \in FbId : t.fbs[j] # None => t.fbs[j] = s.fbs[j]
  BY <1>3, LearnsSound
<1>5. HolderInv(t)
  BY <1>4 DEF Sound
<1>6. Agrees(s, t, l)
  BY <1>4 DEF Agrees
<1>7. OthersWant(t, w, l)
  BY <1>2, <1>5, <1>6, NeighboursKeep
<1>8. t.fbs[t.holder[l]].buf = b
  BY <1>1, <1>4, <1>5 DEF HolderInv, Live
<1> QED
  BY <1>4, <1>7, <1>8 DEF Done, Fewer

(* The cache has the handle: its framebuffer shows the buffer, because the *)
(* memory behind the handle is the buffer's and nobody else's.             *)
LEMMA ImportHitStep ==
    ASSUME DistinctMemory, Inv, NEW l \in Layers, NEW b \in Bufs, ImportHit(l, b)
    PROVE  Inv' /\ Fewer(State, State')
<1>1. PICK s, h, w, X : s = Imported(l, b) /\ h = Key(l, b) /\ w = wanted /\ X = {Mem[b][1]}
  OBVIOUS
<1>2. /\ l \in Holders /\ X \subseteq MemOf(b) /\ Sound(s, X) /\ OthersWant(s, w, l)
      /\ w \in [Holders -> Bufs \cup {None}] /\ s.holder[l] = None
      /\ h \in GemHandle /\ s.gem[h] = Mem[b][1] /\ Fewer(State, s)
  BY <1>1, ImportedSound
<1>3. h \in DOMAIN s.cache
  BY <1>1 DEF ImportHit
<1>4. PICK i : i = s.cache[h]
  OBVIOUS
<1>5. TypedState(s) /\ OwnInv(s) /\ OneEach(s) /\ Owned(s, X) /\ CacheInv(s) /\ HolderInv(s)
      /\ ChainInv(s)
  BY <1>2 DEF Sound
<1>6. Live(s, i) /\ s.gem[h] = Mem[s.fbs[i].buf][1]
  BY <1>3, <1>4, <1>5 DEF CacheInv
<1>7. s.fbs[i].buf = b
  <2>1. s.fbs[i].buf \in Bufs
    BY <1>5, <1>6, LiveTyped DEF Live
  <2>2. s.gem[h] \in MemOf(s.fbs[i].buf)
    BY <1>6, <2>1, MemFacts
  <2>3. s.gem[h] \in MemOf(b)
    BY <1>2, MemFacts
  <2> QED
    BY <2>1, <2>2, <2>3, OneBuffer
<1>8. Owned(s, {})
  <2>1. \A k \in GemHandle : s.gem[k] \in X => k \in s.fbs[i].handles
    BY <1>2, <1>5, <1>6, <1>7 DEF OwnInv, Live
  <2> QED
    BY <1>5, <1>6, <2>1 DEF Owned, Live
<1>9. Sound(s, {})
  BY <1>5, <1>8 DEF Sound
<1>10. PICK t : t = Assign(s, l, i)
  OBVIOUS
<1>11. /\ Sound(t, {}) /\ OthersWant(t, w, l) /\ Fewer(s, t)
       /\ t.holder[l] = i /\ Live(t, i) /\ t.fbs[i] = s.fbs[i]
  BY <1>2, <1>6, <1>9, <1>10, TakeSound
<1>12. PICK u : u = Learns(t, l, b)
  OBVIOUS
<1>13. Done(u, w, l, b) /\ Fewer(t, u)
  <2>1. t.holder[l] # None /\ t.fbs[t.holder[l]].buf = b
    BY <1>7, <1>11, ImporterAssumption DEF Live
  <2> QED
    BY <1>2, <1>11, <1>12, <2>1, LearnsDone
<1>14. Store(u) /\ wanted' = Put(w, l, b)
  BY <1>1, <1>4, <1>10, <1>12 DEF ImportHit, Put
<1>15. Inv' /\ State' = u
  BY <1>2, <1>13, <1>14, StoreKeeps
<1>16. Fewer(State, t)
  BY <1>2, <1>11, FewerTrans
<1> QED
  BY <1>13, <1>15, <1>16, FewerTrans

CacheWith(C, h, i) == [k \in DOMAIN C \cup {h} |-> IF k = h THEN i ELSE C[k]]

(* The cache gets the handle of a live framebuffer's first plane.          *)
LEMMA CacheAddSound ==
    ASSUME NEW s, NEW X, Sound(s, X), NEW h \in GemHandle, NEW i, Live(s, i),
           s.gem[h] = Mem[s.fbs[i].buf][1], NEW C, C = CacheWith(s.cache, h, i),
           NEW t, t = WithCache(s, C)
    PROVE  Sound(t, X)
<1>1. TypedState(s) /\ CacheInv(s) /\ HolderInv(s) /\ ChainInv(s)
  BY DEF Sound
<1>2. /\ t.fbs = s.fbs /\ t.gem = s.gem /\ t.cache = C /\ t.holder = s.holder
      /\ t.chain = s.chain /\ IsState(t)
  BY <1>1, WithCacheFields
<1>3. DOMAIN C = DOMAIN s.cache \cup {h} /\ \A k \in DOMAIN C : C[k] = IF k = h THEN i ELSE s.cache[k]
  BY DEF CacheWith
<1>4. C \in [DOMAIN C -> FbId] /\ DOMAIN C \subseteq GemHandle
  BY <1>1, <1>3 DEF TypedState, Live, CacheWith
<1>5. TypedState(t)
  BY <1>1, <1>2, <1>4 DEF TypedState
<1>6. CacheInv(t)
  <2>1. \A k \in DOMAIN C : Live(s, C[k]) /\ s.gem[k] = Mem[s.fbs[C[k]].buf][1]
    BY <1>1, <1>3, SMTT(40) DEF CacheInv
  <2> QED
    BY <1>2, <2>1 DEF CacheInv, Live
<1>7. HolderInv(t) /\ ChainInv(t)
  BY <1>1, <1>2 DEF HolderInv, ChainInv, KeptInv, Live
<1> QED
  BY <1>2, <1>5, <1>6, <1>7, SameFbsSound

(* What CreateInstance finds when the cache does not have the handle and   *)
(* no framebuffer of the buffer lives, and what it leaves.                 *)
LEMMA MissSound ==
    ASSUME DistinctMemory, Inv, NEW l \in Layers, NEW b \in Bufs, NoFbOf(Released(l), b),
           NEW s, s = CleanupCache(Imported(l, b)), NEW t, t = CreateInstance(s, b),
           NEW i, i = NewId(ImportPlanes(s, b)), NEW h, h = Key(l, b), NEW w, w = wanted
    PROVE  /\ l \in Holders /\ w \in [Holders -> Bufs \cup {None}]
           /\ Sound(t, {}) /\ OthersWant(t, w, l) /\ t.holder[l] = None
           /\ Live(t, i) /\ t.fbs[i].buf = b
           /\ h \in GemHandle /\ t.gem[h] = Mem[b][1]
           /\ t.cache = s.cache
<1>1. PICK m, X, k : m = Imported(l, b) /\ X = {Mem[b][1]} /\ k = h
  OBVIOUS
<1>2. /\ l \in Holders /\ X \subseteq MemOf(b) /\ Sound(m, X) /\ OthersWant(m, w, l)
      /\ w \in [Holders -> Bufs \cup {None}] /\ m.holder[l] = None
      /\ h \in GemHandle /\ m.gem[h] = Mem[b][1] /\ m.fbs = Released(l).fbs
  <2>1. k = Key(l, b)
    BY <1>1
  <2>2. /\ l \in Holders /\ X \subseteq MemOf(b) /\ Sound(m, X) /\ OthersWant(m, w, l)
        /\ w \in [Holders -> Bufs \cup {None}] /\ m.holder[l] = None
        /\ k \in GemHandle /\ m.gem[k] = Mem[b][1]
    BY <1>1, <2>1, ImportedSound
  <2>3. m.fbs = Released(l).fbs
    BY <1>1, <2>1, ImportedSound
  <2> QED
    BY <1>1, <2>2, <2>3
<1>3. NoFbOf(m, b)
  BY <1>2 DEF NoFbOf
<1>4. s = CleanupCache(m)
  BY <1>1
<1>5. Sound(m, X)
  BY <1>2
<1>6. /\ Sound(s, X) /\ s.holder = m.holder
      /\ \A j \in FbId : s.fbs[j] # None => s.fbs[j] = m.fbs[j]
      /\ \A g \in GemHandle : (\A j \in FbId : m.fbs[j] # None => g \notin m.fbs[j].handles)
                                => s.gem[g] = m.gem[g]
  BY <1>4, <1>5, CleanupSound
<1>7. NoFbOf(s, b)
  BY <1>3, <1>6 DEF NoFbOf
(* Nobody owns the handle, so emptying the cache leaves it open. *)
<1>8. s.gem[h] = Mem[b][1]
  <2>1. ASSUME NEW j \in FbId, m.fbs[j] # None, h \in m.fbs[j].handles
        PROVE  FALSE
    <3>1. TypedState(m) /\ OwnInv(m)
      BY <1>5 DEF Sound
    <3>2. m.fbs[j].buf \in Bufs
      BY <2>1, <3>1, LiveTyped
    <3>3. m.gem[h] \in MemOf(m.fbs[j].buf)
      BY <1>2, <2>1, <3>1 DEF OwnInv
    <3>4. m.gem[h] \in MemOf(b)
      BY <1>2, MemFacts
    <3>5. m.fbs[j].buf = b
      BY <3>2, <3>3, <3>4, OneBuffer
    <3> QED
      BY <1>3, <2>1, <3>5 DEF NoFbOf
  <2> QED
    BY <1>2, <1>6, <2>1
<1>9. OthersWant(s, w, l)
  <2>1. HolderInv(m) /\ HolderInv(s)
    BY <1>5, <1>6 DEF Sound
  <2>2. Agrees(m, s, l)
    BY <1>6 DEF Agrees
  <2> QED
    BY <1>2, <2>1, <2>2, NeighboursKeep
<1>10. Sound(s, X) /\ X \subseteq MemOf(b)
  BY <1>2, <1>6
<1>11. /\ Sound(t, {}) /\ t.cache = s.cache /\ t.holder = s.holder
       /\ i \in FbId /\ s.fbs[i] = None /\ t.fbs[i] # None /\ t.fbs[i].buf = b
       /\ \A j \in FbId : j # i => t.fbs[j] = s.fbs[j]
       /\ \A g \in GemHandle : s.gem[g] # None => t.gem[g] = s.gem[g]
  BY <1>7, <1>10, CreateSound
<1>12. OthersWant(t, w, l)
  <2>1. HolderInv(s) /\ HolderInv(t)
    BY <1>10, <1>11 DEF Sound
  <2>2. Agrees(s, t, l)
    BY <1>11 DEF Agrees
  <2> QED
    BY <1>9, <2>1, <2>2, NeighboursKeep
<1>13. t.gem[h] = Mem[b][1]
  BY <1>2, <1>8, <1>11, MemFacts
<1> QED
  BY <1>2, <1>6, <1>11, <1>12, <1>13 DEF Live

(* Two fields at once: as an import and a layer's destruction write them.  *)
LEMMA HolderAndCache ==
    ASSUME NEW s, TypedState(s), NEW H, NEW C, NEW t, t = [s EXCEPT !.holder = H, !.cache = C]
    PROVE  t = WithCache(WithHolder(s, H), C)
<1>1. s = [fbs |-> s.fbs, gem |-> s.gem, cache |-> s.cache, holder |-> s.holder, chain |-> s.chain]
  BY DEF TypedState, IsState
<1>2. t = [fbs |-> s.fbs, gem |-> s.gem, cache |-> C, holder |-> H, chain |-> s.chain]
  BY <1>1
<1>3. PICK u : u = WithCache(WithHolder(s, H), C)
  OBVIOUS
<1>4. u = [fbs |-> s.fbs, gem |-> s.gem, cache |-> C, holder |-> H, chain |-> s.chain]
  BY <1>1, <1>3 DEF WithCache, WithHolder
<1> QED
  BY <1>2, <1>3, <1>4

(* The same for the swap chain.                                            *)
LEMMA HolderAndChain ==
    ASSUME NEW s, TypedState(s), NEW H, NEW K, NEW t, t = [s EXCEPT !.holder = H, !.chain = K]
    PROVE  t = WithChain(WithHolder(s, H), K)
<1>1. s = [fbs |-> s.fbs, gem |-> s.gem, cache |-> s.cache, holder |-> s.holder, chain |-> s.chain]
  BY DEF TypedState, IsState
<1>2. t = [fbs |-> s.fbs, gem |-> s.gem, cache |-> s.cache, holder |-> H, chain |-> K]
  BY <1>1
<1>3. PICK u : u = WithChain(WithHolder(s, H), K)
  OBVIOUS
<1>4. u = [fbs |-> s.fbs, gem |-> s.gem, cache |-> s.cache, holder |-> H, chain |-> K]
  BY <1>1, <1>3 DEF WithChain, WithHolder
<1> QED
  BY <1>2, <1>3, <1>4

(* The framebuffers and the cache after an import that missed.             *)
Grown(s, b, h, x) ==
    /\ x.fbs = CreateInstance(s, b).fbs
    /\ x.cache = CacheWith(s.cache, h, NewId(ImportPlanes(s, b)))

(* A new framebuffer goes to the layer, the cache and the swap chain.      *)
LEMMA ImportMissStep ==
    ASSUME DistinctMemory, Inv, NEW l \in Layers, NEW b \in Bufs, ImportMiss(l, b),
           NoFbOf(Released(l), b)
    PROVE  /\ Inv'
           /\ \E x : Grown(CleanupCache(Imported(l, b)), b, Key(l, b), x) /\ Fewer(x, State')
<1>1. PICK s : s = CleanupCache(Imported(l, b))
  OBVIOUS
<1>2. PICK t, i, h, w : /\ t = CreateInstance(s, b) /\ i = NewId(ImportPlanes(s, b))
                        /\ h = Key(l, b) /\ w = wanted
  OBVIOUS
<1>3. /\ l \in Holders /\ w \in [Holders -> Bufs \cup {None}]
      /\ Sound(t, {}) /\ OthersWant(t, w, l) /\ t.holder[l] = None
      /\ Live(t, i) /\ t.fbs[i].buf = b
      /\ h \in GemHandle /\ t.gem[h] = Mem[b][1] /\ t.cache = s.cache
  BY <1>1, <1>2, MissSound
<1>4. PICK H, C : H = Put(t.holder, l, i) /\ C = CacheWith(t.cache, h, i)
  OBVIOUS
<1>5. PICK x : x = WithHolder(t, H)
  OBVIOUS
<1>6. PICK u : u = WithCache(x, C)
  OBVIOUS
<1>7. TypedState(t)
  BY <1>3 DEF Sound
<1>8. x.fbs = t.fbs /\ x.gem = t.gem /\ x.cache = t.cache /\ x.holder = H /\ x.chain = t.chain
  BY <1>5, <1>7, WithHolderFields
<1>9. Sound(x, {})
  <2>1. H = Put(t.holder, l, i)
    BY <1>4
  <2> QED
    BY <1>3, <1>5, <2>1, HoldSound
<1>10. Sound(u, {})
  <2>1. Live(x, i) /\ x.gem[h] = Mem[x.fbs[i].buf][1] /\ C = CacheWith(x.cache, h, i)
    BY <1>3, <1>4, <1>8 DEF Live
  <2> QED
    BY <1>3, <1>6, <1>9, <2>1, CacheAddSound
<1>11. u.fbs = t.fbs /\ u.holder = H /\ u.cache = C
  <2>1. TypedState(x)
    BY <1>9 DEF Sound
  <2> QED
    BY <1>6, <1>8, <2>1, WithCacheFields
<1>12. u = [t EXCEPT !.holder = H, !.cache = C]
  <2>1. PICK y : y = [t EXCEPT !.holder = H, !.cache = C]
    OBVIOUS
  <2>2. y = u
    BY <1>5, <1>6, <1>7, <2>1, HolderAndCache
  <2> QED
    BY <2>1, <2>2
<1>13. H[l] = i /\ \A k \in Holders : k # l => H[k] = t.holder[k]
  BY <1>3, <1>4, <1>7 DEF TypedState, Put
<1>14. OthersWant(u, w, l)
  BY <1>3, <1>11, <1>13 DEF OthersWant
<1>15. u.holder[l] # None /\ u.fbs[u.holder[l]].buf = b
  BY <1>3, <1>11, <1>13, ImporterAssumption DEF Live
<1>16. PICK v : v = Learns(u, l, b)
  OBVIOUS
<1>17. Done(v, w, l, b) /\ Fewer(u, v)
  BY <1>3, <1>10, <1>14, <1>15, <1>16, LearnsDone
<1>18. Store(v) /\ wanted' = Put(w, l, b)
  BY <1>1, <1>2, <1>4, <1>12, <1>16 DEF ImportMiss, Put, CacheWith
<1>19. Inv' /\ State' = v
  BY <1>3, <1>17, <1>18, StoreKeeps
<1>20. Grown(s, b, h, u)
  BY <1>2, <1>3, <1>4, <1>11 DEF Grown
<1> QED
  BY <1>1, <1>2, <1>17, <1>19, <1>20

(* Handles of a buffer without a framebuffer are closed.                   *)
LEMMA CloseSound ==
    ASSUME DistinctMemory, NEW b \in Bufs, NEW s, NEW X, Sound(s, X), NoFbOf(s, b),
           NEW K, X \subseteq K, K \subseteq MemOf(b), NEW t, t = CloseObjects(s, K)
    PROVE  /\ Sound(t, {})
           /\ t.fbs = s.fbs /\ t.cache = s.cache /\ t.holder = s.holder /\ t.chain = s.chain
<1>1. TypedState(s) /\ OwnInv(s) /\ OneEach(s) /\ Owned(s, X) /\ CacheInv(s) /\ HolderInv(s)
      /\ ChainInv(s)
  BY DEF Sound
<1>2. PICK g : g = [h \in GemHandle |-> IF s.gem[h] \in K THEN None ELSE s.gem[h]]
  OBVIOUS
<1>3. t = WithGem(s, g)
  BY <1>2 DEF CloseObjects, WithGem
<1>4. t.fbs = s.fbs /\ t.gem = g /\ t.cache = s.cache /\ t.holder = s.holder
      /\ t.chain = s.chain /\ IsState(t)
  BY <1>1, <1>3, WithGemFields
<1>5. \A h \in GemHandle : g[h] = None \/ (g[h] = s.gem[h] /\ s.gem[h] \notin K)
  BY <1>2
<1>6. \A h \in GemHandle : s.gem[h] \notin K => g[h] = s.gem[h]
  BY <1>2
<1>7. IsTable(g)
  BY <1>1, <1>2, <1>5 DEF TypedState, IsTable
<1>8. TypedState(t)
  BY <1>1, <1>4, <1>7 DEF TypedState
<1>9. ASSUME NEW j \in FbId, s.fbs[j] # None
      PROVE  /\ s.fbs[j].buf \in Bufs /\ None \notin MemOf(s.fbs[j].buf)
             /\ \A o \in MemOf(s.fbs[j].buf) : o \notin K
  <2>1. s.fbs[j].buf \in Bufs /\ s.fbs[j].buf # b
    BY <1>1, <1>9, LiveTyped DEF NoFbOf
  <2> QED
    BY <2>1, MemFacts, OneBuffer
<1>10. OwnInv(t)
  <2> SUFFICES ASSUME NEW i \in FbId, s.fbs[i] # None
               PROVE  /\ \A h \in GemHandle : h \in s.fbs[i].handles <=> g[h] \in MemOf(s.fbs[i].buf)
                      /\ \A o \in MemOf(s.fbs[i].buf) : \E h \in GemHandle : g[h] = o
    BY <1>4 DEF OwnInv
  <2>1. /\ \A h \in GemHandle : h \in s.fbs[i].handles <=> s.gem[h] \in MemOf(s.fbs[i].buf)
        /\ \A o \in MemOf(s.fbs[i].buf) : \E h \in GemHandle : s.gem[h] = o
    BY <1>1 DEF OwnInv
  <2>2. None \notin MemOf(s.fbs[i].buf) /\ \A o \in MemOf(s.fbs[i].buf) : o \notin K
    BY <1>9
  <2> QED
    BY <1>5, <1>6, <2>1, <2>2
<1>11. OneEach(t) /\ HolderInv(t) /\ ChainInv(t)
  BY <1>1, <1>4 DEF OneEach, HolderInv, ChainInv, KeptInv, Live
<1>12. Owned(t, {})
  <2> SUFFICES ASSUME NEW h \in GemHandle, g[h] # None
               PROVE  \E j \in FbId : s.fbs[j] # None /\ h \in s.fbs[j].handles
    BY <1>4 DEF Owned
  <2>1. s.gem[h] # None /\ s.gem[h] \notin X
    BY <1>5
  <2> QED
    BY <1>1, <2>1 DEF Owned
<1>13. CacheInv(t)
  <2> SUFFICES ASSUME NEW h \in DOMAIN s.cache
               PROVE  Live(t, s.cache[h]) /\ g[h] = Mem[s.fbs[s.cache[h]].buf][1]
    BY <1>4 DEF CacheInv
  <2>1. PICK i : i = s.cache[h]
    OBVIOUS
  <2>2. Live(s, i) /\ s.gem[h] = Mem[s.fbs[i].buf][1] /\ h \in GemHandle
    BY <1>1, <2>1 DEF CacheInv, TypedState
  <2>3. i \in FbId /\ s.fbs[i] # None
    BY <2>2 DEF Live
  <2>4. s.fbs[i].buf \in Bufs /\ \A o \in MemOf(s.fbs[i].buf) : o \notin K
    BY <1>9, <2>3
  <2>5. s.gem[h] \notin K
    BY <2>2, <2>4, MemFacts
  <2> QED
    BY <1>4, <1>6, <2>1, <2>2, <2>3, <2>5 DEF Live
<1> QED
  BY <1>4, <1>8, <1>10, <1>11, <1>12, <1>13 DEF Sound

(* A framebuffer that is not made takes the handles it has along.          *)
LEMMA CreateFailsStep ==
    ASSUME DistinctMemory, Inv, NEW l \in Layers, NEW b \in Bufs, CreateFails(l, b),
           NoFbOf(Released(l), b)
    PROVE  Inv' /\ Fewer(CleanupCache(Imported(l, b)), State')
<1>1. PICK m, s, X, w, h, v : /\ m = Imported(l, b) /\ X = {Mem[b][1]} /\ w = wanted
                              /\ s = CleanupCache(m) /\ h = Key(l, b) /\ v = None
  OBVIOUS
<1>2. /\ l \in Holders /\ X \subseteq MemOf(b) /\ Sound(m, X) /\ OthersWant(m, w, l)
      /\ w \in [Holders -> Bufs \cup {None}] /\ m.holder[l] = None /\ m.fbs = Released(l).fbs
  BY <1>1, ImportedSound
<1>3. /\ Sound(s, X) /\ s.holder = m.holder
      /\ \A j \in FbId : s.fbs[j] # None => s.fbs[j] = m.fbs[j]
  BY <1>1, <1>2, CleanupSound
<1>4. NoFbOf(s, b)
  BY <1>2, <1>3 DEF NoFbOf
<1>5. OthersWant(s, w, l)
  <2>1. HolderInv(m) /\ HolderInv(s)
    BY <1>2, <1>3 DEF Sound
  <2>2. Agrees(m, s, l)
    BY <1>3 DEF Agrees
  <2> QED
    BY <1>2, <2>1, <2>2, NeighboursKeep
<1>6. PICK K : K \subseteq Range(Mem[b]) /\ Mem[b][1] \in K /\ Store(CloseObjects(s, K))
  BY <1>1 DEF CreateFails
<1>7. X \subseteq K /\ K \subseteq MemOf(b)
  BY <1>1, <1>6 DEF MemOf
<1>8. PICK t : t = CloseObjects(s, K)
  OBVIOUS
<1>9. Sound(t, {}) /\ t.fbs = s.fbs /\ t.cache = s.cache /\ t.holder = s.holder
  BY <1>3, <1>4, <1>7, <1>8, CloseSound
<1>10. Done(t, w, l, v)
  BY <1>1, <1>2, <1>3, <1>5, <1>9 DEF Done, OthersWant
<1>11. Store(t) /\ wanted' = Put(w, l, v)
  BY <1>1, <1>6, <1>8 DEF CreateFails, Put
<1>12. Inv' /\ State' = t
  BY <1>2, <1>10, <1>11, StoreKeeps
<1> QED
  BY <1>1, <1>9, <1>12 DEF Fewer

(* The state that an operation starts from.                                *)
LEMMA StateSound ==
    ASSUME Inv, NEW s, s = State, NEW w, w = wanted
    PROVE  /\ Sound(s, {}) /\ Wants(s, w) /\ w \in [Holders -> Bufs \cup {None}]
           /\ s.fbs = fbs /\ s.gem = gem /\ s.cache = cache /\ s.holder = holder
           /\ s.chain = chain
<1>1. Sound(s, {}) /\ Wants(s, w) /\ w \in [Holders -> Bufs \cup {None}]
  BY DEF Inv
<1>2. s.fbs = fbs /\ s.gem = gem /\ s.cache = cache /\ s.holder = holder /\ s.chain = chain
  BY DEF State
<1> QED
  BY <1>1, <1>2

(* A layer goes, with its swap chain.                                      *)
LEMMA DestroyLayerStep ==
    ASSUME DistinctMemory, Inv, NEW l \in Layers, DestroyLayer(l)
    PROVE  Inv' /\ Fewer(State, State')
<1>1. PICK s, w, v : s = State /\ w = wanted /\ v = None
  OBVIOUS
<1>2. /\ Sound(s, {}) /\ Wants(s, w) /\ w \in [Holders -> Bufs \cup {None}]
  BY <1>1, StateSound
<1>3. PICK c : c = NoChain
  OBVIOUS
<1>4. PICK H, K : H = Put(s.holder, l, v) /\ K = Put(s.chain, l, c)
  OBVIOUS
<1>5. PICK x : x = WithHolder(s, H)
  OBVIOUS
<1>6. PICK u : u = WithChain(x, K)
  OBVIOUS
<1>7. TypedState(s)
  BY <1>2 DEF Sound
<1>8. l \in Holders
  BY DEF Holders
<1>9. x.fbs = s.fbs /\ x.chain = s.chain /\ x.holder = H /\ x.cache = s.cache
  BY <1>5, <1>7, WithHolderFields
<1>10. Sound(x, {})
  <2>1. H = Put(s.holder, l, v) /\ v = None
    BY <1>1, <1>4
  <2> QED
    BY <1>2, <1>5, <1>8, <2>1, HoldSound
<1>11. IsChain(c) /\ KeptInv(x, c)
  BY <1>3, EmptyChain
<1>12. Sound(u, {})
  <2>1. K = Put(x.chain, l, c)
    BY <1>4, <1>9
  <2> QED
    BY <1>6, <1>10, <1>11, <2>1, RechainSound
<1>13. u.fbs = s.fbs /\ u.holder = H /\ u.cache = s.cache
  <2>1. TypedState(x)
    BY <1>10 DEF Sound
  <2> QED
    BY <1>6, <1>9, <2>1, WithChainFields
<1>14. u = [s EXCEPT !.holder = H, !.chain = K]
  <2>1. PICK y : y = [s EXCEPT !.holder = H, !.chain = K]
    OBVIOUS
  <2>2. y = u
    BY <1>5, <1>6, <1>7, <2>1, HolderAndChain
  <2> QED
    BY <2>1, <2>2
<1>15. PICK t : t = Collect(u)
  OBVIOUS
<1>16. /\ Sound(t, {}) /\ t.holder = u.holder /\ t.cache = u.cache
       /\ \A j \in FbId : t.fbs[j] # None => t.fbs[j] = u.fbs[j]
  BY <1>12, <1>15, CollectSound
<1>17. t.holder[l] = None /\ \A k \in Holders : k # l => t.holder[k] = s.holder[k]
  BY <1>1, <1>4, <1>7, <1>8, <1>13, <1>16 DEF TypedState, Put
<1>18. OthersWant(t, w, l)
  <2>1. HolderInv(s) /\ HolderInv(t)
    BY <1>2, <1>16 DEF Sound
  <2>2. Agrees(s, t, l)
    BY <1>13, <1>16, <1>17 DEF Agrees
  <2>3. OthersWant(s, w, l)
    BY <1>2 DEF Wants, OthersWant
  <2> QED
    BY <2>1, <2>2, <2>3, NeighboursKeep
<1>19. Done(t, w, l, v)
  BY <1>1, <1>2, <1>16, <1>17, <1>18 DEF Done
<1>20. Store(t) /\ wanted' = Put(w, l, v)
  BY <1>1, <1>3, <1>4, <1>14, <1>15 DEF DestroyLayer, Put
<1>21. Inv' /\ State' = t
  BY <1>8, <1>19, <1>20, StoreKeeps
<1>22. Fewer(s, t)
  BY <1>13, <1>16 DEF Fewer
<1> QED
  BY <1>1, <1>21, <1>22

(* The client layer forgets its swap chain.                                *)
LEMMA ClearClientTargetStep ==
    ASSUME DistinctMemory, Inv, NEW l \in Layers, ClearClientTarget(l)
    PROVE  Inv' /\ Fewer(State, State')
<1>1. PICK s, w, v : s = State /\ w = wanted /\ v = w[l]
  OBVIOUS
<1>2. /\ Sound(s, {}) /\ Wants(s, w) /\ w \in [Holders -> Bufs \cup {None}]
      /\ s.chain = chain
  BY <1>1, StateSound
<1>3. PICK c : c = NoChain
  OBVIOUS
<1>4. PICK K : K = Put(s.chain, l, c)
  OBVIOUS
<1>5. PICK u : u = WithChain(s, K)
  OBVIOUS
<1>6. PICK t : t = Collect(u)
  OBVIOUS
<1>7. IsChain(c) /\ KeptInv(s, c)
  BY <1>3, EmptyChain
<1>8. Sound(u, {})
  BY <1>2, <1>4, <1>5, <1>7, RechainSound
<1>9. u.fbs = s.fbs /\ u.holder = s.holder /\ u.cache = s.cache
  <2>1. TypedState(s)
    BY <1>2 DEF Sound
  <2> QED
    BY <1>5, <2>1, WithChainFields
<1>10. /\ Sound(t, {}) /\ t.holder = u.holder /\ t.cache = u.cache
       /\ \A j \in FbId : t.fbs[j] # None => t.fbs[j] = u.fbs[j]
  BY <1>6, <1>8, CollectSound
<1>11. HolderInv(t)
  BY <1>10 DEF Sound
<1>12. Wants(t, w)
  BY <1>2, <1>9, <1>10, <1>11 DEF Wants, HolderInv, Live
<1>13. l \in Holders
  BY DEF Holders
<1>14. Done(t, w, l, v)
  BY <1>1, <1>2, <1>10, <1>12, <1>13 DEF Done, Wants, OthersWant
<1>15. Store(t)
  BY <1>1, <1>2, <1>3, <1>4, <1>5, <1>6
     DEF ClearClientTarget, WithChain, Put, NoChain, SwChainClearCache
<1>16. wanted' = Put(w, l, v)
  BY <1>1, <1>2, <1>13 DEF ClearClientTarget, Put
<1>17. Inv' /\ State' = t
  BY <1>13, <1>14, <1>15, <1>16, StoreKeeps
<1>18. Fewer(s, t)
  BY <1>9, <1>10 DEF Fewer
<1> QED
  BY <1>1, <1>17, <1>18

(* A frame state takes what a layer shows.                                 *)
LEMMA ShareStep ==
    ASSUME DistinctMemory, Inv, NEW l \in Layers, NEW m \in Frames, Share(l, m)
    PROVE  Inv' /\ Fewer(State, State')
<1>1. PICK s, w : s = State /\ w = wanted
  OBVIOUS
<1>2. /\ Sound(s, {}) /\ Wants(s, w) /\ w \in [Holders -> Bufs \cup {None}]
      /\ s.holder = holder
  BY <1>1, StateSound
<1>3. l \in Holders /\ m \in Holders
  BY DEF Holders
<1>4. PICK i, v : i = s.holder[l] /\ v = w[l]
  OBVIOUS
<1>5. i # None
  BY <1>2, <1>4 DEF Share
<1>6. Live(s, i) /\ s.fbs[i].buf = v
  BY <1>2, <1>3, <1>4, <1>5 DEF Sound, HolderInv, Wants
<1>7. PICK H : H = Put(s.holder, m, i)
  OBVIOUS
<1>8. PICK t : t = WithHolder(s, H)
  OBVIOUS
<1>9. Sound(t, {})
  BY <1>2, <1>3, <1>6, <1>7, <1>8, HoldSound
<1>10. TypedState(s)
  BY <1>2 DEF Sound
<1>11. t.fbs = s.fbs /\ t.holder = H /\ t.cache = s.cache
  BY <1>8, <1>10, WithHolderFields
<1>12. H[m] = i /\ \A k \in Holders : k # m => H[k] = s.holder[k]
  BY <1>3, <1>7, <1>10 DEF TypedState, Put
<1>13. OthersWant(t, w, m)
  BY <1>2, <1>11, <1>12 DEF Wants, OthersWant
<1>14. Done(t, w, m, v)
  BY <1>2, <1>3, <1>4, <1>6, <1>9, <1>11, <1>12, <1>13 DEF Done
<1>15. Store(t)
  BY <1>1, <1>2, <1>4, <1>7, <1>8 DEF Share, WithHolder, Put
<1>16. wanted' = Put(w, m, v)
  BY <1>1, <1>4 DEF Share, Put
<1>17. Inv' /\ State' = t
  BY <1>3, <1>14, <1>15, <1>16, StoreKeeps
<1>18. Fewer(s, t)
  BY <1>11 DEF Fewer
<1> QED
  BY <1>1, <1>17, <1>18

(* A step that stutters.                                                   *)
LEMMA StutterStep ==
    ASSUME Inv, UNCHANGED vars
    PROVE  Inv' /\ State' = State
<1>1. PICK s, w : s = State /\ w = wanted
  OBVIOUS
<1>2. State' = s /\ wanted' = w
  BY <1>1 DEF vars, State
<1>3. Sound(s, {}) /\ Wants(s, w) /\ w \in [Holders -> Bufs \cup {None}]
  BY <1>1 DEF Inv
<1> QED
  BY <1>1, <1>2, <1>3 DEF Inv

-----------------------------------------------------------------------------
(* Until a buffer is imported anew while a framebuffer of it lives outside *)
(* the cache                                                               *)

InvUntilDoubled == ~doubled => Inv

(* The step that ends this is an import that finds such a framebuffer.     *)
LEMMA NotBeside ==
    ASSUME NEW l \in Layers, NEW b \in Bufs, ~LivesBeside(l, b)
    PROVE  NoFbOf(Released(l), b)
BY DEF LivesBeside, NoFbOf

(* The invariant is inductive.                                             *)
LEMMA InvStep ==
    ASSUME DistinctMemory, InvUntilDoubled, [Next]_vars
    PROVE  InvUntilDoubled'
<1> SUFFICES ASSUME ~doubled' PROVE Inv'
  BY DEF InvUntilDoubled
<1>1. CASE UNCHANGED vars
  <2>1. Inv
    BY <1>1 DEF InvUntilDoubled, vars
  <2> QED
    BY <1>1, <2>1, StutterStep
<1>2. CASE Next
  <2>1. ASSUME NEW l \in Layers, NEW b \in Bufs, SwapChainHit(l, b) PROVE Inv'
    <3>1. Inv
      BY <2>1 DEF SwapChainHit, InvUntilDoubled
    <3> QED
      BY <2>1, <3>1, SwapChainHitStep
  <2>2. ASSUME NEW l \in Layers, NEW b \in Bufs, ImportHit(l, b) PROVE Inv'
    <3>1. Inv
      BY <2>2 DEF ImportHit, InvUntilDoubled
    <3> QED
      BY <2>2, <3>1, ImportHitStep
  <2>3. ASSUME NEW l \in Layers, NEW b \in Bufs, ImportMiss(l, b) PROVE Inv'
    <3>1. Inv /\ ~LivesBeside(l, b)
      BY <2>3 DEF ImportMiss, InvUntilDoubled
    <3> QED
      BY <2>3, <3>1, NotBeside, ImportMissStep
  <2>4. ASSUME NEW l \in Layers, NEW b \in Bufs, CreateFails(l, b) PROVE Inv'
    <3>1. Inv /\ ~LivesBeside(l, b)
      BY <2>4 DEF CreateFails, InvUntilDoubled
    <3> QED
      BY <2>4, <3>1, NotBeside, CreateFailsStep
  <2>5. ASSUME NEW l \in Layers, NEW b \in Bufs, ImportFails(l, b) PROVE Inv'
    <3>1. Inv
      BY <2>5 DEF ImportFails, InvUntilDoubled
    <3> QED
      BY <2>5, <3>1, DropStep DEF ImportFails, Holders
  <2>6. ASSUME NEW l \in Layers, DestroyLayer(l) PROVE Inv'
    <3>1. Inv
      BY <2>6 DEF DestroyLayer, InvUntilDoubled
    <3> QED
      BY <2>6, <3>1, DestroyLayerStep
  <2>7. ASSUME NEW l \in Layers, ClearClientTarget(l) PROVE Inv'
    <3>1. Inv
      BY <2>7 DEF ClearClientTarget, InvUntilDoubled
    <3> QED
      BY <2>7, <3>1, ClearClientTargetStep
  <2>8. ASSUME NEW l \in Layers, NEW m \in Frames, Share(l, m) PROVE Inv'
    <3>1. Inv
      BY <2>8 DEF Share, InvUntilDoubled
    <3> QED
      BY <2>8, <3>1, ShareStep
  <2>9. ASSUME NEW m \in Frames, Release(m) PROVE Inv'
    <3>1. Inv
      BY <2>9 DEF Release, InvUntilDoubled
    <3> QED
      BY <2>9, <3>1, DropStep DEF Release, Holders
  <2> QED
    BY <1>2, <2>1, <2>2, <2>3, <2>4, <2>5, <2>6, <2>7, <2>8, <2>9 DEF Next
<1> QED
  BY <1>1, <1>2

(* The invariant says what the properties say.                             *)
LEMMA InvMeaning ==
    ASSUME InvUntilDoubled
    PROVE  FbShowsWantedBuffer /\ HandlesOfLiveFbsOpen /\ NoHandleLeak
<1> SUFFICES ASSUME ~doubled, Inv
             PROVE  FbShowsWantedBuffer /\ HandlesOfLiveFbsOpen /\ NoHandleLeak
  BY DEF InvUntilDoubled, FbShowsWantedBuffer, HandlesOfLiveFbsOpen, NoHandleLeak
<1>1. PICK s, w : s = State /\ w = wanted
  OBVIOUS
<1>2. /\ Sound(s, {}) /\ Wants(s, w) /\ s.fbs = fbs /\ s.gem = gem /\ s.holder = holder
  BY <1>1, StateSound
<1>3. TypedState(s) /\ OwnInv(s) /\ Owned(s, {})
  BY <1>2 DEF Sound
<1>4. FbShowsWantedBuffer
  BY <1>1, <1>2 DEF FbShowsWantedBuffer, ShowsWanted, Wants
<1>5. NoHandleLeak
  BY <1>2, <1>3 DEF NoHandleLeak, Owned
<1>6. HandlesOfLiveFbsOpen
  <2> SUFFICES ASSUME NEW i \in FbId, fbs[i] # None
               PROVE  {gem[h] : h \in fbs[i].handles} = Range(Mem[fbs[i].buf])
    BY DEF HandlesOfLiveFbsOpen
  <2>1. fbs[i].handles \subseteq GemHandle
    BY <1>2, <1>3, LiveTyped
  <2>2. /\ \A h \in GemHandle : h \in fbs[i].handles <=> gem[h] \in Range(Mem[fbs[i].buf])
        /\ \A o \in Range(Mem[fbs[i].buf]) : \E h \in GemHandle : gem[h] = o
    BY <1>2, <1>3 DEF OwnInv, MemOf
  <2> QED
    BY <2>1, <2>2
<1> QED
  BY <1>4, <1>5, <1>6

(* What the three theorems share.                                          *)
LEMMA ImporterSound ==
    ASSUME DistinctMemory
    PROVE  Spec => [](FbShowsWantedBuffer /\ HandlesOfLiveFbsOpen /\ NoHandleLeak)
<1>1. Init => InvUntilDoubled
  BY InitInv DEF InvUntilDoubled
<1>2. InvUntilDoubled /\ [Next]_vars => InvUntilDoubled'
  BY InvStep
<1>3. InvUntilDoubled => FbShowsWantedBuffer /\ HandlesOfLiveFbsOpen /\ NoHandleLeak
  BY InvMeaning
<1> QED
  BY <1>1, <1>2, <1>3, PTL DEF Spec

(* For any number of buffers, planes, layers and frames, and however often *)
(* the cache is emptied: as long as no buffer has been imported beside a   *)
(* framebuffer that the cache forgot, every layer and frame shows the      *)
(* buffer it asked for.                                                    *)
THEOREM WantedBuffersShown ==
    ASSUME DistinctMemory
    PROVE  Spec => []FbShowsWantedBuffer
BY ImporterSound, PTL

(* Until then nobody closes a handle of a framebuffer that lives, whether  *)
(* the cache still knows it or not.                                        *)
THEOREM LiveHandlesOpen ==
    ASSUME DistinctMemory
    PROVE  Spec => []HandlesOfLiveFbsOpen
BY ImporterSound, PTL

(* And none stays open when its framebuffer has gone or was refused,       *)
(* whichever of its planes were imported.                                  *)
THEOREM HandlesClosed ==
    ASSUME DistinctMemory
    PROVE  Spec => []NoHandleLeak
BY ImporterSound, PTL

-----------------------------------------------------------------------------
(* A device that never empties its cache                                   *)

(* The cache knows every framebuffer.                                      *)
Cached(s) == \A i \in FbId : s.fbs[i] # None => \E h \in DOMAIN s.cache : s.cache[h] = i
CachedInv == ~doubled /\ Inv /\ Cached(State)

(* Then a buffer whose handle the cache does not have has no framebuffer.  *)
LEMMA MissIsFirst ==
    ASSUME NEW s, NEW X, Sound(s, X), Cached(s), NEW b \in Bufs,
           NEW h \in GemHandle, s.gem[h] = Mem[b][1], h \notin DOMAIN s.cache
    PROVE  NoFbOf(s, b)
<1> SUFFICES ASSUME NEW j \in FbId, s.fbs[j] # None, s.fbs[j].buf = b
             PROVE  FALSE
  BY DEF NoFbOf
<1>1. PICK k \in DOMAIN s.cache : s.cache[k] = j
  BY DEF Cached
<1>2. s.gem[k] = Mem[b][1] /\ k \in GemHandle
  BY <1>1 DEF Sound, CacheInv, TypedState
<1>3. s.gem[k] # None
  BY <1>2, MemFacts
<1>4. k = h
  BY <1>2, <1>3 DEF Sound, TypedState, IsTable
<1> QED
  BY <1>1, <1>4

(* The elements of the cache are of different buffers, so an import that   *)
(* misses finds at most one element less than there are buffers.           *)
LEMMA MissFindsRoom ==
    ASSUME Cardinality(Bufs) <= CleanupSize + 1, NEW s, NEW X, Sound(s, X), NEW b \in Bufs,
           NoFbOf(s, b)
    PROVE  Cardinality(DOMAIN s.cache) <= CleanupSize
<1>1. TypedState(s) /\ CacheInv(s)
  BY DEF Sound
<1> DEFINE D == DOMAIN s.cache
           B == Bufs \ {b}
           f == [h \in D |-> s.fbs[s.cache[h]].buf]
<1>2. \A h \in D : Live(s, s.cache[h]) /\ s.gem[h] = Mem[f[h]][1] /\ h \in GemHandle
  BY <1>1 DEF CacheInv, TypedState
<1>3. \A h \in D : f[h] \in B
  <2> SUFFICES ASSUME NEW h \in D PROVE f[h] \in B
    OBVIOUS
  <2>1. PICK i : i = s.cache[h]
    OBVIOUS
  <2>2. i \in FbId /\ s.fbs[i] # None
    BY <1>2, <2>1 DEF Live
  <2>3. s.fbs[i].buf \in Bufs /\ s.fbs[i].buf # b
    BY <1>1, <2>2, LiveTyped DEF NoFbOf
  <2> QED
    BY <2>1, <2>3
<1>4. f \in [D -> B]
  BY <1>3
<1>5. \A h, k \in D : f[h] = f[k] => h = k
  <2> SUFFICES ASSUME NEW h \in D, NEW k \in D, f[h] = f[k] PROVE h = k
    BY SMTT(40)
  <2>1. s.gem[h] = s.gem[k] /\ h \in GemHandle /\ k \in GemHandle
    BY <1>2
  <2>2. s.gem[h] # None
    <3>1. PICK a : a = f[h]
      OBVIOUS
    <3>2. a \in Bufs /\ s.gem[h] = Mem[a][1]
      BY <1>2, <1>3, <3>1
    <3> QED
      BY <3>2, MemFacts
  <2> QED
    BY <1>1, <2>1, <2>2 DEF TypedState, IsTable
<1>6. DOMAIN f = D
  OBVIOUS
<1> HIDE DEF f, D
<1>7. f \in Injection(D, B)
  BY <1>4, <1>5, <1>6 DEF Injection, IsInjective
<1>8. IsFiniteSet(Bufs) /\ CleanupSize \in Nat
  BY ImporterAssumption
<1>9. IsFiniteSet(B) /\ Cardinality(B) = Cardinality(Bufs) - 1
  BY <1>8, FS_RemoveElement
<1>10. Cardinality(D) <= Cardinality(B)
  BY <1>7, <1>9, FS_Injection
<1>11. IsFiniteSet(D)
  BY <1>7, <1>9, FS_Injection
<1>12. Cardinality(D) \in Nat /\ Cardinality(Bufs) \in Nat
  BY <1>8, <1>11, FS_CardinalityType
<1>13. Cardinality(D) <= CleanupSize
  BY <1>8, <1>9, <1>10, <1>12
<1> QED
  BY <1>13 DEF D

(* Framebuffers go, and the cache knows those that are left.               *)
LEMMA FewerCached ==
    ASSUME NEW s, NEW t, Cached(s), Fewer(s, t)
    PROVE  Cached(t)
BY DEF Cached, Fewer

(* What an import that misses finds.                                       *)
LEMMA MissFinds ==
    ASSUME DistinctMemory, Cardinality(Bufs) <= CleanupSize + 1, CachedInv,
           NEW l \in Layers, NEW b \in Bufs, NEW s, s = Imported(l, b), NEW h, h = Key(l, b),
           h \notin DOMAIN s.cache, NEW X, X = {Mem[b][1]}
    PROVE  /\ Sound(s, X) /\ X \subseteq MemOf(b) /\ Cached(s)
           /\ NoFbOf(s, b) /\ NoFbOf(Released(l), b) /\ CleanupCache(s) = s
<1>1. PICK w : w = wanted
  OBVIOUS
<1>2. Inv /\ Cached(State)
  BY DEF CachedInv
<1>3. /\ Sound(s, X) /\ h \in GemHandle /\ s.gem[h] = Mem[b][1] /\ X \subseteq MemOf(b)
      /\ s.fbs = Released(l).fbs /\ Fewer(State, s)
  BY <1>1, <1>2, ImportedSound
<1>4. Cached(s)
  BY <1>2, <1>3, FewerCached
<1>5. NoFbOf(s, b)
  BY <1>3, <1>4, MissIsFirst
<1>6. Cardinality(DOMAIN s.cache) <= CleanupSize
  BY <1>3, <1>5, MissFindsRoom
<1>7. CleanupCache(s) = s
  <2>1. PICK t : t = CleanupCache(s)
    OBVIOUS
  <2>2. Cardinality(DOMAIN s.cache) <= CleanupSize => t = s
    BY <1>3, <2>1, CleanupSound
  <2> QED
    BY <1>6, <2>1, <2>2
<1>8. NoFbOf(Released(l), b)
  BY <1>3, <1>5 DEF NoFbOf
<1> QED
  BY <1>3, <1>4, <1>5, <1>7, <1>8

(* The cache gets the new framebuffer.                                     *)
LEMMA ImportMissCached ==
    ASSUME DistinctMemory, Cardinality(Bufs) <= CleanupSize + 1, CachedInv,
           NEW l \in Layers, NEW b \in Bufs, ImportMiss(l, b)
    PROVE  NoFbOf(Released(l), b) /\ Inv' /\ Cached(State')
<1>1. PICK s, h, X : s = Imported(l, b) /\ h = Key(l, b) /\ X = {Mem[b][1]}
  OBVIOUS
<1>2. h \notin DOMAIN s.cache
  BY <1>1 DEF ImportMiss
<1>3. /\ Sound(s, X) /\ X \subseteq MemOf(b) /\ Cached(s)
      /\ NoFbOf(s, b) /\ NoFbOf(Released(l), b) /\ CleanupCache(s) = s
  BY <1>1, <1>2, MissFinds
<1>4. Inv
  BY DEF CachedInv
<1>5. Inv' /\ \E x : Grown(CleanupCache(Imported(l, b)), b, Key(l, b), x) /\ Fewer(x, State')
  BY <1>3, <1>4, ImportMissStep
<1>6. PICK x : Grown(s, b, h, x) /\ Fewer(x, State')
  BY <1>1, <1>3, <1>5
<1>7. PICK t, i : t = CreateInstance(s, b) /\ i = NewId(ImportPlanes(s, b))
  OBVIOUS
<1>8. i \in FbId /\ \A j \in FbId : j # i => t.fbs[j] = s.fbs[j]
  BY <1>3, <1>7, CreateSound
<1>9. x.fbs = t.fbs /\ x.cache = CacheWith(s.cache, h, i)
  BY <1>6, <1>7 DEF Grown
<1>10. /\ DOMAIN x.cache = DOMAIN s.cache \cup {h} /\ x.cache[h] = i
       /\ \A k \in DOMAIN s.cache : x.cache[k] = s.cache[k]
  BY <1>2, <1>9 DEF CacheWith
<1>11. Cached(x)
  BY <1>3, <1>8, <1>9, <1>10 DEF Cached
<1>12. Cached(State')
  BY <1>6, <1>11, FewerCached
<1> QED
  BY <1>3, <1>5, <1>12

(* A refused framebuffer leaves the cache as it is.                        *)
LEMMA CreateFailsCached ==
    ASSUME DistinctMemory, Cardinality(Bufs) <= CleanupSize + 1, CachedInv,
           NEW l \in Layers, NEW b \in Bufs, CreateFails(l, b)
    PROVE  NoFbOf(Released(l), b) /\ Inv' /\ Cached(State')
<1>1. PICK s, h, X : s = Imported(l, b) /\ h = Key(l, b) /\ X = {Mem[b][1]}
  OBVIOUS
<1>2. h \notin DOMAIN s.cache
  BY <1>1 DEF CreateFails
<1>3. Cached(s) /\ NoFbOf(Released(l), b) /\ CleanupCache(s) = s
  BY <1>1, <1>2, MissFinds
<1>4. Inv
  BY DEF CachedInv
<1>5. Inv' /\ Fewer(CleanupCache(Imported(l, b)), State')
  BY <1>3, <1>4, CreateFailsStep
<1>6. Fewer(s, State')
  BY <1>1, <1>3, <1>5
<1>7. Cached(State')
  BY <1>3, <1>6, FewerCached
<1> QED
  BY <1>3, <1>5, <1>7

(* The cache knows every framebuffer, always, and so no import is of a     *)
(* buffer with a framebuffer outside it.                                   *)
LEMMA CachedStep ==
    ASSUME DistinctMemory, Cardinality(Bufs) <= CleanupSize + 1, CachedInv, [Next]_vars
    PROVE  CachedInv'
<1>1. ~doubled /\ Inv /\ Cached(State)
  BY DEF CachedInv
<1>2. ASSUME Inv', Fewer(State, State'), UNCHANGED doubled PROVE CachedInv'
  <2>1. Cached(State')
    BY <1>1, <1>2, FewerCached
  <2> QED
    BY <1>1, <1>2, <2>1 DEF CachedInv
<1>3. CASE UNCHANGED vars
  <2>1. Inv' /\ State' = State
    BY <1>1, <1>3, StutterStep
  <2> QED
    BY <1>1, <1>3, <2>1 DEF CachedInv, vars
<1>4. CASE Next
  <2>1. ASSUME NEW l \in Layers, NEW b \in Bufs, SwapChainHit(l, b) PROVE CachedInv'
    BY <1>1, <1>2, <2>1, SwapChainHitStep DEF SwapChainHit
  <2>2. ASSUME NEW l \in Layers, NEW b \in Bufs, ImportHit(l, b) PROVE CachedInv'
    BY <1>1, <1>2, <2>2, ImportHitStep DEF ImportHit
  <2>3. ASSUME NEW l \in Layers, NEW b \in Bufs, ImportMiss(l, b) PROVE CachedInv'
    <3>1. NoFbOf(Released(l), b) /\ Inv' /\ Cached(State')
      BY <2>3, ImportMissCached
    <3>2. ~LivesBeside(l, b)
      BY <3>1 DEF LivesBeside, NoFbOf
    <3>3. ~doubled'
      BY <1>1, <2>3, <3>2 DEF ImportMiss
    <3> QED
      BY <3>1, <3>3 DEF CachedInv
  <2>4. ASSUME NEW l \in Layers, NEW b \in Bufs, CreateFails(l, b) PROVE CachedInv'
    <3>1. NoFbOf(Released(l), b) /\ Inv' /\ Cached(State')
      BY <2>4, CreateFailsCached
    <3>2. ~LivesBeside(l, b)
      BY <3>1 DEF LivesBeside, NoFbOf
    <3>3. ~doubled'
      BY <1>1, <2>4, <3>2 DEF CreateFails
    <3> QED
      BY <3>1, <3>3 DEF CachedInv
  <2>5. ASSUME NEW l \in Layers, NEW b \in Bufs, ImportFails(l, b) PROVE CachedInv'
    BY <1>1, <1>2, <2>5, DropStep DEF ImportFails, Holders
  <2>6. ASSUME NEW l \in Layers, DestroyLayer(l) PROVE CachedInv'
    BY <1>1, <1>2, <2>6, DestroyLayerStep DEF DestroyLayer
  <2>7. ASSUME NEW l \in Layers, ClearClientTarget(l) PROVE CachedInv'
    BY <1>1, <1>2, <2>7, ClearClientTargetStep DEF ClearClientTarget
  <2>8. ASSUME NEW l \in Layers, NEW m \in Frames, Share(l, m) PROVE CachedInv'
    BY <1>1, <1>2, <2>8, ShareStep DEF Share
  <2>9. ASSUME NEW m \in Frames, Release(m) PROVE CachedInv'
    BY <1>1, <1>2, <2>9, DropStep DEF Release, Holders
  <2> QED
    BY <1>4, <2>1, <2>2, <2>3, <2>4, <2>5, <2>6, <2>7, <2>8, <2>9 DEF Next
<1> QED
  BY <1>3, <1>4

(* A device that is given at most CleanupSize + 1 buffers in all, freed    *)
(* ones included, never has to empty the cache, and never imports a buffer *)
(* beside a framebuffer of it: there the three properties hold for good.   *)
THEOREM NeverDoubled ==
    ASSUME DistinctMemory, Cardinality(Bufs) <= CleanupSize + 1
    PROVE  Spec => []~doubled
<1>1. Init => CachedInv
  <2> SUFFICES ASSUME Init PROVE CachedInv
    OBVIOUS
  <2>1. Inv
    BY InitInv
  <2>2. \A i \in FbId : State.fbs[i] = None
    BY DEF State, Init
  <2>3. Cached(State)
    BY <2>2 DEF Cached
  <2> QED
    BY <2>1, <2>3 DEF CachedInv, Init
<1>2. CachedInv /\ [Next]_vars => CachedInv'
  BY CachedStep
<1>3. CachedInv => ~doubled
  BY DEF CachedInv
<1> QED
  BY <1>1, <1>2, <1>3, PTL DEF Spec
=============================================================================
