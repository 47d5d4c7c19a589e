--------------------------- MODULE HwcDisplayProofs ---------------------------
(***************************************************************************)
(* Proofs about a display: the division of its layers between the GPU and  *)
(* the planes, for every number N of layers and P of planes, the frame     *)
(* cycle that uses it, and its vsync thread, for every length of the       *)
(* countdown.                                                              *)
(***************************************************************************)
EXTENDS FrameCycle, VSync, FiniteSetTheorems, WellFoundedInduction, TLAPS

(* A nonempty set of numbers has a least one.                              *)
LEMMA LeastNatural ==
    ASSUME NEW T, T \subseteq Nat, T # {}
    PROVE  \E x \in T : \A y \in T : x <= y
<1> DEFINE R == OpToRel(<, Nat)
<1>1. IsWellFoundedOn(R, Nat)
  BY NatLessThanWellFounded
<1>2. \A x, y \in Nat : x < y => <<x, y>> \in R
  BY DEF OpToRel
<1> HIDE DEF R
<1>3. PICK x \in T : \A y \in T : ~ (<<y, x>> \in R)
  BY <1>1, WFMin
<1>4. \A y \in T : ~(y < x)
  BY <1>2, <1>3
<1> QED
  BY <1>3, <1>4

-----------------------------------------------------------------------------
(* GetExtraClientRange                                                     *)

(* The span of the layers that need the GPU, as GetClientLayers finds it.  *)
IsSpan(N, client) ==
    \/ client = [start |-> -1, size |-> 0]
    \/ /\ client \in [start : Nat, size : Nat \ {0}]
       /\ client.start + client.size <= N

Covers(r, client) ==
    client.size = 0 \/ ( /\ r.start <= client.start
                         /\ client.start + client.size <= r.start + r.size)

(* Without video layers a range needs a plane per layer outside it and one *)
(* for the client target.                                                  *)
LEMMA PlanesWithoutVideo ==
    ASSUME NEW N \in Nat, NEW r, r.size \in Nat
    PROVE  PlanesNeeded(N, r, {}) = (N - r.size) + (IF r.size > 0 THEN 1 ELSE 0)
<1>1. {i \in {} : ~InRange(i, r)} = {}
  OBVIOUS
<1>2. Cardinality({i \in {} : ~InRange(i, r)}) = 0
  BY <1>1, FS_EmptySet
<1> QED
  BY <1>2 DEF PlanesNeeded

(* Every range whose cost the loop of GetExtraClientRange computes lies    *)
(* within the layers, covers the layers that need the GPU, and leaves no   *)
(* more layers for planes than there are planes besides the client's; and  *)
(* the loop computes at least one.                                         *)
THEOREM CandidatesAreSound ==
    ASSUME NEW N \in Nat, NEW P \in Nat \ {0}, NEW client,
           IsSpan(N, client), ExtraClient(N, P, client) > 0
    PROVE  /\ Candidates(N, P, client) # {}
           /\ \A r \in Candidates(N, P, client) :
                /\ r.start >= 0 /\ r.start + r.size <= N
                /\ Covers(r, client)
                /\ PlanesNeeded(N, r, {}) <= P
<1> DEFINE extra == ExtraClient(N, P, client)
           avail == AvailPlanes(P, N)
           first == FirstStart(N, P, client)
           size  == NewSize(N, P, client)
           steps == Steps(N, P, client)
<1>1. /\ avail \in Nat
      /\ P < N => avail = P - 1
      /\ P >= N => avail = P
  BY DEF AvailPlanes
<1>2. client.size \in Nat
  BY DEF IsSpan
<1>3. extra = N - client.size - avail /\ size = N - avail
  BY <1>1, <1>2 DEF ExtraClient, NewSize
<1>4. P < N /\ avail = P - 1
  BY <1>1, <1>2, <1>3
<1>5. /\ steps >= 1 /\ steps \in Int /\ first \in Nat
      /\ \A i \in 0 .. steps - 1 :
            /\ first + i + size <= N
            /\ client.size # 0 =>
                 /\ first + i <= client.start
                 /\ client.start + client.size <= first + i + size
  <2>1. CASE client = [start |-> -1, size |-> 0]
    <3>1. first = 0 /\ steps = 1 + N - extra
      BY <2>1 DEF FirstStart, Steps
    <3> QED
      BY <2>1, <3>1, <1>3, <1>4
  <2>2. CASE client \in [start : Nat, size : Nat \ {0}]
             /\ client.start + client.size <= N
    <3> DEFINE prepend == MinOf(client.start, extra)
               append  == MinOf(N - (client.start + client.size), extra)
    <3>1. client.start \in Nat /\ client.size \in Nat \ {0}
          /\ client.start + client.size <= N
      BY <2>2
    <3>2. extra \in Nat \ {0}
      BY <1>1, <1>3, <3>1
    <3>3. /\ prepend \in 0 .. client.start /\ prepend <= extra
          /\ prepend = client.start \/ prepend = extra
      BY <3>1, <3>2 DEF MinOf
    <3>4. append \in Nat /\ append <= extra
      BY <3>1, <3>2 DEF MinOf
    <3>5. first = client.start - prepend
      BY <3>1 DEF FirstStart
    <3>6. steps = 1 + MinOf(MinOf(append, prepend), N - (first + size))
      BY <3>1 DEF Steps
    <3>7. N - (first + size) \in Nat
      BY <1>1, <1>3, <1>4, <3>1, <3>2, <3>3, <3>5
    <3>8. /\ steps \in Int /\ steps - 1 \in Nat /\ steps - 1 <= prepend
          /\ steps - 1 <= N - (first + size)
      <4> HIDE DEF prepend, append, first, size, steps, extra, avail
      <4> QED
        BY <3>3, <3>4, <3>6, <3>7, <3>1 DEF MinOf
    <3>9. size = client.size + extra
      BY DEF NewSize
    <3>10. /\ extra \in Int /\ size \in Int /\ first \in Nat /\ prepend \in Nat
           /\ steps \in Int
      <4> HIDE DEF prepend, append, first, size, steps, extra, avail
      <4> QED
        BY <3>1, <3>2, <3>3, <3>5, <3>8, <3>9
    <3> HIDE DEF prepend, append, first, size, steps, extra, avail
    <3>11. ASSUME NEW i \in 0 .. steps - 1
           PROVE  /\ first + i + size <= N
                  /\ first + i <= client.start
                  /\ client.start + client.size <= first + i + size
      BY <3>1, <3>3, <3>5, <3>8, <3>9, <3>10
    <3> QED
      BY <3>8, <3>10, <3>11
  <2> QED
    BY <2>1, <2>2 DEF IsSpan
<1>6. Candidates(N, P, client) # {}
  <2>1. 0 \in 0 .. steps - 1
    BY <1>5
  <2>2. [start |-> first + 0, size |-> size] \in Candidates(N, P, client)
    BY <2>1 DEF Candidates
  <2> QED
    BY <2>2
<1>7. ASSUME NEW r \in Candidates(N, P, client)
      PROVE  /\ r.start >= 0 /\ r.start + r.size <= N
             /\ Covers(r, client)
             /\ PlanesNeeded(N, r, {}) <= P
  <2>1. PICK i \in 0 .. steps - 1 : r = [start |-> first + i, size |-> size]
    BY DEF Candidates
  <2>2. r.start = first + i /\ r.size = N - avail /\ r.size \in Nat
    BY <2>1, <1>1, <1>3, <1>4
  <2>3. r.start >= 0 /\ r.start + r.size <= N
    BY <1>3, <1>5, <2>1, <2>2
  <2>4. Covers(r, client)
    BY <1>3, <1>5, <2>1, <2>2 DEF Covers
  <2>5. PlanesNeeded(N, r, {}) <= P
    BY <1>1, <1>4, <2>2, PlanesWithoutVideo
  <2> QED
    BY <2>3, <2>4, <2>5
<1> QED
  BY <1>6, <1>7

-----------------------------------------------------------------------------
(* CalcPixOps                                                              *)

(* What the sum is after k layers when f is what it was before.            *)
Pass(area, r, f, k) ==
    IF k = 0 THEN 0
    ELSE f[k - 1] + (IF InRange(k - 1, r) THEN area[k - 1] ELSE 0)

(* The loop comes to its end.                                              *)
LEMMA LoopDefined ==
    ASSUME NEW area, NEW r, NEW N \in Nat
    PROVE  \E f : f = [k \in 0 .. N |-> Pass(area, r, f, k)]
<1> DEFINE T == {m \in Nat : ~\E f : f = [k \in 0 .. m |-> Pass(area, r, f, k)]}
<1>1. SUFFICES ASSUME T # {} PROVE FALSE
  OBVIOUS
<1>2. PICK m \in T : \A y \in T : m <= y
  <2>1. T \subseteq Nat
    OBVIOUS
  <2> QED
    BY <1>1, <2>1, LeastNatural
<1>3. CASE m = 0
  <2> DEFINE f == [k \in 0 .. 0 |-> 0]
  <2>1. \A k \in 0 .. 0 : Pass(area, r, f, k) = 0
    BY DEF Pass
  <2>2. f = [k \in 0 .. m |-> Pass(area, r, f, k)]
    BY <1>3, <2>1
  <2> QED
    BY <2>2, <1>2
<1>4. CASE m # 0
  <2>1. m \in Nat /\ m - 1 \in Nat /\ ~(m <= m - 1)
    BY <1>4
  <2>2. m - 1 \notin T
    BY <2>1, <1>2
  <2>3. PICK f : f = [k \in 0 .. m - 1 |-> Pass(area, r, f, k)]
    BY <2>1, <2>2
  <2> DEFINE g == [k \in 0 .. m |-> IF k = m THEN Pass(area, r, f, m) ELSE f[k]]
  <2>4. \A k \in 0 .. m - 1 : g[k] = f[k] /\ f[k] = Pass(area, r, f, k)
    <3>1. \A k \in 0 .. m - 1 : k \in 0 .. m /\ k # m
      BY <2>1
    <3>2. \A k \in 0 .. m - 1 : f[k] = Pass(area, r, f, k)
      BY <2>3
    <3> QED
      BY <3>1, <3>2
  <2>5. g[m] = Pass(area, r, f, m)
    BY <2>1
  <2>6. g = [k \in 0 .. m |-> g[k]]
    OBVIOUS
  <2> HIDE DEF g
  <2>7. \A k \in 0 .. m : Pass(area, r, g, k) = Pass(area, r, f, k)
    <3>1. \A k \in 0 .. m : k # 0 => k - 1 \in 0 .. m - 1
      BY <2>1
    <3> QED
      BY <3>1, <2>4 DEF Pass
  <2>8. \A k \in 0 .. m : g[k] = Pass(area, r, f, k)
    <3>1. \A k \in 0 .. m : k = m \/ k \in 0 .. m - 1
      BY <2>1
    <3> QED
      BY <3>1, <2>4, <2>5
  <2>9. g = [k \in 0 .. m |-> Pass(area, r, g, k)]
    BY <2>6, <2>7, <2>8
  <2> QED
    BY <2>9, <1>2
<1> QED
  BY <1>3, <1>4

(* The sums after each pass, the last of which it returns.                 *)
LEMMA CalcPasses ==
    ASSUME NEW N \in Nat, NEW area \in [0 .. N - 1 -> Nat], NEW r
    PROVE  \E f : /\ CalcPixOps(area, r) = f[N]
                  /\ \A k \in 0 .. N : f[k] \in Nat /\ f[k] = Pass(area, r, f, k)
<1>1. Cardinality(DOMAIN area) = N
  <2>1. DOMAIN area = 0 .. N - 1
    OBVIOUS
  <2> QED
    BY <2>1, FS_Interval
<1> DEFINE f == CHOOSE g : g = [k \in 0 .. N |-> Pass(area, r, g, k)]
<1>2. CalcPixOps(area, r) = f[N]
  <2> DEFINE size == Cardinality(DOMAIN area)
             h == CHOOSE g : g = [k \in 0 .. size |-> Pass(area, r, g, k)]
  <2>1. CalcPixOps(area, r) = h[size]
    BY Zenon DEF CalcPixOps, Pass
  <2>2. h = f
    BY <1>1, Zenon
  <2> HIDE DEF h, f
  <2> QED
    BY <1>1, <2>1, <2>2
<1>3. f = [k \in 0 .. N |-> Pass(area, r, f, k)]
  BY LoopDefined, Zenon
<1> HIDE DEF f
<1>4. \A k \in 0 .. N : f[k] = Pass(area, r, f, k)
  BY <1>3
<1>5. \A k \in 0 .. N : f[k] \in Nat
  <2> DEFINE T == {k \in 0 .. N : f[k] \notin Nat}
  <2>1. SUFFICES ASSUME T # {} PROVE FALSE
    OBVIOUS
  <2>2. T \subseteq Nat
    OBVIOUS
  <2>3. PICK k \in T : \A y \in T : k <= y
    BY <2>1, <2>2, LeastNatural
  <2>4. k \in 0 .. N /\ f[k] \notin Nat /\ f[k] = Pass(area, r, f, k)
    BY <1>4
  <2>5. k # 0
    BY <2>4 DEF Pass
  <2>6. k - 1 \in 0 .. N /\ k - 1 \in 0 .. N - 1 /\ ~(k <= k - 1)
    BY <2>4, <2>5
  <2>7. f[k - 1] \in Nat
    BY <2>3, <2>6
  <2>8. area[k - 1] \in Nat
    BY <2>6
  <2>9. f[k] \in Nat
    BY <2>4, <2>5, <2>7, <2>8 DEF Pass
  <2> QED
    BY <2>4, <2>9
<1> QED
  BY <1>2, <1>4, <1>5

(* More layers cost more.                                                  *)
LEMMA CalcGrows ==
    ASSUME NEW N \in Nat, NEW area \in [0 .. N - 1 -> Nat], NEW r, NEW q,
           \A i \in 0 .. N - 1 : InRange(i, r) => InRange(i, q)
    PROVE  /\ CalcPixOps(area, r) \in Nat /\ CalcPixOps(area, q) \in Nat
           /\ CalcPixOps(area, r) <= CalcPixOps(area, q)
<1>1. PICK f : /\ CalcPixOps(area, r) = f[N]
               /\ \A k \in 0 .. N : f[k] \in Nat /\ f[k] = Pass(area, r, f, k)
  BY CalcPasses, SMTT(40)
<1>2. PICK g : /\ CalcPixOps(area, q) = g[N]
               /\ \A k \in 0 .. N : g[k] \in Nat /\ g[k] = Pass(area, q, g, k)
  BY CalcPasses, SMTT(40)
<1>3. N \in 0 .. N
  OBVIOUS
<1> DEFINE T == {k \in 0 .. N : ~(f[k] <= g[k])}
<1>4. T = {}
  <2>1. SUFFICES ASSUME T # {} PROVE FALSE
    OBVIOUS
  <2>2. T \subseteq Nat
    OBVIOUS
  <2>3. PICK k \in T : \A y \in T : k <= y
    BY <2>1, <2>2, LeastNatural
  <2>4. /\ k \in 0 .. N /\ ~(f[k] <= g[k])
        /\ f[k] = Pass(area, r, f, k) /\ g[k] = Pass(area, q, g, k)
    BY <1>1, <1>2
  <2>5. k # 0
    BY <2>4 DEF Pass
  <2>6. k - 1 \in 0 .. N /\ k - 1 \in 0 .. N - 1 /\ ~(k <= k - 1)
    BY <2>4, <2>5
  <2>7. f[k - 1] \in Nat /\ g[k - 1] \in Nat /\ f[k - 1] <= g[k - 1]
    BY <1>1, <1>2, <2>3, <2>6
  <2>8. area[k - 1] \in Nat /\ (InRange(k - 1, r) => InRange(k - 1, q))
    BY <2>6
  <2>9. f[k] <= g[k]
    BY <2>4, <2>5, <2>7, <2>8 DEF Pass
  <2> QED
    BY <2>4, <2>9
<1> QED
  BY <1>1, <1>2, <1>3, <1>4

(* The cheapest of some ranges is one of them.                             *)
LEMMA CheapestFound ==
    ASSUME NEW N \in Nat, NEW area \in [0 .. N - 1 -> Nat], NEW C, C # {},
           \A q \in C : q.start \in Nat
    PROVE  /\ Cheapest(area, C) \in C
           /\ \A q \in C : CalcPixOps(area, Cheapest(area, C)) <= CalcPixOps(area, q)
<1> DEFINE cost(q) == CalcPixOps(area, q)
           Costs == {cost(q) : q \in C}
<1>1. \A q : cost(q) \in Nat
  BY CalcGrows
<1> HIDE DEF cost
<1>2. Costs \subseteq Nat /\ Costs # {}
  BY <1>1
<1>3. PICK w \in Costs : \A y \in Costs : w <= y
  BY <1>2, LeastNatural
<1> DEFINE Best == {q \in C : cost(q) = w}
           Starts == {q.start : q \in Best}
<1>4. Starts \subseteq Nat /\ Starts # {}
  BY <1>3
<1>5. PICK a \in Starts : \A y \in Starts : a <= y
  BY <1>4, LeastNatural
<1>6. PICK r \in Best : r.start = a
  BY <1>5
<1>7. \A q \in C : cost(r) < cost(q) \/ (cost(r) = cost(q) /\ r.start <= q.start)
  <2>1. TAKE q \in C
  <2>2. cost(r) = w /\ w <= cost(q) /\ w \in Nat /\ cost(q) \in Nat
    BY <1>1, <1>3, <1>6
  <2>3. CASE cost(q) = w
    BY <1>5, <1>6, <2>2, <2>3
  <2>4. CASE cost(q) # w
    BY <2>2, <2>4
  <2> QED
    BY <2>3, <2>4
<1> DEFINE c == CHOOSE x \in C : \A q \in C : cost(x) < cost(q) \/ (cost(x) = cost(q) /\ x.start <= q.start)
<1>8. c \in C /\ \A q \in C : cost(c) < cost(q) \/ (cost(c) = cost(q) /\ c.start <= q.start)
  BY <1>6, <1>7
<1>9. c = Cheapest(area, C)
  BY DEF Cheapest, cost
<1> HIDE DEF c
<1>10. \A q \in C : cost(c) <= cost(q)
  BY <1>1, <1>8
<1> QED
  BY <1>8, <1>9, <1>10 DEF cost

-----------------------------------------------------------------------------
(* The spans of GetClientLayers                                            *)

(* The span of some layers goes from one of them to another and covers all.*)
LEMMA SpanFacts ==
    ASSUME NEW N \in Nat, NEW S \in SUBSET (0 .. N - 1)
    PROVE  /\ IsSpan(N, Span(S))
           /\ S = {} => Span(S).start = -1 /\ Span(S).size = 0
           /\ S # {} => /\ Span(S).start \in S /\ Span(S).start + Span(S).size - 1 \in S
                        /\ Span(S).start \in Nat /\ Span(S).size \in Nat \ {0}
                        /\ Span(S).start + Span(S).size <= N
           /\ \A i \in S : InRange(i, Span(S))
<1>1. \A i \in S : i \in Nat /\ i < N
  OBVIOUS
<1>2. CASE S = {}
  BY <1>2 DEF Span, IsSpan
<1>3. CASE S # {}
  <2>1. S \subseteq Nat
    BY <1>1
  <2>2. PICK a \in S : \A y \in S : a <= y
    BY <1>3, <2>1, LeastNatural
  <2> DEFINE T == {N - i : i \in S}
  <2>3. T \subseteq Nat /\ T # {}
    BY <1>1, <1>3
  <2>4. PICK t \in T : \A y \in T : t <= y
    BY <2>3, LeastNatural
  <2>5. PICK b \in S : t = N - b
    BY <2>4
  <2>6. \A y \in S : b >= y
    <3>1. TAKE y \in S
    <3>2. N - b <= N - y
      BY <2>4, <2>5
    <3> QED
      BY <1>1, <3>2
  <2> DEFINE x == Min(S)
             z == Max(S)
  <2>7. x \in S /\ \A y \in S : x <= y
    BY <2>2 DEF Min
  <2>8. z \in S /\ \A y \in S : z >= y
    BY <2>6 DEF Max
  <2>9. Span(S) = [start |-> x, size |-> z - x + 1]
    BY <1>3 DEF Span
  <2> HIDE DEF x, z
  <2>10. x \in Nat /\ z \in Nat /\ x <= z /\ z < N
    BY <1>1, <2>7, <2>8
  <2>11. Span(S).start = x /\ Span(S).size = z - x + 1
    BY <2>9
  <2>12. Span(S).size \in Nat \ {0} /\ x + (z - x + 1) = z + 1 /\ x + (z - x + 1) - 1 = z
    BY <2>10, <2>11
  <2>13. IsSpan(N, Span(S))
    BY <2>9, <2>10, <2>11, <2>12 DEF IsSpan
  <2>14. ASSUME NEW i \in S PROVE InRange(i, Span(S))
    <3>1. i \in Nat /\ x <= i /\ i <= z
      BY <1>1, <2>7, <2>8
    <3>2. i < x + (z - x + 1)
      BY <2>10, <3>1
    <3> QED
      BY <2>11, <3>1, <3>2 DEF InRange
  <2> QED
    BY <1>3, <2>7, <2>8, <2>10, <2>11, <2>12, <2>13, <2>14
<1> QED
  BY <1>2, <1>3

(* A range that covers the span of some layers covers them.                *)
LEMMA SpanCovered ==
    ASSUME NEW N \in Nat, NEW S \in SUBSET (0 .. N - 1), NEW r,
           r.start \in Int, r.size \in Int, Covers(r, Span(S))
    PROVE  \A i \in S : InRange(i, r)
<1>1. SUFFICES ASSUME NEW i \in S PROVE InRange(i, r)
  OBVIOUS
<1> DEFINE a == Span(S).start
           l == Span(S).size
<1>2. i \in Nat /\ a \in Nat /\ l \in Nat \ {0} /\ InRange(i, Span(S))
  BY SpanFacts
<1>3. a <= i /\ i < a + l
  BY <1>2 DEF InRange
<1>4. r.start <= a /\ a + l <= r.start + r.size
  BY <1>2 DEF Covers
<1> HIDE DEF a, l
<1> QED
  BY <1>2, <1>3, <1>4 DEF InRange

(* And a range that covers some layers covers their span.                  *)
LEMMA SpanOfCovered ==
    ASSUME NEW N \in Nat, NEW S \in SUBSET (0 .. N - 1), NEW r,
           r.start \in Int, r.size \in Int, \A i \in S : InRange(i, r)
    PROVE  Covers(r, Span(S))
<1> DEFINE a == Span(S).start
           l == Span(S).size
<1>1. CASE S = {}
  BY <1>1, SpanFacts DEF Covers
<1>2. CASE S # {}
  <2>1. a \in S /\ a + l - 1 \in S /\ a \in Nat /\ l \in Nat
    BY <1>2, SpanFacts
  <2>2. r.start <= a /\ a + l - 1 < r.start + r.size
    BY <2>1 DEF InRange
  <2> HIDE DEF a, l
  <2>3. a + l <= r.start + r.size
    BY <2>1, <2>2
  <2> QED
    BY <2>2, <2>3 DEF Covers, a, l
<1> QED
  BY <1>1, <1>2

-----------------------------------------------------------------------------
(* What GetExtraClientRange returns                                        *)

(* The candidates are ranges of one size, from the first start on.         *)
LEMMA CandidatesTyped ==
    ASSUME NEW N \in Nat, NEW P \in Nat \ {0}, NEW client,
           IsSpan(N, client), ExtraClient(N, P, client) > 0
    PROVE  /\ P < N /\ NewSize(N, P, client) = N - AvailPlanes(P, N)
           /\ AvailPlanes(P, N) = P - 1
           /\ NewSize(N, P, client) \in Nat /\ FirstStart(N, P, client) \in Int
           /\ \A q \in Candidates(N, P, client) :
                q.start \in Int /\ q.size = NewSize(N, P, client)
<1>1. client.size \in Nat /\ client.start \in Int
  BY DEF IsSpan
<1>2. P < N /\ AvailPlanes(P, N) = P - 1
  BY <1>1 DEF ExtraClient, AvailPlanes
<1>3. NewSize(N, P, client) = N - AvailPlanes(P, N)
  BY <1>1, <1>2 DEF NewSize, ExtraClient
<1>4. ExtraClient(N, P, client) \in Int
  BY <1>1, <1>2 DEF ExtraClient
<1>5. FirstStart(N, P, client) \in Int
  BY <1>1, <1>4 DEF FirstStart, MinOf
<1>6. NewSize(N, P, client) \in Nat
  BY <1>2, <1>3
<1>7. ASSUME NEW q \in Candidates(N, P, client)
      PROVE  q.start \in Int /\ q.size = NewSize(N, P, client)
  BY <1>5, <1>7 DEF Candidates
<1> QED
  BY <1>2, <1>3, <1>5, <1>6, <1>7

(* Within the layers, unless it is empty.                                  *)
IsRange(N, r) ==
    /\ r.start \in Int /\ r.size \in Nat
    /\ r.size > 0 => r.start \in Nat /\ r.start + r.size <= N

(* Whatever the layers cost, the range lies within the layers, covers those*)
(* that need the GPU and leaves no more than the planes can show.          *)
THEOREM ExtraRangeSound ==
    ASSUME NEW N \in Nat, NEW P \in Nat \ {0}, NEW area \in [0 .. N - 1 -> Nat], NEW client,
           IsSpan(N, client)
    PROVE  LET r == GetExtraClientRange(N, P, client, area)
           IN  IsRange(N, r) /\ Covers(r, client) /\ PlanesNeeded(N, r, {}) <= P
<1> DEFINE r == GetExtraClientRange(N, P, client, area)
           C == Candidates(N, P, client)
<1>0. client.size \in Nat /\ client.start \in Int
  BY DEF IsSpan
<1>1. CASE ExtraClient(N, P, client) > 0
  <2>1. C # {} /\ \A q \in C : /\ q.start >= 0 /\ q.start + q.size <= N
                               /\ Covers(q, client) /\ PlanesNeeded(N, q, {}) <= P
    BY <1>1, CandidatesAreSound
  <2>2. \A q \in C : q.start \in Int /\ q.size \in Nat
    BY <1>1, CandidatesTyped
  <2> HIDE DEF C
  <2>3. \A q \in C : q.start \in Nat
    BY <2>1, <2>2
  <2>4. Cheapest(area, C) \in C
    BY <2>1, <2>3, CheapestFound
  <2>5. r \in C
    BY <1>1, <2>4 DEF GetExtraClientRange, C
  <2> HIDE DEF r
  <2>6. IsRange(N, r) /\ Covers(r, client) /\ PlanesNeeded(N, r, {}) <= P
    BY <2>1, <2>2, <2>3, <2>5 DEF IsRange
  <2> QED
    BY <2>6 DEF r
<1>2. CASE ~(ExtraClient(N, P, client) > 0)
  <2>1. r = client
    BY <1>2 DEF GetExtraClientRange
  <2>2. IsRange(N, client) /\ Covers(client, client)
    BY DEF IsRange, Covers, IsSpan
  <2>3. N - client.size <= AvailPlanes(P, N)
    BY <1>0, <1>2 DEF ExtraClient, AvailPlanes
  <2>4. PlanesNeeded(N, client, {}) = (N - client.size) + (IF client.size > 0 THEN 1 ELSE 0)
    BY <1>0, PlanesWithoutVideo
  <2>5. PlanesNeeded(N, client, {}) <= P
    BY <1>0, <2>3, <2>4 DEF AvailPlanes
  <2> QED
    BY <2>1, <2>2, <2>5
<1> QED
  BY <1>1, <1>2

(* Every range of layers that covers those that need the GPU and leaves    *)
(* few enough for the planes has one of the candidates in it.              *)
LEMMA CandidateWithin ==
    ASSUME NEW N \in Nat, NEW P \in Nat \ {0}, NEW client,
           IsSpan(N, client), ExtraClient(N, P, client) > 0,
           NEW s \in Nat, NEW m \in Nat, s + m <= N,
           Covers(Rng(s, m), client), N - m <= AvailPlanes(P, N)
    PROVE  \E q \in Candidates(N, P, client) :
             s <= q.start /\ q.start + q.size <= s + m
<1> DEFINE extra == ExtraClient(N, P, client)
           first == FirstStart(N, P, client)
           z     == NewSize(N, P, client)
           steps == Steps(N, P, client)
<1>1. /\ P < N /\ z = N - (P - 1) /\ z \in Nat /\ AvailPlanes(P, N) = P - 1
  BY CandidatesTyped
<1>2. z <= m
  BY <1>1
<1>3. ASSUME NEW i \in 0 .. steps - 1, s <= first + i, first + i + z <= s + m
      PROVE  \E q \in Candidates(N, P, client) :
               s <= q.start /\ q.start + q.size <= s + m
  <2> DEFINE q == [start |-> first + i, size |-> z]
  <2>1. q \in Candidates(N, P, client)
    BY DEF Candidates
  <2>2. q.start = first + i /\ q.size = z
    OBVIOUS
  <2> QED
    BY <1>3, <2>1, <2>2
<1>4. CASE client = [start |-> -1, size |-> 0]
  <2>1. client.start = -1 /\ client.size = 0
    BY <1>4
  <2>2. first = 0 /\ steps = 1 + N - extra /\ extra = N - (P - 1)
    BY <1>1, <2>1 DEF FirstStart, Steps, ExtraClient
  <2> HIDE DEF extra, first, z, steps
  <2>3. s \in 0 .. steps - 1 /\ first + s = s /\ first + s + z <= s + m
    BY <1>1, <1>2, <2>2
  <2> QED
    BY <2>3, <1>3
<1>5. CASE client \in [start : Nat, size : Nat \ {0}] /\ client.start + client.size <= N
  <2> DEFINE c == client.start
             l == client.size
             prepend == MinOf(c, extra)
             append  == MinOf(N - (c + l), extra)
  <2>1. c \in Nat /\ l \in Nat \ {0} /\ c + l <= N
    BY <1>5
  <2>2. s <= c /\ c + l <= s + m
    BY <2>1 DEF Covers, Rng
  <2>3. extra = N - l - (P - 1) /\ z = l + extra
    BY <1>1, <2>1 DEF ExtraClient, NewSize
  <2>4. /\ first = c - prepend
        /\ steps = 1 + MinOf(MinOf(append, prepend), N - (first + z))
    BY <2>1 DEF FirstStart, Steps
  <2>5. extra > 0
    OBVIOUS
  <2>6. /\ prepend = IF c <= extra THEN c ELSE extra
        /\ append = IF N - (c + l) <= extra THEN N - (c + l) ELSE extra
    BY DEF MinOf
  <2> HIDE DEF extra, first, z, steps, c, l, prepend, append
  <2>7. extra \in Nat /\ prepend \in Nat /\ append \in Nat /\ first \in Nat
    BY <1>1, <2>1, <2>3, <2>4, <2>5, <2>6
  <2> DEFINE w == IF first <= s THEN s ELSE first
             i == w - first
  <2>8. w \in Nat /\ first <= w /\ s <= w /\ i \in Nat /\ first + i = w
    BY <2>7
  <2>9. w + z <= s + m
    BY <1>1, <1>2, <2>1, <2>2, <2>3, <2>4, <2>6, <2>7
  <2>10. w <= c
    BY <2>1, <2>2, <2>4, <2>7
  <2> HIDE DEF w, i
  <2>11. w <= N - z
    BY <1>1, <2>8, <2>9
  <2>12. i <= prepend /\ i <= N - (first + z)
    BY <1>1, <2>1, <2>4, <2>7, <2>8, <2>10, <2>11
  <2>13. i <= append
    <3>1. CASE N - (c + l) <= extra
      <4>1. append = N - (c + l)
        BY <2>6, <3>1
      <4>2. CASE c <= extra
        BY <4>1, <4>2, <1>1, <2>1, <2>3, <2>4, <2>6, <2>7, <2>8, <2>11
      <4>3. CASE ~(c <= extra)
        BY <4>1, <4>3, <1>1, <2>1, <2>3, <2>4, <2>6, <2>7, <2>8, <2>11
      <4> QED
        BY <4>2, <4>3
    <3>2. CASE ~(N - (c + l) <= extra)
      BY <3>2, <1>1, <2>1, <2>4, <2>6, <2>7, <2>8, <2>10
    <3> QED
      BY <3>1, <3>2
  <2>14. i \in 0 .. steps - 1
    BY <1>1, <2>4, <2>7, <2>8, <2>12, <2>13 DEF MinOf
  <2> QED
    BY <1>3, <2>8, <2>9, <2>14
<1> QED
  BY <1>4, <1>5 DEF IsSpan

(* No range that covers the layers that need the GPU and leaves few enough *)
(* on planes costs fewer pixels than the one GetExtraClientRange returns.  *)
THEOREM ExtraRangeCheapest ==
    ASSUME NEW N \in Nat, NEW P \in Nat \ {0}, NEW area \in [0 .. N - 1 -> Nat], NEW client,
           IsSpan(N, client),
           NEW s \in Nat, NEW m \in Nat, s + m <= N,
           Covers(Rng(s, m), client), N - m <= AvailPlanes(P, N)
    PROVE  LET r == GetExtraClientRange(N, P, client, area)
           IN  r.size = 0 \/ CalcPixOps(area, r) <= CalcPixOps(area, Rng(s, m))
<1> DEFINE C == Candidates(N, P, client)
           R == Rng(s, m)
<1>1. R.start = s /\ R.size = m
  BY DEF Rng
<1>2. CASE ExtraClient(N, P, client) > 0
  <2>1. /\ C # {} /\ \A q \in C : q.start \in Int /\ q.start >= 0
        /\ NewSize(N, P, client) \in Nat /\ \A q \in C : q.size = NewSize(N, P, client)
    BY <1>2, CandidatesAreSound, CandidatesTyped, SMTT(40)
  <2>2. PICK q \in C : s <= q.start /\ q.start + q.size <= s + m
    BY <1>2, CandidateWithin
  <2>3. GetExtraClientRange(N, P, client, area) = Cheapest(area, C)
    BY <1>2 DEF GetExtraClientRange
  <2> HIDE DEF C, R
  <2>4. \A x \in C : x.start \in Nat
    BY <2>1
  <2>5. CalcPixOps(area, Cheapest(area, C)) <= CalcPixOps(area, q)
    BY <2>1, <2>4, CheapestFound
  <2>6. \A i \in 0 .. N - 1 : InRange(i, q) => InRange(i, R)
    <3>1. q.start \in Nat /\ q.size \in Nat
      BY <2>1, <2>4
    <3> QED
      BY <1>1, <2>2, <3>1, SMTT(40) DEF InRange
  <2>7. /\ CalcPixOps(area, q) \in Nat /\ CalcPixOps(area, R) \in Nat
        /\ CalcPixOps(area, q) <= CalcPixOps(area, R)
    BY <2>6, CalcGrows
  <2>8. CalcPixOps(area, Cheapest(area, C)) \in Nat
    BY CalcGrows
  <2>9. CalcPixOps(area, Cheapest(area, C)) <= CalcPixOps(area, R)
    BY <2>5, <2>7, <2>8
  <2> QED
    BY <2>3, <2>9 DEF R
<1>3. CASE ~(ExtraClient(N, P, client) > 0)
  <2>1. GetExtraClientRange(N, P, client, area) = client
    BY <1>3 DEF GetExtraClientRange
  <2> HIDE DEF R
  <2>2. CASE client.size = 0
    BY <2>1, <2>2
  <2>3. CASE client.size # 0
    <3>1. client.start \in Nat /\ client.size \in Nat
      BY <2>3 DEF IsSpan
    <3>2. s <= client.start /\ client.start + client.size <= s + m
      BY <1>1, <2>3 DEF Covers, R
    <3>3. \A i \in 0 .. N - 1 : InRange(i, client) => InRange(i, R)
      BY <1>1, <3>1, <3>2, SMTT(40) DEF InRange
    <3>4. CalcPixOps(area, client) <= CalcPixOps(area, R)
      BY <3>3, CalcGrows
    <3> QED
      BY <2>1, <3>4 DEF R
  <2> QED
    BY <2>2, <2>3
<1> QED
  BY <1>2, <1>3

-----------------------------------------------------------------------------
(* What GetExtraClientRange2 returns                                       *)

IsBlock(N, b) ==
    b.start \in Nat /\ b.size \in Nat \ {0} /\ b.start + b.size <= N

TypedRange(r) == r.start \in Int /\ r.size \in Int

Apart(r, b) == b.start + b.size <= r.start \/ r.start + r.size <= b.start

(* The client's layers lie above the video layers: they are covered, and   *)
(* the video layers are left out if the layers below them fit the planes.  *)
LEMMA AboveVideo ==
    ASSUME NEW N \in Nat, NEW client, NEW device, NEW extra \in Nat, NEW fallback,
           IsBlock(N, client), IsBlock(N, device), device.start + device.size <= client.start,
           TypedRange(fallback), Covers(fallback, client)
    PROVE  LET r == ClientAboveVideo(N, client, device, extra, fallback)
           IN  /\ TypedRange(r) /\ Covers(r, client)
               /\ device.start <= extra => Apart(r, device)
<1> DEFINE d == device.start
           v == device.size
           c == client.start
           l == client.size
           midpend == c - (d + v)
           append  == N - (c + l)
           remain  == extra - d
           mid     == MinOf(midpend, remain)
           last2   == MinOf(remain - mid, append)
           r == ClientAboveVideo(N, client, device, extra, fallback)
<1>1. d \in Nat /\ v \in Nat \ {0} /\ c \in Nat /\ l \in Nat \ {0} /\ d + v <= c /\ c + l <= N
  BY DEF IsBlock
<1>2. CASE d > extra
  <2>1. r = fallback
    BY <1>1, <1>2 DEF ClientAboveVideo
  <2>2. ~(d <= extra)
    BY <1>1, <1>2
  <2> QED
    BY <2>1, <2>2
<1>3. CASE d <= extra /\ mid = remain
  <2>1. r = Rng(d + v + mid, N - d - mid - v)
    BY <1>1, <1>3 DEF ClientAboveVideo
  <2>2. mid \in Nat /\ mid <= midpend
    BY <1>1, <1>3 DEF MinOf
  <2> HIDE DEF mid, r
  <2>3. r.start = d + v + mid /\ r.size = N - d - mid - v
    BY <2>1 DEF Rng
  <2>4. /\ r.start \in Int /\ r.size \in Int /\ d + v <= r.start
        /\ r.start <= c /\ c + l <= r.start + r.size
    BY <1>1, <2>2, <2>3
  <2>5. TypedRange(r) /\ Covers(r, client) /\ Apart(r, device)
    BY <2>4 DEF TypedRange, Covers, Apart
  <2> QED
    BY <2>5 DEF r
<1>4. CASE d <= extra /\ mid # remain
  <2>1. r = Rng(d + v + mid, N - d - mid - last2 - v)
    BY <1>1, <1>4 DEF ClientAboveVideo
  <2>2. mid = midpend
    BY <1>1, <1>4 DEF MinOf
  <2>3. last2 \in Int /\ last2 <= append
    BY <1>1, <2>2 DEF MinOf
  <2> HIDE DEF last2, mid, r
  <2>4. r.start = c /\ r.size = N - d - midpend - last2 - v
    BY <1>1, <2>1, <2>2 DEF Rng
  <2>5. /\ r.start \in Int /\ r.size \in Int /\ d + v <= r.start
        /\ r.start <= c /\ c + l <= r.start + r.size
    BY <1>1, <2>3, <2>4
  <2>6. TypedRange(r) /\ Covers(r, client) /\ Apart(r, device)
    BY <2>5 DEF TypedRange, Covers, Apart
  <2> QED
    BY <2>6 DEF r
<1>5. d > extra \/ d <= extra
  BY <1>1
<1> QED
  BY <1>2, <1>3, <1>4, <1>5

(* They lie below the video layers.                                        *)
LEMMA BelowVideo ==
    ASSUME NEW N \in Nat, NEW client, NEW device, NEW extra \in Nat, NEW fallback,
           IsBlock(N, client), IsBlock(N, device), client.start + client.size <= device.start,
           TypedRange(fallback), Covers(fallback, client)
    PROVE  LET r == ClientBelowVideo(N, client, device, extra, fallback)
           IN  /\ TypedRange(r) /\ Covers(r, client)
               /\ N - (device.start + device.size) <= extra => Apart(r, device)
<1> DEFINE d == device.start
           v == device.size
           c == client.start
           l == client.size
           midpend == d - (c + l)
           append  == N - (d + v)
           remain  == extra - append
           mid     == MinOf(midpend, remain)
           first2  == MinOf(remain - mid, c)
           r == ClientBelowVideo(N, client, device, extra, fallback)
<1>1. d \in Nat /\ v \in Nat \ {0} /\ c \in Nat /\ l \in Nat \ {0} /\ c + l <= d /\ d + v <= N
  BY DEF IsBlock
<1>2. CASE append > extra
  <2>1. r = fallback
    BY <1>1, <1>2 DEF ClientBelowVideo
  <2>2. ~(append <= extra)
    BY <1>1, <1>2
  <2> QED
    BY <2>1, <2>2
<1>3. CASE append <= extra /\ mid = remain
  <2>1. r = Rng(0, N - append - mid - v)
    BY <1>1, <1>3 DEF ClientBelowVideo
  <2>2. mid \in Nat /\ mid <= midpend
    BY <1>1, <1>3 DEF MinOf
  <2> HIDE DEF mid, r
  <2>3. r.start = 0 /\ r.size = d - mid
    BY <1>1, <2>1, <2>2 DEF Rng
  <2>4. /\ r.start \in Int /\ r.size \in Int /\ r.start + r.size <= d
        /\ r.start <= c /\ c + l <= r.start + r.size
    BY <1>1, <2>2, <2>3
  <2>5. TypedRange(r) /\ Covers(r, client) /\ Apart(r, device)
    BY <2>4 DEF TypedRange, Covers, Apart
  <2> QED
    BY <2>5 DEF r
<1>4. CASE append <= extra /\ mid # remain
  <2>1. r = Rng(first2, N - append - mid - first2 - v)
    BY <1>1, <1>4 DEF ClientBelowVideo
  <2>2. mid = midpend
    BY <1>1, <1>4 DEF MinOf
  <2>3. first2 \in Int /\ first2 <= c
    BY <1>1, <2>2 DEF MinOf
  <2> HIDE DEF first2, mid, r
  <2>4. r.start = first2 /\ r.size = c + l - first2
    BY <1>1, <2>1, <2>2, <2>3 DEF Rng
  <2>5. /\ r.start \in Int /\ r.size \in Int /\ r.start + r.size <= d
        /\ r.start <= c /\ c + l <= r.start + r.size
    BY <1>1, <2>3, <2>4
  <2>6. TypedRange(r) /\ Covers(r, client) /\ Apart(r, device)
    BY <2>5 DEF TypedRange, Covers, Apart
  <2> QED
    BY <2>6 DEF r
<1>5. append > extra \/ append <= extra
  BY <1>1
<1> QED
  BY <1>2, <1>3, <1>4, <1>5

(* No layer needs the client.                                              *)
LEMMA NoClient ==
    ASSUME NEW N \in Nat, NEW device, NEW extra \in Nat, NEW fallback,
           IsBlock(N, device), TypedRange(fallback)
    PROVE  LET r == AroundVideo(N, device, extra, fallback)
           IN  /\ TypedRange(r)
               /\ device.start <= extra \/ N - (device.start + device.size) <= extra
                  => Apart(r, device)
<1> DEFINE d == device.start
           v == device.size
           append == N - (d + v)
           r == AroundVideo(N, device, extra, fallback)
<1>1. d \in Nat /\ v \in Nat \ {0} /\ d + v <= N /\ append \in Nat
  BY DEF IsBlock
<1>2. CASE MinOf(d, append) > extra
  <2>1. r = fallback
    BY <1>2 DEF AroundVideo
  <2>2. ~(d <= extra \/ append <= extra)
    BY <1>1, <1>2 DEF MinOf
  <2> QED
    BY <2>1, <2>2
<1>3. CASE ~(MinOf(d, append) > extra) /\ d <= append
  <2>1. r = Rng(d + v + (extra - d), N - extra - v)
    BY <1>3 DEF AroundVideo
  <2> HIDE DEF r
  <2>2. r.start = d + v + (extra - d) /\ r.size = N - extra - v
    BY <2>1 DEF Rng
  <2>3. d <= extra
    BY <1>1, <1>3 DEF MinOf
  <2>4. r.start \in Int /\ r.size \in Int /\ d + v <= r.start
    BY <1>1, <2>2, <2>3
  <2>5. TypedRange(r) /\ Apart(r, device)
    BY <2>4 DEF TypedRange, Apart
  <2> QED
    BY <2>5 DEF r
<1>4. CASE ~(MinOf(d, append) > extra) /\ ~(d <= append)
  <2>1. r = Rng(0, N - extra - v)
    BY <1>4 DEF AroundVideo
  <2> HIDE DEF r
  <2>2. r.start = 0 /\ r.size = N - extra - v
    BY <2>1 DEF Rng
  <2>3. append <= extra
    BY <1>1, <1>4 DEF MinOf
  <2>4. r.start \in Int /\ r.size \in Int /\ r.start + r.size <= d
    BY <1>1, <2>2, <2>3
  <2>5. TypedRange(r) /\ Apart(r, device)
    BY <2>4 DEF TypedRange, Apart
  <2> QED
    BY <2>5 DEF r
<1> QED
  BY <1>2, <1>3, <1>4

(* The planes left for the layers that are not video layers.               *)
LEMMA PlanesForVideo ==
    ASSUME NEW N \in Nat, NEW P \in Nat, NEW device, device.size \in Nat
    PROVE  /\ VideoPlanes(P, N, device) \in Nat
           /\ P < SizeMod /\ 1 <= P - device.size =>
              VideoPlanes(P, N, device) = IF P - device.size < N THEN P - device.size - 1
                                          ELSE P - device.size
<1> DEFINE v == device.size
           rest == SizeT(P - v)
<1>1. \A x \in Int : SizeT(x) \in Nat
  BY SizeAssumption DEF SizeT
<1>2. rest \in Nat /\ SizeT(rest - 1) \in Nat
  <2>1. P - v \in Int
    OBVIOUS
  <2>2. rest \in Nat
    BY <1>1, <2>1
  <2> HIDE DEF rest
  <2>3. rest - 1 \in Int
    BY <2>2
  <2> QED
    BY <1>1, <2>2, <2>3
<1>3. VideoPlanes(P, N, device) = IF rest < N THEN SizeT(rest - 1) ELSE rest
  BY DEF VideoPlanes
<1>4. ASSUME P < SizeMod, 1 <= P - v
      PROVE  rest = P - v /\ SizeT(rest - 1) = P - v - 1
  <2>1. P - v \in 0 .. SizeMod - 1 /\ P - v - 1 \in 0 .. SizeMod - 1
    BY <1>4, SizeAssumption
  <2>2. \A x \in 0 .. SizeMod - 1 : SizeT(x) = x
    BY SizeAssumption DEF SizeT
  <2> QED
    BY <2>1, <2>2
<1> HIDE DEF rest
<1> QED
  BY <1>2, <1>3, <1>4

(* Whichever case applies, the layers that need the GPU are covered.       *)
LEMMA Range2Covers ==
    ASSUME NEW N \in Nat, NEW P \in Nat \ {0}, NEW area \in [0 .. N - 1 -> Nat],
           NEW client, NEW device, IsSpan(N, client), IsBlock(N, device),
           client.size = 0 \/ Apart(client, device)
    PROVE  LET r == GetExtraClientRange2(N, P, client, device, area)
           IN  TypedRange(r) /\ Covers(r, client)
<1> DEFINE avail == VideoPlanes(P, N, device)
           d == device.start
           v == device.size
           extra == MinOf(N - v - client.size, avail - v)
           fallback == GetExtraClientRange(N, P, client, area)
           r == GetExtraClientRange2(N, P, client, device, area)
<1>1. d \in Nat /\ v \in Nat \ {0} /\ d + v <= N
  BY DEF IsBlock
<1>2. avail \in Nat
  BY <1>1, PlanesForVideo
<1>3. TypedRange(fallback) /\ Covers(fallback, client)
  BY ExtraRangeSound DEF TypedRange, IsRange
<1>4. \/ client.start = -1 /\ client.size = 0
      \/ IsBlock(N, client) /\ client.start >= 0 /\ client.start \in Nat /\ client.size \in Nat \ {0}
  BY DEF IsSpan, IsBlock
<1> HIDE DEF avail, fallback
<1>5. CASE avail < v
  <2>1. r = fallback
    BY <1>1, <1>2, <1>5 DEF GetExtraClientRange2, avail, fallback
  <2> QED
    BY <1>3, <2>1
<1>6. CASE avail = v
  <2>1. r = IF d = 0 THEN Rng(v, N - v) ELSE IF d + v = N THEN Rng(0, N - v) ELSE fallback
    BY <1>1, <1>2, <1>6 DEF GetExtraClientRange2, avail, fallback
  <2> HIDE DEF r
  <2>2. CASE d = 0
    <3>1. r.start = v /\ r.size = N - v
      BY <2>1, <2>2 DEF Rng
    <3>2. Covers(r, client)
      BY <1>1, <1>4, <2>2, <3>1 DEF Covers, Apart, IsBlock
    <3> QED
      BY <1>1, <3>1, <3>2 DEF TypedRange, r
  <2>3. CASE d # 0 /\ d + v = N
    <3>1. r.start = 0 /\ r.size = N - v
      BY <2>1, <2>3 DEF Rng
    <3>2. Covers(r, client)
      BY <1>1, <1>4, <2>3, <3>1 DEF Covers, Apart, IsBlock
    <3> QED
      BY <1>1, <3>1, <3>2 DEF TypedRange, r
  <2>4. CASE d # 0 /\ d + v # N
    <3>1. r = fallback
      BY <2>1, <2>4
    <3> QED
      BY <1>3, <3>1 DEF r
  <2> QED
    BY <2>2, <2>3, <2>4
<1>7. CASE avail > v
  <2>1. CASE client.start = -1 /\ client.size = 0
    <3>1. r = AroundVideo(N, device, extra, fallback)
      BY <1>1, <1>2, <1>7, <2>1 DEF GetExtraClientRange2, avail, fallback
    <3>2. extra \in Nat
      BY <1>1, <1>2, <1>7, <2>1 DEF MinOf
    <3> HIDE DEF extra, r
    <3>3. TypedRange(r) /\ Covers(r, client)
      BY <1>3, <2>1, <3>1, <3>2, NoClient DEF Covers
    <3> QED
      BY <3>3 DEF r
  <2>2. CASE IsBlock(N, client) /\ client.start >= 0 /\ client.start \in Nat /\ client.size \in Nat \ {0}
    <3>1. Apart(client, device) /\ client.start # -1 /\ client.start + client.size <= N
      BY <2>2 DEF IsBlock
    <3>2. extra \in Nat
      <4>1. N - v - client.size \in Nat
        BY <1>1, <2>2, <3>1, SMTT(40) DEF Apart
      <4>2. avail - v \in Nat
        BY <1>1, <1>2, <1>7
      <4> QED
        BY <4>1, <4>2 DEF MinOf
    <3>3. CASE client.start > d
      <4>1. r = ClientAboveVideo(N, client, device, extra, fallback)
        BY <1>1, <1>2, <1>7, <3>1, <3>3 DEF GetExtraClientRange2, avail, fallback
      <4>2. d + v <= client.start
        BY <1>1, <2>2, <3>1, <3>3 DEF Apart
      <4> HIDE DEF extra, r
      <4>3. TypedRange(r) /\ Covers(r, client)
        BY <1>3, <2>2, <3>2, <4>1, <4>2, AboveVideo
      <4> QED
        BY <4>3 DEF r
    <3>4. CASE ~(client.start > d)
      <4>1. r = ClientBelowVideo(N, client, device, extra, fallback)
        BY <1>1, <1>2, <1>7, <3>1, <3>4 DEF GetExtraClientRange2, avail, fallback
      <4>2. client.start + client.size <= d
        BY <1>1, <2>2, <3>1, <3>4 DEF Apart
      <4> HIDE DEF extra, r
      <4>3. TypedRange(r) /\ Covers(r, client)
        BY <1>3, <2>2, <3>2, <4>1, <4>2, BelowVideo
      <4> QED
        BY <4>3 DEF r
    <3> QED
      BY <3>3, <3>4
  <2> QED
    BY <1>4, <2>1, <2>2
<1> QED
  BY <1>1, <1>2, <1>5, <1>6, <1>7

(* If some range covers the layers that need the GPU, leaves the video     *)
(* layers out and fits the planes, then the result leaves them out too.    *)
LEMMA Range2LeavesVideo ==
    ASSUME NEW N \in Nat, NEW P \in Nat \ {0}, NEW area \in [0 .. N - 1 -> Nat],
           NEW client, NEW device, IsSpan(N, client), IsBlock(N, device),
           P < SizeMod,
           NEW s \in Nat, NEW m \in Nat, s + m <= N, Covers(Rng(s, m), client),
           m > 0 => Apart(Rng(s, m), device),
           (N - m) + (IF m > 0 THEN 1 ELSE 0) + device.size <= P
    PROVE  Apart(GetExtraClientRange2(N, P, client, device, area), device)
<1> DEFINE avail == VideoPlanes(P, N, device)
           d == device.start
           v == device.size
           l == client.size
           extra == MinOf(N - v - l, avail - v)
           fallback == GetExtraClientRange(N, P, client, area)
           r == GetExtraClientRange2(N, P, client, device, area)
<1>1. d \in Nat /\ v \in Nat \ {0} /\ d + v <= N
  BY DEF IsBlock
<1>2. TypedRange(fallback) /\ Covers(fallback, client)
  BY ExtraRangeSound, SMTT(40) DEF TypedRange, IsRange
<1>3. \/ client.start = -1 /\ client.size = 0
      \/ IsBlock(N, client) /\ client.start \in Nat /\ client.size \in Nat \ {0}
  BY DEF IsSpan, IsBlock
<1>4. m > 0 => s + m <= d \/ d + v <= s
  BY <1>1 DEF Apart, Rng
<1>5. l > 0 => m > 0 /\ s <= client.start /\ client.start + l <= s + m
  BY <1>1, <1>3 DEF Covers, Rng, IsBlock
<1>5a. /\ s + m <= N
       /\ m > 0 => (N - m) + 1 + v <= P
       /\ m = 0 => N + v <= P
  <2>1. (N - m) + (IF m > 0 THEN 1 ELSE 0) + v <= P
    OBVIOUS
  <2> HIDE DEF v
  <2> QED
    BY <1>1, <2>1
<1>6. /\ avail \in Nat /\ avail >= N - m
      /\ m = 0 => avail >= N
      /\ N - m >= v
      /\ avail >= v
  <2>1. 1 <= P - v
    <3> HIDE DEF d, v, avail
    <3> QED
      BY <1>1, <1>4, <1>5a
  <2>2. avail = IF P - v < N THEN P - v - 1 ELSE P - v
    BY <1>1, <2>1, PlanesForVideo
  <2> HIDE DEF d, v, avail
  <2>3. N - m >= v
    BY <1>1, <1>4, <1>5a
  <2>4. avail \in Nat /\ avail >= N - m /\ (m = 0 => avail >= N)
    BY <1>1, <1>4, <1>5a, <2>1, <2>2
  <2> QED
    BY <1>1, <2>3, <2>4
<1> HIDE DEF avail, fallback
<1>7. CASE avail = v
  <2>1. r = IF d = 0 THEN Rng(v, N - v) ELSE IF d + v = N THEN Rng(0, N - v) ELSE fallback
    BY <1>1, <1>6, <1>7, SMTT(40) DEF GetExtraClientRange2, avail, fallback
  <2>2. d = 0 \/ d + v = N
    <3> HIDE DEF d, v, r
    <3>1. CASE m > 0
      BY <1>1, <1>4, <1>6, <1>7, <1>5a, <3>1
    <3>2. CASE m = 0
      BY <1>1, <1>6, <1>7, <3>2
    <3> QED
      BY <3>1, <3>2
  <2> HIDE DEF r
  <2>3. CASE d = 0
    <3>1. r.start = v
      BY <2>1, <2>3 DEF Rng
    <3> QED
      BY <1>1, <2>3, <3>1 DEF Apart, r
  <2>4. CASE d # 0
    <3>1. r.start = 0 /\ r.size = N - v
      BY <2>1, <2>2, <2>4 DEF Rng
    <3> QED
      BY <1>1, <2>2, <2>4, <3>1 DEF Apart, r
  <2> QED
    BY <2>3, <2>4
<1>8. CASE avail > v
  <2>1. l \in Nat /\ N - v - l \in Nat
    <3>1. l \in Nat /\ (l > 0 => client.start \in Nat /\ client.start + l <= N)
      BY <1>3 DEF IsBlock
    <3> HIDE DEF d, v, l
    <3>2. l > 0 => N - v - l \in Nat
      BY <1>1, <1>4, <1>5, <1>5a, <3>1
    <3> QED
      BY <1>1, <3>1, <3>2
  <2>2. extra \in Nat /\ (extra = N - v - l \/ extra = avail - v)
    <3>1. extra = MinOf(N - v - l, avail - v)
      OBVIOUS
    <3> HIDE DEF d, v, l, r, extra
    <3>2. extra = N - v - l \/ extra = avail - v
      BY <3>1 DEF MinOf
    <3>3. avail - v \in Nat
      BY <1>1, <1>6, <1>8
    <3> QED
      BY <2>1, <3>2, <3>3
  <2>3. CASE client.start = -1 /\ client.size = 0
    <3>1. r = AroundVideo(N, device, extra, fallback)
      BY <1>1, <1>6, <1>8, <2>3, SMTT(40) DEF GetExtraClientRange2, avail, fallback
    <3> HIDE DEF extra, r
    <3>2. d <= extra \/ N - (d + v) <= extra
      <4>0. l = 0
        BY <2>3
      <4> HIDE DEF d, v, l
      <4>1. CASE m = 0
        BY <4>0, <4>1, <1>1, <1>6, <1>5a, <2>1, <2>2
      <4>2. CASE m > 0 /\ d + v <= s
        BY <4>0, <4>2, <1>1, <1>6, <1>5a, <2>1, <2>2
      <4>3. CASE m > 0 /\ s + m <= d
        BY <4>0, <4>3, <1>1, <1>6, <1>5a, <2>1, <2>2
      <4> QED
        BY <1>4, <4>1, <4>2, <4>3
    <3>3. Apart(r, device)
      BY <1>2, <2>2, <3>1, <3>2, NoClient
    <3> QED
      BY <3>3 DEF r
  <2>4. CASE IsBlock(N, client) /\ client.start \in Nat /\ client.size \in Nat \ {0}
    <3>1. m > 0 /\ s <= client.start /\ client.start + l <= s + m /\ client.start # -1
      BY <1>5, <2>4, SMTT(40)
    <3>2. CASE d + v <= s
      <4>1. client.start > d /\ d + v <= client.start
        <5> HIDE DEF d, v
        <5> QED
          BY <1>1, <2>4, <3>1, <3>2, SMTT(40)
      <4>2. r = ClientAboveVideo(N, client, device, extra, fallback)
        BY <1>1, <1>6, <1>8, <3>1, <4>1 DEF GetExtraClientRange2, avail, fallback
      <4> HIDE DEF extra, r
      <4>3. d <= extra
        <5> HIDE DEF d, v, l
        <5> QED
          BY <1>1, <1>6, <1>5a, <2>1, <2>2, <2>4, <3>1, <3>2, SMTT(40)
      <4>4. Apart(r, device)
        BY <1>2, <2>2, <2>4, <4>1, <4>2, <4>3, AboveVideo
      <4> QED
        BY <4>4 DEF r
    <3>3. CASE s + m <= d
      <4>1. ~(client.start > d) /\ client.start + l <= d
        BY <1>1, <2>4, <3>1, <3>3, SMTT(40)
      <4>2. r = ClientBelowVideo(N, client, device, extra, fallback)
        BY <1>1, <1>6, <1>8, <3>1, <4>1, SMTT(40) DEF GetExtraClientRange2, avail, fallback
      <4> HIDE DEF extra, r
      <4>3. N - (d + v) <= extra
        <5> HIDE DEF d, v, l
        <5> QED
          BY <1>1, <1>6, <1>5a, <2>1, <2>2, <2>4, <3>1, <3>3, SMTT(40)
      <4>4. Apart(r, device)
        BY <1>2, <2>2, <2>4, <4>1, <4>2, <4>3, BelowVideo
      <4> QED
        BY <4>4 DEF r
    <3> QED
      BY <1>4, <3>1, <3>2, <3>3
  <2> QED
    BY <1>3, <2>3, <2>4
<1> QED
  BY <1>1, <1>6, <1>7, <1>8

-----------------------------------------------------------------------------
(* GetClientLayers                                                         *)

(* Two blocks of layers are apart or have a layer in common.               *)
LEMMA CommonLayer ==
    ASSUME NEW N \in Nat, NEW b, NEW c, IsBlock(N, b), IsBlock(N, c), ~Apart(b, c)
    PROVE  \E i \in 0 .. N - 1 : InRange(i, b) /\ InRange(i, c)
<1> DEFINE i == IF b.start <= c.start THEN c.start ELSE b.start
<1>1. /\ b.start \in Nat /\ b.size \in Nat \ {0} /\ b.start + b.size <= N
      /\ c.start \in Nat /\ c.size \in Nat \ {0} /\ c.start + c.size <= N
      /\ ~(c.start + c.size <= b.start) /\ ~(b.start + b.size <= c.start)
  BY DEF IsBlock, Apart
<1>2. i \in 0 .. N - 1 /\ InRange(i, b) /\ InRange(i, c)
  BY <1>1 DEF InRange
<1> QED
  BY <1>2

(* The span of the video layers, when there are any.                       *)
LEMMA SpanIsBlock ==
    ASSUME NEW N \in Nat, NEW S \in SUBSET (0 .. N - 1), S # {}
    PROVE  IsBlock(N, Span(S))
BY SpanFacts DEF IsBlock

(* Whatever GetClientLayers does, the layers that need the GPU go to the   *)
(* client; and without video layers the others fit the planes.             *)
THEOREM DivisionCovers ==
    ASSUME NEW N \in Nat, NEW P \in Nat \ {0}, NEW area \in [0 .. N - 1 -> Nat],
           NEW clients \in SUBSET (0 .. N - 1), NEW videos \in SUBSET (0 .. N - 1)
    PROVE  LET r == GetClientLayers(N, P, clients, videos, area)
           IN  /\ \A i \in clients : InRange(i, r)
               /\ videos = {} => PlanesNeeded(N, r, {}) <= P
<1> DEFINE client == Span(clients)
           device == Span(videos)
           r == GetClientLayers(N, P, clients, videos, area)
<1>1. IsSpan(N, client)
  BY SpanFacts
<1>2. CASE videos = {} \/ Mixed(N, client, device, videos)
  <2>1. r = GetExtraClientRange(N, P, client, area)
    BY <1>2 DEF GetClientLayers
  <2> HIDE DEF r
  <2>2. IsRange(N, r) /\ Covers(r, client) /\ PlanesNeeded(N, r, {}) <= P
    BY <1>1, <2>1, ExtraRangeSound
  <2>3. \A i \in clients : InRange(i, r)
    <3>1. r.start \in Int /\ r.size \in Int
      BY <2>2 DEF IsRange
    <3> QED
      BY <2>2, <3>1, SpanCovered
  <2> QED
    BY <2>2, <2>3 DEF r
<1>3. CASE videos # {} /\ ~Mixed(N, client, device, videos)
  <2>1. r = GetExtraClientRange2(N, P, client, device, area)
    BY <1>3 DEF GetClientLayers
  <2> HIDE DEF r
  <2>2. IsBlock(N, device)
    BY <1>3, SpanIsBlock
  <2>3. client.size = 0 \/ Apart(client, device)
    <3>1. SUFFICES ASSUME client.size # 0, ~Apart(client, device) PROVE FALSE
      OBVIOUS
    <3>2. IsBlock(N, client)
      BY <1>1, <3>1 DEF IsSpan, IsBlock
    <3>3. \E i \in 0 .. N - 1 : InRange(i, client) /\ InRange(i, device)
      BY <2>2, <3>1, <3>2, CommonLayer
    <3> QED
      BY <1>3, <3>3 DEF Mixed
  <2>4. TypedRange(r) /\ Covers(r, client)
    BY <1>1, <2>1, <2>2, <2>3, Range2Covers
  <2>5. \A i \in clients : InRange(i, r)
    BY <2>4, SpanCovered DEF TypedRange
  <2> QED
    BY <1>3, <2>5 DEF r
<1> QED
  BY <1>2, <1>3

(* Video layers that follow each other stay on planes if some range that   *)
(* leaves them there covers what needs the GPU and fits the planes.        *)
THEOREM DivisionLeavesVideo ==
    ASSUME NEW N \in Nat, NEW P \in Nat \ {0}, NEW area \in [0 .. N - 1 -> Nat],
           NEW clients \in SUBSET (0 .. N - 1), NEW videos \in SUBSET (0 .. N - 1),
           P < SizeMod,
           \A i \in 0 .. N - 1 : InRange(i, Span(videos)) => i \in videos,
           NEW s \in Nat, NEW m \in Nat, s + m <= N,
           \A i \in clients : InRange(i, Rng(s, m)),
           \A i \in videos : ~InRange(i, Rng(s, m)),
           PlanesNeeded(N, Rng(s, m), videos) <= P
    PROVE  LET r == GetClientLayers(N, P, clients, videos, area)
           IN  \A i \in videos : ~InRange(i, r)
<1> DEFINE client == Span(clients)
           device == Span(videos)
           R == Rng(s, m)
           r == GetClientLayers(N, P, clients, videos, area)
<1>1. CASE videos = {}
  BY <1>1
<1>2. CASE videos # {}
  <2>1. IsBlock(N, device) /\ IsSpan(N, client) /\ \A i \in videos : InRange(i, device)
    BY <1>2, SpanIsBlock, SpanFacts
  <2>2. R.start = s /\ R.size = m
    BY DEF Rng
  <2>3. Covers(R, client)
    <3>1. R.start \in Int /\ R.size \in Int /\ \A i \in clients : InRange(i, R)
      BY <2>2
    <3> HIDE DEF R
    <3> QED
      BY <3>1, SpanOfCovered
  <2>4. ASSUME NEW i \in 0 .. N - 1, InRange(i, client), InRange(i, device) PROVE FALSE
    <3>1. i \in videos /\ ~InRange(i, R)
      BY <2>4
    <3>2. client.size # 0
      BY <2>1, <2>4 DEF InRange, IsSpan
    <3>3. client.start \in Nat /\ client.size \in Nat
      BY <2>1, <3>2 DEF IsSpan
    <3>4. InRange(i, R)
      <4> HIDE DEF R, client
      <4> QED
        BY <2>2, <2>3, <2>4, <3>2, <3>3 DEF Covers, InRange
    <3> QED
      BY <3>1, <3>4
  <2>5. ~Mixed(N, client, device, videos)
    BY <2>1, <2>4 DEF Mixed
  <2>6. r = GetExtraClientRange2(N, P, client, device, area)
    BY <1>2, <2>5 DEF GetClientLayers
  <2>7. ASSUME m > 0 PROVE Apart(R, device)
    <3>1. SUFFICES ASSUME ~Apart(R, device) PROVE FALSE
      OBVIOUS
    <3>2. IsBlock(N, R)
      BY <2>2, <2>7 DEF IsBlock
    <3>3. \E i \in 0 .. N - 1 : InRange(i, R) /\ InRange(i, device)
      BY <2>1, <3>1, <3>2, CommonLayer
    <3> QED
      BY <3>3
  <2>8. Cardinality({i \in videos : ~InRange(i, R)}) = device.size
    <3> DEFINE d == device.start
               v == device.size
    <3>1. d \in Nat /\ v \in Nat \ {0} /\ d + v <= N
      BY <2>1 DEF IsBlock
    <3>2. {i \in videos : ~InRange(i, R)} = videos
      OBVIOUS
    <3>3. \A i \in 0 .. N - 1 : i \in videos <=> d <= i /\ i < d + v
      BY <2>1 DEF InRange
    <3> HIDE DEF d, v
    <3>4. videos = d .. (d + v - 1)
      <4>1. \A i : i \in d .. (d + v - 1) <=> i \in 0 .. N - 1 /\ d <= i /\ i < d + v
        BY <3>1
      <4> QED
        BY <3>3, <4>1
    <3>5. Cardinality(d .. (d + v - 1)) = v
      <4>1. d + v - 1 \in Int /\ ~(d > d + v - 1) /\ d + v - 1 - d + 1 = v
        BY <3>1
      <4> QED
        BY <3>1, <4>1, FS_Interval
    <3> QED
      BY <3>2, <3>4, <3>5 DEF v
  <2>9. (N - m) + (IF m > 0 THEN 1 ELSE 0) + device.size <= P
    BY <2>2, <2>8 DEF PlanesNeeded
  <2>10. Apart(r, device) /\ TypedRange(r)
    <3>1. client.size = 0 \/ Apart(client, device)
      <4>1. SUFFICES ASSUME client.size # 0, ~Apart(client, device) PROVE FALSE
        OBVIOUS
      <4>2. IsBlock(N, client)
        BY <2>1, <4>1 DEF IsSpan, IsBlock
      <4> QED
        BY <2>1, <2>4, <4>1, <4>2, CommonLayer
    <3> HIDE DEF client, device, R
    <3>2. TypedRange(r)
      BY <2>1, <2>6, <3>1, Range2Covers
    <3>3. Apart(r, device)
      BY <2>1, <2>3, <2>6, <2>7, <2>9, Range2LeavesVideo DEF R
    <3> QED
      BY <3>2, <3>3
  <2> HIDE DEF client, device, r, R
  <2>11. \A i \in 0 .. N - 1 : InRange(i, device) => ~InRange(i, r)
    <3>1. device.start \in Nat /\ device.size \in Nat /\ r.start \in Int /\ r.size \in Int
      BY <2>1, <2>10 DEF IsBlock, TypedRange
    <3> QED
      BY <2>10, <3>1, SMTT(40) DEF Apart, InRange
  <2> QED
    BY <2>1, <2>11 DEF r
<1> QED
  BY <1>1, <1>2

-----------------------------------------------------------------------------
(* The frame cycle                                                         *)

CycleTypeOK ==
    /\ n \in 1 .. MaxLayers
    /\ planes \in 1 .. MaxPlanes
    /\ kind \in [Layers -> Kinds]
    /\ pc \in {"open", "proposed", "validated", "presented"}
    /\ validated \in [Layers -> {"Invalid", "Client", "Device"}]
    /\ shown \subseteq Layers

(* What is tested is what GetClientLayers answers for the layers as they   *)
(* are, and what the layers were marked with.                              *)
ProposalKept ==
    pc = "proposed" =>
      /\ range = GetClientLayers(n, planes, ClientLayers, VideoLayers, Area)
      /\ \A i \in Layers : InRange(i, range) => validated[i] = "Client"

(* Between frames the layers on planes are marked for them, and within a   *)
(* frame the flags remember it.                                            *)
FlagsKept ==
    ~skipped =>
      /\ pc \in {"open", "presented"} => \A i \in shown : validated[i] # "Client"
      /\ pc \in {"proposed", "validated"} => \A i \in shown : scanout[i]

CycleInv == CycleTypeOK /\ ProposalKept

(* The layers of a frame are numbered and typed.                           *)
LEMMA LayersTyped ==
    ASSUME CycleTypeOK
    PROVE  /\ n \in Nat /\ n \in Nat \ {0} /\ planes \in Nat \ {0} /\ planes < SizeMod
           /\ ClientLayers \in SUBSET (0 .. n - 1) /\ VideoLayers \in SUBSET (0 .. n - 1)
           /\ Area \in [0 .. n - 1 -> Nat]
<1>1. n \in Nat \ {0} /\ planes \in Nat \ {0} /\ planes < SizeMod
  BY CycleAssumption, SizeAssumption DEF CycleTypeOK
<1>2. \A i \in Layers : kind[i].area \in Nat
  BY CycleAssumption DEF CycleTypeOK, LayerKinds
<1>3. Area \in [0 .. n - 1 -> Nat]
  BY <1>2 DEF Area, Layers
<1> QED
  BY <1>1, <1>3 DEF ClientLayers, VideoLayers, Layers

(* The marks of a range.                                                   *)
LEMMA Marked ==
    ASSUME NEW r, MarkValidated(r)
    PROVE  /\ validated' \in [Layers -> {"Invalid", "Client", "Device"}]
           /\ \A i \in Layers : InRange(i, r) => validated'[i] = "Client"
BY DEF MarkValidated

(* The type of the state and the proposal, in every state.                 *)
THEOREM CycleKeepsInv == Spec => []CycleInv
<1>1. Init => CycleInv
  BY CycleAssumption DEF Init, CycleInv, CycleTypeOK, ProposalKept, Layers
<1>2. CycleInv /\ [Next]_vars => CycleInv'
  <2> SUFFICES ASSUME CycleInv, [Next]_vars PROVE CycleInv'
    OBVIOUS
  <2> USE DEF CycleInv
  <2>1. CASE ValidateUnsupported
    BY <2>1 DEF ValidateUnsupported, BeginValidate, CycleTypeOK, ProposalKept, Layers
  <2>2. CASE ValidateFlattened
    <3>1. CycleTypeOK'
      BY <2>2, Marked DEF ValidateFlattened, BeginValidate, CycleTypeOK, Layers
    <3>2. pc' # "proposed"
      BY <2>2 DEF ValidateFlattened
    <3> QED
      BY <3>1, <3>2 DEF ProposalKept
  <2>3. CASE ValidateProposal
    <3> DEFINE r == GetClientLayers(n, planes, ClientLayers, VideoLayers, Area)
    <3>1. /\ range' = r /\ MarkValidated(r) /\ pc' \in {"validated", "proposed"}
          /\ n' = n /\ planes' = planes /\ kind' = kind /\ sf' = sf /\ shown' = shown
      BY <2>3 DEF ValidateProposal, BeginValidate
    <3>2. r' = r /\ Layers' = Layers
      BY <3>1 DEF ClientLayers, VideoLayers, Area, Layers, IsClientLayer
    <3> HIDE DEF r
    <3>3. /\ validated' \in [Layers -> {"Invalid", "Client", "Device"}]
          /\ \A i \in Layers : InRange(i, r) => validated'[i] = "Client"
      BY <3>1, Marked
    <3>4. CycleTypeOK'
      BY <3>1, <3>2, <3>3 DEF CycleTypeOK
    <3>5. ProposalKept'
      BY <3>1, <3>2, <3>3 DEF ProposalKept, r
    <3> QED
      BY <3>4, <3>5
  <2>4. CASE TestPasses
    BY <2>4 DEF TestPasses, CycleTypeOK, ProposalKept, Layers
  <2>5. CASE TestFails
    <3>1. CycleTypeOK'
      BY <2>5, Marked DEF TestFails, CycleTypeOK, Layers
    <3>2. pc' # "proposed"
      BY <2>5 DEF TestFails
    <3> QED
      BY <3>1, <3>2 DEF ProposalKept
  <2>6. CASE AcceptDisplayChanges
    BY <2>6 DEF AcceptDisplayChanges, CycleTypeOK, ProposalKept, Layers
  <2>7. CASE PresentDisplay
    BY <2>7 DEF PresentDisplay, CycleTypeOK, ProposalKept, Layers
  <2>8. CASE PresentFails
    BY <2>8 DEF PresentFails, CycleTypeOK, ProposalKept, Layers
  <2>9. CASE PresentUncommitted
    BY <2>9 DEF PresentUncommitted, CycleTypeOK, ProposalKept, Layers
  <2>10. CASE NextFrame
    BY <2>10 DEF NextFrame, CycleTypeOK, ProposalKept, Layers
  <2>11. CASE UNCHANGED vars
    <3>1. ClientLayers' = ClientLayers /\ VideoLayers' = VideoLayers /\ Area' = Area
      BY <2>11 DEF vars, ClientLayers, VideoLayers, Area, Layers, IsClientLayer
    <3> QED
      BY <2>11, <3>1 DEF vars, CycleTypeOK, ProposalKept, Layers
  <2> QED
    BY <2>1, <2>2, <2>3, <2>4, <2>5, <2>6, <2>7, <2>8, <2>9, <2>10, <2>11 DEF Next
<1> QED
  BY <1>1, <1>2, PTL DEF Spec

(* A proposal gives the GPU every layer that needs it and, without video   *)
(* layers, the planes no more than they can show.                          *)
THEOREM ProposalsSound == Spec => []ProposalSound
<1>1. CycleInv => ProposalSound
  <2> SUFFICES ASSUME CycleInv, pc = "proposed"
               PROVE  /\ \A i \in ClientLayers : validated[i] = "Client"
                      /\ VideoLayers = {} => PlanesNeeded(n, range, VideoLayers) <= planes
    BY DEF ProposalSound
  <2>1. /\ range = GetClientLayers(n, planes, ClientLayers, VideoLayers, Area)
        /\ \A i \in Layers : InRange(i, range) => validated[i] = "Client"
    BY DEF CycleInv, ProposalKept
  <2>2. /\ \A i \in ClientLayers : InRange(i, range)
        /\ VideoLayers = {} => PlanesNeeded(n, range, {}) <= planes
    BY <2>1, LayersTyped, DivisionCovers DEF CycleInv
  <2>3. ClientLayers \subseteq Layers
    BY DEF ClientLayers
  <2> QED
    BY <2>1, <2>2, <2>3
<1> QED
  BY <1>1, CycleKeepsInv, PTL

(* No division that would do costs the GPU fewer pixels than the proposal. *)
THEOREM ProposalsCheapest == Spec => []ProposalIsCheapest
<1>1. CycleInv => ProposalIsCheapest
  <2> SUFFICES ASSUME CycleInv, pc = "proposed", VideoLayers = {},
                      NEW s \in Layers, NEW m \in 1 .. n - s,
                      \A i \in ClientLayers : InRange(i, Rng(s, m)),
                      n - m <= AvailPlanes(planes, n)
               PROVE  \/ range.size = 0
                      \/ CalcPixOps(Area, range) <= CalcPixOps(Area, Rng(s, m))
    BY DEF ProposalIsCheapest
  <2>1. range = GetExtraClientRange(n, planes, Span(ClientLayers), Area)
    BY DEF CycleInv, ProposalKept, GetClientLayers
  <2>2. /\ n \in Nat /\ planes \in Nat \ {0} /\ ClientLayers \in SUBSET (0 .. n - 1)
        /\ Area \in [0 .. n - 1 -> Nat]
    BY LayersTyped DEF CycleInv
  <2>3. s \in Nat /\ m \in Nat /\ s + m <= n
    BY <2>2 DEF Layers
  <2>4. IsSpan(n, Span(ClientLayers))
    BY <2>2, SpanFacts
  <2>5. Covers(Rng(s, m), Span(ClientLayers))
    <3> DEFINE R == Rng(s, m)
    <3>1. R.start \in Int /\ R.size \in Int /\ \A i \in ClientLayers : InRange(i, R)
      BY <2>3 DEF Rng
    <3> HIDE DEF R
    <3>2. Covers(R, Span(ClientLayers))
      BY <2>2, <3>1, SpanOfCovered
    <3> QED
      BY <3>2 DEF R
  <2> QED
    BY <2>1, <2>2, <2>3, <2>4, <2>5, ExtraRangeCheapest
<1> QED
  BY <1>1, CycleKeepsInv, PTL

(* Video layers stay on planes whenever they can, for any number of them.  *)
THEOREM VideosStay == Spec => []VideoStaysOnPlanes
<1>1. CycleInv => VideoStaysOnPlanes
  <2> SUFFICES ASSUME CycleInv,
                      \A i \in Layers : InRange(i, Span(VideoLayers)) => i \in VideoLayers,
                      NEW s \in Layers, NEW m \in 0 .. n, s + m <= n,
                      \A i \in ClientLayers : InRange(i, Rng(s, m)),
                      \A i \in VideoLayers : ~InRange(i, Rng(s, m)),
                      PlanesNeeded(n, Rng(s, m), VideoLayers) <= planes
               PROVE  \A i \in VideoLayers :
                        ~InRange(i, GetClientLayers(n, planes, ClientLayers, VideoLayers, Area))
    BY DEF VideoStaysOnPlanes
  <2>1. /\ n \in Nat /\ planes \in Nat \ {0} /\ planes < SizeMod
        /\ ClientLayers \in SUBSET (0 .. n - 1) /\ VideoLayers \in SUBSET (0 .. n - 1)
        /\ Area \in [0 .. n - 1 -> Nat]
    BY LayersTyped DEF CycleInv
  <2>2. s \in Nat /\ m \in Nat
    BY DEF Layers
  <2>3. \A i \in 0 .. n - 1 : InRange(i, Span(VideoLayers)) => i \in VideoLayers
    BY DEF Layers
  <2> QED
    BY <2>1, <2>2, <2>3, DivisionLeavesVideo
<1> QED
  BY <1>1, CycleKeepsInv, PTL

(* The release fences of the layers a new frame takes off the planes, for  *)
(* a client that validates once before it presents.                        *)
THEOREM ReleaseFences ==
    ASSUME ~Revalidate
    PROVE  Spec => ReleaseFenceForScannedOut
<1>1. Init => FlagsKept
  BY DEF Init, FlagsKept
<1>2. CycleTypeOK /\ FlagsKept /\ [Next]_vars => FlagsKept'
  <2> SUFFICES ASSUME CycleTypeOK, FlagsKept, [Next]_vars PROVE FlagsKept'
    OBVIOUS
  <2>1. ASSUME BeginValidate, pc' \in {"open", "validated", "proposed"},
               pc' = "open" => UNCHANGED validated
        PROVE  FlagsKept'
    BY <2>1 DEF BeginValidate, StoreScanOutFlags, FlagsKept, CycleTypeOK
  <2>2. CASE ValidateUnsupported \/ ValidateFlattened \/ ValidateProposal
    BY <2>1, <2>2 DEF ValidateUnsupported, ValidateFlattened, ValidateProposal, BeginValidate
  <2>3. CASE TestPasses
    BY <2>3 DEF TestPasses, FlagsKept
  <2>4. CASE TestFails
    BY <2>4 DEF TestFails, FlagsKept
  <2>5. CASE AcceptDisplayChanges
    BY <2>5 DEF AcceptDisplayChanges, FlagsKept
  <2>6. CASE PresentDisplay
    BY <2>6 DEF PresentDisplay, FlagsKept
  <2>7. CASE PresentFails
    BY <2>7 DEF PresentFails, FlagsKept
  <2>8. CASE PresentUncommitted
    BY <2>8 DEF PresentUncommitted, FlagsKept
  <2>9. CASE NextFrame
    BY <2>9 DEF NextFrame, FlagsKept
  <2>10. CASE UNCHANGED vars
    BY <2>10 DEF vars, FlagsKept
  <2> QED
    BY <2>2, <2>3, <2>4, <2>5, <2>6, <2>7, <2>8, <2>9, <2>10 DEF Next
<1>3. FlagsKept => (pc = "validated" /\ pc' = "presented" /\ ~skipped => \A i \in shown : scanout[i])
  BY DEF FlagsKept
<1>4. CycleInv => CycleTypeOK
  BY DEF CycleInv
<1> QED
  BY <1>1, <1>2, <1>3, <1>4, CycleKeepsInv, PTL DEF Spec, ReleaseFenceForScannedOut

-----------------------------------------------------------------------------
(* The vsync thread                                                        *)

(* The steps of the worker that only move it along.                        *)
LEMMA WorkerMoves ==
    ASSUME LoopTop \/ RoutineHead \/ SpuriousWakeup \/ WokenUp \/ VBlank
           \/ VBlankFails \/ Gate \/ CallbackLost
    PROVE  UNCHANGED <<displayVars, workerVars, lifeVars>>
BY DEF LoopTop, RoutineHead, SpuriousWakeup, WokenUp, VBlank, VBlankFails,
       Gate, CallbackLost, AtWorker

(* The worker is never switched off while a flag asks for it, whatever     *)
(* client threads, hotplugs and the worker's callback do in whatever order.*)
THEOREM WorkerStaysOn == VSyncSpec => []NeedsKeepWorkerOn
<1>1. VSyncInit => NeedsKeepWorkerOn
  BY DEF VSyncInit, NeedsKeepWorkerOn
<1>2. NeedsKeepWorkerOn /\ [VSyncNext]_vsyncVars => NeedsKeepWorkerOn'
  <2> SUFFICES ASSUME NeedsKeepWorkerOn, [VSyncNext]_vsyncVars
               PROVE  NeedsKeepWorkerOn'
    OBVIOUS
  <2> USE DEF NeedsKeepWorkerOn
  <2>1. CASE EnableVsync \/ TrackModeChange \/ StartCountdown
    BY <2>1 DEF EnableVsync, TrackModeChange, StartCountdown, VSyncOn
  <2>2. CASE DisableVsync \/ ModeCommitted \/ SkipFlattening \/ Flatten
    BY <2>2 DEF DisableVsync, ModeCommitted, SkipFlattening, Flatten, workerVars
  <2>3. CASE AttachPipeline \/ AttachHeadless \/ Deinit \/ Detached
    BY <2>3 DEF AttachPipeline, AttachHeadless, Deinit, Detached, InitWorker,
                displayVars, workerVars
  <2>4. CASE Unlink \/ UnlockMain \/ Exit \/ Join \/ NewDisplay
    BY <2>4 DEF Unlink, UnlockMain, Exit, Join, NewDisplay, displayVars, workerVars
  <2>5. CASE Callback
    <3>1. enabled' = (enabled /\ (event_en \/ flat_en' \/ track_en))
          /\ UNCHANGED <<event_en, track_en>>
      BY <2>5 DEF Callback
    <3>2. flat_en' = (flat_en /\ ~RefreshCalled)
      BY <2>5 DEF Callback
    <3>3. flat_en' => flat_en
      BY <3>2
    <3> QED
      BY <3>1, <3>3
  <2>6. CASE LoopTop \/ RoutineHead \/ SpuriousWakeup \/ WokenUp \/ VBlank
             \/ VBlankFails \/ Gate \/ CallbackLost
    BY <2>6, WorkerMoves DEF displayVars, workerVars
  <2>7. CASE UNCHANGED vsyncVars
    BY <2>7 DEF vsyncVars, displayVars, workerVars
  <2> QED
    BY <2>1, <2>2, <2>3, <2>4, <2>5, <2>6, <2>7 DEF VSyncNext, WorkerStep
<1> QED
  BY <1>1, <1>2, PTL DEF VSyncSpec

-----------------------------------------------------------------------------
(* The arithmetic of the synthetic vertical blank.                         *)

(* What a quotient of naturals is.                                         *)
LEMMA Division ==
    ASSUME NEW a \in Nat, NEW b \in Nat \ {0}
    PROVE  /\ a \div b \in Nat
           /\ b * (a \div b) <= a
           /\ a < b * (a \div b) + b
BY SMT

(* GetPhasedVSync returns a time that is still to come, in phase with the  *)
(* last vertical blank, and at most one period away: for every period and  *)
(* every pair of times.  It is at most two periods away if the last        *)
(* timestamp lies in the future, as after a sleep that ended early.        *)
THEOREM PhasedVSyncInPhase ==
    ASSUME NEW frame_ns \in Nat \ {0}, NEW current \in Nat, NEW last_timestamp \in Int,
           NEW next, next = GetPhasedVSync(frame_ns, current, last_timestamp)
    PROVE  /\ current < next
           /\ last_timestamp <= current => next <= current + frame_ns
           /\ last_timestamp > current => next <= last_timestamp + frame_ns
           /\ last_timestamp >= 0 => \E k \in Int : next = frame_ns * k + last_timestamp
<1>1. CASE last_timestamp < 0
  BY <1>1 DEF GetPhasedVSync
<1>2. CASE last_timestamp >= 0
  <2> DEFINE t == Truncated(current - last_timestamp, frame_ns)
  <2>1. next = frame_ns * (t + 1) + last_timestamp
    BY <1>2 DEF GetPhasedVSync
  <2>2. CASE current >= last_timestamp
    <3> DEFINE a == current - last_timestamp
    <3>1. a \in Nat /\ t = a \div frame_ns
      BY <1>2, <2>2 DEF Truncated
    <3> HIDE DEF a, t
    <3>2. t \in Nat /\ frame_ns * t <= a /\ a < frame_ns * t + frame_ns
      BY <3>1, Division
    <3>3. next = frame_ns * t + frame_ns + last_timestamp
      BY <2>1, <3>2
    <3> QED
      BY <2>1, <2>2, <3>2, <3>3 DEF a
  <2>3. CASE current < last_timestamp
    <3> DEFINE a == last_timestamp - current
               q == a \div frame_ns
    <3>1. a \in Nat /\ t = -q
      BY <1>2, <2>3 DEF Truncated
    <3> HIDE DEF a, q, t
    <3>2. q \in Nat /\ frame_ns * q <= a /\ a < frame_ns * q + frame_ns
      BY <3>1, Division DEF q
    <3>3. next = frame_ns - frame_ns * q + last_timestamp
      BY <2>1, <3>1, <3>2
    <3>4. \E k \in Int : next = frame_ns * k + last_timestamp
      <4>1. t + 1 \in Int
        BY <3>1, <3>2
      <4> QED
        BY <2>1, <4>1
    <3>5. frame_ns * q \in Nat
      BY <3>2
    <3>6. current < next /\ next <= last_timestamp + frame_ns
      BY <3>2, <3>3, <3>5 DEF a
    <3> QED
      BY <2>3, <3>4, <3>6
  <2> QED
    BY <2>2, <2>3
<1> QED
  BY <1>1, <1>2

=============================================================================
