------------------------- MODULE DisplayConfigsProofs -------------------------
(* The configurations of displays, proved for every number of displays, every list *)
(* of modes that the kernel may report and every setting of the properties.  What  *)
(* the filters of HwcDisplayConfigs::Update compute is proved by taking the least  *)
(* index at which it would be wrong.                                               *)
EXTENDS DisplayConfigs, FiniteSetTheorems, WellFoundedInduction, TLAPS

-------------------------------------------------------------------------------
(* The inductive invariant *)

\* Every variable that is kept for a display is kept for each of them.
TypeOK ==
  /\ last \in Nat
  /\ pipe \in [Displays -> {"pipe", "headless", None}]
  /\ DOMAIN configs = Displays /\ configs = [d \in Displays |-> configs[d]]
  /\ DOMAIN active = Displays /\ active = [d \in Displays |-> active[d]]
  /\ DOMAIN preferred = Displays /\ preferred = [d \in Displays |-> preferred[d]]
  /\ DOMAIN staged = Displays /\ staged = [d \in Displays |-> staged[d]]
  /\ DOMAIN stagedId = Displays /\ stagedId = [d \in Displays |-> stagedId[d]]
  /\ DOMAIN screen = Displays /\ screen = [d \in Displays |-> screen[d]]
  /\ DOMAIN told = Displays /\ told = [d \in Displays |-> told[d]]

ListedIn(cs) == {id \in DOMAIN cs : ~cs[id].disabled}

\* What ConfigsSound says of one map of configurations.
Sound(cs, pref) ==
  /\ pref \in ListedIn(cs)
  /\ \A i, j \in DOMAIN cs : cs[i].group = cs[j].group <=> cs[i].mode.res = cs[j].mode.res
  /\ \A i, j \in ListedIn(cs) : i # j /\ cs[i].group = cs[j].group =>
       /\ cs[i].mode.kind = cs[j].mode.kind
       /\ cs[i].mode.hz - cs[j].mode.hz \notin -9..9
  /\ \A i \in DOMAIN cs : cs[i].mode.kind # "3d" =>
       \E j \in ListedIn(cs) : cs[i].group = cs[j].group

\* No number that anybody holds is still to be handed out.
NumbersUsed(d) ==
  \A id \in DOMAIN told[d] \cup DOMAIN configs[d] \cup {stagedId[d]} : id \in Nat /\ id <= last

\* A number the client holds is that of a listed configuration and means what it was told,
\* or is of no configuration.
ToldListed(d) ==
  \A id \in DOMAIN told[d] \cap DOMAIN configs[d] :
    id \in ListedIn(configs[d]) /\ told[d][id] = configs[d][id].mode

\* The same for the number that is staged, as long as its mode is.
StagedListed(d) ==
  stagedId[d] \in DOMAIN configs[d] =>
    /\ stagedId[d] \in ListedIn(configs[d])
    /\ staged[d] # None => staged[d] = configs[d][stagedId[d]].mode

Shown(d) ==
  /\ pipe[d] = "pipe" /\ staged[d] = None
  /\ active[d] \in DOMAIN configs[d]
  /\ configs[d][active[d]].mode # HeadlessMode
  => configs[d][active[d]].mode = screen[d]

DisplayInv(d) ==
  /\ NumbersUsed(d)
  /\ \A id \in DOMAIN configs[d] : configs[d][id].mode # None
  /\ ToldListed(d)
  /\ StagedListed(d)
  /\ Shown(d)
  /\ configs[d] # <<>> => Sound(configs[d], preferred[d])

ConfigsInv == TypeOK /\ \A d \in Displays : DisplayInv(d)

-------------------------------------------------------------------------------
(* Least elements, instead of induction *)

\* A nonempty set of numbers has a least one.
LEMMA LeastNatural ==
  ASSUME NEW T, T \subseteq Nat, T # {}
  PROVE  \E x \in T : \A y \in T : x <= y
<1> DEFINE R == OpToRel(<, Nat)
<1>1. IsWellFoundedOn(R, Nat)
  BY NatLessThanWellFounded
<1>2. \A x, y \in Nat : x < y => <<x, y>> \in R
  BY DEF OpToRel
<1> HIDE DEF R
<1>3. PICK x \in T : \A y \in T : ~ (<<y, x>> \in R)
  BY <1>1, WFMin
<1>4. \A y \in T : ~(y < x)
  BY <1>2, <1>3
<1> QED
  BY <1>3, <1>4

-------------------------------------------------------------------------------
(* DrmConnector::UpdateModes *)

Below(S, i) == {j \in S : j < i}
Rank(S, i) == Cardinality(Below(S, i))

\* The number of smaller elements grows with the element.
LEMMA RankGrows ==
  ASSUME NEW n \in Nat, NEW S \in SUBSET (1..n), NEW i \in S
  PROVE  /\ IsFiniteSet(S) /\ Cardinality(S) \in Nat
         /\ IsFiniteSet(Below(S, i)) /\ Rank(S, i) \in Nat
         /\ \A j \in S : i < j => Rank(S, i) < Rank(S, j)
<1>1. IsFiniteSet(1..n) /\ \A x \in S : x \in Int
  BY FS_Interval
<1>2. IsFiniteSet(S) /\ Cardinality(S) \in Nat
  BY <1>1, FS_Subset, FS_CardinalityType
<1>3. \A k : IsFiniteSet(Below(S, k)) /\ Rank(S, k) \in Nat
  BY <1>2, FS_Subset, FS_CardinalityType DEF Below, Rank
<1>4. ASSUME NEW j \in S, i < j PROVE Rank(S, i) < Rank(S, j)
  <2>1. Below(S, i) \subseteq Below(S, j)
    <3>1. \A x \in S : x < i => x < j
      BY <1>1, <1>4
    <3> QED
      BY <3>1 DEF Below
  <2>2. i \in Below(S, j) /\ i \notin Below(S, i)
    BY <1>1, <1>4 DEF Below
  <2>3. /\ Cardinality(Below(S, i)) <= Cardinality(Below(S, j))
        /\ Cardinality(Below(S, i)) # Cardinality(Below(S, j))
    BY <1>3, <2>1, <2>2, FS_Subset
  <2> QED
    BY <1>3, <2>3 DEF Rank
<1> QED
  BY <1>2, <1>3, <1>4

\* Every number below the size of the set is that of the elements below one of it.
LEMMA RankReached ==
  ASSUME NEW n \in Nat, NEW S \in SUBSET (1..n), NEW k \in 1..Cardinality(S)
  PROVE  \E i \in S : Rank(S, i) = k - 1
<1> DEFINE c == Cardinality(S)
           T == {m \in 1..c : \A i \in S : Rank(S, i) # m - 1}
<1>0. \A x \in S : x \in Nat
  OBVIOUS
<1>1. IsFiniteSet(S) /\ c \in Nat /\ S \subseteq Nat
  <2>1. IsFiniteSet(1..n)
    BY FS_Interval
  <2>2. IsFiniteSet(S) /\ c \in Nat
    BY <2>1, FS_Subset, FS_CardinalityType
  <2> QED
    BY <1>0, <2>2
<1>2. SUFFICES ASSUME T # {} PROVE FALSE
  OBVIOUS
<1>3. T \subseteq Nat
  BY <1>1
<1>4. PICK m \in T : \A y \in T : m <= y
  BY <1>2, <1>3, LeastNatural
<1>5. m \in 1..c
  OBVIOUS
<1>6. CASE m = 1
  <2>1. S # {}
    BY <1>1, <1>5, <1>6, FS_EmptySet
  <2>2. PICK i \in S : \A j \in S : i <= j
    BY <1>1, <2>1, LeastNatural
  <2>3. Below(S, i) = {}
    <3>1. \A j \in S : ~(j < i)
      BY <1>0, <2>2
    <3> QED
      BY <3>1 DEF Below
  <2>4. Rank(S, i) = 0
    BY <2>3, FS_EmptySet DEF Rank
  <2> QED
    BY <2>4, <1>4, <1>6
<1>7. CASE m # 1
  <2>1. m - 1 \in 1..c /\ m - 1 \notin T
    BY <1>1, <1>4, <1>5, <1>7
  <2>2. PICK i \in S : Rank(S, i) = m - 2
    BY <2>1
  <2> DEFINE L == {j \in S : j <= i}
  <2>3. L = Below(S, i) \cup {i} /\ i \notin Below(S, i) /\ L \subseteq S
    <3>1. \A j \in S : j <= i <=> j < i \/ j = i
      BY <1>0
    <3>2. ~(i < i)
      BY <1>0
    <3> QED
      BY <3>1, <3>2 DEF Below
  <2>4. IsFiniteSet(L) /\ Cardinality(L) = m - 1
    BY <2>2, <2>3, <1>5, <1>1, RankGrows, FS_AddElement, FS_Subset DEF Rank
  <2>5. L # S
    BY <2>4, <1>1, <1>5
  <2> DEFINE G == {j \in S : j > i}
  <2>6. G # {} /\ G \subseteq Nat
    <3>1. \A j \in S : j <= i \/ j > i
      BY <1>0
    <3> QED
      BY <1>1, <2>5, <3>1
  <2>7. PICK x \in G : \A y \in G : x <= y
    BY <2>6, LeastNatural
  <2>8. Below(S, x) = L
    <3>1. \A j \in S : j < x <=> j <= i
      <4>1. \A j \in S : j > i => x <= j
        BY <2>7
      <4> QED
        BY <1>0, <2>7, <4>1
    <3> QED
      BY <3>1 DEF Below
  <2>9. Rank(S, x) = m - 1
    BY <2>8, <2>4 DEF Rank
  <2> QED
    BY <2>9, <2>7, <1>4
<1> QED
  BY <1>6, <1>7

\* The k-th picked mode is that of the k-th index.
InOrder(ms, S, order) ==
  /\ order \in [1..Cardinality(S) -> S]
  /\ \A k \in 1..Cardinality(S) : Pick(ms, S)[k] = ms[order[k]]
  /\ \A k, l \in 1..Cardinality(S) : k < l => order[k] < order[l]
  /\ Cardinality(S) > 0 => \A i \in S : order[1] <= i

\* Pick takes the modes of the indices in their order.
LEMMA PickFacts ==
  ASSUME NEW ms, NEW n \in Nat, NEW S \in SUBSET (1..n)
  PROVE  /\ Cardinality(S) \in Nat
         /\ Len(Pick(ms, S)) = Cardinality(S)
         /\ DOMAIN Pick(ms, S) = 1..Cardinality(S)
         /\ Cardinality(S) = 0 => Pick(ms, S) = <<>>
         /\ \E order : InOrder(ms, S, order)
<1> DEFINE c == Cardinality(S)
           Of(k) == CHOOSE i \in S : Rank(S, i) = k - 1
           order == [k \in 1..c |-> Of(k)]
           p == Pick(ms, S)
<1>1. IsFiniteSet(S) /\ c \in Nat /\ \A x \in S : x \in Nat
  <2>1. IsFiniteSet(1..n)
    BY FS_Interval
  <2>2. IsFiniteSet(S) /\ c \in Nat
    BY <2>1, FS_Subset, FS_CardinalityType
  <2> QED
    BY <2>2
<1>2. p = [k \in 1..c |-> ms[Of(k)]]
  BY DEF Pick, Rank, Below
<1>3. \A k \in 1..c : Of(k) \in S /\ Rank(S, Of(k)) = k - 1
  BY RankReached
<1> HIDE DEF Of
<1>4. DOMAIN p = 1..c /\ \A k \in 1..c : p[k] = ms[order[k]]
  BY <1>2
<1>5. Len(p) = c
  <2>1. p \in Seq({ms[Of(k)] : k \in 1..c})
    BY <1>1, <1>2
  <2>2. Len(p) \in Nat /\ DOMAIN p = 1..Len(p)
    BY <2>1
  <2> HIDE DEF p, c
  <2> QED
    BY <2>2, <1>1, <1>4
<1>6. order \in [1..c -> S]
  BY <1>3
<1>7. ASSUME NEW k \in 1..c, NEW l \in 1..c, k < l PROVE order[k] < order[l]
  <2>1. Of(k) \in Nat /\ Of(l) \in Nat /\ Of(k) \in S /\ Of(l) \in S
    BY <1>1, <1>3
  <2>2. Rank(S, Of(k)) < Rank(S, Of(l))
    BY <1>3, <1>7, <1>1
  <2>3. Of(l) < Of(k) => Rank(S, Of(l)) < Rank(S, Of(k))
    BY <2>1, RankGrows
  <2>4. Rank(S, Of(l)) \in Nat /\ Rank(S, Of(k)) \in Nat
    BY <2>1, RankGrows
  <2>5. ~(Of(l) < Of(k)) /\ Of(l) # Of(k)
    BY <2>2, <2>3, <2>4
  <2> QED
    BY <2>1, <2>5
<1>8. ASSUME c > 0, NEW i \in S PROVE order[1] <= i
  <2>1. Of(1) \in Nat /\ i \in Nat /\ Of(1) \in S /\ Rank(S, Of(1)) = 0
    <3>1. 1 \in 1..c
      BY <1>1, <1>8
    <3>2. Of(1) \in S /\ Rank(S, Of(1)) = 1 - 1
      BY <3>1, <1>3
    <3>3. Rank(S, Of(1)) = 0
      BY <3>2
    <3>4. Of(1) \in Nat /\ i \in Nat
      BY <3>2, <1>1
    <3> QED
      BY <3>2, <3>3, <3>4
  <2>2. i < Of(1) => Rank(S, i) < Rank(S, Of(1))
    BY <2>1, RankGrows
  <2>3. Rank(S, i) \in Nat
    BY RankGrows
  <2>4. ~(i < Of(1))
    BY <2>1, <2>2, <2>3
  <2> QED
    BY <2>1, <2>4, <1>8, <1>1
<1>9. c = 0 => p = <<>>
  BY <1>2
<1> HIDE DEF order, p
<1> QED
  BY <1>1, <1>9, <1>4, <1>5, <1>6, <1>7, <1>8 DEF p, InOrder

\* What Update relies on: the list is in the order of the kernel, and neither the first
\* mode nor a preferred one has a 3D flag.
GoodList(ms) ==
  /\ Len(ms) \in Nat /\ DOMAIN ms = 1..Len(ms)
  /\ ms # <<>> => Len(ms) > 0
  /\ \A i \in DOMAIN ms : IsMode(ms[i])
  /\ \A i, j \in DOMAIN ms : i < j /\ ms[j].preferred => ms[i].preferred
  /\ \A i \in DOMAIN ms : ms[i].preferred => ms[i].kind # "3d"
  /\ 1 \in DOMAIN ms => ms[1].kind # "3d"

\* The lists of the kernel, and the empty one.
LEMMA KernelLists ==
  ASSUME NEW ms \in ModeLists \cup {<<>>}
  PROVE  /\ Len(ms) \in Nat /\ DOMAIN ms = 1..Len(ms)
         /\ \A i \in DOMAIN ms : IsMode(ms[i])
         /\ \A i, j \in DOMAIN ms : i < j /\ ms[j].preferred => ms[i].preferred
         /\ \A i \in DOMAIN ms : ms[i].kind = "3d" =>
              /\ ~ms[i].preferred
              /\ \E j \in 1..i-1 : ms[j].res = ms[i].res /\ ms[j].kind # "3d"
<1>1. CASE ms \in ModeLists
  BY <1>1, KernelOrder
<1>2. CASE ms = <<>>
  <2>1. Len(ms) = 0 /\ DOMAIN ms = {}
    BY <1>2
  <2> QED
    BY <2>1
<1> QED
  BY <1>1, <1>2

\* Modes picked from the list of a kernel are such a list, if the first one has no 3D flag.
LEMMA PickGood ==
  ASSUME NEW ms \in ModeLists \cup {<<>>}, NEW S \in SUBSET (DOMAIN ms),
         \A i \in S : ms[i].kind = "3d" => \E j \in S : j < i
  PROVE  GoodList(Pick(ms, S))
<1> DEFINE p == Pick(ms, S)
           c == Cardinality(S)
<1>1. /\ Len(ms) \in Nat /\ DOMAIN ms = 1..Len(ms)
      /\ \A i \in DOMAIN ms : IsMode(ms[i])
      /\ \A i, j \in DOMAIN ms : i < j /\ ms[j].preferred => ms[i].preferred
      /\ \A i \in DOMAIN ms : ms[i].kind = "3d" => ~ms[i].preferred
  BY KernelLists
<1>2. S \in SUBSET (1..Len(ms)) /\ \A x \in S : x \in Nat /\ x \in DOMAIN ms
  BY <1>1
<1>3. c \in Nat /\ Len(p) = c /\ DOMAIN p = 1..c /\ (c = 0 => p = <<>>)
  BY <1>1, <1>2, PickFacts
<1>4. PICK order : InOrder(ms, S, order)
  BY <1>1, <1>2, PickFacts
<1>4a. /\ order \in [1..c -> S]
       /\ \A k \in 1..c : p[k] = ms[order[k]]
       /\ \A k, l \in 1..c : k < l => order[k] < order[l]
       /\ c > 0 => \A i \in S : order[1] <= i
  BY <1>4 DEF InOrder
<1> HIDE DEF p, c
<1>5. \A k \in 1..c : order[k] \in S /\ order[k] \in DOMAIN ms /\ order[k] \in Nat
  BY <1>2, <1>4a
<1>6. \A i \in DOMAIN p : IsMode(p[i])
  BY <1>1, <1>3, <1>4a, <1>5
<1>7. \A i, j \in DOMAIN p : i < j /\ p[j].preferred => p[i].preferred
  BY <1>1, <1>3, <1>4a, <1>5
<1>8. \A i \in DOMAIN p : p[i].preferred => p[i].kind # "3d"
  BY <1>1, <1>3, <1>4a, <1>5
<1>9. ASSUME 1 \in DOMAIN p PROVE p[1].kind # "3d"
  <2>1. 1 \in 1..c /\ c > 0
    BY <1>3, <1>9
  <2>2. \A j \in S : ~(j < order[1])
    BY <2>1, <1>2, <1>4a, <1>5
  <2>3. ms[order[1]].kind # "3d"
    BY <2>1, <2>2, <1>5
  <2> QED
    BY <2>1, <2>3, <1>4a
<1> QED
  BY <1>3, <1>6, <1>7, <1>8, <1>9 DEF GoodList, p

\* UpdateModes gives such a list, whatever the properties ask for.
LEMMA UpdateModesGood ==
  ASSUME NEW ms \in ModeLists \cup {<<>>}
  PROVE  GoodList(UpdateModes(ms))
<1> DEFINE S == {i \in DOMAIN ms : Chosen(ms, i)}
           chosen == Pick(ms, S)
<1>1. /\ Len(ms) \in Nat /\ DOMAIN ms = 1..Len(ms)
      /\ \A i \in DOMAIN ms : ms[i].kind = "3d" =>
           /\ ~ms[i].preferred
           /\ \E j \in 1..i-1 : ms[j].res = ms[i].res /\ ms[j].kind # "3d"
  BY KernelLists
<1>2. \A i \in DOMAIN ms : ms[i].kind = "3d" =>
        \E j \in DOMAIN ms : j < i /\ ms[j].res = ms[i].res
  BY <1>1
<1>3. CASE Len(chosen) = 1
  <2> DEFINE r == chosen[1].res
             R == {i \in DOMAIN ms : ms[i].res = r}
  <2> HIDE DEF r
  <2>1. \A i \in R : ms[i].kind = "3d" => \E j \in R : j < i
    BY <1>2
  <2>2. GoodList(Pick(ms, R))
    BY <2>1, PickGood
  <2>3. UpdateModes(ms) = Pick(ms, R)
    BY <1>3 DEF UpdateModes, r
  <2> QED
    BY <2>2, <2>3
<1>4. CASE Len(chosen) # 1
  <2>1. \A x : S # {x}
    <3>1. SUFFICES ASSUME NEW x, S = {x} PROVE FALSE
      OBVIOUS
    <3>2. Cardinality(S) = 1
      BY <3>1, FS_Singleton
    <3>3. S \in SUBSET (1..Len(ms))
      BY <1>1
    <3>4. Len(chosen) = 1
      BY <1>1, <3>2, <3>3, PickFacts
    <3> QED
      BY <3>4, <1>4
  <2>2. \A i \in S : ms[i].kind = "3d" => \E j \in S : j < i
    <3>1. CASE setting.index \in DOMAIN ms
      <4>1. S = {setting.index}
        BY <3>1 DEF Chosen
      <4> QED
        BY <4>1, <2>1
    <3>2. CASE setting.index \notin DOMAIN ms /\ ~setting.limit
      <4>1. S = DOMAIN ms
        BY <3>2 DEF Chosen
      <4> QED
        BY <4>1, <1>2
    <3>3. CASE setting.index \notin DOMAIN ms /\ setting.limit
      <4>1. CASE \E j \in DOMAIN ms : ms[j].preferred
        <5>1. \A i \in S : ms[i].preferred
          BY <4>1, <3>3 DEF Chosen
        <5> QED
          BY <5>1, <1>1
      <4>2. CASE ~\E j \in DOMAIN ms : ms[j].preferred
        <5>1. \A i \in DOMAIN ms : i \in S <=> i = 1
          BY <4>2, <3>3 DEF Chosen
        <5>2. \A i \in S : S = {i}
          BY <5>1
        <5> QED
          BY <5>2, <2>1
      <4> QED
        BY <4>1, <4>2
    <3> QED
      BY <3>1, <3>2, <3>3
  <2>3. GoodList(chosen)
    BY <2>2, PickGood
  <2>4. UpdateModes(ms) = chosen
    BY <1>4 DEF UpdateModes
  <2> QED
    BY <2>3, <2>4
<1> QED
  BY <1>3, <1>4

-------------------------------------------------------------------------------
(* HwcDisplayConfigs::Update *)

\* Whether mode i stays enabled when f tells it of those before.
Stays(ms, f, i) ==
  /\ Supported(ms, i)
  /\ OfGroupsKind(ms, i)
  /\ \A j \in 1..i-1 : f[j] => ~Close(ms, j, i)

\* The pass over the modes comes to an end with what it computes.
LEMMA PassDefined ==
  ASSUME NEW ms, NEW n \in Nat
  PROVE  \E f : f = [i \in 1..n |-> Stays(ms, f, i)]
<1> DEFINE T == {m \in Nat : ~\E f : f = [i \in 1..m |-> Stays(ms, f, i)]}
<1>1. SUFFICES ASSUME T # {} PROVE FALSE
  OBVIOUS
<1>2. PICK m \in T : \A y \in T : m <= y
  <2>1. T \subseteq Nat
    OBVIOUS
  <2> QED
    BY <1>1, <2>1, LeastNatural
<1>3. CASE m = 0
  <2> DEFINE f == [i \in 1..0 |-> TRUE]
  <2>1. f = [i \in 1..m |-> Stays(ms, f, i)]
    BY <1>3
  <2> QED
    BY <2>1, <1>2
<1>4. CASE m # 0
  <2>1. m \in Nat /\ m - 1 \in Nat /\ ~(m <= m - 1)
    BY <1>4
  <2>2. m - 1 \notin T
    BY <2>1, <1>2
  <2>3. PICK f : f = [i \in 1..m-1 |-> Stays(ms, f, i)]
    BY <2>1, <2>2
  <2> DEFINE g == [i \in 1..m |-> IF i = m THEN Stays(ms, f, m) ELSE f[i]]
  <2>4. \A i \in 1..m-1 : g[i] = f[i] /\ f[i] = Stays(ms, f, i)
    <3>1. \A i \in 1..m-1 : i \in 1..m /\ i # m
      BY <2>1
    <3>2. \A i \in 1..m-1 : f[i] = Stays(ms, f, i)
      BY <2>3
    <3> QED
      BY <3>1, <3>2
  <2>5. g[m] = Stays(ms, f, m)
    BY <2>1
  <2>6. DOMAIN g = 1..m /\ g = [i \in 1..m |-> g[i]]
    OBVIOUS
  <2> HIDE DEF g
  <2>7. \A i \in 1..m : Stays(ms, g, i) <=> Stays(ms, f, i)
    <3>1. \A i \in 1..m : \A j \in 1..i-1 : j \in 1..m-1
      BY <2>1
    <3>2. \A i \in 1..m : \A j \in 1..i-1 : g[j] = f[j]
      BY <3>1, <2>4
    <3> QED
      BY <3>2, Zenon DEF Stays
  <2>8. \A i \in 1..m : g[i] = Stays(ms, f, i)
    <3>1. \A i \in 1..m : i = m \/ i \in 1..m-1
      BY <2>1
    <3> QED
      BY <3>1, <2>4, <2>5
  <2>9. \A i \in 1..m : Stays(ms, g, i) = Stays(ms, f, i)
    <3>1. \A i, h : Stays(ms, h, i) \in BOOLEAN
      BY Zenon DEF Stays
    <3> QED
      BY <3>1, <2>7
  <2>10. g = [i \in 1..m |-> Stays(ms, g, i)]
    BY <2>6, <2>8, <2>9
  <2> QED
    BY <2>10, <1>2
<1> QED
  BY <1>3, <1>4

\* Which modes are enabled in the end.
LEMMA EnabledFacts ==
  ASSUME NEW ms, Len(ms) \in Nat
  PROVE  \A i \in 1..Len(ms) : Enabled(ms)[i] <=> Stays(ms, Enabled(ms), i)
<1> DEFINE n == Len(ms)
           kept == CHOOSE f : f = [i \in 1..n |-> Stays(ms, f, i)]
<1>1. Enabled(ms) = kept
  BY Zenon DEF Enabled, Stays
<1>2. \E f : f = [i \in 1..n |-> Stays(ms, f, i)]
  BY PassDefined
<1>3. kept = [i \in 1..n |-> Stays(ms, kept, i)]
  BY <1>2, Zenon
<1> HIDE DEF kept
<1>4. \A i \in 1..n : kept[i] = Stays(ms, kept, i)
  BY <1>3
<1> QED
  BY <1>1, <1>4

FirstOf(ms, i) ==
  CHOOSE k \in 1..i : ms[k].res = ms[i].res /\ \A j \in 1..k-1 : ms[j].res # ms[i].res
Resolutions(ms, n) == {ms[j].res : j \in 1..n}

\* There is a first mode of a resolution, the same for all of its modes.
LEMMA FirstFacts ==
  ASSUME NEW ms, NEW i \in Nat \ {0}
  PROVE  /\ FirstOf(ms, i) \in 1..i
         /\ ms[FirstOf(ms, i)].res = ms[i].res
         /\ \A j \in 1..FirstOf(ms, i)-1 : ms[j].res # ms[i].res
<1> DEFINE T == {k \in 1..i : ms[k].res = ms[i].res}
<1>1. T \subseteq Nat /\ i \in T
  OBVIOUS
<1>2. PICK k \in T : \A y \in T : k <= y
  BY <1>1, LeastNatural
<1>3. k \in 1..i /\ ms[k].res = ms[i].res
  OBVIOUS
<1>4. ASSUME NEW j \in 1..k-1 PROVE ms[j].res # ms[i].res
  <2>1. j \in 1..i /\ ~(k <= j)
    BY <1>3
  <2> QED
    BY <2>1, <1>2
<1> QED
  BY <1>3, <1>4 DEF FirstOf

\* Modes of one resolution have the same first mode.
LEMMA SameFirst ==
  ASSUME NEW ms, NEW i \in Nat \ {0}, NEW j \in Nat \ {0}, ms[i].res = ms[j].res
  PROVE  FirstOf(ms, i) = FirstOf(ms, j)
<1> DEFINE f == FirstOf(ms, i)
           g == FirstOf(ms, j)
<1>1. f \in 1..i /\ ms[f].res = ms[i].res /\ \A k \in 1..f-1 : ms[k].res # ms[i].res
  BY FirstFacts
<1>2. g \in 1..j /\ ms[g].res = ms[j].res /\ \A k \in 1..g-1 : ms[k].res # ms[j].res
  BY FirstFacts
<1> HIDE DEF f, g
<1>3. f \in Nat /\ g \in Nat /\ f \notin 1..g-1 /\ g \notin 1..f-1
  BY <1>1, <1>2
<1>4. f = g
  BY <1>1, <1>2, <1>3
<1> QED
  BY <1>4 DEF f, g

\* Modes with different first ones see a different number of resolutions up to there.
LEMMA MoreResolutions ==
  ASSUME NEW ms, NEW f \in Nat, NEW g \in Nat, f < g,
         \A k \in 1..g-1 : ms[k].res # ms[g].res
  PROVE  Cardinality(Resolutions(ms, f)) # Cardinality(Resolutions(ms, g))
<1> DEFINE F == Resolutions(ms, f)
           G == Resolutions(ms, g)
           h == [k \in 1..g |-> ms[k].res]
<1>1. h \in Surjection(1..g, G)
  BY DEF Resolutions, Surjection
<1>2. IsFiniteSet(G)
  BY <1>1, FS_Interval, FS_Surjection
<1>3. \A k \in 1..f : k \in 1..g /\ k \in 1..g-1
  OBVIOUS
<1>4. F \subseteq G
  BY <1>3 DEF Resolutions
<1>5. ms[g].res \in G
  <2>1. g \in 1..g
    OBVIOUS
  <2> QED
    BY <2>1 DEF Resolutions
<1>6. ms[g].res \notin F
  BY <1>3 DEF Resolutions
<1> HIDE DEF F, G
<1>7. Cardinality(F) # Cardinality(G)
  BY <1>2, <1>4, <1>5, <1>6, FS_Subset
<1> QED
  BY <1>7 DEF F, G

\* Groups are resolutions.
LEMMA GroupFacts ==
  ASSUME NEW ms, NEW i \in Nat \ {0}, NEW j \in Nat \ {0}
  PROVE  Group(ms, i) = Group(ms, j) <=> ms[i].res = ms[j].res
<1> DEFINE f == FirstOf(ms, i)
           g == FirstOf(ms, j)
<1>1. f \in 1..i /\ ms[f].res = ms[i].res /\ \A k \in 1..f-1 : ms[k].res # ms[i].res
  BY FirstFacts
<1>2. g \in 1..j /\ ms[g].res = ms[j].res /\ \A k \in 1..g-1 : ms[k].res # ms[j].res
  BY FirstFacts
<1>3. Group(ms, i) = Cardinality(Resolutions(ms, f))
  BY Zenon DEF Group, FirstOf, Resolutions
<1>4. Group(ms, j) = Cardinality(Resolutions(ms, g))
  BY Zenon DEF Group, FirstOf, Resolutions
<1>5. ms[i].res = ms[j].res => f = g
  BY SameFirst
<1> HIDE DEF f, g
<1>6. ASSUME ms[i].res # ms[j].res PROVE Group(ms, i) # Group(ms, j)
  <2>1. f # g /\ f \in Nat /\ g \in Nat
    BY <1>1, <1>2, <1>6
  <2>2. CASE f < g
    BY <2>1, <2>2, <1>2, <1>3, <1>4, MoreResolutions
  <2>3. CASE g < f
    BY <2>1, <2>3, <1>1, <1>3, <1>4, MoreResolutions
  <2> QED
    BY <2>1, <2>2, <2>3
<1> QED
  BY <1>3, <1>4, <1>5, <1>6

\* The first mode is the preferred one, in any list that comes from UpdateModes.
LEMMA PreferredFirst ==
  ASSUME NEW ms, GoodList(ms), Len(ms) > 0
  PROVE  PreferredIndex(ms) = 1 /\ 1 \in DOMAIN ms
<1>1. 1 \in DOMAIN ms /\ \A i \in DOMAIN ms : i \in Nat /\ (i = 1 \/ 1 < i)
  BY DEF GoodList
<1>2. CASE \E i \in DOMAIN ms : ms[i].preferred
  <2>1. ms[1].preferred
    BY <1>1, <1>2 DEF GoodList
  <2>2. \A i \in DOMAIN ms : (\A j \in 1..i-1 : ~ms[j].preferred) => i = 1
    <3>1. \A i \in DOMAIN ms : 1 < i => 1 \in 1..i-1
      BY <1>1
    <3> QED
      BY <1>1, <2>1, <3>1
  <2>3. \A j \in 1..1-1 : ~ms[j].preferred
    OBVIOUS
  <2> DEFINE p == CHOOSE i \in DOMAIN ms : ms[i].preferred /\ \A j \in 1..i-1 : ~ms[j].preferred
  <2>4. p \in DOMAIN ms /\ \A j \in 1..p-1 : ~ms[j].preferred
    BY <1>1, <2>1, <2>3
  <2> HIDE DEF p
  <2>5. p = 1
    BY <2>2, <2>4
  <2> QED
    BY <1>1, <1>2, <2>5 DEF PreferredIndex, p
<1>3. CASE ~\E i \in DOMAIN ms : ms[i].preferred
  BY <1>1, <1>3 DEF PreferredIndex
<1> QED
  BY <1>2, <1>3

\* It stays enabled.
LEMMA PreferredEnabled ==
  ASSUME NEW ms, GoodList(ms), Len(ms) > 0
  PROVE  Enabled(ms)[1]
<1>1. PreferredIndex(ms) = 1 /\ 1 \in DOMAIN ms
  BY PreferredFirst
<1>2. Supported(ms, 1)
  BY <1>1 DEF GoodList, Supported
<1>3. OfGroupsKind(ms, 1)
  <2>1. KeepsInterlaced(ms, 1) <=> ms[1].kind = "interlaced"
    BY <1>1 DEF KeepsInterlaced
  <2> QED
    BY <2>1 DEF OfGroupsKind
<1>4. Stays(ms, Enabled(ms), 1)
  BY <1>2, <1>3 DEF Stays
<1>5. Len(ms) \in Nat /\ 1 \in 1..Len(ms)
  BY DEF GoodList
<1> QED
  BY <1>4, <1>5, EnabledFacts

\* Two enabled modes of one resolution are of one kind.
LEMMA OneKind ==
  ASSUME NEW ms, GoodList(ms), NEW i \in DOMAIN ms, NEW j \in DOMAIN ms,
         ms[i].res = ms[j].res, Supported(ms, i), Supported(ms, j),
         OfGroupsKind(ms, i), OfGroupsKind(ms, j)
  PROVE  ms[i].kind = ms[j].kind
<1> DEFINE K == {k \in DOMAIN ms : ms[k].res = ms[i].res /\ Supported(ms, k)}
           kinds == {ms[k].kind : k \in K}
<1>1. K = {k \in DOMAIN ms : ms[k].res = ms[j].res /\ Supported(ms, k)}
  OBVIOUS
<1>2. KeepsInterlaced(ms, i) <=> KeepsInterlaced(ms, j)
  BY DEF KeepsInterlaced
<1>3. {"interlaced", "progressive"} \subseteq kinds =>
        (ms[i].kind = "interlaced" <=> KeepsInterlaced(ms, i))
  BY Zenon DEF OfGroupsKind
<1>4. {"interlaced", "progressive"} \subseteq kinds =>
        (ms[j].kind = "interlaced" <=> KeepsInterlaced(ms, j))
  BY <1>1, Zenon DEF OfGroupsKind
<1>5. ms[i].kind \in kinds /\ ms[j].kind \in kinds
  <2>1. i \in K /\ j \in K
    OBVIOUS
  <2> QED
    BY <2>1
<1>6. ms[i].kind \in {"interlaced", "progressive"} /\ ms[j].kind \in {"interlaced", "progressive"}
  BY DEF Supported, GoodList, IsMode
<1> HIDE DEF kinds
<1> QED
  BY <1>2, <1>3, <1>4, <1>5, <1>6

\* A supported mode shares its resolution with an enabled one.
LEMMA GroupKept ==
  ASSUME NEW ms, GoodList(ms), NEW i \in DOMAIN ms, Supported(ms, i)
  PROVE  \E j \in DOMAIN ms : Enabled(ms)[j] /\ ms[j].res = ms[i].res
<1> DEFINE K == {k \in DOMAIN ms : ms[k].res = ms[i].res /\ Supported(ms, k)}
           kinds == {ms[k].kind : k \in K}
           T == {k \in K : OfGroupsKind(ms, k)}
<1>1. Len(ms) \in Nat /\ DOMAIN ms = 1..Len(ms)
  BY DEF GoodList
<1>2. \A k \in K : /\ K = {l \in DOMAIN ms : ms[l].res = ms[k].res /\ Supported(ms, l)}
                   /\ KeepsInterlaced(ms, k) <=> KeepsInterlaced(ms, i)
  BY DEF KeepsInterlaced
<1>3. \A k \in K : OfGroupsKind(ms, k) <=>
         ({"interlaced", "progressive"} \subseteq kinds =>
            (ms[k].kind = "interlaced" <=> KeepsInterlaced(ms, i)))
  <2>1. TAKE k \in K
  <2>2. kinds = {ms[l].kind : l \in {m \in DOMAIN ms : ms[m].res = ms[k].res /\ Supported(ms, m)}}
    BY <1>2, Zenon
  <2>3. OfGroupsKind(ms, k) <=>
         ({"interlaced", "progressive"} \subseteq kinds =>
            (ms[k].kind = "interlaced" <=> KeepsInterlaced(ms, k)))
    BY <2>2, Zenon DEF OfGroupsKind
  <2> QED
    BY <1>2, <2>3, Zenon
<1>4. i \in K
  OBVIOUS
<1>5. T # {}
  <2>1. CASE {"interlaced", "progressive"} \subseteq kinds
    <3>1. PICK a \in K, b \in K : ms[a].kind = "interlaced" /\ ms[b].kind = "progressive"
      BY <2>1
    <3> HIDE DEF K, kinds
    <3>2. OfGroupsKind(ms, a) \/ OfGroupsKind(ms, b)
      BY <1>3, <3>1
    <3> QED
      BY <3>2
  <2>2. CASE ~({"interlaced", "progressive"} \subseteq kinds)
    BY <1>3, <1>4, <2>2
  <2> QED
    BY <2>1, <2>2
<1>6. T \subseteq Nat
  BY <1>1
<1>7. PICK k \in T : \A y \in T : k <= y
  BY <1>5, <1>6, LeastNatural
<1>8. k \in DOMAIN ms /\ k \in 1..Len(ms) /\ ms[k].res = ms[i].res /\ Supported(ms, k) /\ OfGroupsKind(ms, k)
  BY <1>1
<1>9. ASSUME NEW j \in 1..k-1, Enabled(ms)[j] PROVE ~Close(ms, j, k)
  <2>1. j \in 1..Len(ms) /\ ~(k <= j)
    BY <1>1, <1>8
  <2>2. Supported(ms, j) /\ OfGroupsKind(ms, j)
    BY <1>1, <1>9, <2>1, EnabledFacts DEF Stays
  <2>3. j \notin T
    BY <2>1, <1>7
  <2>4. ms[j].res # ms[k].res
    BY <2>1, <2>2, <2>3, <1>1, <1>8
  <2> QED
    BY <2>4 DEF Close
<1>10. Stays(ms, Enabled(ms), k)
  BY <1>8, <1>9 DEF Stays
<1>11. Enabled(ms)[k]
  BY <1>1, <1>8, <1>10, EnabledFacts
<1> QED
  BY <1>8, <1>11

\* What Update promises of its result, for every list that UpdateModes gives it.
LEMMA NewConfigsSound ==
  ASSUME NEW ms, GoodList(ms), Len(ms) > 0, NEW first \in Nat
  PROVE  /\ DOMAIN NewConfigs(ms, first) = first..first+Len(ms)-1
         /\ \A id \in DOMAIN NewConfigs(ms, first) : NewConfigs(ms, first)[id].mode # None
         /\ Sound(NewConfigs(ms, first), first + PreferredIndex(ms) - 1)
<1> DEFINE cs == NewConfigs(ms, first)
           Ix(id) == id - first + 1
           n == Len(ms)
<1>1. n \in Nat /\ DOMAIN ms = 1..n /\ \A i \in DOMAIN ms : IsMode(ms[i])
  BY DEF GoodList
<1>2. DOMAIN cs = first..first+n-1
  BY DEF NewConfigs
<1>3. \A id \in DOMAIN cs :
        /\ Ix(id) \in DOMAIN ms /\ Ix(id) \in Nat \ {0} /\ first + Ix(id) - 1 = id
        /\ cs[id].mode = ms[Ix(id)]
        /\ cs[id].group = Group(ms, Ix(id))
        /\ cs[id].disabled = ~Enabled(ms)[Ix(id)]
  <2>1. TAKE id \in DOMAIN cs
  <2>2. cs[id] = [mode |-> ms[Ix(id)], group |-> Group(ms, Ix(id)), disabled |-> ~Enabled(ms)[Ix(id)]]
    BY <1>2 DEF NewConfigs
  <2>3. id \in first..first+n-1
    BY <1>2
  <2>4. Ix(id) \in 1..n /\ Ix(id) \in Nat \ {0} /\ first + Ix(id) - 1 = id
    BY <2>3, <1>1
  <2> HIDE DEF Ix
  <2> QED
    BY <1>1, <2>2, <2>4
<1>4. \A i \in DOMAIN ms : first + i - 1 \in DOMAIN cs /\ Ix(first + i - 1) = i
  BY <1>1, <1>2
<1>5. \A i, j \in DOMAIN cs : Ix(i) = Ix(j) => i = j
  BY <1>3
<1> HIDE DEF cs, Ix, n
<1>6. first + PreferredIndex(ms) - 1 \in ListedIn(cs)
  <2>1. PreferredIndex(ms) = 1 /\ 1 \in DOMAIN ms /\ Enabled(ms)[1]
    BY PreferredFirst, PreferredEnabled
  <2>2. first + 1 - 1 \in DOMAIN cs /\ Ix(first + 1 - 1) = 1
    BY <1>4, <2>1
  <2>3. ~cs[first + 1 - 1].disabled
    BY <1>3, <2>1, <2>2
  <2> QED
    BY <2>1, <2>2, <2>3 DEF ListedIn
<1>7. \A i, j \in DOMAIN cs : cs[i].group = cs[j].group <=> cs[i].mode.res = cs[j].mode.res
  BY <1>3, GroupFacts
<1>8. ASSUME NEW i \in ListedIn(cs), NEW j \in ListedIn(cs), i # j, cs[i].group = cs[j].group
      PROVE  /\ cs[i].mode.kind = cs[j].mode.kind
             /\ cs[i].mode.hz - cs[j].mode.hz \notin -9..9
  <2> DEFINE a == Ix(i)
             b == Ix(j)
  <2>1. i \in DOMAIN cs /\ j \in DOMAIN cs /\ a \in DOMAIN ms /\ b \in DOMAIN ms
    BY <1>3 DEF ListedIn
  <2>2. Enabled(ms)[a] /\ Enabled(ms)[b] /\ cs[i].mode = ms[a] /\ cs[j].mode = ms[b]
    BY <1>3 DEF ListedIn
  <2>3. ms[a].res = ms[b].res /\ a # b
    BY <1>5, <1>7, <1>8, <2>1, <2>2
  <2> HIDE DEF a, b
  <2>4. a \in 1..Len(ms) /\ b \in 1..Len(ms) /\ Len(ms) \in Nat
    BY <1>1, <2>1 DEF n
  <2>5. Stays(ms, Enabled(ms), a) /\ Stays(ms, Enabled(ms), b)
    BY <2>2, <2>4, EnabledFacts
  <2>6. ms[a].kind = ms[b].kind
    BY <2>1, <2>3, <2>5, OneKind DEF Stays
  <2>7. a \in 1..b-1 \/ b \in 1..a-1
    BY <2>3, <2>4
  <2>8. ~Close(ms, a, b) \/ ~Close(ms, b, a)
    BY <2>2, <2>5, <2>7 DEF Stays
  <2>9. ms[a].hz \in Int /\ ms[b].hz \in Int
    BY <1>1, <2>1 DEF IsMode
  <2>10. ms[a].hz - ms[b].hz \notin -9..9
    <3>1. ms[a].hz - ms[b].hz \notin -9..9 \/ ms[b].hz - ms[a].hz \notin -9..9
      BY <2>3, <2>8 DEF Close
    <3>2. \A x, y \in Int : x - y \in -9..9 => y - x \in -9..9
      OBVIOUS
    <3> QED
      BY <2>9, <3>1, <3>2
  <2> QED
    BY <2>2, <2>6, <2>10
<1>9. ASSUME NEW i \in DOMAIN cs, cs[i].mode.kind # "3d"
      PROVE  \E j \in ListedIn(cs) : cs[i].group = cs[j].group
  <2>1. Ix(i) \in DOMAIN ms /\ Supported(ms, Ix(i))
    BY <1>3, <1>9 DEF Supported
  <2>2. PICK b \in DOMAIN ms : Enabled(ms)[b] /\ ms[b].res = ms[Ix(i)].res
    BY <2>1, GroupKept
  <2>3. first + b - 1 \in DOMAIN cs /\ Ix(first + b - 1) = b
    BY <1>4
  <2>4. first + b - 1 \in ListedIn(cs)
    BY <1>3, <2>2, <2>3 DEF ListedIn
  <2>5. cs[i].group = cs[first + b - 1].group
    BY <1>3, <1>7, <2>2, <2>3, SMTT(40)
  <2> QED
    BY <2>4, <2>5
<1>10. Sound(cs, first + PreferredIndex(ms) - 1)
  BY <1>6, <1>7, <1>8, <1>9 DEF Sound
<1>11. \A id \in DOMAIN cs : cs[id].mode # None
  BY <1>1, <1>3 DEF IsMode
<1> QED
  BY <1>2, <1>10, <1>11 DEF cs, n

\* The same of the configuration of a display without a monitor.
LEMMA HeadlessSound ==
  ASSUME NEW id \in Nat
  PROVE  /\ DOMAIN Headless(id) = {id}
         /\ Headless(id)[id].mode = HeadlessMode
         /\ HeadlessMode # None
         /\ Sound(Headless(id), id)
<1>1. DOMAIN Headless(id) = {id} /\ Headless(id)[id].mode = HeadlessMode /\ ~Headless(id)[id].disabled
  BY DEF Headless
<1>2. ListedIn(Headless(id)) = {id}
  BY <1>1 DEF ListedIn
<1> HIDE DEF Headless
<1>3. Sound(Headless(id), id)
  BY <1>1, <1>2 DEF Sound
<1> QED
  BY <1>1, <1>3, PrimaryAssumption

-------------------------------------------------------------------------------
(* The steps *)

\* Another display is not disturbed by numbers that are handed out.
LEMMA OthersKept ==
  ASSUME ConfigsInv, NEW d \in Displays, last' \in Nat, last' >= last,
         pipe'[d] = pipe[d], configs'[d] = configs[d], active'[d] = active[d],
         preferred'[d] = preferred[d], staged'[d] = staged[d], stagedId'[d] = stagedId[d],
         screen'[d] = screen[d], told'[d] = told[d]
  PROVE  DisplayInv(d)'
<1>1. DisplayInv(d) /\ last \in Nat
  BY DEF ConfigsInv, TypeOK
<1>2. NumbersUsed(d)'
  BY <1>1 DEF DisplayInv, NumbersUsed
<1>3. ToldListed(d)' /\ StagedListed(d)' /\ Shown(d)'
  BY <1>1 DEF DisplayInv, ToldListed, StagedListed, Shown
<1> QED
  BY <1>1, <1>2, <1>3 DEF DisplayInv

\* New configurations with new numbers: either the preferred one is staged, or the active
\* one is the headless one and what is staged stays.
LEMMA Renumbered ==
  ASSUME ConfigsInv, NEW d \in Displays, NEW cs, NEW act, NEW pref,
         last' \in Nat, last' >= last,
         \A id \in DOMAIN cs : id \in Nat /\ last < id /\ id <= last',
         \A id \in DOMAIN cs : cs[id].mode # None,
         Sound(cs, pref),
         SetConfigs(d, cs, act, pref),
         \/ Stage(d, pref, cs[pref].mode, TRUE)
         \/ UNCHANGED <<staged, stagedId, due>> /\ act \in DOMAIN cs /\ cs[act].mode = HeadlessMode,
         pipe' \in [Displays -> {"pipe", "headless", None}],
         \A e \in Displays : e # d => pipe'[e] = pipe[e],
         screen' = screen
  PROVE  ConfigsInv'
<1>1. TypeOK /\ DisplayInv(d) /\ last \in Nat
  BY DEF ConfigsInv, TypeOK
<1> DEFINE new == [id \in DOMAIN told[d] \cup ListedIn(cs) |->
                     IF id \in ListedIn(cs) THEN cs[id].mode ELSE told[d][id]]
<1>2. told' = [told EXCEPT ![d] = new]
  BY DEF SetConfigs, Tell, ListedIn
<1>3. configs'[d] = cs /\ active'[d] = act /\ preferred'[d] = pref /\ told'[d] = new
  BY <1>1, <1>2 DEF TypeOK, SetConfigs
<1>4. DOMAIN new = DOMAIN told[d] \cup ListedIn(cs) /\ \A id \in ListedIn(cs) : new[id] = cs[id].mode
  OBVIOUS
<1> HIDE DEF new
<1>5. TypeOK'
  BY <1>1, <1>2 DEF TypeOK, SetConfigs, Stage
<1>6. /\ ListedIn(cs) \subseteq DOMAIN cs /\ pref \in ListedIn(cs)
      /\ \A id \in DOMAIN told[d] \cup {stagedId[d]} : id \in Nat /\ id <= last /\ id \notin DOMAIN cs
  <2>1. \A id \in DOMAIN told[d] \cup {stagedId[d]} : id \in Nat /\ id <= last
    BY <1>1 DEF DisplayInv, NumbersUsed
  <2>2. \A id \in DOMAIN told[d] \cup {stagedId[d]} : id \notin DOMAIN cs
    BY <1>1, <2>1
  <2> QED
    BY <2>1, <2>2 DEF Sound, ListedIn
<1>7. \/ stagedId'[d] = pref /\ staged'[d] = cs[pref].mode
      \/ stagedId'[d] = stagedId[d] /\ act \in DOMAIN cs /\ cs[act].mode = HeadlessMode
  BY <1>1 DEF TypeOK, Stage
<1>8. NumbersUsed(d)'
  <2>1. ASSUME NEW id \in DOMAIN new \cup DOMAIN cs \cup {stagedId'[d]}
        PROVE  id \in Nat /\ id <= last'
    <3>1. id \in DOMAIN cs \/ id \in DOMAIN told[d] \cup {stagedId[d]}
      BY <1>4, <1>6, <1>7
    <3> QED
      BY <1>1, <1>6, <3>1
  <2> QED
    BY <1>3, <2>1 DEF NumbersUsed
<1>9. ToldListed(d)'
  BY <1>3, <1>4, <1>6 DEF ToldListed
<1>10. StagedListed(d)'
  BY <1>3, <1>6, <1>7 DEF StagedListed
<1>11. Shown(d)'
  BY <1>3, <1>6, <1>7 DEF Shown
<1>12. DisplayInv(d)'
  BY <1>3, <1>8, <1>9, <1>10, <1>11 DEF DisplayInv
<1>13. ASSUME NEW e \in Displays, e # d PROVE DisplayInv(e)'
  <2>1. /\ configs'[e] = configs[e] /\ active'[e] = active[e] /\ preferred'[e] = preferred[e]
        /\ staged'[e] = staged[e] /\ stagedId'[e] = stagedId[e] /\ told'[e] = told[e]
    BY <1>1, <1>2, <1>13 DEF TypeOK, SetConfigs, Stage
  <2> QED
    BY <2>1, <1>13, OthersKept
<1> QED
  BY <1>5, <1>12, <1>13 DEF ConfigsInv

\* Update and ChosePreferredConfig, with or without modes.
LEMMA ChosenKept ==
  ASSUME ConfigsInv, NEW d \in Displays, NEW ms \in ModeLists \cup {<<>>},
         ChosePreferredConfig(d, UpdateModes(ms)),
         pipe' \in [Displays -> {"pipe", "headless", None}],
         \A e \in Displays : e # d => pipe'[e] = pipe[e],
         screen' = screen
  PROVE  ConfigsInv'
<1> DEFINE l == UpdateModes(ms)
           first == last + 1
           cs == NewConfigs(l, first)
           pref == first + PreferredIndex(l) - 1
<1>1. last \in Nat /\ first \in Nat /\ last < first /\ GoodList(l) /\ Len(l) \in Nat
  BY UpdateModesGood DEF ConfigsInv, TypeOK, GoodList
<1>2. CASE l = <<>>
  <2>1. /\ last' = first
        /\ SetConfigs(d, Headless(first), first, first)
        /\ UNCHANGED <<staged, stagedId, due>>
    BY <1>2 DEF ChosePreferredConfig
  <2> HIDE DEF first
  <2>2. /\ DOMAIN Headless(first) = {first} /\ Headless(first)[first].mode = HeadlessMode
        /\ HeadlessMode # None /\ Sound(Headless(first), first)
    BY <1>1, HeadlessSound
  <2>3. \A id \in DOMAIN Headless(first) : id \in Nat /\ last < id /\ id <= last'
    BY <1>1, <2>1, <2>2
  <2>4. last' \in Nat /\ last' >= last
    BY <1>1, <2>1
  <2>5. \A id \in DOMAIN Headless(first) : Headless(first)[id].mode # None
    BY <2>2
  <2>6. first \in DOMAIN Headless(first)
    BY <2>2
  <2> QED
    BY <2>1, <2>2, <2>3, <2>4, <2>5, <2>6, Renumbered
<1>3. CASE l # <<>>
  <2>1. /\ last' = first + Len(l)
        /\ SetConfigs(d, cs, first, pref)
        /\ Stage(d, pref, cs[pref].mode, TRUE)
    BY <1>3 DEF ChosePreferredConfig
  <2>2. Len(l) > 0
    BY <1>1, <1>3 DEF GoodList
  <2> HIDE DEF l
  <2>3. /\ DOMAIN cs = first..first+Len(l)-1
        /\ \A id \in DOMAIN cs : cs[id].mode # None
        /\ Sound(cs, pref)
    BY <1>1, <2>2, NewConfigsSound
  <2>4. last' \in Nat /\ last' >= last
    BY <1>1, <2>1
  <2> HIDE DEF cs, pref
  <2>5. \A id \in DOMAIN cs : id \in Nat /\ last < id /\ id <= last'
    BY <1>1, <2>1, <2>3
  <2> HIDE DEF first
  <2> QED
    BY <2>1, <2>3, <2>4, <2>5, Renumbered
<1> QED
  BY <1>2, <1>3

\* A monitor that is attached gets new numbers.
LEMMA AttachKept ==
  ASSUME ConfigsInv, NEW d \in Displays, Attach(d)
  PROVE  ConfigsInv'
<1>1. PICK ms \in ModeLists \cup {<<>>} : ChosePreferredConfig(d, UpdateModes(ms))
  BY DEF Attach
<1>2. pipe' \in [Displays -> {"pipe", "headless", None}] /\ screen' = screen
  BY DEF Attach, ConfigsInv, TypeOK
<1>3. \A e \in Displays : e # d => pipe'[e] = pipe[e]
  BY DEF Attach, ConfigsInv, TypeOK
<1> QED
  BY <1>1, <1>2, <1>3, ChosenKept

\* A bad link has the modes read and the preferred one staged again.
LEMMA LinkBadKept ==
  ASSUME ConfigsInv, NEW d \in Displays, LinkBad(d)
  PROVE  ConfigsInv'
<1>1. PICK ms \in ModeLists \cup {<<>>} : ChosePreferredConfig(d, UpdateModes(ms))
  BY DEF LinkBad
<1>2. pipe' \in [Displays -> {"pipe", "headless", None}] /\ screen' = screen /\ pipe' = pipe
  BY DEF LinkBad, ConfigsInv, TypeOK
<1> QED
  BY <1>1, <1>2, ChosenKept

\* A detached primary display is headless, another has no pipeline.
LEMMA DetachKept ==
  ASSUME ConfigsInv, NEW d \in Displays, Detach(d)
  PROVE  ConfigsInv'
<1>1. TypeOK /\ DisplayInv(d) /\ last \in Nat
  BY DEF ConfigsInv, TypeOK
<1>2. CASE d = Primary
  <2> DEFINE first == last + 1
             cs == Headless(first)
  <2>1. /\ last' = first /\ SetConfigs(d, cs, first, first)
        /\ Stage(d, first, HeadlessMode, TRUE)
    BY <1>2 DEF Detach, ChoseHeadless
  <2>2. /\ screen' = screen /\ pipe' \in [Displays -> {"pipe", "headless", None}]
        /\ \A e \in Displays : e # d => pipe'[e] = pipe[e]
    BY <1>1, <1>2 DEF Detach, TypeOK
  <2>3. first \in Nat /\ last < first /\ last' \in Nat /\ last' >= last /\ first <= last'
    BY <1>1, <2>1
  <2> HIDE DEF first
  <2>4. DOMAIN cs = {first} /\ cs[first].mode = HeadlessMode /\ HeadlessMode # None /\ Sound(cs, first)
    BY <2>3, HeadlessSound
  <2> HIDE DEF cs
  <2>5. Stage(d, first, cs[first].mode, TRUE)
    BY <2>1, <2>4
  <2>6. /\ \A id \in DOMAIN cs : id \in Nat /\ last < id /\ id <= last'
        /\ \A id \in DOMAIN cs : cs[id].mode # None
    BY <2>3, <2>4
  <2> QED
    BY <2>1, <2>2, <2>3, <2>4, <2>5, <2>6, Renumbered
<1>3. CASE d # Primary
  <2>1. /\ SetConfigs(d, <<>>, 0, 0) /\ Stage(d, 0, None, FALSE)
        /\ last' = last /\ screen' = screen /\ pipe' = [pipe EXCEPT ![d] = None]
    BY <1>3 DEF Detach
  <2> DEFINE new == [id \in DOMAIN told[d] |-> told[d][id]]
  <2>2. told' = [told EXCEPT ![d] = new]
    <3>1. {id \in DOMAIN <<>> : ~<<>>[id].disabled} = {}
      OBVIOUS
    <3> QED
      BY <2>1, <3>1 DEF SetConfigs, Tell
  <2>3. DOMAIN new = DOMAIN told[d]
    OBVIOUS
  <2> HIDE DEF new
  <2>4. TypeOK'
    BY <1>1, <2>1, <2>2 DEF TypeOK, SetConfigs, Stage
  <2>5. configs'[d] = <<>> /\ staged'[d] = None /\ stagedId'[d] = 0 /\ told'[d] = new
    BY <1>1, <2>1, <2>2 DEF TypeOK, SetConfigs, Stage
  <2>6. DOMAIN configs'[d] = {}
    BY <2>5
  <2>7. NumbersUsed(d)'
    BY <1>1, <2>1, <2>3, <2>5, <2>6 DEF DisplayInv, NumbersUsed
  <2>8. DisplayInv(d)'
    BY <2>5, <2>6, <2>7 DEF DisplayInv, ToldListed, StagedListed, Shown
  <2>9. ASSUME NEW e \in Displays, e # d PROVE DisplayInv(e)'
    <3>1. /\ configs'[e] = configs[e] /\ active'[e] = active[e] /\ preferred'[e] = preferred[e]
          /\ staged'[e] = staged[e] /\ stagedId'[e] = stagedId[e] /\ told'[e] = told[e]
          /\ pipe'[e] = pipe[e] /\ screen'[e] = screen[e]
      BY <1>1, <2>1, <2>2, <2>9 DEF TypeOK, SetConfigs, Stage
    <3>2. last' \in Nat /\ last' >= last
      BY <1>1, <2>1
    <3> QED
      BY <3>1, <3>2, OthersKept
  <2> QED
    BY <2>4, <2>8, <2>9 DEF ConfigsInv
<1> QED
  BY <1>2, <1>3

\* Only a configuration that is listed is staged.
LEMMA SetActiveConfigKept ==
  ASSUME ConfigsInv, NEW d \in Displays, SetActiveConfig(d)
  PROVE  ConfigsInv'
<1>1. TypeOK /\ DisplayInv(d) /\ last \in Nat
  BY DEF ConfigsInv, TypeOK
<1>2. /\ last' = last /\ pipe' = pipe /\ configs' = configs /\ active' = active
      /\ preferred' = preferred /\ screen' = screen /\ told' = told
  BY DEF SetActiveConfig
<1>3. PICK id \in DOMAIN told[d] \cap DOMAIN configs[d], now \in BOOLEAN :
         Stage(d, id, configs[d][id].mode, now)
  BY DEF SetActiveConfig
<1>4. TypeOK'
  BY <1>1, <1>2, <1>3 DEF TypeOK, Stage
<1>5. staged'[d] = configs[d][id].mode /\ stagedId'[d] = id
  BY <1>1, <1>3 DEF TypeOK, Stage
<1>6. id \in ListedIn(configs[d]) /\ configs[d][id].mode # None /\ id \in Nat /\ id <= last
  BY <1>1 DEF DisplayInv, ToldListed, NumbersUsed
<1>7. DisplayInv(d)'
  <2>1. NumbersUsed(d)'
    BY <1>1, <1>2, <1>5, <1>6 DEF DisplayInv, NumbersUsed
  <2>2. ToldListed(d)' /\ StagedListed(d)' /\ Shown(d)'
    BY <1>1, <1>2, <1>5, <1>6 DEF DisplayInv, ToldListed, StagedListed, Shown
  <2> QED
    BY <1>1, <1>2, <2>1, <2>2 DEF DisplayInv
<1>8. ASSUME NEW e \in Displays, e # d PROVE DisplayInv(e)'
  <2>1. staged'[e] = staged[e] /\ stagedId'[e] = stagedId[e]
    BY <1>1, <1>3, <1>8 DEF TypeOK, Stage
  <2>2. last' \in Nat /\ last' >= last
    BY <1>1, <1>2
  <2> QED
    BY <1>2, <2>1, <2>2, OthersKept
<1> QED
  BY <1>4, <1>7, <1>8 DEF ConfigsInv

\* A frame turns the staged mode into the active one.
LEMMA FrameKept ==
  ASSUME ConfigsInv, NEW d \in Displays, Frame(d)
  PROVE  ConfigsInv'
<1>1. TypeOK /\ DisplayInv(d) /\ last \in Nat
  BY DEF ConfigsInv, TypeOK
<1>2. /\ last' = last /\ pipe' = pipe /\ configs' = configs /\ stagedId' = stagedId
      /\ preferred' = preferred /\ told' = told
  BY DEF Frame
<1>3. PICK test \in BOOLEAN, ok \in BOOLEAN : CreateComposition(d, test, ok)
  BY DEF Frame
<1>4. TypeOK'
  BY <1>1, <1>2, <1>3 DEF TypeOK, CreateComposition
<1>5. \/ active'[d] = active[d] /\ screen'[d] = screen[d] /\ staged'[d] = staged[d]
      \/ /\ active'[d] = stagedId[d] /\ staged[d] # None
         /\ \/ staged'[d] = None /\ screen'[d] = staged[d]
            \/ staged'[d] = staged[d]
  BY <1>1, <1>3 DEF TypeOK, CreateComposition
<1>6. DisplayInv(d)'
  <2>1. NumbersUsed(d)' /\ ToldListed(d)'
    BY <1>1, <1>2 DEF DisplayInv, NumbersUsed, ToldListed
  <2>2. StagedListed(d)'
    BY <1>1, <1>2, <1>5 DEF DisplayInv, StagedListed
  <2>3. Shown(d)'
    BY <1>1, <1>2, <1>5 DEF DisplayInv, StagedListed, Shown
  <2> QED
    BY <1>1, <1>2, <2>1, <2>2, <2>3 DEF DisplayInv
<1>7. ASSUME NEW e \in Displays, e # d PROVE DisplayInv(e)'
  <2>1. staged'[e] = staged[e] /\ active'[e] = active[e] /\ screen'[e] = screen[e]
    BY <1>1, <1>3, <1>7 DEF TypeOK, CreateComposition
  <2>2. last' \in Nat /\ last' >= last
    BY <1>1, <1>2
  <2> QED
    BY <1>2, <2>1, <2>2, OthersKept
<1> QED
  BY <1>4, <1>6, <1>7 DEF ConfigsInv

\* The inductive invariant holds in every state of the specification.
THEOREM ConfigsKeepInv == Spec => []ConfigsInv
<1>1. Init => ConfigsInv
  <2> SUFFICES ASSUME Init PROVE ConfigsInv
    OBVIOUS
  <2>1. TypeOK
    BY DEF Init, TypeOK
  <2>2. ASSUME NEW d \in Displays PROVE DisplayInv(d)
    <3>1. /\ last = 1 /\ configs[d] = <<>> /\ told[d] = <<>> /\ stagedId[d] = 0
          /\ DOMAIN configs[d] = {} /\ DOMAIN told[d] = {}
      BY DEF Init
    <3> QED
      BY <3>1 DEF DisplayInv, NumbersUsed, ToldListed, StagedListed, Shown
  <2> QED
    BY <2>1, <2>2 DEF ConfigsInv
<1>2. ConfigsInv /\ [Next]_vars => ConfigsInv'
  <2> SUFFICES ASSUME ConfigsInv, [Next]_vars PROVE ConfigsInv'
    OBVIOUS
  <2>1. ASSUME NEW d \in Displays, TimePasses(d) PROVE ConfigsInv'
    BY <2>1 DEF TimePasses, ConfigsInv, TypeOK, DisplayInv, NumbersUsed, ToldListed,
                StagedListed, Shown
  <2>2. CASE UNCHANGED vars
    BY <2>2 DEF vars, ConfigsInv, TypeOK, DisplayInv, NumbersUsed, ToldListed, StagedListed, Shown
  <2>3. CASE Next
    BY <2>1, <2>3, AttachKept, DetachKept, LinkBadKept, SetActiveConfigKept, FrameKept DEF Next
  <2> QED
    BY <2>2, <2>3
<1> QED
  BY <1>1, <1>2, PTL DEF Spec

\* HwcDisplayConfigs::Update leaves every group one kind of modes, a hertz apart, and the
\* preferred mode among them: for every list of modes the kernel may report.
THEOREM UpdateSound == Spec => []ConfigsSound
<1>1. ConfigsInv => ConfigsSound
  BY DEF ConfigsInv, DisplayInv, Sound, ConfigsSound, Listed, ListedIn
<1> QED
  BY <1>1, ConfigsKeepInv, PTL

\* A number of a configuration, however long the client kept it, never stages another mode
\* than the one it was told: for any number of displays and hotplugs.
THEOREM NumbersMeanOneMode == Spec => []NumbersKeepMeaning
<1>1. ConfigsInv => NumbersKeepMeaning
  BY DEF ConfigsInv, DisplayInv, ToldListed, NumbersKeepMeaning
<1> QED
  BY <1>1, ConfigsKeepInv, PTL

\* GetActiveConfig answers with a configuration that GetDisplayConfigs lists.
THEOREM ActiveListed == Spec => []ActiveConfigListed
<1>1. ConfigsInv => ActiveConfigListed
  BY DEF ConfigsInv, DisplayInv, StagedListed, ListedIn, ActiveConfigListed, Listed
<1> QED
  BY <1>1, ConfigsKeepInv, PTL

\* Without a pending change the reported mode is the one on the screen.
THEOREM ReportedShown == Spec => []ReportedModeShown
<1>1. ConfigsInv => ReportedModeShown
  BY DEF ConfigsInv, DisplayInv, Shown, ReportedModeShown
<1> QED
  BY <1>1, ConfigsKeepInv, PTL

===============================================================================
