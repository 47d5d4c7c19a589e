-------------------------- MODULE DrmPipelinesProofs --------------------------
(* Pipelines own disjoint sets of KMS objects, for every device.               *)
EXTENDS DrmPipelines, SequenceTheorems, WellFoundedInduction, TLAPS

OwnershipInv == TypeOK /\ ExclusiveOwnership

\* What CreatePipeline returns was free before (TryCreatePipeline).
LEMMA NewPipelineIsFree ==
  ASSUME NEW c \in Conn, NEW current,
         CreatePipeline(c, current) # None
  PROVE  LET new == CreatePipeline(c, current)
         IN /\ new \in [encoder : Range(Encoders), crtc : Range(Crtcs), primary : Plane]
            /\ FreeEncoder(new.encoder)
            /\ FreeCrtc(new.crtc)
            /\ FreePlane(new.primary)
<1> DEFINE first == {x \in Attempts(c, current) :
                       \A y \in Attempts(c, current) : Earlier(c, current, x, y)}
           a == CHOOSE x \in first : TRUE
           p == CHOOSE q \in Plane : PrimaryPlanes(a[2]) = {q}
           new == [encoder |-> a[1], crtc |-> a[2], primary |-> p]
<1>1. first # {} /\ CreatePipeline(c, current) = new
  BY DEF CreatePipeline
<1>2. a \in Attempts(c, current)
  BY <1>1
<1> HIDE DEF a
<1>3. PICK e \in Range(Encoders), r \in Range(Crtcs) :
        a = <<e, r>> /\ TryCreatePipeline(e, r)
  BY <1>2 DEF Attempts
<1>4. PICK q \in Plane : PrimaryPlanes(r) = {q} /\ FreePlane(q)
  BY <1>3 DEF TryCreatePipeline
<1>5. a[1] = e /\ a[2] = r
  BY <1>3
<1>6. p \in Plane /\ PrimaryPlanes(r) = {p}
  BY <1>4, <1>5
<1>7. p = q
  BY <1>4, <1>6
<1> QED
  BY <1>1, <1>3, <1>4, <1>5, <1>7 DEF TryCreatePipeline

\* A plan joins layers with planes that are the pipeline's own or free.
LEMMA PlanMayBind ==
  ASSUME OwnershipInv, NEW c \in Conn, pipe[c] # None, NEW ls,
         CreateDrmKmsPlan(c, ls) # None
  PROVE  Range(CreateDrmKmsPlan(c, ls)) \subseteq {p \in Plane : MayBind(c, p)}
<1> DEFINE new == CHOOSE f \in Joinings(c, ls) : TRUE
<1>1. Joinings(c, ls) # {} /\ CreateDrmKmsPlan(c, ls) = new
  BY DEF CreateDrmKmsPlan
<1>2. new \in Joinings(c, ls)
  BY <1>1
<1>3. new \in [DOMAIN ls -> GetUsablePlanes(c)]
  BY <1>2 DEF Joinings
<1>4. GetUsablePlanes(c) \subseteq {p \in Plane : MayBind(c, p)}
  <2>1. pipe[c].primary \in Plane /\ MayBind(c, pipe[c].primary)
    BY DEF OwnershipInv, TypeOK, ExclusiveOwnership, HeldPlanes, MayBind
  <2> QED
    BY <2>1 DEF GetUsablePlanes, OverlaysFor, Kept
<1> HIDE DEF new
<1> QED
  BY <1>1, <1>3, <1>4 DEF Range

\* A pipeline that only takes planes it may bind leaves ownership exclusive.
LEMMA TakingKeepsExclusive ==
  ASSUME OwnershipInv, NEW c \in Conn, pipe[c] # None, UNCHANGED pipe,
         \A d \in Conn \ {c} : HeldPlanes(d)' = HeldPlanes(d),
         \A p \in HeldPlanes(c)' : MayBind(c, p)
  PROVE  ExclusiveOwnership'
<1>1. \A d \in Conn \ {c} : HeldPlanes(c)' \cap HeldPlanes(d)' = {}
  BY DEF MayBind
<1>2. \A d, e \in Conn \ {c} : d # e => HeldPlanes(d)' \cap HeldPlanes(e)' = {}
  BY DEF OwnershipInv, ExclusiveOwnership
<1>3. \A d \in Conn : pipe'[d] = None => HeldPlanes(d)' = {}
  BY DEF OwnershipInv, ExclusiveOwnership
<1>4. \A d, e \in Conn : d # e => HeldPlanes(d)' \cap HeldPlanes(e)' = {}
  BY <1>1, <1>2
<1> QED
  BY <1>3, <1>4 DEF OwnershipInv, ExclusiveOwnership

\* What a connector holds already it may bind again.
LEMMA OwnMayBind ==
  ASSUME OwnershipInv, NEW c \in Conn
  PROVE  \A p \in HeldPlanes(c) : MayBind(c, p)
  BY DEF OwnershipInv, ExclusiveOwnership, MayBind

\* The walk visits connectors of the device.
LEMMA ConnectorsAreSeq == Connectors \in Seq(Conn)
  BY DeviceAssumption DEF Conn, Range

\* At first nothing is owned.
LEMMA OwnershipInit == Init => OwnershipInv
<1> SUFFICES ASSUME Init PROVE OwnershipInv
  OBVIOUS
<1>1. TypeOK
  BY DEF Init, TypeOK
<1>2. \A c \in Conn : pipe[c] = None /\ HeldPlanes(c) = {}
  BY DEF Init, HeldPlanes
<1> QED
  BY <1>1, <1>2 DEF OwnershipInv, ExclusiveOwnership

\* A new pipeline takes what was free.
LEMMA AttachOwnership ==
  ASSUME OwnershipInv, NEW c \in Conn, Attach(c), todo' \in Seq(Conn)
  PROVE  OwnershipInv'
<1>1. PICK current \in Supported[c] \cup {None} :
        LET new == CreatePipeline(c, current)
        IN /\ pipe' = [pipe EXCEPT ![c] = new]
           /\ reserved' = IF new = None THEN reserved
                          ELSE [reserved EXCEPT ![new.crtc] = c]
  BY DEF Attach
<1> DEFINE new == CreatePipeline(c, current)
<1>2. pipe[c] = None /\ HeldPlanes(c) = {}
  BY DEF Attach, OwnershipInv, ExclusiveOwnership
<1>3. plan[c] = {} /\ active[c] = {} /\ (staged[c] = None \/ staged[c] = {})
  BY <1>2 DEF HeldPlanes
<1>4. UNCHANGED <<plan, active, staged>> /\ connected' \in [Conn -> BOOLEAN]
  BY DEF Attach, OwnershipInv, TypeOK
<1>5. \A d \in Conn \ {c} : HeldPlanes(d)' = HeldPlanes(d) /\ pipe'[d] = pipe[d]
  BY <1>1, <1>4 DEF HeldPlanes, OwnershipInv, TypeOK
<1>6. CASE new = None
  <2>1. pipe' = pipe /\ reserved' = reserved
    BY <1>1, <1>2, <1>6 DEF OwnershipInv, TypeOK
  <2> QED
    BY <2>1, <1>4 DEF OwnershipInv, TypeOK, ExclusiveOwnership, HeldPlanes
<1>7. CASE new # None
  <2>1. /\ new \in [encoder : Range(Encoders), crtc : Range(Crtcs), primary : Plane]
        /\ FreeEncoder(new.encoder) /\ FreeCrtc(new.crtc) /\ FreePlane(new.primary)
    BY <1>7, NewPipelineIsFree
  <2> HIDE DEF new
  <2>2. pipe' = [pipe EXCEPT ![c] = new] /\ reserved' = [reserved EXCEPT ![new.crtc] = c]
    BY <1>1, <1>7 DEF new
  <2>3. pipe'[c] = new
    BY <2>2 DEF OwnershipInv, TypeOK
  <2>4. TypeOK'
    BY <2>1, <2>2, <1>4 DEF OwnershipInv, TypeOK
  <2>5. HeldPlanes(c)' = {new.primary}
    BY <2>3, <1>3, <1>4, <1>7 DEF HeldPlanes
  <2>6. \A d \in Conn \ {c} : new.primary \notin HeldPlanes(d)
    BY <2>1 DEF FreePlane
  <2>7. \A d, e \in Conn : d # e => HeldPlanes(d)' \cap HeldPlanes(e)' = {}
    BY <2>5, <2>6, <1>5 DEF OwnershipInv, ExclusiveOwnership
  <2>8. \A d, e \in Conn : d # e /\ pipe'[d] # None /\ pipe'[e] # None =>
          pipe'[d].encoder # pipe'[e].encoder /\ pipe'[d].crtc # pipe'[e].crtc
    BY <2>1, <2>3, <1>5 DEF OwnershipInv, ExclusiveOwnership, FreeEncoder, FreeCrtc
  <2>9. \A d \in Conn : pipe'[d] = None => HeldPlanes(d)' = {}
    BY <2>3, <1>5, <1>7 DEF OwnershipInv, ExclusiveOwnership
  <2> QED
    BY <2>4, <2>7, <2>8, <2>9 DEF OwnershipInv, ExclusiveOwnership
<1> QED
  BY <1>6, <1>7

\* A pipeline that dies gives everything back.
LEMMA DetachOwnership ==
  ASSUME OwnershipInv, NEW c \in Conn, Detach(c), todo' \in Seq(Conn)
  PROVE  OwnershipInv'
<1>1. TypeOK'
  BY DEF Detach, OwnershipInv, TypeOK
<1>2. \A d \in Conn \ {c} : HeldPlanes(d)' = HeldPlanes(d) /\ pipe'[d] = pipe[d]
  BY DEF Detach, OwnershipInv, TypeOK, HeldPlanes
<1>3. HeldPlanes(c)' = {} /\ pipe'[c] = None
  BY DEF Detach, OwnershipInv, TypeOK, HeldPlanes
<1> QED
  BY <1>1, <1>2, <1>3 DEF OwnershipInv, ExclusiveOwnership

\* Commits of a pipeline: its new frames hold planes it held or planned.
LEMMA CommitOwnership ==
  ASSUME OwnershipInv, NEW c \in Conn, pipe[c] # None,
         UNCHANGED <<pipe, reserved>>, connected' \in [Conn -> BOOLEAN], todo' \in Seq(Conn),
         NEW np \in SUBSET Plane, NEW na \in SUBSET Plane, NEW ns \in (SUBSET Plane) \cup {None},
         plan' = [plan EXCEPT ![c] = np],
         active' = [active EXCEPT ![c] = na],
         staged' = [staged EXCEPT ![c] = ns],
         \A p \in np \cup na : MayBind(c, p),
         ns # None => \A p \in ns : MayBind(c, p)
  PROVE  OwnershipInv'
<1>1. TypeOK'
  BY DEF OwnershipInv, TypeOK
<1>2. \A d \in Conn \ {c} : HeldPlanes(d)' = HeldPlanes(d)
  BY DEF OwnershipInv, TypeOK, HeldPlanes
<1>3. \A p \in HeldPlanes(c)' : MayBind(c, p)
  BY OwnMayBind DEF OwnershipInv, TypeOK, HeldPlanes
<1> QED
  BY <1>1, <1>2, <1>3, TakingKeepsExclusive DEF OwnershipInv

\* A plan as a step stores it.
LEMMA StoredPlan ==
  ASSUME OwnershipInv, NEW c \in Conn, pipe[c] # None, NEW ls
  PROVE  LET new == CreateDrmKmsPlan(c, ls)
             np == IF new = None THEN {} ELSE Range(new)
         IN np \in SUBSET Plane /\ \A p \in np : MayBind(c, p)
  BY PlanMayBind

\* What a connector's frames are when a commit promotes the staged one.
LEMMA PromotedOwned ==
  ASSUME OwnershipInv, NEW c \in Conn
  PROVE  /\ plan[c] \in SUBSET Plane /\ active[c] \in SUBSET Plane
         /\ Promoted(c) \in SUBSET Plane /\ staged[c] \in (SUBSET Plane) \cup {None}
         /\ \A p \in plan[c] \cup active[c] \cup Promoted(c) : MayBind(c, p)
         /\ staged[c] # None => \A p \in staged[c] : MayBind(c, p)
<1>1. plan[c] \cup active[c] \cup Promoted(c) \subseteq HeldPlanes(c)
  BY DEF HeldPlanes, Promoted
<1>2. staged[c] # None => staged[c] \subseteq HeldPlanes(c)
  BY DEF HeldPlanes
<1> QED
  BY <1>1, <1>2, OwnMayBind DEF OwnershipInv, TypeOK, Promoted

\* Each step of the hotplug handler keeps ownership exclusive.
LEMMA UpdateOwnership ==
  ASSUME OwnershipInv, UpdateNext
  PROVE  OwnershipInv'
<1>1. Head(todo) \in Conn /\ todo' \in Seq(Conn)
  BY DEF UpdateNext, OwnershipInv, TypeOK
<1>2. CASE Attach(Head(todo))
  BY <1>1, <1>2, AttachOwnership
<1>3. CASE Detach(Head(todo))
  BY <1>1, <1>3, DetachOwnership
<1>4. CASE LinkChecked(Head(todo))
  BY <1>1, <1>4 DEF LinkChecked, OwnershipInv, TypeOK, ExclusiveOwnership, HeldPlanes
<1> QED
  BY <1>2, <1>3, <1>4 DEF UpdateNext

\* A validation replaces the plan.
LEMMA ValidateOwnership ==
  ASSUME OwnershipInv, NEW c \in Conn, ValidateDisplay(c)
  PROVE  OwnershipInv'
<1>1. PICK ls : StorePlan(c, CreateDrmKmsPlan(c, ls))
  BY DEF ValidateDisplay
<1> DEFINE new == CreateDrmKmsPlan(c, ls)
           np == IF new = None THEN {} ELSE Range(new)
<1>2. /\ pipe[c] # None
      /\ UNCHANGED <<pipe, active, staged, reserved, connected, todo>>
  BY DEF ValidateDisplay
<1>3. np \in SUBSET Plane /\ \A p \in np : MayBind(c, p)
  BY <1>2, StoredPlan
<1>4. plan' = [plan EXCEPT ![c] = np]
  BY <1>1 DEF StorePlan
<1> HIDE DEF np
<1>5. /\ active' = [active EXCEPT ![c] = active[c]]
      /\ staged' = [staged EXCEPT ![c] = staged[c]]
      /\ connected' \in [Conn -> BOOLEAN] /\ todo' \in Seq(Conn)
  BY <1>2 DEF OwnershipInv, TypeOK
<1>6. /\ active[c] \in SUBSET Plane /\ staged[c] \in (SUBSET Plane) \cup {None}
      /\ \A p \in np \cup active[c] : MayBind(c, p)
      /\ staged[c] # None => \A p \in staged[c] : MayBind(c, p)
  BY <1>3, PromotedOwned
<1> QED
  BY <1>2, <1>3, <1>4, <1>5, <1>6, CommitOwnership

\* A commit replaces the plan and moves the frames on.
LEMMA PresentOwnership ==
  ASSUME OwnershipInv, NEW c \in Conn, PresentDisplay(c)
  PROVE  OwnershipInv'
<1> DEFINE new == CreateDrmKmsPlan(c, validated[c])
           np == IF new = None THEN {} ELSE Range(new)
<1>1. /\ pipe[c] # None
      /\ UNCHANGED <<pipe, reserved>>
      /\ connected' \in [Conn -> BOOLEAN] /\ todo' \in Seq(Conn)
  BY DEF PresentDisplay, OwnershipInv, TypeOK
<1>2. np \in SUBSET Plane /\ \A p \in np : MayBind(c, p)
  BY <1>1, StoredPlan
<1>3. plan' = [plan EXCEPT ![c] = np]
  BY DEF PresentDisplay, StorePlan
<1>4. PICK na \in SUBSET Plane, ns \in (SUBSET Plane) \cup {None} :
        /\ active' = [active EXCEPT ![c] = na]
        /\ staged' = [staged EXCEPT ![c] = ns]
        /\ \A p \in na : MayBind(c, p)
        /\ ns # None => \A p \in ns : MayBind(c, p)
  <2>1. \/ UNCHANGED <<active, staged>>
        \/ /\ active' = [active EXCEPT ![c] = Promoted(c)]
           /\ staged' = [staged EXCEPT ![c] = None]
        \/ /\ active' = [active EXCEPT ![c] = Promoted(c)]
           /\ staged' = [staged EXCEPT ![c] = np]
        \/ /\ active' = [active EXCEPT ![c] = np]
           /\ staged' = [staged EXCEPT ![c] = None]
    BY DEF PresentDisplay
  <2> HIDE DEF np
  <2>2. CASE UNCHANGED <<active, staged>>
    BY <2>2, PromotedOwned DEF OwnershipInv, TypeOK
  <2> QED
    BY <2>1, <2>2, <1>2, PromotedOwned
<1> HIDE DEF np
<1> QED
  BY <1>1, <1>2, <1>3, <1>4, CommitOwnership

\* A promotion only gives references up.
LEMMA PromoteOwnership ==
  ASSUME OwnershipInv, NEW c \in Conn, Promote(c)
  PROVE  OwnershipInv'
<1>2. TypeOK'
  BY DEF Promote, OwnershipInv, TypeOK
<1>3. \A d \in Conn : HeldPlanes(d)' \subseteq HeldPlanes(d)
  BY DEF Promote, OwnershipInv, TypeOK, HeldPlanes
<1>4. UNCHANGED pipe
  BY DEF Promote
<1> QED
  BY <1>2, <1>3, <1>4 DEF OwnershipInv, ExclusiveOwnership

\* Ownership is inductive with its types.
LEMMA OwnershipStep == OwnershipInv /\ [Next]_vars => OwnershipInv'
<1> SUFFICES ASSUME OwnershipInv, [Next]_vars PROVE OwnershipInv'
  OBVIOUS
<1>1. CASE StartUpdate
  <2>1. todo' \in Seq(Conn)
    BY <1>1, ConnectorsAreSeq DEF StartUpdate
  <2> QED
    BY <1>1, <2>1 DEF StartUpdate, OwnershipInv, TypeOK, ExclusiveOwnership, HeldPlanes
<1>2. CASE UpdateNext
  BY <1>2, UpdateOwnership
<1>3. CASE Restart
  <2>1. TypeOK'
    BY <1>3, ConnectorsAreSeq DEF Restart, TypeOK
  <2>2. \A c \in Conn : pipe'[c] = None /\ HeldPlanes(c)' = {}
    BY <1>3 DEF Restart, HeldPlanes
  <2> QED
    BY <2>1, <2>2 DEF OwnershipInv, ExclusiveOwnership
<1>4. ASSUME NEW c \in Conn, ValidateDisplay(c) PROVE OwnershipInv'
  BY <1>4, ValidateOwnership
<1>5. ASSUME NEW c \in Conn, PresentDisplay(c) PROVE OwnershipInv'
  BY <1>5, PresentOwnership
<1>6. ASSUME NEW c \in Conn, Promote(c) PROVE OwnershipInv'
  BY <1>6, PromoteOwnership
<1>7. CASE UNCHANGED vars
  BY <1>7 DEF vars, OwnershipInv, TypeOK, ExclusiveOwnership, HeldPlanes
<1> QED
  BY <1>1, <1>2, <1>3, <1>4, <1>5, <1>6, <1>7 DEF Next

\* For every device, every sequence of plugging, unplugging, validating and
\* presenting leaves pipelines with disjoint encoders, CRTCs and planes.
THEOREM PipelinesOwnExclusively == Spec => []ExclusiveOwnership
<1>1. OwnershipInv => ExclusiveOwnership
  BY DEF OwnershipInv
<1> QED
  BY <1>1, OwnershipInit, OwnershipStep, PTL DEF Spec

-------------------------------------------------------------------------------
(* A validated frame can be planned again.                                     *)

\* The planes of GetUsablePlanes but for who owns them.
Eligible(c) ==
  {pipe[c].primary} \cup
  {p \in OverlaysFor(pipe[c].crtc) :
     Cardinality({q \in OverlaysFor(pipe[c].crtc) : q < p}) < PlanesNum - 1}

\* g puts layer after layer on later and later planes that are valid for them.
Ascending(c, ls, g) ==
  \A i \in DOMAIN ls :
    /\ IsValidForLayer(g[i], ls[i])
    /\ i # 1 => Rank(c, g[i - 1]) < Rank(c, g[i])

\* The plan of a validated frame has planes for its layers.
PlanSuffices(c) ==
  validated[c] # None =>
    /\ pipe[c] # None
    /\ \E n \in 1 .. MaxLayers : DOMAIN validated[c] = 1 .. n
    /\ \E g \in [DOMAIN validated[c] -> plan[c] \cap Eligible(c)] :
         Ascending(c, validated[c], g)

PlansInv ==
  /\ OwnershipInv
  /\ validated = [c \in Conn |-> validated[c]]
  /\ \A c \in Conn : PlanSuffices(c)


\* A nonempty set of numbers has a least one.
LEMMA LeastNatural ==
  ASSUME NEW T, T \subseteq Nat, T # {}
  PROVE  \E x \in T : \A y \in T : x <= y
<1> DEFINE R == OpToRel(<, Nat)
<1>1. IsWellFoundedOn(R, Nat)
  BY NatLessThanWellFounded
<1>2. \A x, y \in Nat : x < y => <<x, y>> \in R
  BY DEF OpToRel
<1> HIDE DEF R
<1>3. PICK x \in T : \A y \in T : ~ (<<y, x>> \in R)
  BY <1>1, WFMin
<1>4. \A y \in T : ~(y < x)
  BY <1>2, <1>3
<1> QED
  BY <1>3, <1>4

\* Where the walk over the planes stands before layer i.
Before(c, f, i) == IF i = 1 THEN -1 ELSE Rank(c, f[i - 1])

\* p is the first plane after rank low that is valid for the layer.
FirstValid(c, l, low, p) ==
  /\ IsValidForLayer(p, l)
  /\ low < Rank(c, p)
  /\ \A q \in GetUsablePlanes(c) :
       low < Rank(c, q) /\ Rank(c, q) < Rank(c, p) => ~IsValidForLayer(q, l)

\* f is the walk over the first k layers.
IsWalk(c, ls, k, f) ==
  /\ f \in [1 .. k -> GetUsablePlanes(c)]
  /\ \A i \in 1 .. k : FirstValid(c, ls[i], Before(c, f, i), f[i])

\* The walk has got at least as far with as few planes as g.
NoFurther(c, ls, g, k, f) ==
  IsWalk(c, ls, k, f) /\ (k # 0 => Rank(c, f[k]) <= Rank(c, g[k]))

\* Where one plane would do there is a first one, which comes no later.
LEMMA FirstPlane ==
  ASSUME NEW c, NEW l, NEW low \in Int, NEW q \in GetUsablePlanes(c),
         \A p \in GetUsablePlanes(c) : Rank(c, p) \in Nat,
         IsValidForLayer(q, l), low < Rank(c, q)
  PROVE  \E p \in GetUsablePlanes(c) :
           FirstValid(c, l, low, p) /\ Rank(c, p) <= Rank(c, q)
<1> DEFINE T == {k \in Nat : \E p \in GetUsablePlanes(c) :
                   Rank(c, p) = k /\ IsValidForLayer(p, l) /\ low < k}
<1>1. Rank(c, q) \in T
  OBVIOUS
<1>2. T \subseteq Nat
  OBVIOUS
<1>3. PICK k \in T : \A j \in T : k <= j
  <2> HIDE DEF T
  <2> QED
    BY <1>1, <1>2, LeastNatural
<1>4. PICK p \in GetUsablePlanes(c) : Rank(c, p) = k /\ IsValidForLayer(p, l) /\ low < k
  BY <1>3
<1>5. \A r \in GetUsablePlanes(c) :
        low < Rank(c, r) /\ Rank(c, r) < Rank(c, p) => ~IsValidForLayer(r, l)
  <2> SUFFICES ASSUME NEW r \in GetUsablePlanes(c), IsValidForLayer(r, l),
                      low < Rank(c, r), Rank(c, r) < Rank(c, p)
               PROVE  FALSE
    OBVIOUS
  <2>1. Rank(c, r) \in T
    OBVIOUS
  <2>2. k <= Rank(c, r) /\ k \in Nat /\ Rank(c, r) \in Nat
    BY <2>1, <1>3, <1>2
  <2> HIDE DEF T
  <2> QED
    BY <2>2, <1>4
<1>6. Rank(c, p) <= Rank(c, q)
  BY <1>1, <1>3, <1>4
<1> HIDE DEF T
<1> QED
  BY <1>4, <1>5, <1>6 DEF FirstValid

\* When any ascending choice of usable planes suits the layers, the walk finds
\* planes for all of them: taking the first valid plane never loses (the loop of
\* CreateDrmKmsPlan).
LEMMA WalkSucceeds ==
  ASSUME NEW c, NEW ls, NEW n \in Nat, DOMAIN ls = 1 .. n,
         NEW g \in [1 .. n -> GetUsablePlanes(c)], Ascending(c, ls, g),
         \A p \in GetUsablePlanes(c) : Rank(c, p) \in Nat
  PROVE  \E f : IsWalk(c, ls, n, f)
<1> DEFINE Reaches(k) == \E f : NoFurther(c, ls, g, k, f)
<1>1. Reaches(0)
  <2> DEFINE f == [i \in 1 .. 0 |-> g[i]]
  <2>1. NoFurther(c, ls, g, 0, f)
    BY DEF NoFurther, IsWalk
  <2> QED
    BY <2>1
<1>2. ASSUME NEW k \in Nat, k < n, Reaches(k) PROVE Reaches(k + 1)
  <2>1. PICK f : NoFurther(c, ls, g, k, f)
    BY <1>2
  <2> DEFINE low == Before(c, f, k + 1)
             q == g[k + 1]
  <2>2. q \in GetUsablePlanes(c) /\ IsValidForLayer(q, ls[k + 1])
    BY <1>2 DEF Ascending
  <2>3. low \in Int /\ low < Rank(c, q)
    <3>1. CASE k = 0
      BY <3>1, <2>2 DEF Before
    <3>2. CASE k # 0
      <4>1. low = Rank(c, f[k]) /\ f[k] \in GetUsablePlanes(c)
        BY <3>2, <2>1, <1>2 DEF Before, NoFurther, IsWalk
      <4>2. g[k] \in GetUsablePlanes(c) /\ Rank(c, f[k]) <= Rank(c, g[k])
        BY <3>2, <2>1, <1>2 DEF NoFurther
      <4>3. Rank(c, g[(k + 1) - 1]) < Rank(c, g[k + 1])
        BY <3>2, <1>2, SMTT(40) DEF Ascending
      <4>4. (k + 1) - 1 = k
        OBVIOUS
      <4>5. /\ Rank(c, f[k]) \in Nat /\ Rank(c, g[k]) \in Nat
            /\ Rank(c, g[k + 1]) \in Nat /\ Rank(c, g[k]) < Rank(c, g[k + 1])
        BY <4>1, <4>2, <4>3, <4>4, <2>2
      <4> QED
        BY <4>1, <4>2, <4>5
    <3> QED
      BY <3>1, <3>2
  <2> HIDE DEF low, q
  <2>4. PICK p \in GetUsablePlanes(c) :
          FirstValid(c, ls[k + 1], low, p) /\ Rank(c, p) <= Rank(c, q)
    BY <2>2, <2>3, FirstPlane
  <2> DEFINE h == [i \in 1 .. (k + 1) |-> IF i = k + 1 THEN p ELSE f[i]]
  <2>5. f \in [1 .. k -> GetUsablePlanes(c)]
    BY <2>1 DEF NoFurther, IsWalk
  <2>6. h \in [1 .. (k + 1) -> GetUsablePlanes(c)] /\ h[k + 1] = p
    BY <2>5
  <2>7. \A i \in 1 .. k : h[i] = f[i]
    OBVIOUS
  <2>8. \A i \in 1 .. (k + 1) : Before(c, h, i) = Before(c, f, i)
    <3> HIDE DEF h
    <3> QED
      BY <2>7 DEF Before
  <2> HIDE DEF h
  <2>9. \A i \in 1 .. (k + 1) : FirstValid(c, ls[i], Before(c, h, i), h[i])
    <3> SUFFICES ASSUME NEW i \in 1 .. (k + 1)
                 PROVE  FirstValid(c, ls[i], Before(c, h, i), h[i])
      OBVIOUS
    <3>1. CASE i = k + 1
      BY <3>1, <2>4, <2>6, <2>8 DEF low
    <3>2. CASE i # k + 1
      <4>1. i \in 1 .. k
        BY <3>2
      <4>2. FirstValid(c, ls[i], Before(c, f, i), f[i])
        BY <4>1, <2>1 DEF NoFurther, IsWalk
      <4> QED
        BY <4>1, <4>2, <2>7, <2>8
    <3> QED
      BY <3>1, <3>2
  <2>10. NoFurther(c, ls, g, k + 1, h)
    BY <2>4, <2>6, <2>9 DEF NoFurther, IsWalk, q
  <2> QED
    BY <2>10
<1> HIDE DEF Reaches
<1>3. Reaches(n)
  <2> DEFINE T == {k \in Nat : k <= n /\ ~Reaches(k)}
  <2> SUFFICES ASSUME T # {} PROVE FALSE
    OBVIOUS
  <2>1. PICK k \in T : \A j \in T : k <= j
    <3>1. T \subseteq Nat
      OBVIOUS
    <3> HIDE DEF T
    <3> QED
      BY <3>1, LeastNatural
  <2>2. k # 0
    BY <1>1
  <2>3. k - 1 \in Nat /\ k - 1 < n /\ k - 1 \notin T
    BY <2>1, <2>2
  <2>4. Reaches(k - 1)
    BY <2>3
  <2>5. Reaches((k - 1) + 1)
    BY <2>3, <2>4, <1>2
  <2>6. (k - 1) + 1 = k
    OBVIOUS
  <2> QED
    BY <2>5, <2>6
<1> QED
  BY <1>3 DEF Reaches, NoFurther

\* The usable planes are those eligible that may be bound, and are ranked.
LEMMA UsablePlanes ==
  ASSUME OwnershipInv, NEW c \in Conn, pipe[c] # None
  PROVE  /\ GetUsablePlanes(c) \subseteq Eligible(c)
         /\ plan[c] \cap Eligible(c) \subseteq GetUsablePlanes(c)
         /\ \A p \in GetUsablePlanes(c) : Rank(c, p) \in Nat
<1>1. \A p \in plan[c] : MayBind(c, p)
  BY OwnMayBind DEF HeldPlanes
<1>2. GetUsablePlanes(c) \subseteq Eligible(c)
  BY DEF GetUsablePlanes, Eligible
<1>3. plan[c] \cap Eligible(c) \subseteq GetUsablePlanes(c)
  BY <1>1 DEF GetUsablePlanes, Eligible
<1>4. GetUsablePlanes(c) \subseteq Plane
  BY DEF GetUsablePlanes, OverlaysFor, Kept, OwnershipInv, TypeOK
<1>5. \A p \in Plane : p \in Nat
  BY DEF Plane
<1> QED
  BY <1>2, <1>3, <1>4, <1>5 DEF Rank

\* CreateDrmKmsPlan returns a walk over all the layers.
LEMMA PlansAreWalks ==
  ASSUME NEW c, NEW ls, NEW n \in Nat, DOMAIN ls = 1 .. n
  PROVE  Joinings(c, ls) = {f \in [1 .. n -> GetUsablePlanes(c)] : IsWalk(c, ls, n, f)}
  BY DEF Joinings, IsWalk, FirstValid, Before

\* The layers of a validated frame can be planned again.
LEMMA PlannedAgain ==
  ASSUME PlansInv, NEW c \in Conn, validated[c] # None
  PROVE  CreateDrmKmsPlan(c, validated[c]) # None
<1> DEFINE ls == validated[c]
<1>1. /\ OwnershipInv /\ pipe[c] # None
      /\ \E n \in 1 .. MaxLayers : DOMAIN ls = 1 .. n
      /\ \E g \in [DOMAIN ls -> plan[c] \cap Eligible(c)] : Ascending(c, ls, g)
  BY DEF PlansInv, PlanSuffices
<1> HIDE DEF ls
<1>2. PICK n \in 1 .. MaxLayers : DOMAIN ls = 1 .. n
  BY <1>1
<1>3. PICK g \in [1 .. n -> plan[c] \cap Eligible(c)] : Ascending(c, ls, g)
  BY <1>1, <1>2
<1>4. /\ plan[c] \cap Eligible(c) \subseteq GetUsablePlanes(c)
      /\ \A p \in GetUsablePlanes(c) : Rank(c, p) \in Nat
  BY <1>1, UsablePlanes
<1>5. g \in [1 .. n -> GetUsablePlanes(c)]
  BY <1>4
<1>6. n \in Nat
  BY DeviceAssumption
<1>7. PICK f : IsWalk(c, ls, n, f)
  BY <1>2, <1>3, <1>4, <1>5, <1>6, WalkSucceeds
<1>8. f \in Joinings(c, ls)
  BY <1>2, <1>6, <1>7, PlansAreWalks DEF IsWalk
<1>9. \A h \in Joinings(c, ls) : h \in [1 .. n -> Plane]
  <2>1. GetUsablePlanes(c) \subseteq Plane
    BY <1>1 DEF GetUsablePlanes, OverlaysFor, Kept, OwnershipInv, TypeOK
  <2> QED
    BY <2>1, <1>2, <1>6, PlansAreWalks
<1>10. None \notin [1 .. n -> Plane]
  BY <1>2, DeviceAssumption
<1>11. CreateDrmKmsPlan(c, ls) \in Joinings(c, ls)
  BY <1>8 DEF CreateDrmKmsPlan
<1>12. CreateDrmKmsPlan(c, ls) # None
  BY <1>9, <1>10, <1>11
<1> QED
  BY <1>12 DEF ls

\* A connector whose pipeline, plan and layers stay as they are stays planned.
LEMMA SameSuffices ==
  ASSUME NEW c \in Conn, PlanSuffices(c), pipe'[c] = pipe[c], plan'[c] = plan[c],
         validated'[c] = validated[c]
  PROVE  PlanSuffices(c)'
<1>1. Eligible(c)' = Eligible(c)
  BY DEF Eligible, OverlaysFor
<1>2. \A p : Rank(c, p)' = Rank(c, p)
  BY DEF Rank
<1>3. \A ls, g : Ascending(c, ls, g)' <=> Ascending(c, ls, g)
  BY <1>2 DEF Ascending
<1> QED
  BY <1>1, <1>3 DEF PlanSuffices

\* A plan just made and stored suffices for its layers.
LEMMA StoredSuffices ==
  ASSUME OwnershipInv, NEW c \in Conn, pipe[c] # None, pipe' = pipe,
         NEW ls, NEW n \in 1 .. MaxLayers, DOMAIN ls = 1 .. n,
         CreateDrmKmsPlan(c, ls) # None,
         plan'[c] = Range(CreateDrmKmsPlan(c, ls)), validated'[c] = ls
  PROVE  PlanSuffices(c)'
<1>1. PICK g : g = CreateDrmKmsPlan(c, ls)
  OBVIOUS
<1>2. g \in Joinings(c, ls)
  BY <1>1 DEF CreateDrmKmsPlan
<1>3. n \in Nat
  BY DeviceAssumption
<1>4. g \in [1 .. n -> GetUsablePlanes(c)] /\ IsWalk(c, ls, n, g)
  BY <1>2, <1>3, PlansAreWalks
<1>5. Ascending(c, ls, g)
  BY <1>3, <1>4 DEF Ascending, IsWalk, FirstValid, Before
<1>6. g \in [1 .. n -> Range(g) \cap Eligible(c)]
  BY <1>4, UsablePlanes DEF Range
<1>7. Eligible(c)' = Eligible(c)
  BY DEF Eligible, OverlaysFor
<1>8. \A p : Rank(c, p)' = Rank(c, p)
  BY DEF Rank
<1>9. Ascending(c, ls, g)'
  BY <1>5, <1>8 DEF Ascending
<1>20. /\ validated'[c] = ls /\ plan'[c] = Range(g) /\ pipe'[c] # None
  BY <1>1
<1> QED
  BY <1>6, <1>7, <1>9, <1>20 DEF PlanSuffices

\* At first there is no validated frame.
LEMMA PlansInit == Init => PlansInv
<1> SUFFICES ASSUME Init PROVE PlansInv
  OBVIOUS
<1>1. \A c \in Conn : validated[c] = None
  BY DEF Init
<1> QED
  BY <1>1, OwnershipInit DEF PlansInv, PlanSuffices, Init

\* Plugging and unplugging: a new pipeline has no validated frame, and an old
\* one keeps its plan.
LEMMA UpdatePlans ==
  ASSUME PlansInv, UpdateNext
  PROVE  validated' = [c \in Conn |-> validated'[c]] /\ \A c \in Conn : PlanSuffices(c)'
<1>1. PICK h \in Conn : h = Head(todo)
  BY DEF UpdateNext, PlansInv, OwnershipInv, TypeOK
<1>2. TypeOK /\ validated = [c \in Conn |-> validated[c]] /\ \A c \in Conn : PlanSuffices(c)
  BY DEF PlansInv, OwnershipInv
<1>3. Attach(h) \/ Detach(h) \/ LinkChecked(h)
  BY <1>1 DEF UpdateNext
<1>4. CASE Attach(h)
  <2>1. validated' = validated /\ plan' = plan /\ pipe[h] = None
    BY <1>4 DEF Attach
  <2>2. \A c \in Conn \ {h} : pipe'[c] = pipe[c]
    BY <1>4, <1>2 DEF Attach, TypeOK
  <2>3. validated[h] = None
    BY <2>1, <1>1, <1>2 DEF PlanSuffices
  <2>4. \A c \in Conn \ {h} : PlanSuffices(c)'
    BY <2>1, <2>2, <1>2, SameSuffices
  <2>5. PlanSuffices(h)'
    BY <2>1, <2>3 DEF PlanSuffices
  <2> QED
    BY <2>1, <2>4, <2>5, <1>2
<1>5. CASE Detach(h)
  <2>1. \A c \in Conn \ {h} :
          pipe'[c] = pipe[c] /\ plan'[c] = plan[c] /\ validated'[c] = validated[c]
    BY <1>5, <1>2 DEF Detach, TypeOK
  <2>2. validated'[h] = None /\ validated' = [c \in Conn |-> validated'[c]]
    BY <1>5, <1>1, <1>2 DEF Detach
  <2>3. \A c \in Conn \ {h} : PlanSuffices(c)'
    BY <2>1, <1>2, SameSuffices
  <2>4. PlanSuffices(h)'
    BY <2>2 DEF PlanSuffices
  <2> QED
    BY <2>2, <2>3, <2>4
<1>6. CASE LinkChecked(h)
  <2>1. pipe' = pipe /\ plan' = plan /\ validated' = validated
    BY <1>6 DEF LinkChecked
  <2> QED
    BY <2>1, <1>2, SameSuffices
<1> QED
  BY <1>3, <1>4, <1>5, <1>6

\* A validation stores the plan its layers were joined by.
LEMMA ValidatePlans ==
  ASSUME PlansInv, NEW c \in Conn, ValidateDisplay(c)
  PROVE  validated' = [d \in Conn |-> validated'[d]] /\ \A d \in Conn : PlanSuffices(d)'
<1>1. /\ OwnershipInv /\ TypeOK /\ validated = [d \in Conn |-> validated[d]]
      /\ \A d \in Conn : PlanSuffices(d)
  BY DEF PlansInv, OwnershipInv
<1>2. pipe[c] # None /\ pipe' = pipe
  BY DEF ValidateDisplay
<1>3. PICK ls : \E n \in 1 .. MaxLayers :
        /\ DOMAIN ls = 1 .. n
        /\ StorePlan(c, CreateDrmKmsPlan(c, ls))
        /\ \/ validated' = [validated EXCEPT ![c] = None]
           \/ /\ CreateDrmKmsPlan(c, ls) # None
              /\ validated' = [validated EXCEPT ![c] = ls]
  BY DEF ValidateDisplay
<1>4. \A d \in Conn \ {c} : plan'[d] = plan[d] /\ validated'[d] = validated[d]
  BY <1>1, <1>3 DEF StorePlan, TypeOK
<1>5. \A d \in Conn \ {c} : PlanSuffices(d)'
  BY <1>1, <1>2, <1>4, SameSuffices
<1>6. validated' = [d \in Conn |-> validated'[d]]
  BY <1>1, <1>3
<1>7. PlanSuffices(c)'
  <2>1. CASE validated' = [validated EXCEPT ![c] = None]
    <3>1. validated'[c] = None
      BY <2>1, <1>1
    <3> QED
      BY <3>1 DEF PlanSuffices
  <2>2. CASE CreateDrmKmsPlan(c, ls) # None /\ validated' = [validated EXCEPT ![c] = ls]
    <3>1. validated'[c] = ls
      BY <2>2, <1>1
    <3>2. plan'[c] = Range(CreateDrmKmsPlan(c, ls))
      BY <2>2, <1>1, <1>3 DEF StorePlan, TypeOK
    <3> QED
      BY <3>1, <3>2, <2>2, <1>1, <1>2, <1>3, StoredSuffices
  <2> QED
    BY <2>1, <2>2, <1>3
<1> QED
  BY <1>5, <1>6, <1>7

\* A present finds the planes of the validation and stores its plan anew.
LEMMA PresentPlans ==
  ASSUME PlansInv, NEW c \in Conn, PresentDisplay(c)
  PROVE  validated' = [d \in Conn |-> validated'[d]] /\ \A d \in Conn : PlanSuffices(d)'
<1>1. /\ OwnershipInv /\ TypeOK /\ validated = [d \in Conn |-> validated[d]]
      /\ \A d \in Conn : PlanSuffices(d)
  BY DEF PlansInv, OwnershipInv
<1>2. pipe[c] # None /\ pipe' = pipe /\ validated[c] # None /\ validated' = validated
  BY DEF PresentDisplay
<1>3. StorePlan(c, CreateDrmKmsPlan(c, validated[c]))
  BY DEF PresentDisplay
<1>4. CreateDrmKmsPlan(c, validated[c]) # None
  BY <1>2, PlannedAgain
<1>5. \A d \in Conn \ {c} : plan'[d] = plan[d]
  BY <1>1, <1>3 DEF StorePlan, TypeOK
<1>6. \A d \in Conn \ {c} : PlanSuffices(d)'
  BY <1>1, <1>2, <1>5, SameSuffices
<1>7. PICK n \in 1 .. MaxLayers : DOMAIN validated[c] = 1 .. n
  BY <1>1, <1>2 DEF PlanSuffices
<1>8. plan'[c] = Range(CreateDrmKmsPlan(c, validated[c])) /\ validated'[c] = validated[c]
  BY <1>1, <1>2, <1>3, <1>4 DEF StorePlan, TypeOK
<1>9. PlanSuffices(c)'
  BY <1>1, <1>2, <1>4, <1>7, <1>8, StoredSuffices
<1> QED
  BY <1>1, <1>2, <1>6, <1>9

\* The invariant of the stored plans is inductive.
LEMMA PlansStep == PlansInv /\ [Next]_vars => PlansInv'
<1> SUFFICES ASSUME PlansInv, [Next]_vars PROVE PlansInv'
  OBVIOUS
<1> DEFINE Planned == validated' = [d \in Conn |-> validated'[d]] /\ \A d \in Conn : PlanSuffices(d)'
<1>1. OwnershipInv'
  BY OwnershipStep DEF PlansInv
<1>2. ASSUME pipe' = pipe, plan' = plan, validated' = validated PROVE Planned
  BY <1>2, SameSuffices DEF PlansInv
<1>3. ASSUME StartUpdate PROVE Planned
  BY <1>2, <1>3 DEF StartUpdate
<1>4. ASSUME UpdateNext PROVE Planned
  BY <1>4, UpdatePlans
<1>5. ASSUME Restart PROVE Planned
  <2>1. validated' = [d \in Conn |-> None]
    BY <1>5 DEF Restart
  <2> QED
    BY <2>1 DEF PlanSuffices
<1>6. ASSUME NEW c \in Conn, ValidateDisplay(c) PROVE Planned
  BY <1>6, ValidatePlans
<1>7. ASSUME NEW c \in Conn, PresentDisplay(c) PROVE Planned
  BY <1>7, PresentPlans
<1>8. ASSUME NEW c \in Conn, Promote(c) PROVE Planned
  BY <1>2, <1>8 DEF Promote
<1>9. ASSUME UNCHANGED vars PROVE Planned
  BY <1>2, <1>9 DEF vars
<1>10. Planned
  BY <1>3, <1>4, <1>5, <1>6, <1>7, <1>8, <1>9 DEF Next
<1> QED
  BY <1>1, <1>10 DEF PlansInv

\* A validated frame keeps planes enough for its layers in the plan stored with
\* it, whatever the other displays do, for every device and every number of
\* displays, planes and layers (current_plan_ of HwcDisplay).
THEOREM PlansKeepInv == Spec => []PlansInv
  BY PlansInit, PlansStep, PTL DEF Spec

\* The layers of a successful validation can be planned again when the frame is
\* presented (CreateDrmKmsPlan in HwcDisplay::CreateComposition).
THEOREM ValidatedFits == Spec => []ValidatedPlanFits
<1>1. PlansInv => ValidatedPlanFits
  BY PlannedAgain DEF ValidatedPlanFits
<1> QED
  BY <1>1, PlansKeepInv, PTL
===============================================================================
