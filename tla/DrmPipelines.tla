----------------------------- MODULE DrmPipelines -----------------------------
(* Which KMS objects a display pipeline owns: DrmDevice, DrmCrtc, DrmEncoder,  *)
(* DrmPlane, DrmDisplayPipeline and DrmKmsPlan.  A pipeline is named by its    *)
(* connector, which it binds exclusively.                                      *)
(*                                                                             *)
(* Ownership is counted by references in the code: BindPipeline hands out a    *)
(* shared BindingOwner, and an object is free again when the last copy dies.   *)
(* The copies are the state of this module: pipe (encoder, CRTC and primary    *)
(* plane of DrmDisplayPipeline), plan (current_plan_ of HwcDisplay), active    *)
(* and staged (used_planes of the two KmsStates of DrmAtomicStateManager).     *)
(*                                                                             *)
(* The hotplug handler walks over the connectors under the main lock: while    *)
(* todo is not empty no other action is possible.                              *)
EXTENDS Integers, Sequences, FiniteSets, Functions

CONSTANTS
  Connectors,    \* GetOrderedConnectors(): connectors in the order of the walk
  Encoders,      \* GetEncoders(), in device order
  Crtcs,         \* GetCrtcs(), in device order
  Supported,     \* [connector -> encoders it may use]       (connector_->encoders)
  PossibleCrtcs, \* [encoder -> CRTCs it may drive]          (enc_->possible_crtcs)
  BootCrtc,      \* [encoder -> CRTC it drove when the device was opened, or None]
  Planes,        \* GetPlanes(): plane 1..NumPlanes as the kernel describes them
  PlanesEnabled, \* vendor.hwcomposer.planes.enabling and use_overlay_planes
  PlanesNum,     \* vendor.hwcomposer.planes.num
  MinResolution, \* the smallest and the largest size the device shows, <<w, h>>
  MaxResolution,
  Layers,        \* the layers a frame may hold, as the client describes them
  MaxLayers,     \* bound: layers on planes in one frame
  None

NumPlanes == Len(Planes)
Plane == 1..NumPlanes

\* What DrmPlane::Init asks for; without one of these there is no plane.
Mandatory == {"type", "CRTC_ID", "FB_ID", "CRTC_XYWH", "SRC_XYWH"}

\* DrmDevice::Init stores what DrmPlane::CreateInstance returns unchecked, so a
\* plane that cannot be created is a null entry which TryCreatePipeline
\* dereferences: the module is about devices whose planes can all be created,
\* and whose lists name an object once.
ASSUME DeviceAssumption ==
  /\ \A p \in Plane : Mandatory \subseteq Planes[p].props
  /\ \A p \in Plane : Planes[p].type \in {"overlay", "primary", "cursor"}
  /\ None \notin Range(Connectors) \cup Range(Encoders) \cup Range(Crtcs) \cup Plane
  /\ BootCrtc \in [Range(Encoders) -> Range(Crtcs) \cup {None}]
  /\ Connectors \in Seq(Range(Connectors)) /\ Planes \in Seq(Range(Planes))
  /\ MaxLayers \in Nat /\ \A n \in 1..MaxLayers : None \notin [1..n -> Plane]

VARIABLES
  pipe,      \* [connector -> its DrmDisplayPipeline or None]
  plan,      \* [connector -> planes of current_plan_]
  validated, \* [connector -> layers of the last successful validation, or None]
  active,    \* [connector -> used_planes of active_frame_state_]
  staged,    \* [connector -> used_planes of staged_frame_state_, or None]
  reserved,  \* [CRTC -> connector_id_ or None]
  connected, \* [connector -> IsConnected() when it was last read]
  todo       \* connectors the running hotplug handler has not visited

vars == <<pipe, plan, validated, active, staged, reserved, connected, todo>>

Conn == Range(Connectors)

Init ==
  /\ pipe = [c \in Conn |-> None]
  /\ plan = [c \in Conn |-> {}]
  /\ validated = [c \in Conn |-> None]
  /\ active = [c \in Conn |-> {}]
  /\ staged = [c \in Conn |-> None]
  /\ reserved = [r \in Range(Crtcs) |-> None]
  /\ connected = [c \in Conn |-> FALSE]
  /\ todo = <<>>

-------------------------------------------------------------------------------
(* Planes *)

\* GetPlaneProperty and AtomicSet: a property the kernel does not list has no number,
\* and setting it is refused.
GetPlaneProperty(p, name) == name \in Planes[p].props
AtomicSet(p, name) == GetPlaneProperty(p, name)

\* The enumerators of a property that the code knows, as what they mean to it.  A
\* transform is the set of its flips and rotations; combinations are not listed.
AddEnumToMap(names, meaning) == {meaning[n] : n \in names \cap DOMAIN meaning}
Rotations == [rotate_0 |-> {}, rotate_90 |-> {"rot90"}, rotate_180 |-> {"rot180"},
              rotate_270 |-> {"rot270"}, reflect_x |-> {"flipH"}, reflect_y |-> {"flipV"}]
BlendModes == [Pre_multiplied |-> "premult", Coverage |-> "coverage", None |-> "none"]

\* DrmPlane::Init: a plane without a rotation property shows layers upright; "none"
\* and "premult" blending and the format NV12_INTEL need no property.
DrmPlane == [p \in Plane |->
  LET raw == Planes[p]
  IN [type |-> raw.type, crtcs |-> raw.crtcs,
      formats |-> raw.formats \cup {"nv12_intel"},
      transforms |-> IF GetPlaneProperty(p, "rotation")
                     THEN AddEnumToMap(raw.rotations, Rotations) ELSE {{}},
      alpha |-> GetPlaneProperty(p, "alpha"),
      blends |-> {"none", "premult"}
                   \cup IF GetPlaneProperty(p, "pixel blend mode")
                        THEN AddEnumToMap(raw.blends, BlendModes) ELSE {}]]

\* The planes DrmDevice::Init keeps: all of them, or the primary ones.
Kept == {p \in Plane : PlanesEnabled \/ DrmPlane[p].type = "primary"}

Supports(p, r) == r \in DrmPlane[p].crtcs

\* The planes a connector's pipeline, plan and frames refer to.
HeldPlanes(c) ==
  (IF pipe[c] = None THEN {} ELSE {pipe[c].primary})
    \cup plan[c] \cup active[c] \cup (IF staged[c] = None THEN {} ELSE staged[c])

\* Faulty: a plane is free as soon as no other display shows it.
MayBindUnlessShown(c, p) == \A d \in Conn \ {c} : p \notin active[d]
\* BindPipeline(pipe, return_object_if_bound = true) succeeds.
MayBind(c, p) == \A d \in Conn \ {c} : p \notin HeldPlanes(d)

\* GetUsablePlanes: the primary plane, then the first overlays of the device
\* that can be shown on this CRTC and that no other pipeline owns.
OverlaysFor(r) == {p \in Kept : DrmPlane[p].type = "overlay" /\ Supports(p, r)}
GetUsablePlanes(c) ==
  LET overlays == OverlaysFor(pipe[c].crtc)
  IN {pipe[c].primary} \cup
     {p \in overlays : /\ MayBind(c, p)
                       /\ Cardinality({q \in overlays : q < p}) < PlanesNum - 1}

\* HwcLayer: what the client sets, as the planes see it.  Both flips, with or without
\* the quarter turn, are a rotation of their own.
SetLayerTransform(t) ==
  CASE t = {"flipH", "flipV"} -> {"rot180"}
    [] t = {"flipH", "flipV", "rot90"} -> {"rot270"}
    [] OTHER -> t
\* A mode that is not known leaves the buffer's own, which is undefined.
SetLayerBlendMode(mode) == IF mode \in {"none", "premult", "coverage"} THEN mode ELSE "undefined"
\* The alpha, here in thousandths, rounded to 16 bits.
SetLayerPlaneAlpha(alpha) == (alpha * 65535 + 500) \div 1000

\* The limits are the device's.
IsResolutionSupported(size) ==
  \A i \in 1..2 : MinResolution[i] <= size[i] /\ size[i] <= MaxResolution[i]

IsValidForLayer(p, l) ==
  /\ SetLayerTransform(l.transform) \in DrmPlane[p].transforms
  /\ DrmPlane[p].alpha \/ SetLayerPlaneAlpha(l.alpha) = 65535
  /\ SetLayerBlendMode(l.blend) \in DrmPlane[p].blends
  /\ l.format \in DrmPlane[p].formats
  /\ IsResolutionSupported(l.size)

\* DrmPlane::AtomicSetState: what keeps a joining out of the request.  Fences
\* are set on real commits only.
AtomicSetState(p, l, test) == l.fence /\ ~test => AtomicSet(p, "IN_FENCE_FD")

\* The order of the usable planes: the primary one first, then device order.
Rank(c, p) == IF p = pipe[c].primary THEN 0 ELSE p

\* CreateDrmKmsPlan walks over the usable planes once: a layer is joined with
\* the first plane after the one of the layer before it that is valid for it, and
\* the planes skipped are gone.  There is no plan when the planes run out.
Joinings(c, ls) ==
  LET usable == GetUsablePlanes(c)
      prev(f, i) == IF i = 1 THEN -1 ELSE Rank(c, f[i-1])
  IN {f \in [DOMAIN ls -> usable] :
        \A i \in DOMAIN ls :
          /\ IsValidForLayer(f[i], ls[i])
          /\ prev(f, i) < Rank(c, f[i])
          /\ \A p \in usable :
               prev(f, i) < Rank(c, p) /\ Rank(c, p) < Rank(c, f[i])
                 => ~IsValidForLayer(p, ls[i])}
CreateDrmKmsPlan(c, ls) ==
  LET walk == Joinings(c, ls)
  IN IF walk = {} THEN None ELSE CHOOSE f \in walk : TRUE

-------------------------------------------------------------------------------
(* Pipelines *)

FreeEncoder(e) == \A d \in Conn : pipe[d] # None => pipe[d].encoder # e
FreeCrtc(r) == \A d \in Conn : pipe[d] # None => pipe[d].crtc # r
FreePlane(p) == \A d \in Conn : p \notin HeldPlanes(d)

PrimaryPlanes(r) == {p \in Kept : DrmPlane[p].type = "primary" /\ Supports(p, r)}

\* TryCreatePipeline: encoder and CRTC are free, and the CRTC has one primary
\* plane, free too.  When one binding fails the others are given back.
TryCreatePipeline(e, r) ==
  /\ FreeEncoder(e)
  /\ FreeCrtc(r)
  /\ \E p \in Plane : PrimaryPlanes(r) = {p} /\ FreePlane(p)

CanBind(c, r) == reserved[r] \in {None, c}

\* Place of a CRTC in the attempts of TryCreatePipelineUsingEncoder: the CRTC
\* the encoder had at the start comes first and is not asked CanBind.
CrtcRank(c, e, r) ==
  {0 : x \in {r} \cap {BootCrtc[e]}}
    \cup {i \in DOMAIN Crtcs :
            Crtcs[i] = r /\ r \in PossibleCrtcs[e] /\ CanBind(c, r)}

\* Place of an encoder in the attempts of CreatePipeline: the one the connector
\* has now comes first.
EncoderRank(c, current, e) ==
  {0 : x \in {e} \cap {current}}
    \cup {i \in DOMAIN Encoders : Encoders[i] = e /\ e \in Supported[c]}

\* CreatePipeline: all attempts that would succeed, and the first of them.
Attempts(c, current) ==
  {a \in Range(Encoders) \X Range(Crtcs) :
     /\ EncoderRank(c, current, a[1]) # {}
     /\ CrtcRank(c, a[1], a[2]) # {}
     /\ TryCreatePipeline(a[1], a[2])}
Least(S) == CHOOSE i \in S : \A j \in S : i <= j
Earlier(c, current, a, b) ==
  LET ea == Least(EncoderRank(c, current, a[1]))
      eb == Least(EncoderRank(c, current, b[1]))
  IN \/ ea < eb
     \/ ea = eb /\ Least(CrtcRank(c, a[1], a[2])) <= Least(CrtcRank(c, b[1], b[2]))
CreatePipeline(c, current) ==
  LET as == Attempts(c, current)
      first == {x \in as : \A y \in as : Earlier(c, current, x, y)}
  IN IF first = {} THEN None
     ELSE LET a == CHOOSE x \in first : TRUE
          IN [encoder |-> a[1], crtc |-> a[2],
              primary |-> CHOOSE p \in Plane : PrimaryPlanes(a[2]) = {p}]

-------------------------------------------------------------------------------
\* CommitFrame promotes a staged frame before it commits the next one.
Promoted(c) == IF staged[c] = None THEN active[c] ELSE staged[c]

-------------------------------------------------------------------------------
(* The hotplug handler: ResourceManager::UpdateFrontendDisplays *)

StartUpdate ==
  /\ todo = <<>>
  /\ todo' = Connectors
  /\ UNCHANGED <<pipe, plan, validated, active, staged, reserved, connected>>

\* Connected and without a pipeline: create one and reserve its CRTC.
Attach(c) ==
  /\ pipe[c] = None
  /\ connected' = [connected EXCEPT ![c] = TRUE]
  /\ \E current \in Supported[c] \cup {None} :
       LET new == CreatePipeline(c, current)
       IN /\ pipe' = [pipe EXCEPT ![c] = new]
          /\ reserved' = IF new = None THEN reserved
                         ELSE [reserved EXCEPT ![new.crtc] = c]
  /\ UNCHANGED <<plan, validated, active, staged>>

\* Disconnected: HwcDisplay::Deinit drops the plan, and the pipeline dies with
\* the frames of its DrmAtomicStateManager.
Detach(c) ==
  /\ connected' = [connected EXCEPT ![c] = FALSE]
  /\ pipe' = [pipe EXCEPT ![c] = None]
  /\ plan' = [plan EXCEPT ![c] = {}]
  /\ validated' = [validated EXCEPT ![c] = None]
  /\ active' = [active EXCEPT ![c] = {}]
  /\ staged' = [staged EXCEPT ![c] = None]
  /\ UNCHANGED reserved

\* Connected and attached: a bad link is trained again through SetPowerMode and
\* ChosePreferredConfig, which leave planes and frames alone.
LinkChecked(c) ==
  /\ pipe[c] # None
  /\ UNCHANGED <<pipe, plan, validated, active, staged, reserved, connected>>

UpdateNext ==
  /\ todo # <<>>
  /\ todo' = Tail(todo)
  /\ LET c == Head(todo)
     IN \/ Attach(c)
        \/ Detach(c)
        \/ LinkChecked(c)

-------------------------------------------------------------------------------
(* Frames: HwcDisplay::CreateComposition *)

Locked == todo # <<>>

\* Faulty: the plan is not stored.
ForgetPlan(c, new) == plan' = [plan EXCEPT ![c] = {}]
\* PresentDisplay and ValidateDisplay replace the plan before the commit, which
\* then may fail; without a plan there is none.
StorePlan(c, new) ==
  plan' = [plan EXCEPT ![c] = IF new = None THEN {} ELSE Range(new)]

\* The layers that are left for planes when ValidateDisplay has marked the rest
\* as client layers, and the test commit of that division.
ValidateDisplay(c) ==
  /\ ~Locked
  /\ pipe[c] # None
  /\ \E n \in 1..MaxLayers : \E ls \in [1..n -> Layers], ok \in BOOLEAN :
       LET new == CreateDrmKmsPlan(c, ls)
           built == /\ new # None
                    /\ \A i \in 1..n : AtomicSetState(new[i], ls[i], TRUE)
       IN /\ StorePlan(c, new)
          /\ validated' = [validated EXCEPT ![c] = IF built /\ ok THEN ls ELSE None]
  /\ UNCHANGED <<pipe, active, staged, reserved, connected, todo>>

\* The real commit of the validated layers.  It fails for want of a plan, of a
\* property or of the kernel's consent; it is staged, or in place at once when
\* it changes the mode.
PresentDisplay(c) ==
  /\ ~Locked
  /\ pipe[c] # None
  /\ validated[c] # None
  /\ LET ls == validated[c]
         new == CreateDrmKmsPlan(c, ls)
         built == /\ new # None
                  /\ \A i \in DOMAIN ls : AtomicSetState(new[i], ls[i], FALSE)
     IN /\ StorePlan(c, new)
        /\ \/ /\ ~built
              /\ UNCHANGED <<active, staged>>
           \/ /\ built
              /\ active' = [active EXCEPT ![c] = Promoted(c)]
              /\ staged' = [staged EXCEPT ![c] = None]
           \/ /\ built
              /\ active' = [active EXCEPT ![c] = Promoted(c)]
              /\ staged' = [staged EXCEPT ![c] = Range(new)]
           \/ /\ built
              /\ active' = [active EXCEPT ![c] = Range(new)]
              /\ staged' = [staged EXCEPT ![c] = None]
  /\ UNCHANGED <<pipe, validated, reserved, connected, todo>>

\* The present tracker sees the flip.
Promote(c) ==
  /\ ~Locked
  /\ staged[c] # None
  /\ active' = [active EXCEPT ![c] = staged[c]]
  /\ staged' = [staged EXCEPT ![c] = None]
  /\ UNCHANGED <<pipe, plan, validated, reserved, connected, todo>>

\* ResourceManager::DeInit destroys pipelines and devices, Init opens them anew.
Restart ==
  /\ ~Locked
  /\ pipe' = [c \in Conn |-> None]
  /\ plan' = [c \in Conn |-> {}]
  /\ validated' = [c \in Conn |-> None]
  /\ active' = [c \in Conn |-> {}]
  /\ staged' = [c \in Conn |-> None]
  /\ reserved' = [r \in Range(Crtcs) |-> None]
  /\ connected' = [c \in Conn |-> FALSE]
  /\ todo' = Connectors

Next ==
  \/ StartUpdate
  \/ UpdateNext
  \/ Restart
  \/ \E c \in Conn : ValidateDisplay(c) \/ PresentDisplay(c) \/ Promote(c)

Spec == Init /\ [][Next]_vars

-------------------------------------------------------------------------------
(* Properties *)

TypeOK ==
  /\ pipe \in [Conn -> [encoder : Range(Encoders), crtc : Range(Crtcs),
                         primary : Plane] \cup {None}]
  /\ plan \in [Conn -> SUBSET Plane]
  /\ active \in [Conn -> SUBSET Plane]
  /\ staged \in [Conn -> (SUBSET Plane) \cup {None}]
  /\ reserved \in [Range(Crtcs) -> Conn \cup {None}]
  /\ connected \in [Conn -> BOOLEAN]
  /\ todo \in Seq(Conn)

\* Pipelines never share an encoder, a CRTC or a plane, whatever plans, frames
\* on screen and frames not yet on screen still refer to; and a connector
\* without a pipeline owns nothing (BindPipeline, BindingOwner).
ExclusiveOwnership ==
  /\ \A c, d \in Conn : c # d =>
       /\ HeldPlanes(c) \cap HeldPlanes(d) = {}
       /\ pipe[c] # None /\ pipe[d] # None =>
            pipe[c].encoder # pipe[d].encoder /\ pipe[c].crtc # pipe[d].crtc
  /\ \A c \in Conn : pipe[c] = None => HeldPlanes(c) = {}

\* "Store plan to ensure shared planes won't be stolen by other display in
\* between of ValidateDisplay() and PresentDisplay() calls": the layers of a
\* successful validation can be planned again whatever the other displays
\* took, gave back or plugged since.
ValidatedPlanFits ==
  \A c \in Conn : validated[c] # None => CreateDrmKmsPlan(c, validated[c]) # None

\* "Try to find a possible crtc which will work": when the handler has visited
\* the connectors, one that is connected has no pipeline only if none of its
\* encoders is free together with a CRTC it may drive.
FreeCrtcServesConnector ==
  todo = <<>> =>
    \A c \in Conn : connected[c] /\ pipe[c] = None =>
      \A e \in Supported[c], r \in Range(Crtcs) :
        r \in PossibleCrtcs[e] => ~TryCreatePipeline(e, r)
===============================================================================
