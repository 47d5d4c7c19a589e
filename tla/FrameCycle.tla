------------------------------ MODULE FrameCycle ------------------------------
(***************************************************************************)
(* One display's frame cycle: Backend::ValidateDisplay                     *)
(* (backend/Backend.cpp) and the part of HwcDisplay around it              *)
(* (hwc2_device/HwcDisplay.cpp): validate, accept, present, release        *)
(* fences.  Every call runs under the main lock; ValidateDisplay is split  *)
(* at the test commit so that the proposal it tests can be seen.           *)
(*                                                                         *)
(* The layers are numbered 0 .. n-1 from the bottom up, as                 *)
(* GetOrderLayersByZPos orders them: clients give them different z-orders  *)
(* (of two with the same one, CreateComposition shows only the first).     *)
(* The display has a pipeline: in headless mode every one of these calls   *)
(* returns at once.                                                        *)
(***************************************************************************)
EXTENDS ClientRange

CONSTANTS
    MaxLayers, MaxPlanes,
    MaxChanging,     \* bound: with more layers than this every frame is the same
    Kinds,           \* what a layer can be: [forced, video, area, sf]
    Revalidate,      \* the client may validate again before it presents
    BadLayerMayHappen \* a present may find a layer without a framebuffer, or
                      \* no planes for its layers

(* forced: IsClientLayer for another reason than its type (no usable       *)
(* buffer, colour transform, scaling on the GPU); video: IsVideoLayer; sf: *)
(* the composition type the client sets.                                   *)
LayerKinds == [forced : BOOLEAN, video : BOOLEAN, area : Nat,
               sf : {"Device", "Cursor", "Client", "Decoration"}]

ASSUME CycleAssumption ==
    /\ MaxLayers \in Nat \ {0}
    /\ MaxPlanes \in Nat \ {0} /\ MaxPlanes < SizeMod
    /\ MaxChanging \in Nat
    /\ Kinds \subseteq LayerKinds
    /\ {Revalidate, BadLayerMayHappen} \subseteq BOOLEAN

VARIABLES
    n,          \* number of layers of the display
    planes,     \* GetUsablePlanes().size()
    kind,       \* the state of each layer
    sf,         \* sf_type_
    validated,  \* validated_type_
    scanout,    \* prior_buffer_scanout_flag_
    pc,         \* "open", "proposed", "validated", "presented"
    range,      \* client_start, client_size
    num_types,  \* what ValidateDisplay returned
    shown,      \* the layers on planes since the last commit (history)
    skipped     \* presents came to nothing since that commit (history)

vars == <<n, planes, kind, sf, validated, scanout, pc, range, num_types, shown,
          skipped>>

Layers == 0 .. n - 1

Init ==
    /\ n \in 1 .. MaxLayers
    /\ planes \in 1 .. MaxPlanes
    /\ kind \in [Layers -> Kinds]
    /\ sf = [i \in Layers |-> kind[i].sf]
    /\ validated = [i \in Layers |-> "Invalid"]
    /\ scanout = [i \in Layers |-> FALSE]
    /\ pc = "open"
    /\ range = Rng(-1, 0)
    /\ num_types = 0
    /\ shown = {}
    /\ skipped = FALSE

-----------------------------------------------------------------------------
(* IsClientLayer and the two spans GetClientLayers works from.             *)
HardwareSupportsLayerType(t) == t \in {"Device", "Cursor"}
IsClientLayer(i) == ~HardwareSupportsLayerType(sf[i]) \/ kind[i].forced

ClientLayers == {i \in Layers : IsClientLayer(i)}
VideoLayers  == {i \in Layers : kind[i].video}
Area         == [i \in Layers |-> kind[i].area]

MarkValidated(r) ==
    validated' = [i \in Layers |-> IF InRange(i, r) THEN "Client" ELSE "Device"]

AllClient == Rng(0, n)

(* HwcDisplay::ValidateDisplay stores which layers the prior frame scanned *)
(* out before the backend overwrites the types.                            *)
StoreScanOutFlags == scanout' = [i \in Layers |-> validated[i] # "Client"]

(* Faulty: the flags are not stored.                                       *)
BeginValidateOnly ==
    /\ pc \in (IF Revalidate THEN {"open", "validated"} ELSE {"open"})
    /\ UNCHANGED <<n, planes, kind, sf, shown, skipped, scanout>>

BeginValidate ==
    /\ pc \in (IF Revalidate THEN {"open", "validated"} ELSE {"open"})
    /\ StoreScanOutFlags
    /\ UNCHANGED <<n, planes, kind, sf, shown, skipped>>

(* A DISPLAY_DECORATION layer: the backend returns Unsupported at once.    *)
HasDecoration == \E i \in Layers : sf[i] = "Decoration"

ValidateUnsupported ==
    /\ BeginValidate
    /\ HasDecoration
    /\ num_types' = 0
    /\ UNCHANGED <<validated, pc, range>>

(* ProcessClientFlatteningState says that the GPU should draw everything.  *)
ValidateFlattened ==
    /\ BeginValidate
    /\ ~HasDecoration
    /\ n > 1
    /\ range' = AllClient
    /\ MarkValidated(AllClient)
    /\ num_types' = n
    /\ pc' = "validated"

ValidateProposal ==
    LET r == GetClientLayers(n, planes, ClientLayers, VideoLayers, Area) IN
    /\ BeginValidate
    /\ ~HasDecoration
    /\ range' = r
    /\ MarkValidated(r)
    /\ num_types' = r.size
    /\ pc' = IF r = AllClient THEN "validated" ELSE "proposed"

(* DrmKmsPlan has a plane for every layer of the composition.              *)
PlanExists ==
    Cardinality({i \in Layers : validated[i] = "Device"})
      + (IF \E i \in Layers : validated[i] = "Client" THEN 1 ELSE 0) <= planes

(* The test commit of the proposal.                                        *)
TestPasses ==
    /\ pc = "proposed"
    /\ PlanExists
    /\ pc' = "validated"
    /\ UNCHANGED <<n, planes, kind, sf, validated, scanout, range, num_types, shown, skipped>>

TestFails ==
    /\ pc = "proposed"
    /\ range' = AllClient
    /\ MarkValidated(AllClient)
    /\ num_types' = n
    /\ pc' = "validated"
    /\ UNCHANGED <<n, planes, kind, sf, scanout, shown, skipped>>

AcceptDisplayChanges ==
    /\ pc = "validated"
    /\ sf' = validated
    /\ UNCHANGED <<n, planes, kind, validated, scanout, pc, range, num_types, shown, skipped>>

(* CreateComposition commits the device layers and the client target.      *)
PresentDisplay ==
    /\ pc = "validated"
    /\ PlanExists
    /\ shown' = {i \in Layers : validated[i] = "Device"}
    /\ pc' = "presented" /\ skipped' = FALSE
    /\ UNCHANGED <<n, planes, kind, sf, validated, scanout, range, num_types>>

(* The commit fails: the clean-up commit takes everything off the planes.  *)
PresentFails ==
    /\ pc = "validated"
    /\ PlanExists
    /\ shown' = {}
    /\ pc' = "presented" /\ skipped' = FALSE
    /\ UNCHANGED <<n, planes, kind, sf, validated, scanout, range, num_types>>

(* CreateComposition finds a layer that is not usable, or planes that do   *)
(* not suit the layers, and returns before the commit: PresentDisplay      *)
(* reports success without a fence, or BadConfig.                          *)
PresentUncommitted ==
    /\ BadLayerMayHappen
    /\ pc = "validated"
    /\ pc' = "presented" /\ skipped' = TRUE
    /\ UNCHANGED <<n, planes, kind, sf, validated, scanout, range, num_types, shown>>

(* The next frame: the client changes one layer's buffer, state or type.   *)
NextFrame ==
    /\ pc \in {"open", "presented"} \cup (IF Revalidate THEN {"validated"} ELSE {})
    /\ pc' = IF pc = "presented" THEN "open" ELSE pc
    /\ \E i \in Layers, k \in Kinds :
        /\ n > MaxChanging => k = kind[i]
        /\ kind' = [kind EXCEPT ![i] = k]
        /\ sf' = [sf EXCEPT ![i] = k.sf]
    /\ UNCHANGED <<n, planes, validated, scanout, range, num_types, shown, skipped>>

Next ==
    \/ ValidateUnsupported
    \/ ValidateFlattened
    \/ ValidateProposal
    \/ TestPasses
    \/ TestFails
    \/ AcceptDisplayChanges
    \/ PresentDisplay
    \/ PresentFails
    \/ PresentUncommitted
    \/ NextFrame

Spec == Init /\ [][Next]_vars

-----------------------------------------------------------------------------
(* Properties.                                                             *)

(* A proposal hands every layer that needs the GPU to the client, whatever *)
(* the search for a cheap range and the video layers do to the range; and  *)
(* without video layers what it leaves fits the planes, one of them kept   *)
(* for the client target.                                                  *)
ProposalSound ==
    pc = "proposed" =>
      /\ \A i \in ClientLayers : validated[i] = "Client"
      /\ VideoLayers = {} => PlanesNeeded(n, range, VideoLayers) <= planes

(* Video layers that follow each other stay on planes whenever some        *)
(* division covers the layers that need the GPU, leaves the video layers   *)
(* out and fits the planes: the cases of GetExtraClientRange2 and its      *)
(* fallbacks miss none.  With other layers between them they may not: the  *)
(* code takes the whole span for video layers.                             *)
VideoStaysOnPlanes ==
    /\ pc = "open"
    /\ \A i \in Layers : InRange(i, Span(VideoLayers)) => i \in VideoLayers
    /\ \E s \in Layers, m \in 0 .. n :
          /\ s + m <= n
          /\ \A i \in ClientLayers : InRange(i, Rng(s, m))
          /\ \A i \in VideoLayers : ~InRange(i, Rng(s, m))
          /\ PlanesNeeded(n, Rng(s, m), VideoLayers) <= planes
    => LET r == GetClientLayers(n, planes, ClientLayers, VideoLayers, Area)
       IN \A i \in VideoLayers : ~InRange(i, r)

(* A proposal fits the planes: one per device layer, one for the client    *)
(* target, a second one per video layer ("too many device video layers, no *)
(* enough planes to use").                                                 *)
ProposalFits ==
    pc = "proposed" => PlanesNeeded(n, range, VideoLayers) <= planes

(* Without video layers no other range that covers the client layers and   *)
(* leaves few enough layers on planes costs the GPU fewer pixels.          *)
ProposalIsCheapest ==
    pc = "proposed" /\ VideoLayers = {} =>
        \A s \in Layers : \A m \in 1 .. n - s :
            /\ \A i \in ClientLayers : InRange(i, Rng(s, m))
            /\ n - m <= AvailPlanes(planes, n)
            => \/ range.size = 0
               \/ CalcPixOps(Area, range) <= CalcPixOps(Area, Rng(s, m))

(* When a frame replaces another, every layer whose buffer the old frame   *)
(* had on a plane gets a release fence from GetReleaseFences, unless a     *)
(* present in between committed nothing.                                   *)
ReleaseFenceForScannedOut ==
    [][pc = "validated" /\ pc' = "presented" /\ ~skipped =>
         \A i \in shown : scanout[i]]_vars

=============================================================================
