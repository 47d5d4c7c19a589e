------------------------- MODULE ComposerServiceProofs -------------------------
(* What the HWC3 service keeps for its client, proved for any number of displays, *)
(* layers, buffers and hotplugs.                                                  *)
EXTENDS ComposerService, TLAPS

-------------------------------------------------------------------------------
(* Partial functions on numbers: the layers of a display and the slots of its cache. *)

Partial(R) == UNION {[S -> R] : S \in SUBSET Nat}

\* What it takes to be one.
LEMMA PartialFunction ==
  ASSUME NEW R, NEW f
  PROVE  f \in Partial(R) <=> DOMAIN f \subseteq Nat /\ f \in [DOMAIN f -> R]
BY DEF Partial

\* No entry at all.
LEMMA PartialEmpty ==
  ASSUME NEW R
  PROVE  <<>> \in Partial(R) /\ DOMAIN <<>> = {}
<1>1. DOMAIN <<>> = {}
  OBVIOUS
<1>2. <<>> \in [{} -> R]
  OBVIOUS
<1> QED
  BY <1>1, <1>2, PartialFunction

-------------------------------------------------------------------------------
(* The inductive invariant *)

Handle == Nat \cup {None}
Buffer == [handle : Handle, fresh : BOOLEAN]
Resources == [must : BOOLEAN, sized : BOOLEAN, target : Handle, layers : Partial(Handle)]
EventRecord == [display : Displays, connected : BOOLEAN]
UEventRecord ==
  [pc : {"idle", "wait", "call", "sleep", "lost"} \cup InCallback, todo : Seq(EventRecord),
   handle : Handle]
Phases == {"none", "created", "hooking", "registered", "detaching", "unhooking", "destroying",
           "destroyed"}

\* Every variable holds a value of its kind; the uevent thread has an event to announce
\* while it announces.
TypeOK ==
  /\ kind \in [Displays -> Kinds]
  /\ layers \in [Displays -> Partial(Buffer)]
  /\ lastLayer \in [Displays -> Nat]
  /\ cached \in [Displays -> {None} \cup Resources]
  /\ call \in {None} \cup CallRecord
  /\ uev \in UEventRecord
  /\ uev.pc \in {"call"} \cup InCallback => uev.todo # <<>>
  /\ made \in Nat
  /\ phase \in Phases

\* From the first callback to the end of ResourceManager::DeInit there are displays.
InUse == {"hooking", "registered", "detaching"}

\* What a handler that waited through DeInit leaves.
NullDisplay == [AllGone EXCEPT ![kPrimaryDisplay] = "headless"]

\* What is there in each phase of the client's life.  A null display is made by the uevent
\* thread itself, which then has no event to tell.
LifeInv ==
  /\ alive <=> phase # "none"
  /\ event <=> (phase \in InUse \cup {"unhooking"})
  /\ phase \notin InUse \cup {"unhooking"} => hooked = {}
  /\ phase \in {"detaching", "unhooking"} => "hotplug" \notin hooked
  /\ phase \notin InUse => layers = NoLayers /\ target = NoTargets
  /\ phase \notin InUse => \/ kind = AllGone
                           \/ kind = NullDisplay /\ uev.pc \in {"idle", "sleep"}
  /\ phase \in {"none", "created", "destroyed"} =>
       cached = NothingCached /\ uev.pc \notin InCallback
  /\ phase # "registered" => call = None

\* A call has a buffer for layer l of display d that the device does not know yet.
Setting(d, l) ==
  /\ call # None /\ call.op = "setLayerBuffer" /\ call.pc = "device"
  /\ call.d = d /\ call.l = l

\* The cache knows no layer that the device has not made, a layer has the buffer of
\* its slot unless it is about to get it, and it is the buffer of the slot that it will
\* get; a layer the cache is about to learn of has none.
BufferInv ==
  /\ \A d \in Displays : cached[d] # None =>
       /\ phase \in InUse =>
            DOMAIN cached[d].layers \subseteq 1..lastLayer[d]
       /\ \A l \in DOMAIN cached[d].layers \cap DOMAIN layers[d] :
            layers[d][l].handle = cached[d].layers[l] \/ Setting(d, l)
       /\ \A l \in DOMAIN cached[d].layers :
            Setting(d, l) => cached[d].layers[l] = call.handle
  /\ call # None /\ call.pc = "addLayer" =>
       /\ call.l \in 1..lastLayer[call.d]
       /\ call.l \in DOMAIN layers[call.d] => layers[call.d][call.l].handle = None

ServiceInv == TypeOK /\ LifeInv /\ BufferInv

-------------------------------------------------------------------------------
(* The process begins, or ends with all it keeps *)

\* A process that has nothing satisfies the invariant.
LEMMA NothingKept ==
  ASSUME kind = AllGone, layers = NoLayers, lastLayer = NoLayerIds, target = NoTargets,
         cached = NothingCached, hooked = {}, event = FALSE, phase = "none", alive = FALSE,
         call = None, uev = Idle, made \in Nat
  PROVE  ServiceInv
<1>1. \A d \in Displays : layers[d] = <<>> /\ cached[d] = None
  BY DEF NoLayers, NothingCached
<1>2. TypeOK
  <2>1. layers \in [Displays -> Partial(Buffer)]
    BY PartialEmpty DEF NoLayers
  <2>2. uev \in UEventRecord /\ uev.pc = "idle"
    BY DEF Idle, UEventRecord, Handle
  <2> QED
    BY <2>1, <2>2 DEF TypeOK, AllGone, NoLayerIds, NothingCached, InCallback, Kinds, Phases
<1>3. LifeInv
  BY DEF LifeInv, Idle, InCallback, InUse
<1>4. BufferInv
  BY <1>1 DEF BufferInv, Setting
<1> QED
  BY <1>2, <1>3, <1>4 DEF ServiceInv

\* The same of the process that init will start again.
LEMMA DiesService ==
  ASSUME ServiceInv, NEW why, Dies(why)
  PROVE  ServiceInv'
<1>1. kind' = AllGone /\ layers' = NoLayers /\ cached' = NothingCached /\ phase' = "none"
      /\ lastLayer' = NoLayerIds /\ target' = NoTargets /\ hooked' = {} /\ event' = FALSE
      /\ alive' = FALSE /\ call' = None /\ uev' = Idle /\ made' \in Nat
  BY DEF Dies, ServiceInv, TypeOK
<1>2. \A d \in Displays : layers'[d] = <<>> /\ cached'[d] = None
  BY <1>1 DEF NoLayers, NothingCached
<1>3. TypeOK'
  <2>1. layers' \in [Displays -> Partial(Buffer)]
    BY <1>1, PartialEmpty DEF NoLayers
  <2>2. uev' \in UEventRecord /\ uev'.pc = "idle"
    BY <1>1 DEF Idle, UEventRecord, Handle
  <2> QED
    BY <1>1, <2>1, <2>2
       DEF TypeOK, AllGone, NoLayerIds, NothingCached, InCallback, Kinds, Phases
<1>4. LifeInv'
  BY <1>1 DEF LifeInv, Idle, InCallback, InUse
<1>5. BufferInv'
  BY <1>1, <1>2 DEF BufferInv, Setting
<1> QED
  BY <1>3, <1>4, <1>5 DEF ServiceInv

-------------------------------------------------------------------------------
(* Composer and the life of its client *)

\* Callbacks come and go, nothing else.
LEMMA HooksService ==
  ASSUME ServiceInv,
         UNCHANGED <<kind, lastDisplay, layers, lastLayer, target, cached, call, uev, made>>,
         phase' \in Phases, phase' = phase \/ (phase = "hooking" /\ phase' = "registered"),
         event' = event, alive' = alive,
         phase = "unhooking" => hooked' \subseteq hooked,
         phase \in {"hooking", "unhooking"}
  PROVE  ServiceInv'
<1>1. TypeOK'
  BY DEF ServiceInv, TypeOK
<1>2. LifeInv'
  BY DEF ServiceInv, LifeInv, InUse
<1>3. BufferInv'
  BY DEF ServiceInv, LifeInv, BufferInv, Setting, InUse
<1> QED
  BY <1>1, <1>2, <1>3 DEF ServiceInv

\* Steps of a client's life keep the invariant.
LEMMA LifeService ==
  ASSUME ServiceInv, Life
  PROVE  ServiceInv'
<1> USE DEF ServiceInv
<1>1. CASE CreateClientTimesOut
  BY <1>1 DEF CreateClientTimesOut, vars, shown, service, TypeOK, LifeInv,
     BufferInv, Setting
<1>2. CASE CreateClient
  <2>1. TypeOK'
    BY <1>2 DEF CreateClient, shown, others, TypeOK, Phases
  <2>2. LifeInv'
    BY <1>2 DEF CreateClient, shown, others, LifeInv, InUse
  <2>3. BufferInv'
    BY <1>2 DEF CreateClient, shown, others, BufferInv, Setting, InUse
  <2> QED
    BY <2>1, <2>2, <2>3
<1>3. CASE RegisterHotplug
  <2>1. /\ UNCHANGED <<layers, lastLayer, target, alive, call, uev, made>>
        /\ phase = "created" /\ phase' = "hooking" /\ event' = TRUE /\ hooked' = {"hotplug"}
    BY <1>3 DEF RegisterHotplug, others
  <2>2. kind' \in [Displays -> Kinds]
    BY <1>3, ServiceAssumption DEF RegisterHotplug, BindFound, TypeOK, Kinds
  <2>3. /\ cached' \in [Displays -> {None, NoResources}]
        /\ \A d \in Displays : cached'[d] \in {None, NoResources}
    BY <1>3 DEF RegisterHotplug
  <2>4. NoResources \in Resources /\ DOMAIN NoResources.layers = {}
    BY PartialEmpty DEF NoResources, Resources, Handle
  <2>5. TypeOK'
    BY <2>1, <2>2, <2>3, <2>4 DEF TypeOK, Phases
  <2>6. LifeInv'
    BY <2>1 DEF LifeInv, InUse
  <2>7. call = None /\ call' = None
    BY <2>1 DEF LifeInv
  <2>8. BufferInv'
    BY <2>3, <2>4, <2>7 DEF BufferInv, Setting
  <2> QED
    BY <2>5, <2>6, <2>8
<1>4. ASSUME NEW i \in DOMAIN LockedHooks, RegisterLockedHook(i)
      PROVE  ServiceInv'
  BY <1>4, HooksService DEF RegisterLockedHook, shown, others, Phases
<1>5. ASSUME NEW i \in DOMAIN LockedHooks, UnregisterLockedHook(i)
      PROVE  ServiceInv'
  <2>1. /\ UNCHANGED <<kind, lastDisplay, layers, lastLayer, target, cached, call, uev, made>>
        /\ phase = "unhooking" /\ phase' = phase /\ event' = event /\ alive' = alive
        /\ hooked' \subseteq hooked
    BY <1>5 DEF UnregisterLockedHook, shown, others
  <2> QED
    BY <2>1, HooksService DEF Phases
<1>6. CASE UnregisterHotplug
  <2>1. /\ UNCHANGED <<layers, lastLayer, cached, alive, call, uev, made>>
        /\ phase = "registered" /\ phase' = "detaching" /\ event' = event
        /\ hooked' = hooked \ {"hotplug"} /\ call' = None
        /\ kind' = [d \in Displays |-> IF Real(d) THEN "headless" ELSE kind[d]]
    BY <1>6 DEF UnregisterHotplug, others, EventWhileUnhooking
  <2>2. TypeOK'
    BY <2>1 DEF TypeOK, Phases, Kinds
  <2>3. LifeInv'
    BY <2>1 DEF LifeInv, InUse
  <2>4. BufferInv'
    BY <2>1 DEF BufferInv, Setting, InUse
  <2> QED
    BY <2>2, <2>3, <2>4
<1>10. CASE RegisterCallback
  <2>1. CASE Dies("detached")
    BY <2>1, DiesService
  <2>2. CASE ~Dies("detached")
    <3>1. /\ UNCHANGED <<cached, hooked, event, alive, call, uev, made>>
          /\ phase = "detaching" /\ phase' = "unhooking"
          /\ kind' = AllGone /\ layers' = NoLayers /\ lastLayer' = NoLayerIds
          /\ target' = NoTargets
      BY <1>10, <2>2 DEF RegisterCallback, others
    <3>2. TypeOK'
      BY <3>1, PartialEmpty DEF TypeOK, AllGone, NoLayers, NoLayerIds, Phases, Kinds
    <3>3. LifeInv'
      BY <3>1 DEF LifeInv, InUse
    <3>4. \A d \in Displays : DOMAIN layers'[d] = {}
      BY <3>1, PartialEmpty DEF NoLayers
    <3>5. call' = None
      BY <3>1 DEF LifeInv
    <3>6. BufferInv'
      BY <3>1, <3>4, <3>5 DEF BufferInv, Setting, InUse
    <3> QED
      BY <3>2, <3>3, <3>6
  <2> QED
    BY <2>1, <2>2
<1>7. CASE ResetEventCallback
  <2>1. TypeOK'
    BY <1>7 DEF ResetEventCallback, shown, others, TypeOK, Phases
  <2>2. LifeInv'
    BY <1>7 DEF ResetEventCallback, shown, others, LifeInv, InUse
  <2>3. BufferInv'
    BY <1>7 DEF ResetEventCallback, shown, others, BufferInv, Setting, InUse
  <2> QED
    BY <2>1, <2>2, <2>3
<1>8. CASE DestroyResources
  <2>1. /\ UNCHANGED <<kind, layers, lastLayer, target, hooked, event, alive, call, made>>
        /\ phase = "destroying" /\ phase' = "destroyed" /\ cached' = NothingCached
        /\ uev' = [uev EXCEPT !.pc = IF uev.pc \in InCallback THEN "lost" ELSE uev.pc]
    BY <1>8 DEF DestroyResources, shown, ResourcesLeft, TypeOK, UEventRecord
  <2>2. /\ uev' \in UEventRecord /\ uev'.pc \notin InCallback
        /\ uev'.pc = "call" => uev'.todo # <<>>
        /\ uev.pc \in {"idle", "sleep"} => uev'.pc = uev.pc
    BY <2>1 DEF TypeOK, UEventRecord, InCallback
  <2>3. TypeOK'
    BY <2>1, <2>2 DEF TypeOK, NothingCached, Phases
  <2>4. LifeInv'
    BY <2>1, <2>2 DEF LifeInv, InUse
  <2>5. \A d \in Displays : cached'[d] = None
    BY <2>1 DEF NothingCached
  <2>6. BufferInv'
    BY <2>1, <2>5 DEF BufferInv, Setting, LifeInv
  <2> QED
    BY <2>3, <2>4, <2>6
<1>9. CASE ClientDestroyed
  <2>1. TypeOK'
    BY <1>9 DEF ClientDestroyed, shown, others, TypeOK, Phases
  <2>2. LifeInv'
    BY <1>9 DEF ClientDestroyed, shown, others, LifeInv, AliveOnDestroyed, InUse
  <2>3. BufferInv'
    BY <1>9 DEF ClientDestroyed, shown, others, BufferInv, Setting, InUse
  <2> QED
    BY <2>1, <2>2, <2>3
<1> QED
  BY <1>1, <1>2, <1>3, <1>4, <1>5, <1>6, <1>7, <1>8, <1>9, <1>10 DEF Life

-------------------------------------------------------------------------------
(* The uevent thread *)

\* An event that the thread may be in.
UEventOK == /\ uev \in UEventRecord
            /\ uev.pc \in {"call"} \cup InCallback => uev.todo # <<>>

\* A display changes its pipeline: the callback for hotplugs is registered.
LEMMA HotplugService ==
  ASSUME ServiceInv, "hotplug" \in hooked, kind' \in [Displays -> Kinds], UEventOK',
         UNCHANGED <<layers, lastLayer, cached, service, call, made>>
  PROVE  ServiceInv'
<1>1. phase \in {"hooking", "registered"} /\ phase' = phase
  BY DEF ServiceInv, TypeOK, LifeInv, Phases, InUse, service
<1>2. TypeOK'
  BY <1>1 DEF ServiceInv, TypeOK, UEventOK
<1>3. LifeInv'
  BY <1>1 DEF ServiceInv, LifeInv, InUse, service
<1>4. BufferInv'
  BY <1>1 DEF ServiceInv, BufferInv, Setting
<1> QED
  BY <1>2, <1>3, <1>4 DEF ServiceInv

\* A callback at work empties what the cache keeps for a display, or makes it anew, and
\* gives the device the client target once more, if there is a display.
LEMMA CallbackService ==
  ASSUME ServiceInv, phase \notin {"none", "created", "destroyed"}, UEventKeeps, UEventOK',
         cached' \in [Displays -> {None} \cup Resources],
         \A d \in Displays : cached'[d] \in {cached[d], None, NoResources},
         uev.pc \in {"call"} \cup InCallback, kind = AllGone => target' = target
  PROVE  ServiceInv'
<1>1. UNCHANGED <<kind, layers, lastLayer, hooked, event, phase, alive, call, made>>
  BY DEF UEventKeeps, service
<1>2. TypeOK'
  BY <1>1 DEF ServiceInv, TypeOK, UEventOK
<1>3. LifeInv'
  BY <1>1 DEF ServiceInv, LifeInv, InCallback
<1>4. DOMAIN NoResources.layers = {}
  BY PartialEmpty DEF NoResources
<1>5. BufferInv'
  BY <1>1, <1>4 DEF ServiceInv, BufferInv, Setting
<1> QED
  BY <1>2, <1>3, <1>5 DEF ServiceInv

\* The event at hand is about a display.
LEMMA EventAtHand ==
  ASSUME TypeOK, uev.pc \in {"call"} \cup InCallback
  PROVE  Event \in EventRecord /\ Event.display \in Displays
<1>1. uev.todo \in Seq(EventRecord) /\ uev.todo # <<>>
  BY DEF TypeOK, UEventRecord
<1>2. Event \in EventRecord
  BY <1>1 DEF Event
<1> QED
  BY <1>2 DEF EventRecord

\* What is left of several events.
LEMMA TailOfMany ==
  ASSUME NEW S, NEW s \in Seq(S), Len(s) > 1
  PROVE  Tail(s) \in Seq(S) /\ Tail(s) # <<>>
<1>1. Tail(s) \in Seq(S) /\ Len(Tail(s)) = Len(s) - 1 /\ Len(s) \in Nat
  OBVIOUS
<1>2. Len(Tail(s)) # 0
  BY <1>1
<1>3. ASSUME NEW t, t = <<>> PROVE Len(t) = 0
  BY <1>3
<1> QED
  BY <1>1, <1>2, <1>3

\* So do the steps of the uevent thread.
LEMMA UEventsService ==
  ASSUME ServiceInv, UEvents
  PROVE  ServiceInv'
<1> USE DEF ServiceInv
<1>0. InCallback \subseteq {"clean", "remove", "add", "told"} /\ "call" \notin InCallback
      /\ {"clean", "remove", "add", "told"} \subseteq InCallback
  BY DEF InCallback
<1>1. ASSUME NEW k \in Monitors, Plug(k) PROVE ServiceInv'
  <2>1. PICK d \in Displays : /\ kind' = [kind EXCEPT ![d] = k]
                              /\ Announces(<<[display |-> d, connected |-> TRUE]>>)
    BY <1>1 DEF Plug
  <2>2. kind' \in [Displays -> Kinds]
    BY <2>1, ServiceAssumption DEF TypeOK, Kinds
  <2>3. UEventOK'
    <3>1. [display |-> d, connected |-> TRUE] \in EventRecord
      BY DEF EventRecord
    <3>2. <<[display |-> d, connected |-> TRUE]>> \in Seq(EventRecord) \ {<<>>}
      BY <3>1
    <3> QED
      BY <2>1, <3>2 DEF Announces, UEventOK, UEventRecord, Handle
  <2> QED
    BY <1>1, <2>2, <2>3, HotplugService DEF Plug, Updates
<1>2. ASSUME NEW d \in Displays, Unplug(d) PROVE ServiceInv'
  <2>1. PICK heir \in Displays :
          /\ kind' = [kind EXCEPT ![heir] = "headless",
                                  ![d] = IF heir = d THEN "headless" ELSE kind[heir]]
          /\ Announces(IF heir = d
                       THEN <<[display |-> d, connected |-> d = kPrimaryDisplay]>>
                       ELSE <<[display |-> d, connected |-> TRUE],
                              [display |-> heir, connected |-> FALSE]>>)
    BY <1>2 DEF Unplug
  <2>2. kind' \in [Displays -> Kinds]
    BY <2>1 DEF TypeOK, Kinds
  <2>3. UEventOK'
    <3>1. /\ [display |-> d, connected |-> d = kPrimaryDisplay] \in EventRecord
          /\ [display |-> d, connected |-> TRUE] \in EventRecord
          /\ [display |-> heir, connected |-> FALSE] \in EventRecord
      BY DEF EventRecord
    <3>2. /\ <<[display |-> d, connected |-> d = kPrimaryDisplay]>> \in Seq(EventRecord) \ {<<>>}
          /\ <<[display |-> d, connected |-> TRUE], [display |-> heir, connected |-> FALSE]>>
               \in Seq(EventRecord) \ {<<>>}
      BY <3>1
    <3> QED
      BY <2>1, <3>2 DEF Announces, UEventOK, UEventRecord, Handle
  <2> QED
    BY <1>2, <2>2, <2>3, HotplugService DEF Unplug, Updates
<1>3. CASE OnHotplug
  <2>1. CASE Dies("teardown")
    BY <2>1, DiesService
  <2>2. CASE /\ event /\ UNCHANGED <<target, cached>> /\ UEventKeeps
             /\ LET d == Event.display
                    known == cached[d] # None
                IN  uev' = [uev EXCEPT !.pc = IF ~Event.connected THEN "remove"
                                              ELSE IF ~known THEN "add"
                                              ELSE IF cached[d].sized THEN "clean" ELSE "remove",
                                       !.handle = IF known THEN cached[d].target ELSE None]
    <3> DEFINE d == Event.display
               pc == IF ~Event.connected THEN "remove"
                     ELSE IF ~(cached[d] # None) THEN "add"
                     ELSE IF cached[d].sized THEN "clean" ELSE "remove"
               h == IF cached[d] # None THEN cached[d].target ELSE None
    <3>1. d \in Displays /\ uev.todo # <<>>
      BY <1>3, EventAtHand DEF OnHotplug, TypeOK
    <3>2. pc \in InCallback /\ h \in Handle
      BY <1>0, <3>1 DEF TypeOK, Resources, Handle
    <3>3. uev' = [uev EXCEPT !.pc = pc, !.handle = h]
      BY <2>2
    <3> HIDE DEF pc, h
    <3>4. UEventOK'
      BY <3>1, <3>2, <3>3 DEF UEventOK, UEventRecord, TypeOK
    <3> QED
      BY <1>3, <2>2, <3>4, CallbackService DEF OnHotplug, LifeInv, TypeOK, InUse
  <2> QED
    BY <1>3, <2>1, <2>2 DEF OnHotplug
<1>4. CASE OnHotplugTooLate
  BY <1>4, DiesService DEF OnHotplugTooLate
<1>5. ASSUME uev.pc \in InCallback
      PROVE  /\ phase \notin {"none", "created", "destroyed"}
             /\ Event.display \in Displays /\ uev \in UEventRecord /\ uev.todo # <<>>
  BY <1>5, EventAtHand DEF LifeInv, TypeOK
<1>6. CASE CleanDisplayResources
  <2>1. uev.pc \in InCallback /\ uev' = [uev EXCEPT !.pc = "remove"]
        /\ UNCHANGED cached /\ UEventKeeps
    BY <1>0, <1>6 DEF CleanDisplayResources
  <2>2. UEventOK'
    BY <1>0, <1>5, <2>1 DEF UEventOK, UEventRecord
  <2>3. kind = AllGone => target' = target
    BY <1>5, <1>6, <2>1 DEF CleanDisplayResources, AllGone
  <2> QED
    BY <1>5, <2>1, <2>2, <2>3, CallbackService DEF TypeOK
<1>7. CASE RemoveDisplay
  <2>1. /\ uev.pc \in InCallback /\ UNCHANGED target /\ UEventKeeps
        /\ cached' = [cached EXCEPT ![Event.display] = None]
        /\ uev' = [uev EXCEPT !.pc = IF Event.connected THEN "add" ELSE "told", !.handle = None]
    BY <1>0, <1>7 DEF RemoveDisplay
  <2>2. UEventOK'
    BY <1>0, <1>5, <2>1 DEF UEventOK, UEventRecord, Handle
  <2>3. /\ cached' \in [Displays -> {None} \cup Resources]
        /\ \A d \in Displays : cached'[d] \in {cached[d], None, NoResources}
    BY <2>1 DEF TypeOK
  <2> QED
    BY <1>5, <2>1, <2>2, <2>3, CallbackService
<1>8. CASE AddPhysicalDisplay
  <2>1. /\ uev.pc \in InCallback /\ UNCHANGED target /\ UEventKeeps
        /\ cached' = [cached EXCEPT ![Event.display] = NoResources]
        /\ uev' = [uev EXCEPT !.pc = "told", !.handle = None]
    BY <1>0, <1>8 DEF AddPhysicalDisplay
  <2>2. UEventOK'
    BY <1>0, <1>5, <2>1 DEF UEventOK, UEventRecord, Handle
  <2>3. NoResources \in Resources
    BY PartialEmpty DEF NoResources, Resources, Handle
  <2>4. /\ cached' \in [Displays -> {None} \cup Resources]
        /\ \A d \in Displays : cached'[d] \in {cached[d], None, NoResources}
    BY <2>1, <2>3 DEF TypeOK
  <2> QED
    BY <1>5, <2>1, <2>2, <2>4, CallbackService
<1>9. CASE NextEvent
  <2>1. /\ uev.pc \in InCallback /\ UNCHANGED <<target, cached>> /\ UEventKeeps
        /\ uev' = IF Len(uev.todo) > 1 /\ "hotplug" \in hooked
                  THEN [uev EXCEPT !.pc = "call", !.todo = Tail(uev.todo)]
                  ELSE [uev EXCEPT !.pc = "sleep", !.todo = <<>>]
    BY <1>0, <1>9 DEF NextEvent
  <2>2. UEventOK'
    <3> DEFINE rest == Tail(uev.todo)
               none == <<>>
    <3>0. uev.todo \in Seq(EventRecord) /\ none \in Seq(EventRecord)
      BY <1>5, <2>1 DEF UEventRecord
    <3>1. CASE Len(uev.todo) > 1 /\ "hotplug" \in hooked
      <4>1. rest \in Seq(EventRecord) /\ rest # <<>>
        BY <3>0, <3>1, TailOfMany
      <4>2. uev' = [uev EXCEPT !.pc = "call", !.todo = rest]
        BY <2>1, <3>1
      <4> HIDE DEF rest
      <4>3. uev' \in UEventRecord /\ uev'.todo = rest
        BY <1>5, <2>1, <4>1, <4>2 DEF UEventRecord
      <4> QED
        BY <4>1, <4>3 DEF UEventOK
    <3>2. CASE ~(Len(uev.todo) > 1 /\ "hotplug" \in hooked)
      <4>1. uev' = [uev EXCEPT !.pc = "sleep", !.todo = none]
        BY <2>1, <3>2
      <4> HIDE DEF none
      <4>2. uev' \in UEventRecord /\ uev'.pc = "sleep"
        BY <1>5, <2>1, <3>0, <4>1 DEF UEventRecord
      <4> QED
        BY <4>2 DEF UEventOK, InCallback
    <3> QED
      BY <3>1, <3>2
  <2> QED
    BY <1>5, <2>1, <2>2, CallbackService DEF TypeOK
<1>10. CASE Dispose
  <2> DEFINE doomed == {d \in Disposable : kind[d] = "headless"}
  <2>1. /\ kind' = [d \in Displays |-> IF d \in doomed THEN "gone" ELSE kind[d]]
        /\ layers' = [d \in Displays |-> IF d \in doomed THEN <<>> ELSE layers[d]]
        /\ target' = [d \in Displays |-> IF d \in doomed THEN NoBuffer ELSE target[d]]
        /\ uev' = Idle
        /\ UNCHANGED <<lastLayer, cached, hooked, event, phase, alive, call, made>>
    BY <1>10 DEF Dispose, service
  <2>2. UEventOK' /\ uev'.pc = "idle"
    BY <1>0, <2>1 DEF UEventOK, UEventRecord, Idle, Handle
  <2>3. \A d \in Displays : layers'[d] = layers[d] \/ layers'[d] = <<>>
    BY <2>1
  <2>4. TypeOK'
    <3>1. kind' \in [Displays -> Kinds]
      BY <2>1 DEF TypeOK, Kinds
    <3>2. layers' \in [Displays -> Partial(Buffer)]
      BY <2>1, PartialEmpty DEF TypeOK
    <3> QED
      BY <2>1, <2>2, <3>1, <3>2 DEF TypeOK, UEventOK
  <2>5. LifeInv'
    <3>1. ASSUME phase \notin InUse
          PROVE  kind' = kind /\ layers' = NoLayers /\ target' = NoTargets
      <4>1. kind \in {AllGone, NullDisplay} /\ layers = NoLayers /\ target = NoTargets
        BY <3>1 DEF LifeInv
      <4>2. doomed \cap Displays = {}
        BY <4>1 DEF AllGone, NullDisplay, Disposable
      <4>3. kind = [d \in Displays |-> kind[d]]
        BY DEF TypeOK
      <4> HIDE DEF doomed
      <4> QED
        BY <2>1, <4>1, <4>2, <4>3 DEF NoLayers, NoTargets
    <3> QED
      BY <1>0, <2>1, <2>2, <3>1 DEF LifeInv
  <2>6. BufferInv'
    BY <2>1, <2>3, PartialEmpty DEF BufferInv, Setting, TypeOK, CallRecord
  <2> QED
    BY <2>4, <2>5, <2>6
<1>11. CASE ReadUevent \/ UpdateNothing
  <2>1. /\ "hotplug" \in hooked
        /\ UNCHANGED <<kind, layers, lastLayer, cached, service, call, made>>
        /\ \E pc \in {"wait", "sleep"} : uev' = [uev EXCEPT !.pc = pc]
    BY <1>11 DEF ReadUevent, UpdateNothing, Updates, shown
  <2>2. UEventOK' /\ kind' \in [Displays -> Kinds]
    BY <1>0, <2>1 DEF UEventOK, UEventRecord, TypeOK
  <2> QED
    BY <2>1, <2>2, HotplugService
<1>12. CASE AttachLate \/ MakeNullDisplayLate
  <2>1. /\ uev' = [uev EXCEPT !.pc = "sleep"]
        /\ UNCHANGED <<layers, lastLayer, cached, hooked, event, phase, alive, call, made>>
    BY <1>12 DEF AttachLate, MakeNullDisplayLate, service
  <2>2. UEventOK' /\ uev'.pc = "sleep"
    BY <1>0, <2>1 DEF UEventOK, UEventRecord, TypeOK
  <2>3. kind' \in [Displays -> Kinds]
    BY <1>12, ServiceAssumption DEF AttachLate, MakeNullDisplayLate, BindFound, TypeOK, Kinds
  <2>4. phase \notin InUse => kind' = NullDisplay /\ target' = target
    <3>1. ASSUME phase \notin InUse
          PROVE  /\ kind' = [kind EXCEPT ![kPrimaryDisplay] = "headless"] /\ target' = target
                 /\ kind \in {AllGone, NullDisplay}
      BY <1>12, <3>1 DEF AttachLate, MakeNullDisplayLate, InUse, LifeInv
    <3> QED
      BY <3>1 DEF AllGone, NullDisplay
  <2>5. TypeOK'
    BY <2>1, <2>2, <2>3 DEF TypeOK, UEventOK
  <2>6. LifeInv'
    BY <1>0, <2>1, <2>2, <2>4 DEF LifeInv
  <2>7. BufferInv'
    BY <2>1 DEF BufferInv, Setting
  <2> QED
    BY <2>5, <2>6, <2>7
<1> QED
  BY <1>1, <1>2, <1>3, <1>4, <1>6, <1>7, <1>8, <1>9, <1>10, <1>11, <1>12 DEF UEvents

-------------------------------------------------------------------------------
(* The call thread *)

\* The call at hand has no layer or buffer that the cache and the device disagree on.
Quiet == \/ call = None
         \/ /\ call.pc # "addLayer"
            /\ ~(call.op = "setLayerBuffer" /\ call.pc = "device")

\* The steps of calls come while the client is registered.
LEMMA CallsWhileRegistered ==
  ASSUME ServiceInv, MayCall \/ call # None
  PROVE  phase = "registered"
BY DEF ServiceInv, LifeInv, MayCall

\* While it is, only types and buffers are at stake.
LEMMA CallThreadService ==
  ASSUME ServiceInv, phase = "registered", BinderKeeps,
         layers' \in [Displays -> Partial(Buffer)], lastLayer' \in [Displays -> Nat],
         cached' \in [Displays -> {None} \cup Resources],
         call' \in {None} \cup CallRecord, made' \in Nat, BufferInv'
  PROVE  ServiceInv'
<1>1. TypeOK'
  BY DEF ServiceInv, TypeOK, BinderKeeps, service
<1>2. LifeInv'
  BY DEF ServiceInv, LifeInv, BinderKeeps, service, InUse
<1> QED
  BY <1>1, <1>2 DEF ServiceInv

\* Layers and slots may go, those that stay keep their buffers.
LEMMA QuietService ==
  ASSUME ServiceInv, phase = "registered", BinderKeeps, UNCHANGED lastLayer, made' \in Nat,
         Quiet, Quiet', call' \in {None} \cup CallRecord,
         cached' \in [Displays -> {None} \cup Resources],
         \A d \in Displays : cached'[d] # None =>
           /\ cached[d] # None
           /\ DOMAIN cached'[d].layers \subseteq DOMAIN cached[d].layers
           /\ \A l \in DOMAIN cached'[d].layers : cached'[d].layers[l] = cached[d].layers[l],
         layers' \in [Displays -> Partial(Buffer)],
         \A d \in Displays :
           /\ DOMAIN layers'[d] \subseteq DOMAIN layers[d]
           /\ \A l \in DOMAIN layers'[d] : layers'[d][l].handle = layers[d][l].handle
  PROVE  ServiceInv'
<1>1. \A d, l : ~Setting(d, l) /\ ~Setting(d, l)'
  BY DEF Quiet, Setting
<1>2. phase' = phase /\ (call' # None => call'.pc # "addLayer")
  BY DEF BinderKeeps, service, Quiet
<1>3. BufferInv'
  BY <1>1, <1>2 DEF ServiceInv, BufferInv
<1> QED
  BY <1>3, CallThreadService DEF ServiceInv, TypeOK

\* Nothing but the call changes.
LEMMA OnlyCallService ==
  ASSUME ServiceInv, phase = "registered", BinderKeeps, Quiet, Quiet',
         UNCHANGED <<layers, lastLayer, target, cached, made>>,
         call' \in {None} \cup CallRecord
  PROVE  ServiceInv'
BY QuietService DEF ServiceInv, TypeOK

\* The answer to a call is a call that has ended.
LEMMA AnsweredTyped ==
  ASSUME NEW d \in Displays, NEW status
  PROVE  /\ Answered(d, status) \in CallRecord
         /\ Answered(d, status).op = "call" /\ Answered(d, status).pc = "answered"
<1> DEFINE b == status = "BadDisplay"
<1>1. b \in BOOLEAN
  OBVIOUS
<1> HIDE DEF b
<1>2. /\ [Call("call", d, None, "answered") EXCEPT !.bad = b] \in CallRecord
      /\ [Call("call", d, None, "answered") EXCEPT !.bad = b].op = "call"
      /\ [Call("call", d, None, "answered") EXCEPT !.bad = b].pc = "answered"
  BY <1>1 DEF Call, CallRecord
<1> QED
  BY <1>2 DEF Answered, b

\* Every list has a number of entries.
LEMMA EntriesNat ==
  ASSUME NEW q, NEW k, NEW m \in Nat, NEW n \in Nat
  PROVE  Entries(q, k, m, n) \in Nat
BY DEF Entries, GetColorModes, GetRenderIntents, GetDisplayConfigs, GetDisplayName,
   GetDisplayIdentificationData, GetPerFrameMetadataKeys

\* So is what is written of it.
LEMMA WrittenInt ==
  ASSUME NEW q, NEW n \in Nat, NEW capacity \in Nat
  PROVE  Written(q, n, capacity) \in Int
BY DEF Written

\* Buffers are imported, no layer gets another (validateDisplay, presentDisplay).
LEMMA ImportKeepsHandles ==
  ASSUME TypeOK, NEW d \in Displays, ImportBuffers(d)
  PROVE  /\ layers' \in [Displays -> Partial(Buffer)]
         /\ \A e \in Displays :
              /\ DOMAIN layers'[e] = DOMAIN layers[e]
              /\ \A l \in DOMAIN layers'[e] : layers'[e][l].handle = layers[e][l].handle
<1>1. PICK S \in SUBSET {l \in DOMAIN layers[d] : Real(d) /\ layers[d][l].fresh} :
        layers' = [layers EXCEPT ![d] =
                     [l \in DOMAIN layers[d] |->
                        IF l \in S THEN [layers[d][l] EXCEPT !.fresh = FALSE] ELSE layers[d][l]]]
  BY DEF ImportBuffers
<1> DEFINE f == [l \in DOMAIN layers[d] |->
                   IF l \in S THEN [layers[d][l] EXCEPT !.fresh = FALSE] ELSE layers[d][l]]
<1>2. layers[d] \in Partial(Buffer)
  BY DEF TypeOK
<1>3. \A l \in DOMAIN layers[d] : layers[d][l] \in Buffer
  BY <1>2, PartialFunction
<1>4. \A l \in DOMAIN layers[d] : f[l] \in Buffer /\ f[l].handle = layers[d][l].handle
  BY <1>3 DEF Buffer
<1>5. DOMAIN f = DOMAIN layers[d]
  OBVIOUS
<1>6. f \in [DOMAIN layers[d] -> Buffer]
  BY <1>4
<1>7. f \in Partial(Buffer)
  BY <1>2, <1>5, <1>6, PartialFunction
<1>8. layers' = [layers EXCEPT ![d] = f]
  BY <1>1
<1> HIDE DEF f
<1> QED
  BY <1>4, <1>5, <1>7, <1>8 DEF TypeOK

\* A flag of a display changes in the cache, its slots do not.
LEMMA FlagKeepsSlots ==
  ASSUME TypeOK, NEW d \in Displays, cached[d] # None, NEW b \in BOOLEAN,
         \/ cached' = [cached EXCEPT ![d].must = b]
         \/ cached' = [cached EXCEPT ![d].sized = b]
  PROVE  /\ cached' \in [Displays -> {None} \cup Resources]
         /\ \A e \in Displays : cached'[e] # None =>
              cached[e] # None /\ cached'[e].layers = cached[e].layers
<1>1. cached[d] \in Resources
  BY DEF TypeOK
<1>2. PICK r \in Resources : r.layers = cached[d].layers /\ cached' = [cached EXCEPT ![d] = r]
  <2>1. CASE cached' = [cached EXCEPT ![d].must = b]
    <3>1. /\ [cached[d] EXCEPT !.must = b] \in Resources
          /\ [cached[d] EXCEPT !.must = b].layers = cached[d].layers
      BY <1>1 DEF Resources
    <3> QED
      BY <2>1, <3>1
  <2>2. CASE cached' = [cached EXCEPT ![d].sized = b]
    <3>1. /\ [cached[d] EXCEPT !.sized = b] \in Resources
          /\ [cached[d] EXCEPT !.sized = b].layers = cached[d].layers
      BY <1>1 DEF Resources
    <3> QED
      BY <2>2, <3>1
  <2> QED
    BY <2>1, <2>2
<1> QED
  BY <1>1, <1>2 DEF TypeOK

\* The slots of a display change in the cache.
LEMMA SlotsTyped ==
  ASSUME TypeOK, NEW d \in Displays, cached[d] # None, NEW f \in Partial(Handle),
         cached' = [cached EXCEPT ![d].layers = f]
  PROVE  /\ cached' \in [Displays -> {None} \cup Resources]
         /\ cached'[d].layers = f
         /\ \A e \in Displays \ {d} : cached'[e] = cached[e]
<1>1. cached[d] \in Resources
  BY DEF TypeOK
<1>2. /\ [cached[d] EXCEPT !.layers = f] \in Resources
      /\ [cached[d] EXCEPT !.layers = f].layers = f
  BY <1>1 DEF Resources
<1> DEFINE r == [cached[d] EXCEPT !.layers = f]
<1>3. cached' = [cached EXCEPT ![d] = r]
  OBVIOUS
<1> HIDE DEF r
<1>4. r \in Resources /\ r.layers = f
  BY <1>2 DEF r
<1> QED
  BY <1>3, <1>4 DEF TypeOK

\* What the cache keeps for a known display are slots.
LEMMA SlotsPartial ==
  ASSUME TypeOK, NEW d \in Displays, cached[d] # None
  PROVE  /\ cached[d].layers \in Partial(Handle)
         /\ cached[d].target \in Handle
         /\ \A l \in DOMAIN cached[d].layers : l \in Nat /\ cached[d].layers[l] \in Handle
<1>1. cached[d].layers \in Partial(Handle) /\ cached[d].target \in Handle
  BY DEF TypeOK, Resources
<1> QED
  BY <1>1, PartialFunction

\* A new layer has no buffer, in the device and in the cache.
LEMMA CreateLayerService ==
  ASSUME ServiceInv, NEW d \in Displays, CreateLayer(d)
  PROVE  ServiceInv'
<1> DEFINE l == lastLayer[d] + 1
           c == Call("createLayer", d, l, "addLayer")
           g == WithEntry(layers[d], l, NoBuffer)
<1>1. phase = "registered"
  BY CallsWhileRegistered DEF CreateLayer
<1>2. /\ lastLayer' = [lastLayer EXCEPT ![d] = l]
      /\ layers' = [layers EXCEPT ![d] = g] /\ call' = c
      /\ UNCHANGED <<target, cached, made>> /\ BinderKeeps /\ call = None
  BY DEF CreateLayer, MayCall
<1>3. l \in Nat /\ l \notin 1..lastLayer[d] /\ l \in 1..l /\ 1..lastLayer[d] \subseteq 1..l
  BY DEF ServiceInv, TypeOK
<1>4. lastLayer' \in [Displays -> Nat]
  BY <1>2, <1>3 DEF ServiceInv, TypeOK
<1> HIDE DEF l
<1>5. /\ c \in CallRecord /\ c.op = "createLayer" /\ c.pc = "addLayer"
      /\ c.d = d /\ c.l = l
  BY <1>3 DEF Call, CallRecord
<1>6. layers[d] \in Partial(Buffer) /\ NoBuffer \in Buffer /\ NoBuffer.handle = None
  BY DEF ServiceInv, TypeOK, NoBuffer, Buffer, Handle
<1>7. /\ g \in Partial(Buffer) /\ DOMAIN g = DOMAIN layers[d] \cup {l} /\ g[l] = NoBuffer
      /\ \A k \in DOMAIN layers[d] \ {l} : g[k] = layers[d][k]
  <2>1. l \in Nat
    BY <1>3
  <2> QED
    BY <1>6, <2>1, PartialFunction DEF WithEntry
<1> HIDE DEF c, g
<1>8. /\ layers' \in [Displays -> Partial(Buffer)] /\ layers'[d] = g
      /\ \A e \in Displays \ {d} : layers'[e] = layers[e]
      /\ lastLayer'[d] = l /\ \A e \in Displays \ {d} : lastLayer'[e] = lastLayer[e]
  BY <1>2, <1>7 DEF ServiceInv, TypeOK
<1>9. \A e, k : ~Setting(e, k) /\ ~Setting(e, k)'
  BY <1>2, <1>5 DEF Setting
<1>10. phase' = phase
  BY <1>2 DEF BinderKeeps, service
<1>11. BufferInv'
  <2>1. ASSUME NEW e \in Displays, cached'[e] # None
        PROVE  /\ DOMAIN cached'[e].layers \subseteq 1..lastLayer'[e]
               /\ \A k \in DOMAIN cached'[e].layers \cap DOMAIN layers'[e] :
                    layers'[e][k].handle = cached'[e].layers[k]
    <3>1. /\ DOMAIN cached[e].layers \subseteq 1..lastLayer[e] /\ cached'[e] = cached[e]
          /\ \A k \in DOMAIN cached[e].layers \cap DOMAIN layers[e] :
               layers[e][k].handle = cached[e].layers[k]
      BY <1>1, <1>2, <1>9, <2>1 DEF ServiceInv, BufferInv, InUse
    <3>2. CASE e = d
      BY <1>3, <1>7, <1>8, <3>1, <3>2
    <3>3. CASE e # d
      BY <1>8, <3>1, <3>3
    <3> QED
      BY <3>2, <3>3
  <2>2. /\ call'.l \in 1..lastLayer'[call'.d]
        /\ layers'[call'.d][call'.l].handle = None
    BY <1>2, <1>3, <1>5, <1>6, <1>7, <1>8
  <2> QED
    BY <1>9, <2>1, <2>2 DEF BufferInv
<1> QED
  BY <1>1, <1>2, <1>4, <1>5, <1>8, <1>11, CallThreadService DEF ServiceInv, TypeOK

\* The cache learns of the layer that was created.
LEMMA AddLayerService ==
  ASSUME ServiceInv, AddLayer
  PROVE  ServiceInv'
<1> DEFINE d == call.d
           l == call.l
           g == WithEntry(cached[d].layers, l, None)
<1>1. /\ call # None /\ call.pc = "addLayer" /\ call' = None
      /\ cached' = IF cached[d] = None THEN cached ELSE [cached EXCEPT ![d].layers = g]
      /\ UNCHANGED <<layers, lastLayer, target, made>> /\ BinderKeeps
  BY DEF AddLayer
<1>2. phase = "registered" /\ phase' = phase
  BY <1>1, CallsWhileRegistered DEF BinderKeeps, service
<1>3. /\ d \in Displays /\ l \in 1..lastLayer[d] /\ l \in Nat
      /\ l \in DOMAIN layers[d] => layers[d][l].handle = None
  <2>1. d \in Displays
    BY <1>1 DEF ServiceInv, TypeOK, CallRecord
  <2>2. l \in 1..lastLayer[d] /\ (l \in DOMAIN layers[d] => layers[d][l].handle = None)
    BY <1>1 DEF ServiceInv, BufferInv
  <2> QED
    BY <2>1, <2>2
<1>4. \A e, k : ~Setting(e, k) /\ ~Setting(e, k)'
  BY <1>1 DEF Setting
<1>5. CASE cached[d] = None
  <2>1. BufferInv'
    BY <1>1, <1>2, <1>4, <1>5 DEF ServiceInv, BufferInv
  <2> QED
    BY <1>1, <1>2, <1>5, <2>1, CallThreadService DEF ServiceInv, TypeOK
<1>6. CASE cached[d] # None
  <2>1. cached[d].layers \in Partial(Handle)
    BY <1>3, <1>6, SlotsPartial DEF ServiceInv
  <2>2. /\ g \in Partial(Handle) /\ DOMAIN g = DOMAIN cached[d].layers \cup {l} /\ g[l] = None
        /\ \A k \in DOMAIN cached[d].layers \ {l} : g[k] = cached[d].layers[k]
    BY <1>3, <2>1, PartialFunction DEF WithEntry, Handle
  <2> HIDE DEF g
  <2>3. /\ cached' \in [Displays -> {None} \cup Resources] /\ cached'[d].layers = g
        /\ \A e \in Displays \ {d} : cached'[e] = cached[e]
    BY <1>1, <1>3, <1>6, <2>2, SlotsTyped DEF ServiceInv
  <2>4. BufferInv'
    <3>1. ASSUME NEW e \in Displays, cached'[e] # None
          PROVE  /\ DOMAIN cached'[e].layers \subseteq 1..lastLayer'[e]
                 /\ \A k \in DOMAIN cached'[e].layers \cap DOMAIN layers'[e] :
                      layers'[e][k].handle = cached'[e].layers[k]
      <4>1. cached[e] # None =>
              /\ DOMAIN cached[e].layers \subseteq 1..lastLayer[e]
              /\ \A k \in DOMAIN cached[e].layers \cap DOMAIN layers[e] :
                   layers[e][k].handle = cached[e].layers[k]
        BY <1>2, <1>4 DEF ServiceInv, BufferInv, InUse
      <4>2. CASE e = d
        BY <1>1, <1>3, <1>6, <2>2, <2>3, <4>1, <4>2
      <4>3. CASE e # d
        BY <1>1, <2>3, <3>1, <4>1, <4>3
      <4> QED
        BY <4>2, <4>3
    <3> QED
      BY <1>1, <1>4, <3>1 DEF BufferInv
  <2> QED
    BY <1>1, <1>2, <2>3, <2>4, CallThreadService DEF ServiceInv, TypeOK
<1> QED
  BY <1>5, <1>6

\* The device forgets a layer before the cache does.
LEMMA DestroyLayerService ==
  ASSUME ServiceInv, NEW d \in Displays, NEW l \in 1..MaxLayers, DestroyLayer(d, l)
  PROVE  ServiceInv'
<1> DEFINE c == Call("destroyLayer", d, l, "removeLayer")
           g == Restrict(layers[d], DOMAIN layers[d] \ {l})
<1>1. /\ layers' = [layers EXCEPT ![d] = g] /\ call' = c /\ call = None
      /\ UNCHANGED <<lastLayer, target, cached, made>> /\ BinderKeeps
  BY DEF DestroyLayer, MayCall
<1>2. phase = "registered"
  BY CallsWhileRegistered DEF DestroyLayer
<1>3. c \in CallRecord /\ c.op = "destroyLayer" /\ c.pc = "removeLayer"
  BY DEF Call, CallRecord
<1>4. layers[d] \in Partial(Buffer)
  BY DEF ServiceInv, TypeOK
<1>5. /\ g \in Partial(Buffer) /\ DOMAIN g \subseteq DOMAIN layers[d]
      /\ \A k \in DOMAIN g : g[k] = layers[d][k]
  BY <1>4, PartialFunction DEF Restrict
<1> HIDE DEF c, g
<1>6. /\ layers' \in [Displays -> Partial(Buffer)] /\ layers'[d] = g
      /\ \A e \in Displays \ {d} : layers'[e] = layers[e]
  BY <1>1, <1>5 DEF ServiceInv, TypeOK
<1>7. Quiet /\ Quiet'
  BY <1>1, <1>3 DEF Quiet
<1>8. \A e \in Displays :
        /\ DOMAIN layers'[e] \subseteq DOMAIN layers[e]
        /\ \A k \in DOMAIN layers'[e] : layers'[e][k].handle = layers[e][k].handle
  BY <1>5, <1>6
<1> QED
  BY <1>1, <1>2, <1>3, <1>6, <1>7, <1>8, QuietService DEF ServiceInv, TypeOK

\* The cache forgets the layer the device has destroyed.
LEMMA RemoveLayerService ==
  ASSUME ServiceInv, RemoveLayer
  PROVE  ServiceInv'
<1> DEFINE d == call.d
           g == Restrict(cached[d].layers, DOMAIN cached[d].layers \ {call.l})
<1>1. /\ call # None /\ call.pc = "removeLayer" /\ call' = None
      /\ cached' = IF cached[d] = None THEN cached ELSE [cached EXCEPT ![d].layers = g]
      /\ UNCHANGED <<layers, lastLayer, target, made>> /\ BinderKeeps
  BY DEF RemoveLayer
<1>2. phase = "registered" /\ d \in Displays
  BY <1>1, CallsWhileRegistered DEF ServiceInv, TypeOK, CallRecord
<1>3. Quiet /\ Quiet'
  BY <1>1 DEF Quiet
<1>4. CASE cached[d] = None
  BY <1>1, <1>2, <1>3, <1>4, QuietService DEF ServiceInv, TypeOK
<1>5. CASE cached[d] # None
  <2>1. cached[d].layers \in Partial(Handle)
    BY <1>2, <1>5, SlotsPartial DEF ServiceInv
  <2>2. /\ g \in Partial(Handle) /\ DOMAIN g \subseteq DOMAIN cached[d].layers
        /\ \A k \in DOMAIN g : g[k] = cached[d].layers[k]
    BY <2>1, PartialFunction DEF Restrict
  <2> HIDE DEF g
  <2>3. /\ cached' \in [Displays -> {None} \cup Resources] /\ cached'[d].layers = g
        /\ \A e \in Displays \ {d} : cached'[e] = cached[e]
    BY <1>1, <1>2, <1>5, <2>2, SlotsTyped DEF ServiceInv
  <2>4. \A e \in Displays : cached'[e] # None =>
          /\ cached[e] # None
          /\ DOMAIN cached'[e].layers \subseteq DOMAIN cached[e].layers
          /\ \A k \in DOMAIN cached'[e].layers : cached'[e].layers[k] = cached[e].layers[k]
    BY <1>5, <2>2, <2>3
  <2> QED
    BY <1>1, <1>2, <1>3, <2>3, <2>4, QuietService DEF ServiceInv, TypeOK
<1> QED
  BY <1>4, <1>5

\* What LookUp leaves: a call on its way to the device with the handle of the slot.
LEMMA LookUpCall ==
  ASSUME NEW op \in {"setLayerBuffer", "setClientTarget"}, NEW d \in Displays,
         NEW l \in Nat \cup {None}, NEW h \in Handle, NEW r \in Handle,
         call' = [Call(op, d, l, "device") EXCEPT !.handle = h, !.replaced = r]
  PROVE  /\ call' \in CallRecord /\ call' # None
         /\ call'.op = op /\ call'.pc = "device" /\ call'.d = d /\ call'.l = l
         /\ call'.handle = h
<1> DEFINE c == Call(op, d, l, "device")
<1>1. c \in CallRecord /\ c.op = op /\ c.pc = "device" /\ c.d = d /\ c.l = l
  BY DEF Call, CallRecord
<1> HIDE DEF c
<1>2. /\ call' \in CallRecord
      /\ call'.op = op /\ call'.pc = "device" /\ call'.d = d /\ call'.l = l /\ call'.handle = h
  BY <1>1 DEF c, CallRecord, Handle
<1> QED
  BY <1>2, NoneAssumption

\* The cache imports the buffer of a layer and keeps it before the device is
\* told.
LEMMA LookUpLayerService ==
  ASSUME ServiceInv, NEW d \in Displays, NEW l \in 1..MaxLayers, LookUpLayerBuffer(d, l)
  PROVE  ServiceInv'
<1> DEFINE slot == cached[d].layers[l]
           stored == [h \in 1..MaxHandles |-> [cached EXCEPT ![d].layers[l] = h]]
           new == made + 1
<1>1. /\ cached[d] # None /\ l \in DOMAIN cached[d].layers /\ call = None
      /\ LookUp("setLayerBuffer", d, l, slot, stored)
      /\ UNCHANGED <<layers, lastLayer, target>> /\ BinderKeeps
  BY DEF LookUpLayerBuffer, MayCall
<1>2. phase = "registered" /\ phase' = phase
  BY <1>1, CallsWhileRegistered DEF LookUpLayerBuffer, BinderKeeps, service
<1>3. PICK useCache \in BOOLEAN :
        /\ useCache \/ made < MaxHandles
        /\ call' = [Call("setLayerBuffer", d, l, "device") EXCEPT
                      !.handle = HandleOf(slot, useCache, new),
                      !.replaced = IF useCache THEN None ELSE slot]
        /\ made' = IF useCache THEN made ELSE new
        /\ cached' = IF useCache THEN cached ELSE stored[new]
  BY <1>1 DEF LookUp
<1>4. cached[d].layers \in Partial(Handle) /\ slot \in Handle /\ l \in Nat
  BY <1>1, SlotsPartial DEF ServiceInv
<1> DEFINE h == IF useCache THEN slot ELSE new
           r == IF useCache THEN None ELSE slot
           f == [cached[d].layers EXCEPT ![l] = h]
<1>5. h \in Handle /\ r \in Handle /\ made' \in Nat
  BY <1>3, <1>4 DEF ServiceInv, TypeOK, Handle
<1>6. call' = [Call("setLayerBuffer", d, l, "device") EXCEPT !.handle = h, !.replaced = r]
  BY <1>3 DEF HandleOf
<1>7. cached' = [cached EXCEPT ![d].layers = f]
  <2>1. CASE useCache
    <3>1. cached[d] \in Resources
      BY <1>1 DEF ServiceInv, TypeOK
    <3>2. f = cached[d].layers
      BY <1>4, <2>1, PartialFunction
    <3> HIDE DEF f
    <3>3. [cached[d] EXCEPT !.layers = cached[d].layers] = cached[d]
      BY <3>1 DEF Resources
    <3> QED
      BY <1>3, <2>1, <3>2, <3>3 DEF ServiceInv, TypeOK
  <2>2. CASE ~useCache
    <3>1. new \in 1..MaxHandles
      BY <1>3, <2>2, ServiceAssumption DEF ServiceInv, TypeOK
    <3>2. stored[new] = [cached EXCEPT ![d].layers[l] = new]
      BY <3>1
    <3> QED
      BY <1>3, <2>2, <3>2
  <2> QED
    BY <2>1, <2>2
<1> HIDE DEF h, r, new, stored
<1>8. /\ call' \in CallRecord /\ call' # None /\ call'.op = "setLayerBuffer"
      /\ call'.pc = "device" /\ call'.d = d /\ call'.l = l /\ call'.handle = h
  BY <1>4, <1>5, <1>6, LookUpCall
<1>9. /\ f \in Partial(Handle) /\ DOMAIN f = DOMAIN cached[d].layers /\ f[l] = h
      /\ \A k \in DOMAIN cached[d].layers \ {l} : f[k] = cached[d].layers[k]
  BY <1>1, <1>4, <1>5, PartialFunction
<1> HIDE DEF f
<1>10. /\ cached' \in [Displays -> {None} \cup Resources] /\ cached'[d].layers = f
       /\ \A e \in Displays \ {d} : cached'[e] = cached[e]
  BY <1>1, <1>7, <1>9, SlotsTyped DEF ServiceInv
<1>11. \A e, k : ~Setting(e, k) /\ (Setting(e, k)' <=> e = d /\ k = l)
  BY <1>1, <1>8 DEF Setting
<1>12. BufferInv'
  <2>1. ASSUME NEW e \in Displays, cached'[e] # None
        PROVE  /\ DOMAIN cached'[e].layers \subseteq 1..lastLayer'[e]
               /\ \A k \in DOMAIN cached'[e].layers \cap DOMAIN layers'[e] :
                    layers'[e][k].handle = cached'[e].layers[k] \/ Setting(e, k)'
               /\ \A k \in DOMAIN cached'[e].layers :
                    Setting(e, k)' => cached'[e].layers[k] = call'.handle
    <3>1. cached[e] # None =>
            /\ DOMAIN cached[e].layers \subseteq 1..lastLayer[e]
            /\ \A k \in DOMAIN cached[e].layers \cap DOMAIN layers[e] :
                 layers[e][k].handle = cached[e].layers[k]
      BY <1>2, <1>11 DEF ServiceInv, BufferInv, InUse
    <3>2. CASE e = d
      BY <1>1, <1>8, <1>9, <1>10, <1>11, <3>1, <3>2
    <3>3. CASE e # d
      BY <1>1, <1>10, <1>11, <2>1, <3>1, <3>3
    <3> QED
      BY <3>2, <3>3
  <2> QED
    BY <1>8, <2>1 DEF BufferInv
<1> QED
  BY <1>1, <1>2, <1>5, <1>8, <1>10, <1>12, CallThreadService DEF ServiceInv, TypeOK

\* The same for the client target.
LEMMA LookUpTargetService ==
  ASSUME ServiceInv, NEW d \in Displays, LookUpClientTarget(d)
  PROVE  ServiceInv'
<1> DEFINE slot == cached[d].target
           stored == [h \in 1..MaxHandles |-> [cached EXCEPT ![d].target = h]]
           new == made + 1
<1>1. /\ cached[d] # None /\ call = None
      /\ LookUp("setClientTarget", d, None, slot, stored)
      /\ UNCHANGED <<layers, lastLayer, target>> /\ BinderKeeps
  BY DEF LookUpClientTarget, MayCall
<1>2. phase = "registered"
  BY <1>1, CallsWhileRegistered DEF LookUpClientTarget
<1>3. PICK useCache \in BOOLEAN :
        /\ useCache \/ made < MaxHandles
        /\ call' = [Call("setClientTarget", d, None, "device") EXCEPT
                      !.handle = HandleOf(slot, useCache, new),
                      !.replaced = IF useCache THEN None ELSE slot]
        /\ made' = IF useCache THEN made ELSE new
        /\ cached' = IF useCache THEN cached ELSE stored[new]
  BY <1>1 DEF LookUp
<1>4. slot \in Handle /\ cached[d] \in Resources
  BY <1>1, SlotsPartial DEF ServiceInv, TypeOK
<1> DEFINE h == IF useCache THEN slot ELSE new
           r == IF useCache THEN None ELSE slot
<1>5. h \in Handle /\ r \in Handle /\ made' \in Nat /\ new \in Nat
  BY <1>3, <1>4 DEF ServiceInv, TypeOK, Handle
<1>6. call' = [Call("setClientTarget", d, None, "device") EXCEPT !.handle = h, !.replaced = r]
  BY <1>3 DEF HandleOf
<1>7. /\ cached' \in [Displays -> {None} \cup Resources]
      /\ \A e \in Displays : cached'[e] # None =>
           cached[e] # None /\ cached'[e].layers = cached[e].layers
  <2>1. CASE useCache
    BY <1>3, <2>1 DEF ServiceInv, TypeOK
  <2>2. CASE ~useCache
    <3>1. new \in 1..MaxHandles
      BY <1>3, <2>2, ServiceAssumption DEF ServiceInv, TypeOK
    <3>2. stored[new] = [cached EXCEPT ![d].target = new]
      BY <3>1
    <3> HIDE DEF new, stored
    <3>3. /\ [cached[d] EXCEPT !.target = new] \in Resources
          /\ [cached[d] EXCEPT !.target = new].layers = cached[d].layers
      BY <1>4, <1>5 DEF Resources, Handle
    <3>4. PICK x \in Resources : x.layers = cached[d].layers /\ cached' = [cached EXCEPT ![d] = x]
      BY <1>3, <2>2, <3>2, <3>3
    <3> QED
      BY <1>1, <3>4 DEF ServiceInv, TypeOK
  <2> QED
    BY <2>1, <2>2
<1> HIDE DEF h, r, new, stored
<1>8. /\ call' \in CallRecord /\ call'.op = "setClientTarget" /\ call'.pc = "device"
  BY <1>5, <1>6, LookUpCall
<1>9. Quiet /\ Quiet'
  BY <1>1, <1>8 DEF Quiet
<1> QED
  BY <1>1, <1>2, <1>5, <1>7, <1>8, <1>9, QuietService DEF ServiceInv, TypeOK

\* A call goes on: where it is changes, nothing else of it.
LEMMA GoesOn ==
  ASSUME TypeOK, call # None, NEW pc, pc \in {"answered", "validated", "again"}, Goes(pc)
  PROVE  /\ call' \in CallRecord /\ call'.pc = pc /\ call'.op = call.op
         /\ call'.written = call.written /\ call'.count = call.count
<1>1. call \in CallRecord
  BY DEF TypeOK
<1> QED
  BY <1>1 DEF Goes, CallRecord

\* The device is given the buffer the cache has just kept.
LEMMA SetBufferService ==
  ASSUME ServiceInv, SetBuffer
  PROVE  ServiceInv'
<1> DEFINE d == call.d
           l == call.l
<1>1. /\ call # None /\ call.pc = "device" /\ Goes("answered")
      /\ UNCHANGED <<lastLayer, cached, made>> /\ BinderKeeps
  BY DEF SetBuffer
<1>2. phase = "registered" /\ phase' = phase
  BY <1>1, CallsWhileRegistered DEF BinderKeeps, service
<1>3. call \in CallRecord /\ d \in Displays
  BY <1>1 DEF ServiceInv, TypeOK, CallRecord
<1>4. /\ call' \in CallRecord /\ call'.pc = "answered" /\ call'.op = call.op
      /\ call'.written = call.written /\ call'.count = call.count
  BY <1>1, GoesOn DEF ServiceInv
<1>5. Quiet'
  BY <1>1, <1>4 DEF ServiceInv, Quiet
<1>6. CASE call.op # "setLayerBuffer"
  <2>1. Quiet /\ layers' = layers
    BY <1>1, <1>6 DEF Quiet, SetBuffer
  <2> QED
    BY <1>1, <1>2, <1>4, <1>5, <2>1, QuietService DEF ServiceInv, TypeOK
<1>7. CASE call.op = "setLayerBuffer"
  <2>1. \A e, k : (Setting(e, k) <=> e = d /\ k = l) /\ ~Setting(e, k)'
    BY <1>1, <1>4, <1>7 DEF Setting
  <2>2. /\ layers' \in [Displays -> Partial(Buffer)]
        /\ \A e \in Displays :
             /\ DOMAIN layers'[e] = DOMAIN layers[e]
             /\ \A k \in DOMAIN layers[e] :
                  layers'[e][k].handle = IF e = d /\ k = l THEN call.handle
                                         ELSE layers[e][k].handle
    <3>1. CASE ~Known(d, l)
      <4>1. layers' = layers
        BY <1>7, <3>1 DEF SetBuffer
      <4> QED
        BY <3>1, <4>1 DEF ServiceInv, TypeOK, Known
    <3>2. CASE Known(d, l)
      <4> DEFINE b == [handle |-> call.handle, fresh |-> TRUE]
                 f == [layers[d] EXCEPT ![l] = b]
      <4>1. layers' = [layers EXCEPT ![d] = f] /\ l \in DOMAIN layers[d]
        BY <1>7, <3>2 DEF SetBuffer, Known
      <4>2. b \in Buffer /\ b.handle = call.handle
        BY <1>3 DEF Buffer, CallRecord, Handle
      <4>3. layers[d] \in Partial(Buffer)
        BY <1>3 DEF ServiceInv, TypeOK
      <4> HIDE DEF b
      <4>4. /\ f \in Partial(Buffer) /\ DOMAIN f = DOMAIN layers[d] /\ f[l] = b
            /\ \A k \in DOMAIN layers[d] \ {l} : f[k] = layers[d][k]
        BY <4>1, <4>2, <4>3, PartialFunction
      <4> HIDE DEF f
      <4>5. /\ layers' \in [Displays -> Partial(Buffer)] /\ layers'[d] = f
            /\ \A e \in Displays \ {d} : layers'[e] = layers[e]
        BY <1>3, <4>1, <4>4 DEF ServiceInv, TypeOK
      <4> QED
        BY <4>2, <4>4, <4>5
    <3> QED
      BY <3>1, <3>2
  <2>3. BufferInv'
    <3>1. ASSUME NEW e \in Displays, cached'[e] # None
          PROVE  /\ DOMAIN cached'[e].layers \subseteq 1..lastLayer'[e]
                 /\ \A k \in DOMAIN cached'[e].layers \cap DOMAIN layers'[e] :
                      layers'[e][k].handle = cached'[e].layers[k]
      <4>1. /\ cached'[e] = cached[e] /\ lastLayer' = lastLayer
            /\ DOMAIN cached[e].layers \subseteq 1..lastLayer[e]
            /\ \A k \in DOMAIN cached[e].layers \cap DOMAIN layers[e] :
                 layers[e][k].handle = cached[e].layers[k] \/ Setting(e, k)
            /\ \A k \in DOMAIN cached[e].layers :
                 Setting(e, k) => cached[e].layers[k] = call.handle
        BY <1>1, <1>2, <3>1 DEF ServiceInv, BufferInv, InUse
      <4> QED
        BY <2>1, <2>2, <4>1
    <3> QED
      BY <1>4, <2>1, <3>1 DEF BufferInv
  <2> QED
    BY <1>1, <1>2, <1>4, <1>5, <2>2, <2>3, CallThreadService DEF ServiceInv, TypeOK
<1> QED
  BY <1>6, <1>7

\* Every call of the interface that is not part of a command keeps it.
LEMMA CallsService ==
  ASSUME ServiceInv, Calls
  PROVE  ServiceInv'
<1>1. CASE AddLayer \/ RemoveLayer
  BY <1>1, AddLayerService, RemoveLayerService
<1>2. ASSUME NEW d \in Displays, CreateLayer(d) \/ \E l \in 1..MaxLayers : DestroyLayer(d, l)
      PROVE  ServiceInv'
  BY <1>2, CreateLayerService, DestroyLayerService
<1>3. ASSUME NEW d \in Displays, SetClientTargetSlotCount(d)
      PROVE  ServiceInv'
  <2>1. /\ cached[d] # None /\ cached' = [cached EXCEPT ![d].sized = TRUE] /\ call = None
        /\ UNCHANGED <<layers, lastLayer, target, call, made>> /\ BinderKeeps
    BY <1>3 DEF SetClientTargetSlotCount, MayCall
  <2>2. phase = "registered"
    BY <1>3, CallsWhileRegistered DEF SetClientTargetSlotCount
  <2>3. /\ cached' \in [Displays -> {None} \cup Resources]
        /\ \A e \in Displays : cached'[e] # None =>
             cached[e] # None /\ cached'[e].layers = cached[e].layers
    BY <2>1, FlagKeepsSlots DEF ServiceInv
  <2>4. Quiet /\ Quiet'
    BY <2>1 DEF Quiet
  <2> QED
    BY <2>1, <2>2, <2>3, <2>4, QuietService DEF ServiceInv, TypeOK
<1>4. ASSUME NEW d \in Displays, SetPowerModeOn(d)
      PROVE  ServiceInv'
  BY <1>4, DiesService DEF SetPowerModeOn
<1>5. ASSUME NEW d \in Displays, NEW q \in Asked, AskCount(q, d)
      PROVE  ServiceInv'
  <2> DEFINE n == Entries(q, kind[d], 0, 0)
             c == Call(q, d, None, "data")
  <2>1. q \in Queries
    BY ServiceAssumption
  <2>2. n \in Nat
    BY EntriesNat
  <2>3. c \in CallRecord /\ c.op = q /\ c.pc = "data" /\ c.written = 0
    BY <2>1 DEF Call, CallRecord
  <2>4. call' = [c EXCEPT !.count = n]
    BY <1>5 DEF AskCount
  <2> HIDE DEF n, c
  <2>5. call' \in CallRecord /\ call'.pc = "data" /\ call'.written = 0 /\ call'.count = n
    BY <2>2, <2>3, <2>4 DEF CallRecord
  <2>6. Quiet /\ Quiet'
    BY <1>5, <2>2, <2>5 DEF AskCount, MayCall, Quiet
  <2> QED
    BY <1>5, <2>5, <2>6, CallsWhileRegistered, OnlyCallService DEF AskCount
<1>6. ASSUME NEW d \in Displays, NEW f \in Forwarded, Forward(f, d)
      PROVE  ServiceInv'
  <2>1. PICK status : call' = Answered(d, status)
    BY <1>6 DEF Forward
  <2>2. call' \in CallRecord /\ Quiet /\ Quiet'
    BY <1>6, <2>1, AnsweredTyped DEF Forward, MayCall, Quiet
  <2> QED
    BY <1>6, <2>2, CallsWhileRegistered, OnlyCallService DEF Forward
<1>7. CASE AskData
  <2> DEFINE k == kind[call.d]
             n == Written(call.op, Entries(call.op, k, call.count, call.count), call.count)
             pc == IF call.op = "getRenderIntents" /\ call.pc = "data" THEN "again"
                   ELSE IF call.op = "getChangedCompositionTypes" THEN "validated"
                   ELSE "answered"
  <2>1. /\ call # None /\ call.pc \in {"data", "again"}
        /\ UNCHANGED <<layers, lastLayer, target, cached, made>> /\ BinderKeeps
        /\ call' = IF ~Answers(call.op, k) THEN [call EXCEPT !.pc = "answered"]
                   ELSE [call EXCEPT !.written = n, !.pc = pc]
    BY <1>7 DEF AskData
  <2>2. call \in CallRecord /\ call.count \in Nat
    BY <2>1 DEF ServiceInv, TypeOK, CallRecord
  <2>3. pc \in {"again", "validated", "answered"}
    OBVIOUS
  <2>4. Entries(call.op, k, call.count, call.count) \in Nat
    BY <2>2, EntriesNat
  <2>5. n \in Int
    BY <2>2, <2>4, WrittenInt
  <2> HIDE DEF n, pc, k
  <2>6. /\ call' \in CallRecord /\ call'.op = call.op /\ call'.count = call.count
        /\ call'.pc \in {"again", "validated", "answered"}
        /\ call'.written = call.written \/ call'.written = n
    BY <2>1, <2>2, <2>3, <2>5 DEF CallRecord
  <2>7. Quiet /\ Quiet'
    BY <2>1, <2>5, <2>6 DEF ServiceInv, Quiet
  <2> QED
    BY <2>1, <2>6, <2>7, CallsWhileRegistered, OnlyCallService
<1>8. CASE Returns
  <2>1. call' = None /\ Quiet /\ Quiet'
    BY <1>8 DEF Returns, Quiet
  <2> QED
    BY <1>8, <2>1, CallsWhileRegistered, OnlyCallService DEF Returns
<1> QED
  BY <1>1, <1>2, <1>3, <1>4, <1>5, <1>6, <1>7, <1>8 DEF Calls

\* The fields of a command keep it, whatever their order.
LEMMA FieldsService ==
  ASSUME ServiceInv, Fields
  PROVE  ServiceInv'
<1>1. CASE SetBuffer
  BY <1>1, SetBufferService
<1>2. CASE ReadsFreed
  BY <1>2, DiesService DEF ReadsFreed
<1>3. ASSUME NEW d \in Displays, NEW l \in 1..MaxLayers, SetLayerMetadata(d, l)
      PROVE  ServiceInv'
  BY <1>3, DiesService DEF SetLayerMetadata
<1>4. ASSUME NEW d \in Displays, NEW l \in 1..MaxLayers, LookUpLayerBuffer(d, l)
      PROVE  ServiceInv'
  BY <1>4, LookUpLayerService
<1>5. ASSUME NEW d \in Displays, NEW l \in 1..MaxLayers, NEW f, SetLayerField(f, d, l)
      PROVE  ServiceInv'
  <2>1. PICK status : call' = Answered(d, status)
    BY <1>5 DEF SetLayerField
  <2>2. call' \in CallRecord /\ Quiet /\ Quiet'
    BY <1>5, <2>1, AnsweredTyped DEF SetLayerField, MayCall, Quiet
  <2> QED
    BY <1>5, <2>2, CallsWhileRegistered, OnlyCallService DEF SetLayerField
<1>6. ASSUME NEW d \in Displays, LookUpClientTarget(d)
      PROVE  ServiceInv'
  BY <1>6, LookUpTargetService
<1>7. ASSUME NEW d \in Displays, NEW op \in {"getChangedCompositionTypes", "getReleaseFences"},
             MayCall, ImportBuffers(d), NEW n \in Nat,
             call' = [Call(op, d, None, "data") EXCEPT !.count = n],
             UNCHANGED <<lastLayer, target, cached, made>>, BinderKeeps
      PROVE  ServiceInv'
  <2> DEFINE c == Call(op, d, None, "data")
  <2>1. c \in CallRecord /\ c.op = op /\ c.pc = "data" /\ c.written = 0
    BY DEF Call, CallRecord, Queries
  <2> HIDE DEF c
  <2>2. call' \in CallRecord /\ call'.pc = "data" /\ call'.written = 0 /\ call'.count = n
    BY <1>7, <2>1 DEF c, CallRecord
  <2>3. Quiet /\ Quiet'
    BY <1>7, <2>2 DEF MayCall, Quiet
  <2>4. /\ layers' \in [Displays -> Partial(Buffer)]
        /\ \A e \in Displays :
             /\ DOMAIN layers'[e] = DOMAIN layers[e]
             /\ \A l \in DOMAIN layers'[e] : layers'[e][l].handle = layers[e][l].handle
    BY <1>7, ImportKeepsHandles DEF ServiceInv
  <2> QED
    BY <1>7, <2>2, <2>3, <2>4, CallsWhileRegistered, QuietService DEF ServiceInv, TypeOK
<1>8. ASSUME NEW d \in Displays, PresentDisplay(d)
      PROVE  ServiceInv'
  <2>1. PICK n \in 0..Cardinality(DOMAIN layers[d]) :
          call' = [Call("getReleaseFences", d, None, "data") EXCEPT !.count = n]
    BY <1>8 DEF PresentDisplay
  <2>2. n \in Nat
    OBVIOUS
  <2> QED
    BY <1>7, <1>8, <2>1, <2>2 DEF PresentDisplay
<1>9. ASSUME NEW d \in Displays, ValidateDisplay(d)
      PROVE  ServiceInv'
  <2>1. CASE kind[d] = "gone"
    <3>1. call' = Call("validateDisplay", d, None, "validated") /\ UNCHANGED layers
      BY <1>9, <2>1 DEF ValidateDisplay
    <3>2. call' \in CallRecord /\ call'.op = "validateDisplay" /\ call'.pc = "validated"
      BY <3>1 DEF Call, CallRecord
    <3>3. Quiet /\ Quiet'
      BY <1>9, <3>2 DEF ValidateDisplay, MayCall, Quiet
    <3> QED
      BY <1>9, <3>1, <3>2, <3>3, CallsWhileRegistered, OnlyCallService DEF ValidateDisplay
  <2>2. CASE kind[d] # "gone"
    <3>1. PICK n \in 0..Cardinality(DOMAIN layers[d]) :
            call' = [Call("getChangedCompositionTypes", d, None, "data") EXCEPT !.count = n]
      BY <1>9, <2>2 DEF ValidateDisplay
    <3>2. n \in Nat
      OBVIOUS
    <3> QED
      BY <1>7, <1>9, <2>2, <3>1, <3>2 DEF ValidateDisplay
  <2> QED
    BY <2>1, <2>2
<1>10. CASE Validated
  <2>1. /\ call # None /\ call.pc = "validated" /\ Goes("answered")
        /\ SetDisplayMustValidateState(call.d, FALSE)
        /\ UNCHANGED <<layers, lastLayer, target, made>> /\ BinderKeeps
    BY <1>10 DEF Validated
  <2>2. call.d \in Displays
    BY <2>1 DEF ServiceInv, TypeOK, CallRecord
  <2>3. /\ cached' \in [Displays -> {None} \cup Resources]
        /\ \A e \in Displays : cached'[e] # None =>
             cached[e] # None /\ cached'[e].layers = cached[e].layers
    BY <2>1, <2>2, FlagKeepsSlots DEF SetDisplayMustValidateState, ServiceInv, TypeOK
  <2>4. /\ call' \in CallRecord /\ call'.pc = "answered" /\ call'.op = call.op
        /\ call'.written = call.written /\ call'.count = call.count
    BY <2>1, GoesOn DEF ServiceInv
  <2>5. Quiet /\ Quiet'
    BY <2>1, <2>4 DEF ServiceInv, Quiet
  <2> QED
    BY <2>1, <2>3, <2>4, <2>5, CallsWhileRegistered, QuietService DEF ServiceInv, TypeOK
<1> QED
  BY <1>1, <1>2, <1>3, <1>4, <1>5, <1>6, <1>8, <1>9, <1>10 DEF Fields

-------------------------------------------------------------------------------
(* The vsync thread *)

\* Steps that leave everything but flags of the cache alone; a display with a pipeline is
\* there only while callbacks are.
LEMMA EventsService ==
  ASSUME ServiceInv, Events
  PROVE  ServiceInv'
<1>1. PICK d \in Displays : Refresh(d) \/ SendVsyncEventToClient(d)
                              \/ SendVsyncPeriodTimingChangedEventToClient(d)
  BY DEF Events
<1>2. CASE Dies("hook")
  BY <1>2, DiesService
<1>3. CASE UNCHANGED vars
  BY <1>3 DEF ServiceInv, vars, shown, service, TypeOK, LifeInv, BufferInv, Setting
<1>4. CASE /\ Real(d) /\ SetDisplayMustValidateState(d, TRUE)
           /\ UNCHANGED <<shown, service, others>>
  <2>1. UNCHANGED <<kind, layers, lastLayer, target, hooked, event, phase, alive, call, uev, made>>
    BY <1>4 DEF shown, service, others
  <2>2. phase \in InUse
    BY <1>4 DEF Real, ServiceInv, LifeInv, AllGone, NullDisplay
  <2>3. /\ cached' \in [Displays -> {None} \cup Resources]
        /\ \A e \in Displays : cached'[e] # None =>
             cached[e] # None /\ cached'[e].layers = cached[e].layers
    BY <1>4, FlagKeepsSlots DEF SetDisplayMustValidateState, ServiceInv, TypeOK
  <2>4. TypeOK' /\ LifeInv'
    BY <2>1, <2>2, <2>3 DEF ServiceInv, TypeOK, LifeInv, InUse
  <2>5. BufferInv'
    BY <2>1, <2>3 DEF ServiceInv, BufferInv, Setting
  <2> QED
    BY <2>4, <2>5 DEF ServiceInv
<1> QED
  BY <1>1, <1>2, <1>3, <1>4
     DEF Refresh, SendVsyncEventToClient, SendVsyncPeriodTimingChangedEventToClient, Hook,
         TellClient

-------------------------------------------------------------------------------
(* The handle cache knows the displays with a monitor *)

\* Displays are numbered on, and layers up to their bound.
NumbersInv ==
  /\ lastDisplay \in Nat
  /\ \A d \in Displays : d > lastDisplay => kind[d] = "gone"
  /\ \A d \in Displays : lastLayer[d] <= MaxLayers

\* An event for a display that lost its pipeline: that number never gets one again.
Removal(e) == ~e.connected /\ e.display \in 1..lastDisplay /\ ~Real(e.display)

\* Events wait only while the uevent thread tells them; all but the first are removals.
TodoInv ==
  /\ uev.pc \in {"idle", "wait", "sleep"} => uev.todo = <<>>
  /\ \A i \in 1..Len(uev.todo) : uev.todo[i].connected => i = 1
  /\ \A i \in 1..Len(uev.todo) : ~uev.todo[i].connected => Removal(uev.todo[i])

\* The event at hand will make the cache know this display.
Telling(d) ==
  uev.pc \in {"call", "clean", "remove", "add"} /\ Event.connected /\ Event.display = d

\* A display with a monitor is known, or about to be.
ToldInv ==
  phase \in {"hooking", "registered"} =>
    \A d \in Displays : Real(d) => cached[d] # None \/ Telling(d)

KnownInv == NumbersInv /\ TodoInv /\ ToldInv

\* What the cache keeps for a display is not what stands for an unknown one.
LEMMA ResourcesNotNone ==
  ASSUME NEW r \in Resources, DOMAIN r.layers \subseteq 1..MaxLayers
  PROVE  r # None
<1>1. r.layers \in Partial(Handle)
  BY DEF Resources
<1>2. r.layers \in [DOMAIN r.layers -> Handle]
  BY <1>1, PartialFunction
<1>3. r \in CacheRecord(DOMAIN r.layers)
  BY <1>2 DEF CacheRecord, Resources, Handle
<1> QED
  BY <1>3, NoneAssumption

\* A display just announced is known.
LEMMA NoResourcesNotNone ==
  NoResources # None
<1>1. NoResources \in Resources /\ DOMAIN NoResources.layers = {}
  BY PartialEmpty DEF NoResources, Resources, Handle
<1> QED
  BY <1>1, ResourcesNotNone

\* A known display whose flags or slots change stays known.
LEMMA StaysKnown ==
  ASSUME ServiceInv, NumbersInv, phase \in InUse, NEW d \in Displays, cached[d] # None,
         NEW r \in Resources, cached' = [cached EXCEPT ![d] = r],
         DOMAIN r.layers \subseteq DOMAIN cached[d].layers \cup (1..lastLayer[d])
  PROVE  \A e \in Displays : cached[e] # None => cached'[e] # None
<1>1. DOMAIN cached[d].layers \subseteq 1..lastLayer[d]
  BY DEF ServiceInv, BufferInv
<1>2. lastLayer[d] \in Nat /\ lastLayer[d] <= MaxLayers /\ MaxLayers \in Nat
  BY ServiceAssumption DEF ServiceInv, TypeOK, NumbersInv
<1>3. 1..lastLayer[d] \subseteq 1..MaxLayers
  BY <1>2
<1>4. r # None
  BY <1>1, <1>3, ResourcesNotNone
<1> QED
  BY <1>4 DEF ServiceInv, TypeOK

\* Steps that leave displays and the uevent thread alone, and forget no display.
LEMMA CacheKeepsKnown ==
  ASSUME KnownInv, UNCHANGED <<kind, lastDisplay, uev, phase>>,
         \A d \in Displays : lastLayer'[d] <= MaxLayers,
         \A d \in Displays : cached[d] # None => cached'[d] # None
  PROVE  KnownInv'
<1>1. NumbersInv'
  BY DEF KnownInv, NumbersInv
<1>2. TodoInv'
  BY DEF KnownInv, TodoInv, Removal, Real
<1>3. ToldInv'
  BY DEF KnownInv, ToldInv, Telling, Event, Real
<1> QED
  BY <1>1, <1>2, <1>3 DEF KnownInv

\* A process that begins has no display to know.
LEMMA DiesKnown ==
  ASSUME ServiceInv, NEW why, Dies(why)
  PROVE  KnownInv'
<1>1. /\ kind' = AllGone /\ lastDisplay' = 0 /\ lastLayer' = NoLayerIds /\ phase' = "none"
      /\ uev' = Idle
  BY DEF Dies, kPrimaryDisplay
<1>2. uev'.todo = <<>> /\ Len(uev'.todo) = 0
  BY <1>1 DEF Idle
<1>3. TodoInv'
  BY <1>2 DEF TodoInv
<1>4. NumbersInv'
  BY <1>1, ServiceAssumption DEF NumbersInv, AllGone, NoLayerIds
<1> QED
  BY <1>1, <1>3, <1>4 DEF KnownInv, ToldInv

\* Every event is about a display.
LEMMA EventsTyped ==
  ASSUME ServiceInv
  PROVE  \A i \in 1..Len(uev.todo) : uev.todo[i].display \in Displays
<1>1. uev.todo \in Seq(EventRecord)
  BY DEF ServiceInv, TypeOK, UEventRecord
<1>2. \A i \in 1..Len(uev.todo) : uev.todo[i] \in EventRecord
  BY <1>1
<1> QED
  BY <1>2 DEF EventRecord

\* Displays are bound when nothing is attached: their numbers are new, but for the primary's.
LEMMA BindFoundNumbers ==
  ASSUME NumbersInv, NEW first, NEW more, BindFound(first, more), UNCHANGED lastLayer
  PROVE  /\ NumbersInv' /\ lastDisplay' >= lastDisplay
         /\ \A d \in 1..lastDisplay : d \in Displays => kind'[d] = kind[d]
<1>1. /\ lastDisplay' = IF more # "gone" THEN lastDisplay + 1 ELSE lastDisplay
      /\ kind' = [d \in Displays |-> IF d = kPrimaryDisplay THEN first
                                     ELSE IF d = lastDisplay + 1 THEN more ELSE kind[d]]
  BY DEF BindFound
<1>2. lastDisplay \in Nat /\ lastDisplay' \in Nat /\ lastDisplay' >= lastDisplay
  BY <1>1 DEF NumbersInv
<1>3. \A d \in Displays : d \in Nat
  BY DEF Displays, kPrimaryDisplay
<1>4. NumbersInv'
  BY <1>1, <1>2, <1>3 DEF NumbersInv, kPrimaryDisplay
<1> QED
  BY <1>1, <1>2, <1>4 DEF kPrimaryDisplay

\* An event that was meant for the previous client removes none of the displays bound for
\* the next one.
LEMMA BindFoundTodo ==
  ASSUME ServiceInv, NumbersInv, TodoInv, NEW first, NEW more, BindFound(first, more),
         UNCHANGED <<uev, lastLayer>>
  PROVE  TodoInv'
<1>1. /\ lastDisplay \in Nat /\ lastDisplay' \in Nat /\ lastDisplay' >= lastDisplay
      /\ \A d \in 1..lastDisplay : d \in Displays => kind'[d] = kind[d]
  BY BindFoundNumbers DEF NumbersInv
<1>2. \A i \in 1..Len(uev.todo) : uev.todo[i].display \in Displays
  BY EventsTyped
<1>3. \A i \in 1..Len(uev.todo) : ~uev.todo[i].connected => Removal(uev.todo[i])'
  BY <1>1, <1>2 DEF TodoInv, Removal, Real
<1> QED
  BY <1>3 DEF TodoInv

\* Displays lose their pipelines or go: no removal is undone.
LEMMA LessToKnow ==
  ASSUME KnownInv, UNCHANGED <<lastDisplay, uev>>,
         \A d \in Displays : lastLayer'[d] <= MaxLayers,
         \A d \in Displays : Real(d)' => Real(d),
         \A d \in Displays : kind[d] = "gone" => kind'[d] = "gone",
         ServiceInv, phase' \notin {"hooking", "registered"}
  PROVE  KnownInv'
<1>1. NumbersInv'
  BY DEF KnownInv, NumbersInv
<1>2. \A i \in 1..Len(uev.todo) : uev.todo[i].display \in Displays
  BY EventsTyped
<1>3. \A i \in 1..Len(uev.todo) : ~uev.todo[i].connected => Removal(uev.todo[i])'
  BY <1>2 DEF KnownInv, TodoInv, Removal
<1>4. TodoInv'
  BY <1>3 DEF KnownInv, TodoInv
<1> QED
  BY <1>1, <1>4 DEF KnownInv, ToldInv

\* Steps of a client's life: the first callback announces what it binds.
LEMMA LifeKnown ==
  ASSUME ServiceInv, KnownInv, Life
  PROVE  KnownInv'
<1>0. \A d \in Displays : lastLayer[d] <= MaxLayers
  BY DEF KnownInv, NumbersInv
<1>1. CASE CreateClientTimesOut
  BY <1>0, <1>1, CacheKeepsKnown DEF CreateClientTimesOut, vars, shown, service
<1>2. CASE RegisterHotplug
  <2>1. PICK first \in Monitors \cup {"headless"}, more \in Monitors \cup {"gone"} :
          BindFound(first, more)
    BY <1>2 DEF RegisterHotplug
  <2>2. UNCHANGED <<uev, lastLayer>>
    BY <1>2 DEF RegisterHotplug, others
  <2>3. NumbersInv' /\ TodoInv'
    BY <2>1, <2>2, BindFoundNumbers, BindFoundTodo DEF KnownInv
  <2>4. \A d \in Displays : Real(d)' => cached'[d] = NoResources
    BY <1>2 DEF RegisterHotplug, Real
  <2> QED
    BY <2>3, <2>4, NoResourcesNotNone DEF KnownInv, ToldInv
<1>3. ASSUME UNCHANGED <<shown, cached, uev>>, phase' = phase \/ phase' # "registered"
                                                 \/ phase = "hooking",
             phase' # "hooking" \/ phase = "hooking"
      PROVE  KnownInv'
  <2>1. UNCHANGED <<kind, lastDisplay, lastLayer, cached, uev>>
    BY <1>3 DEF shown
  <2>2. NumbersInv'
    BY <2>1 DEF KnownInv, NumbersInv
  <2>3. TodoInv'
    BY <2>1 DEF KnownInv, TodoInv, Removal, Real
  <2>4. ToldInv'
    BY <1>3, <2>1 DEF KnownInv, ToldInv, Telling, Event, Real
  <2> QED
    BY <2>2, <2>3, <2>4 DEF KnownInv
<1>4. CASE CreateClient \/ ResetEventCallback \/ ClientDestroyed
  BY <1>3, <1>4 DEF CreateClient, ResetEventCallback, ClientDestroyed, others
<1>5. ASSUME NEW i \in DOMAIN LockedHooks, RegisterLockedHook(i) \/ UnregisterLockedHook(i)
      PROVE  KnownInv'
  BY <1>3, <1>5 DEF RegisterLockedHook, UnregisterLockedHook, others
<1>6. CASE UnregisterHotplug
  <2>1. /\ UNCHANGED <<lastDisplay, lastLayer, uev>> /\ phase' = "detaching"
        /\ kind' = [d \in Displays |-> IF Real(d) THEN "headless" ELSE kind[d]]
    BY <1>6 DEF UnregisterHotplug, others
  <2>2. \A d \in Displays : /\ Real(d)' => Real(d)
                            /\ kind[d] = "gone" => kind'[d] = "gone"
    BY <2>1 DEF Real
  <2> QED
    BY <1>0, <2>1, <2>2, LessToKnow
<1>7. CASE RegisterCallback
  <2>1. CASE Dies("detached")
    BY <2>1, DiesKnown
  <2>2. CASE ~Dies("detached")
    <3>1. /\ UNCHANGED <<lastDisplay, uev>> /\ phase' = "unhooking"
          /\ kind' = AllGone /\ lastLayer' = NoLayerIds
      BY <1>7, <2>2 DEF RegisterCallback, others
    <3>2. \A d \in Displays : /\ ~Real(d)' /\ kind'[d] = "gone" /\ lastLayer'[d] <= MaxLayers
      BY <3>1, ServiceAssumption DEF Real, AllGone, NoLayerIds
    <3> QED
      BY <3>1, <3>2, LessToKnow
  <2> QED
    BY <2>1, <2>2
<1>8. CASE DestroyResources
  <2>1. /\ UNCHANGED <<kind, lastDisplay, lastLayer>> /\ phase' = "destroyed"
        /\ uev' = [uev EXCEPT !.pc = IF uev.pc \in InCallback THEN "lost" ELSE uev.pc]
    BY <1>8 DEF DestroyResources, shown
  <2>2. uev'.todo = uev.todo /\ uev'.pc \in {"lost", uev.pc}
    BY <2>1 DEF ServiceInv, TypeOK, UEventRecord
  <2>3. TodoInv'
    BY <2>1, <2>2 DEF KnownInv, TodoInv, Removal, Real
  <2> QED
    BY <2>1, <2>3 DEF KnownInv, NumbersInv, ToldInv
<1> QED
  BY <1>1, <1>2, <1>4, <1>5, <1>6, <1>7, <1>8 DEF Life

\* The uevent thread goes on with the events it has.
LEMMA TellingKnown ==
  ASSUME KnownInv, UNCHANGED <<kind, lastDisplay, lastLayer, phase>>, TodoInv',
         \A d \in Displays : Real(d) /\ (cached[d] # None \/ Telling(d)) =>
           cached'[d] # None \/ Telling(d)'
  PROVE  KnownInv'
<1>1. NumbersInv'
  BY DEF KnownInv, NumbersInv
<1>2. ToldInv'
  BY DEF KnownInv, ToldInv, Real
<1> QED
  BY <1>1, <1>2 DEF KnownInv

\* The thread keeps its events and stays in the callback.
LEMMA SameTodo ==
  ASSUME KnownInv, UNCHANGED <<kind, lastDisplay>>, uev'.todo = uev.todo,
         uev'.pc \notin {"idle", "wait", "sleep"}
  PROVE  TodoInv' /\ Event' = Event
BY DEF KnownInv, TodoInv, Removal, Real, Event

\* Steps of the callback: a removal is of a display without a monitor, and a display that
\* is announced again is known in the end.
LEMMA CallbackKnown ==
  ASSUME ServiceInv, KnownInv,
         OnHotplug \/ CleanDisplayResources \/ RemoveDisplay \/ AddPhysicalDisplay
  PROVE  KnownInv'
<1>1. CASE Dies("teardown")
  BY <1>1, DiesKnown
<1>2. CASE ~Dies("teardown")
  <2>1. uev.pc \in {"call"} \cup InCallback /\ UNCHANGED <<kind, lastDisplay, lastLayer, phase>>
    BY <1>2 DEF OnHotplug, CleanDisplayResources, RemoveDisplay, AddPhysicalDisplay, InCallback,
       UEventKeeps, service
  <2>2. /\ Event \in EventRecord /\ Event.display \in Displays
        /\ uev.todo \in Seq(EventRecord) /\ uev.todo # <<>> /\ uev \in UEventRecord
    BY <2>1, EventAtHand DEF ServiceInv, TypeOK, UEventRecord
  <2>3. 1 \in 1..Len(uev.todo)
    BY <2>2
  <2>4. ~Event.connected => ~Real(Event.display)
    BY <2>3 DEF KnownInv, TodoInv, Removal, Event
  <2>5. cached \in [Displays -> {None} \cup Resources]
    BY DEF ServiceInv, TypeOK
  <2>6. CASE OnHotplug
    <3>1. /\ UNCHANGED cached
          /\ \E pc \in {"remove", "add", "clean"} : \E h :
               uev' = [uev EXCEPT !.pc = pc, !.handle = h]
      BY <1>2, <2>6 DEF OnHotplug
    <3>2. uev'.todo = uev.todo /\ uev'.pc \in {"remove", "add", "clean"}
      BY <2>2, <3>1 DEF UEventRecord
    <3>3. TodoInv' /\ Event' = Event
      BY <2>1, <3>2, SameTodo
    <3> QED
      BY <2>1, <3>1, <3>2, <3>3, TellingKnown DEF Telling
  <2>7. CASE CleanDisplayResources
    <3>1. uev' = [uev EXCEPT !.pc = "remove"] /\ UNCHANGED cached
      BY <2>7 DEF CleanDisplayResources
    <3>2. uev'.todo = uev.todo /\ uev'.pc = "remove"
      BY <2>2, <3>1 DEF UEventRecord
    <3>3. TodoInv' /\ Event' = Event
      BY <2>1, <3>2, SameTodo
    <3> QED
      BY <2>1, <3>1, <3>2, <3>3, TellingKnown DEF Telling
  <2>8. CASE RemoveDisplay
    <3>1. /\ uev' = [uev EXCEPT !.pc = IF Event.connected THEN "add" ELSE "told", !.handle = None]
          /\ cached' = [cached EXCEPT ![Event.display] = None]
      BY <2>8 DEF RemoveDisplay
    <3>2. /\ uev'.todo = uev.todo /\ uev'.pc \in {"add", "told"}
          /\ Event.connected => uev'.pc = "add"
      BY <2>2, <3>1 DEF UEventRecord
    <3>3. TodoInv' /\ Event' = Event
      BY <2>1, <3>2, SameTodo
    <3>4. ASSUME NEW d \in Displays, Real(d), cached[d] # None \/ Telling(d)
          PROVE  cached'[d] # None \/ Telling(d)'
      <4>1. CASE d = Event.display
        BY <2>4, <3>2, <3>3, <3>4, <4>1 DEF Telling
      <4>2. CASE d # Event.display
        BY <2>5, <3>1, <3>4, <4>2 DEF Telling
      <4> QED
        BY <4>1, <4>2
    <3> QED
      BY <2>1, <3>3, <3>4, TellingKnown
  <2>9. CASE AddPhysicalDisplay
    <3>1. /\ uev' = [uev EXCEPT !.pc = "told", !.handle = None]
          /\ cached' = [cached EXCEPT ![Event.display] = NoResources]
      BY <2>9 DEF AddPhysicalDisplay
    <3>2. uev'.todo = uev.todo /\ uev'.pc = "told"
      BY <2>2, <3>1 DEF UEventRecord
    <3>3. TodoInv'
      BY <2>1, <3>2, SameTodo
    <3>4. \A d \in Displays : cached[d] # None \/ Telling(d) => cached'[d] # None
      BY <2>2, <2>5, <3>1, NoResourcesNotNone DEF Telling
    <3> QED
      BY <2>1, <3>3, <3>4, TellingKnown
  <2> QED
    BY <2>6, <2>7, <2>8, <2>9
<1> QED
  BY <1>1, <1>2

\* While the thread waits for the main lock it has no event to tell.
LEMMA WaitKnown ==
  ASSUME ServiceInv, KnownInv, Updates
  PROVE  /\ phase \in {"hooking", "registered"} /\ uev.todo = <<>>
         /\ \A d \in Displays : Real(d) => cached[d] # None
<1>1. phase \in {"hooking", "registered"}
  BY DEF ServiceInv, TypeOK, LifeInv, Phases, InUse, Updates
<1> QED
  BY <1>1 DEF KnownInv, TodoInv, ToldInv, Telling, Updates

\* A connector is plugged in: its display is about to be known.
LEMMA PlugKnown ==
  ASSUME ServiceInv, KnownInv, NEW k \in Monitors, Plug(k)
  PROVE  KnownInv'
<1> DEFINE d == IF Real(kPrimaryDisplay) THEN lastDisplay + 1 ELSE kPrimaryDisplay
           e == [display |-> d, connected |-> TRUE]
<1>1. /\ Updates /\ d \in Displays /\ kind' = [kind EXCEPT ![d] = k]
      /\ lastDisplay' = IF d = kPrimaryDisplay THEN lastDisplay ELSE d
      /\ uev' = [pc |-> "call", todo |-> <<e>>, handle |-> None]
      /\ UNCHANGED <<lastLayer, cached, phase>>
  BY DEF Plug, Announces, service
<1>2. \A x \in Displays : Real(x) => cached[x] # None
  BY <1>1, WaitKnown
<1>3. \A x \in Displays : x # d => kind'[x] = kind[x]
  BY <1>1 DEF ServiceInv, TypeOK
<1>4. NumbersInv'
  <2>1. lastDisplay' \in Nat /\ lastDisplay' >= lastDisplay /\ (d = lastDisplay' \/ d = 0)
    BY <1>1 DEF KnownInv, NumbersInv, kPrimaryDisplay
  <2>2. ASSUME NEW x \in Displays, x > lastDisplay' PROVE kind'[x] = "gone"
    <3>1. x \in Nat /\ x > lastDisplay /\ x # d /\ lastDisplay \in Nat
      BY <2>1, <2>2 DEF Displays, kPrimaryDisplay, KnownInv, NumbersInv
    <3> QED
      BY <1>3, <3>1 DEF KnownInv, NumbersInv
  <2> QED
    BY <1>1, <2>1, <2>2 DEF KnownInv, NumbersInv
<1> HIDE DEF d
<1>5. e.connected /\ e.display = d
  OBVIOUS
<1> HIDE DEF e
<1>6. Len(uev'.todo) = 1 /\ uev'.todo[1] = e /\ uev'.pc = "call"
  BY <1>1
<1>7. TodoInv'
  BY <1>5, <1>6 DEF TodoInv
<1>8. ASSUME NEW x \in Displays, Real(x)' PROVE cached'[x] # None \/ Telling(x)'
  <2>1. CASE x = d
    BY <1>5, <1>6, <2>1 DEF Telling, Event
  <2>2. CASE x # d
    BY <1>1, <1>2, <1>3, <1>8, <2>2 DEF Real
  <2> QED
    BY <2>1, <2>2
<1> QED
  BY <1>4, <1>7, <1>8 DEF KnownInv, ToldInv

\* A connector is unplugged: the display that loses its pipeline is not the one that is
\* announced, if there is one.
LEMMA UnplugKnown ==
  ASSUME ServiceInv, KnownInv, NEW d \in Displays, Unplug(d)
  PROVE  KnownInv'
<1>1. PICK heir \in Displays :
        /\ Updates /\ Real(heir) /\ (heir = d \/ d = kPrimaryDisplay)
        /\ kind' = [kind EXCEPT ![heir] = "headless",
                                ![d] = IF heir = d THEN "headless" ELSE kind[heir]]
        /\ Announces(IF heir = d THEN <<[display |-> d, connected |-> d = kPrimaryDisplay]>>
                     ELSE <<[display |-> d, connected |-> TRUE],
                            [display |-> heir, connected |-> FALSE]>>)
        /\ Real(d) /\ UNCHANGED <<lastDisplay, lastLayer, cached, phase>>
  BY DEF Unplug, service
<1>2. \A x \in Displays : Real(x) => cached[x] # None
  BY <1>1, WaitKnown
<1>3. kind \in [Displays -> Kinds] /\ lastDisplay \in Nat /\ \A x \in Displays : x \in Nat
  BY DEF ServiceInv, TypeOK, KnownInv, NumbersInv, Displays, kPrimaryDisplay
<1>4. \A x \in Displays : x # d /\ x # heir => kind'[x] = kind[x]
  BY <1>1, <1>3
<1>5. kind'[heir] = "headless" /\ (heir # d => kind'[d] = kind[heir])
  BY <1>1, <1>3
<1>6. heir <= lastDisplay /\ d <= lastDisplay
  BY <1>1, <1>3 DEF KnownInv, NumbersInv, Real
<1>7. NumbersInv'
  BY <1>1, <1>3, <1>4, <1>6 DEF KnownInv, NumbersInv
<1>8. \A x \in Displays : Real(x)' => cached'[x] # None
  BY <1>1, <1>2, <1>4, <1>5 DEF Real
<1>9. heir # kPrimaryDisplay => heir \in 1..lastDisplay
  BY <1>3, <1>6 DEF kPrimaryDisplay
<1>10. ~Real(heir)'
  BY <1>5 DEF Real
<1>11. CASE heir = d
  <2> DEFINE e == [display |-> d, connected |-> d = kPrimaryDisplay]
  <2>1. e.display = d /\ (e.connected <=> d = kPrimaryDisplay)
    OBVIOUS
  <2>2. uev' = [pc |-> "call", todo |-> <<e>>, handle |-> None]
    BY <1>1, <1>11 DEF Announces
  <2> HIDE DEF e
  <2>3. Len(uev'.todo) = 1 /\ uev'.todo[1] = e /\ uev'.pc = "call"
    BY <2>2
  <2>4. ~e.connected => Removal(e)'
    BY <1>1, <1>9, <1>10, <1>11, <2>1 DEF Removal
  <2>5. TodoInv'
    BY <2>3, <2>4 DEF TodoInv
  <2> QED
    BY <1>7, <1>8, <2>5 DEF KnownInv, ToldInv
<1>12. CASE heir # d
  <2> DEFINE e == [display |-> d, connected |-> TRUE]
             g == [display |-> heir, connected |-> FALSE]
  <2>1. e.connected /\ ~g.connected /\ g.display = heir
    OBVIOUS
  <2>2. uev' = [pc |-> "call", todo |-> <<e, g>>, handle |-> None]
    BY <1>1, <1>12 DEF Announces
  <2> HIDE DEF e, g
  <2>3. Len(uev'.todo) = 2 /\ uev'.todo[1] = e /\ uev'.todo[2] = g /\ uev'.pc = "call"
    BY <2>2
  <2>4. Removal(g)'
    BY <1>1, <1>9, <1>10, <1>12, <2>1 DEF Removal
  <2>5. TodoInv'
    BY <2>1, <2>3, <2>4 DEF TodoInv
  <2> QED
    BY <1>7, <1>8, <2>5 DEF KnownInv, ToldInv
<1> QED
  BY <1>11, <1>12

\* No event, nothing to be said of events.
LEMMA NoTodo ==
  ASSUME uev'.todo = <<>>
  PROVE  TodoInv'
<1>1. Len(uev'.todo) = 0
  OBVIOUS
<1> QED
  BY <1>1 DEF TodoInv

\* The steps of the uevent thread.
LEMMA UEventsKnown ==
  ASSUME ServiceInv, KnownInv, UEvents
  PROVE  KnownInv'
<1>0. uev \in UEventRecord
  BY DEF ServiceInv, TypeOK
<1>1. CASE \/ \E k \in Monitors : Plug(k)
           \/ \E d \in Displays : Unplug(d)
           \/ OnHotplug \/ CleanDisplayResources \/ RemoveDisplay \/ AddPhysicalDisplay
  BY <1>1, PlugKnown, UnplugKnown, CallbackKnown
<1>2. CASE OnHotplugTooLate
  BY <1>2, DiesKnown DEF OnHotplugTooLate
<1>3. CASE ReadUevent \/ UpdateNothing
  <2>1. /\ UNCHANGED <<kind, lastDisplay, lastLayer, cached, phase>>
        /\ uev.pc \in {"idle", "wait"} /\ \E pc : uev' = [uev EXCEPT !.pc = pc]
    BY <1>3 DEF ReadUevent, UpdateNothing, Updates, shown, service
  <2>2. uev'.todo = <<>> /\ \A d \in Displays : ~Telling(d)
    BY <1>0, <2>1 DEF KnownInv, TodoInv, Telling, UEventRecord
  <2>3. TodoInv'
    BY <2>2, NoTodo
  <2> QED
    BY <2>1, <2>2, <2>3, TellingKnown
<1>4. CASE AttachLate
  <2>1. PICK first \in Monitors \cup {"headless"}, more \in Monitors \cup {"gone"} :
          BindFound(first, more)
    BY <1>4 DEF AttachLate
  <2>2. /\ UNCHANGED <<lastLayer, phase>> /\ phase = "detaching"
        /\ uev' = [uev EXCEPT !.pc = "sleep"] /\ uev.pc = "wait"
    BY <1>4 DEF AttachLate, UpdatesLate, service
  <2>3. uev'.todo = <<>>
    BY <1>0, <2>2 DEF KnownInv, TodoInv, UEventRecord
  <2>4. TodoInv'
    BY <2>3, NoTodo
  <2>5. NumbersInv'
    BY <2>1, <2>2, BindFoundNumbers DEF KnownInv
  <2> QED
    BY <2>2, <2>4, <2>5 DEF KnownInv, ToldInv
<1>5. CASE MakeNullDisplayLate
  <2>1. /\ UNCHANGED <<lastDisplay, lastLayer, cached, phase>>
        /\ kind' = [kind EXCEPT ![kPrimaryDisplay] = "headless"]
        /\ uev' = [uev EXCEPT !.pc = "sleep"] /\ uev.pc = "wait"
    BY <1>5 DEF MakeNullDisplayLate, UpdatesLate, service
  <2>2. uev'.todo = <<>> /\ \A d \in Displays : ~Telling(d)
    BY <1>0, <2>1 DEF KnownInv, TodoInv, Telling, UEventRecord
  <2>3. TodoInv'
    BY <2>2, NoTodo
  <2>4. \A d \in Displays : kind'[d] = kind[d] \/ (d = 0 /\ ~Real(d)')
    BY <2>1 DEF ServiceInv, TypeOK, Real, kPrimaryDisplay
  <2>5. NumbersInv'
    BY <2>1, <2>4 DEF KnownInv, NumbersInv
  <2>6. ToldInv'
    BY <2>1, <2>2, <2>4 DEF KnownInv, ToldInv, Real
  <2> QED
    BY <2>3, <2>5, <2>6 DEF KnownInv
<1>6. CASE NextEvent
  <2>1. /\ uev.pc = "told" /\ UNCHANGED <<kind, lastDisplay, lastLayer, cached, phase>>
        /\ uev' = IF Len(uev.todo) > 1 /\ "hotplug" \in hooked
                  THEN [uev EXCEPT !.pc = "call", !.todo = Tail(uev.todo)]
                  ELSE [uev EXCEPT !.pc = "sleep", !.todo = <<>>]
    BY <1>6 DEF NextEvent, UEventKeeps, service
  <2>2. \A d \in Displays : ~Telling(d)
    BY <2>1 DEF Telling
  <2>3. CASE Len(uev.todo) > 1 /\ "hotplug" \in hooked
    <3> DEFINE rest == Tail(uev.todo)
    <3>1. uev.todo \in Seq(EventRecord)
      BY <1>0 DEF UEventRecord
    <3>2. /\ Len(rest) = Len(uev.todo) - 1 /\ Len(uev.todo) \in Nat
          /\ \A i \in 1..Len(rest) : rest[i] = uev.todo[i + 1]
      BY <2>3, <3>1
    <3>3. uev' = [uev EXCEPT !.pc = "call", !.todo = rest]
      BY <2>1, <2>3
    <3> HIDE DEF rest
    <3>4. uev'.todo = rest /\ uev'.pc = "call"
      BY <1>0, <3>3 DEF UEventRecord
    <3>5. ASSUME NEW i \in 1..Len(rest) PROVE ~rest[i].connected /\ Removal(rest[i])
      <4>1. i + 1 \in 1..Len(uev.todo) /\ i + 1 # 1 /\ rest[i] = uev.todo[i + 1]
        BY <3>2
      <4> QED
        BY <4>1 DEF KnownInv, TodoInv
    <3>6. \A i \in 1..Len(uev'.todo) : ~uev'.todo[i].connected /\ Removal(uev.todo[i])'
      BY <2>1, <3>4, <3>5 DEF Removal, Real
    <3>7. TodoInv'
      BY <3>4, <3>6 DEF TodoInv
    <3> QED
      BY <2>1, <2>2, <3>7, TellingKnown
  <2>4. CASE ~(Len(uev.todo) > 1 /\ "hotplug" \in hooked)
    <3>1. uev'.todo = <<>>
      BY <1>0, <2>1, <2>4 DEF UEventRecord
    <3>2. TodoInv'
      BY <3>1, NoTodo
    <3> QED
      BY <2>1, <2>2, <3>2, TellingKnown
  <2> QED
    BY <2>3, <2>4
<1>7. CASE Dispose
  <2>1. /\ UNCHANGED <<lastDisplay, lastLayer, cached, phase>>
        /\ uev.pc = "sleep" /\ uev' = Idle
        /\ kind' = [d \in Displays |-> IF d \in {x \in Disposable : kind[x] = "headless"}
                                       THEN "gone" ELSE kind[d]]
    BY <1>7 DEF Dispose, service
  <2>2. uev'.todo = <<>> /\ \A d \in Displays : ~Telling(d)
    BY <2>1 DEF Idle, Telling
  <2>3. TodoInv'
    BY <2>2, NoTodo
  <2>4. \A d \in Displays : kind'[d] \in {kind[d], "gone"}
    BY <2>1
  <2>5. NumbersInv'
    BY <2>1, <2>4 DEF KnownInv, NumbersInv
  <2>6. ToldInv'
    BY <2>1, <2>2, <2>4 DEF KnownInv, ToldInv, Real
  <2> QED
    BY <2>3, <2>5, <2>6 DEF KnownInv
<1> QED
  BY <1>1, <1>2, <1>3, <1>4, <1>5, <1>6, <1>7 DEF UEvents

\* The calls and the fields of commands forget no display.
LEMMA CallThreadKnown ==
  ASSUME ServiceInv, KnownInv, Calls \/ Fields
  PROVE  KnownInv'
<1>0. /\ \A d \in Displays : lastLayer[d] <= MaxLayers
      /\ TypeOK /\ NumbersInv /\ cached \in [Displays -> {None} \cup Resources]
  BY DEF ServiceInv, TypeOK, KnownInv, NumbersInv
<1>1. ASSUME BinderKeeps, UNCHANGED lastLayer,
             \A d \in Displays : cached[d] # None => cached'[d] # None
      PROVE  KnownInv'
  BY <1>0, <1>1, CacheKeepsKnown DEF BinderKeeps, service
<1>2. ASSUME NEW d \in Displays, cached[d] # None, MayCall \/ call # None,
             BinderKeeps, UNCHANGED lastLayer,
             \/ \E b \in BOOLEAN : cached' = [cached EXCEPT ![d].must = b]
             \/ \E b \in BOOLEAN : cached' = [cached EXCEPT ![d].sized = b]
             \/ \E h \in Handle : cached' = [cached EXCEPT ![d].target = h]
             \/ \E f \in Partial(Handle) :
                  /\ DOMAIN f \subseteq DOMAIN cached[d].layers \cup (1..lastLayer[d])
                  /\ cached' = [cached EXCEPT ![d].layers = f]
      PROVE  KnownInv'
  <2>1. cached[d] \in Resources
    BY <1>0, <1>2
  <2>2. \E r \in Resources : /\ cached' = [cached EXCEPT ![d] = r]
                             /\ DOMAIN r.layers \subseteq
                                  DOMAIN cached[d].layers \cup (1..lastLayer[d])
    <3>1. ASSUME NEW b \in BOOLEAN
          PROVE  /\ [cached[d] EXCEPT !.must = b] \in Resources
                 /\ [cached[d] EXCEPT !.must = b].layers = cached[d].layers
                 /\ [cached[d] EXCEPT !.sized = b] \in Resources
                 /\ [cached[d] EXCEPT !.sized = b].layers = cached[d].layers
      BY <2>1 DEF Resources
    <3>2. ASSUME NEW h \in Handle
          PROVE  /\ [cached[d] EXCEPT !.target = h] \in Resources
                 /\ [cached[d] EXCEPT !.target = h].layers = cached[d].layers
      BY <2>1 DEF Resources
    <3>3. ASSUME NEW f \in Partial(Handle)
          PROVE  /\ [cached[d] EXCEPT !.layers = f] \in Resources
                 /\ [cached[d] EXCEPT !.layers = f].layers = f
      BY <2>1 DEF Resources
    <3>4. CASE \E b \in BOOLEAN : cached' = [cached EXCEPT ![d].must = b]
      BY <3>1, <3>4
    <3>5. CASE \E b \in BOOLEAN : cached' = [cached EXCEPT ![d].sized = b]
      BY <3>1, <3>5
    <3>6. CASE \E h \in Handle : cached' = [cached EXCEPT ![d].target = h]
      BY <3>2, <3>6
    <3>7. CASE \E f \in Partial(Handle) :
                  /\ DOMAIN f \subseteq DOMAIN cached[d].layers \cup (1..lastLayer[d])
                  /\ cached' = [cached EXCEPT ![d].layers = f]
      BY <3>3, <3>7
    <3> QED
      BY <1>2, <3>4, <3>5, <3>6, <3>7
  <2>3. phase \in InUse
    BY <1>2, CallsWhileRegistered DEF InUse
  <2>4. \A e \in Displays : cached[e] # None => cached'[e] # None
    BY <1>0, <1>2, <2>2, <2>3, StaysKnown
  <2> QED
    BY <1>1, <1>2, <2>4
<1>3. CASE ReadsFreed
  BY <1>3, DiesKnown DEF ReadsFreed
<1>4. CASE \/ \E d \in Displays : SetPowerModeOn(d)
           \/ \E d \in Displays, l \in 1..MaxLayers : SetLayerMetadata(d, l)
  BY <1>4, DiesKnown DEF SetPowerModeOn, SetLayerMetadata
<1>5. CASE \/ Returns \/ AskData \/ SetBuffer
           \/ \E d \in Displays : \/ ValidateDisplay(d) \/ PresentDisplay(d)
                                  \/ \E l \in 1..MaxLayers : DestroyLayer(d, l)
                                  \/ \E q \in Asked : AskCount(q, d)
                                  \/ \E f \in Forwarded : Forward(f, d)
  BY <1>1, <1>5 DEF Returns, AskData, SetBuffer, ValidateDisplay, PresentDisplay, DestroyLayer,
     AskCount, Forward
<1>6. ASSUME NEW f, NEW d \in Displays, NEW l \in 1..MaxLayers, SetLayerField(f, d, l)
      PROVE  KnownInv'
  BY <1>1, <1>6 DEF SetLayerField
<1>7. ASSUME NEW d \in Displays, CreateLayer(d)
      PROVE  KnownInv'
  <2>1. /\ lastLayer' = [lastLayer EXCEPT ![d] = lastLayer[d] + 1] /\ lastLayer[d] < MaxLayers
        /\ UNCHANGED cached /\ BinderKeeps
    BY <1>7 DEF CreateLayer
  <2>2. \A e \in Displays : lastLayer'[e] <= MaxLayers
    BY <1>0, <2>1, ServiceAssumption DEF TypeOK
  <2> QED
    BY <2>1, <2>2, CacheKeepsKnown DEF BinderKeeps, service
<1>8. CASE AddLayer
  <2> DEFINE g == WithEntry(cached[call.d].layers, call.l, None)
  <2>1. /\ call # None /\ call.pc = "addLayer" /\ UNCHANGED lastLayer /\ BinderKeeps
        /\ cached' = IF cached[call.d] = None THEN cached
                     ELSE [cached EXCEPT ![call.d].layers = g]
    BY <1>8 DEF AddLayer
  <2>2. call.d \in Displays /\ call.l \in 1..lastLayer[call.d] /\ call.l \in Nat
    <3>1. call.d \in Displays
      BY <1>0, <2>1 DEF TypeOK, CallRecord
    <3>2. call.l \in 1..lastLayer[call.d]
      BY <2>1 DEF ServiceInv, BufferInv
    <3> QED
      BY <3>1, <3>2
  <2>3. CASE cached[call.d] # None
    <3>1. cached[call.d].layers \in Partial(Handle)
      BY <1>0, <2>2, <2>3, SlotsPartial
    <3>2. g \in Partial(Handle) /\ DOMAIN g = DOMAIN cached[call.d].layers \cup {call.l}
      BY <2>2, <3>1, PartialFunction DEF WithEntry, Handle
    <3> HIDE DEF g
    <3>3. DOMAIN g \subseteq DOMAIN cached[call.d].layers \cup (1..lastLayer[call.d])
      BY <2>2, <3>2
    <3>4. cached' = [cached EXCEPT ![call.d].layers = g]
      BY <2>1, <2>3
    <3> QED
      BY <1>2, <2>1, <2>2, <2>3, <3>2, <3>3, <3>4
  <2> QED
    BY <1>1, <2>1, <2>3
<1>9. CASE RemoveLayer
  <2> DEFINE g == Restrict(cached[call.d].layers, DOMAIN cached[call.d].layers \ {call.l})
  <2>1. /\ call # None /\ UNCHANGED lastLayer /\ BinderKeeps
        /\ cached' = IF cached[call.d] = None THEN cached
                     ELSE [cached EXCEPT ![call.d].layers = g]
    BY <1>9 DEF RemoveLayer
  <2>2. call.d \in Displays
    BY <1>0, <2>1 DEF TypeOK, CallRecord
  <2>3. CASE cached[call.d] # None
    <3>1. cached[call.d].layers \in Partial(Handle)
      BY <1>0, <2>2, <2>3, SlotsPartial
    <3>2. g \in Partial(Handle) /\ DOMAIN g \subseteq DOMAIN cached[call.d].layers
      BY <3>1, PartialFunction DEF Restrict
    <3> HIDE DEF g
    <3>3. cached' = [cached EXCEPT ![call.d].layers = g]
      BY <2>1, <2>3
    <3> QED
      BY <1>2, <2>1, <2>2, <2>3, <3>2, <3>3
  <2> QED
    BY <1>1, <2>1, <2>3
<1>10. ASSUME NEW d \in Displays, SetClientTargetSlotCount(d)
       PROVE  KnownInv'
  BY <1>2, <1>10 DEF SetClientTargetSlotCount
<1>11. CASE Validated
  <2>1. /\ call # None /\ UNCHANGED lastLayer /\ BinderKeeps /\ call.d \in Displays
        /\ cached' = IF cached[call.d] = None THEN cached
                     ELSE [cached EXCEPT ![call.d].must = FALSE]
    BY <1>0, <1>11 DEF Validated, SetDisplayMustValidateState, TypeOK, CallRecord
  <2>2. CASE cached[call.d] # None
    <3>1. \E b \in BOOLEAN : cached' = [cached EXCEPT ![call.d].must = b]
      BY <2>1, <2>2
    <3> QED
      BY <1>2, <2>1, <2>2, <3>1
  <2> QED
    BY <1>1, <2>1, <2>2
<1>12. ASSUME NEW d \in Displays, NEW l \in 1..MaxLayers, LookUpLayerBuffer(d, l)
       PROVE  KnownInv'
  <2> DEFINE stored == [h \in 1..MaxHandles |-> [cached EXCEPT ![d].layers[l] = h]]
             f == [cached[d].layers EXCEPT ![l] = made + 1]
  <2>1. /\ MayCall /\ cached[d] # None /\ UNCHANGED lastLayer /\ BinderKeeps
        /\ \/ cached' = cached
           \/ made < MaxHandles /\ cached' = stored[made + 1]
    BY <1>12 DEF LookUpLayerBuffer, LookUp
  <2>2. CASE cached' # cached
    <3>1. made + 1 \in 1..MaxHandles /\ made + 1 \in Handle
      BY <1>0, <2>1, <2>2, ServiceAssumption DEF TypeOK, Handle
    <3>2. cached' = [cached EXCEPT ![d].layers = f]
      BY <2>1, <2>2, <3>1
    <3>3. cached[d].layers \in Partial(Handle)
      BY <1>0, <2>1, SlotsPartial
    <3>4. f \in Partial(Handle) /\ DOMAIN f = DOMAIN cached[d].layers
      BY <3>1, <3>3, PartialFunction
    <3> HIDE DEF f
    <3> QED
      BY <1>2, <2>1, <3>2, <3>4
  <2> QED
    BY <1>1, <2>1, <2>2
<1>13. ASSUME NEW d \in Displays, LookUpClientTarget(d)
       PROVE  KnownInv'
  <2> DEFINE stored == [h \in 1..MaxHandles |-> [cached EXCEPT ![d].target = h]]
  <2>1. /\ MayCall /\ cached[d] # None /\ UNCHANGED lastLayer /\ BinderKeeps
        /\ \/ cached' = cached
           \/ made < MaxHandles /\ cached' = stored[made + 1]
    BY <1>13 DEF LookUpClientTarget, LookUp
  <2>2. CASE cached' # cached
    <3>1. made + 1 \in 1..MaxHandles /\ made + 1 \in Handle
      BY <1>0, <2>1, <2>2, ServiceAssumption DEF TypeOK, Handle
    <3>2. cached' = [cached EXCEPT ![d].target = made + 1]
      BY <2>1, <2>2, <3>1
    <3> QED
      BY <1>2, <2>1, <3>1, <3>2
  <2> QED
    BY <1>1, <2>1, <2>2
<1> QED
  BY <1>3, <1>4, <1>5, <1>6, <1>7, <1>8, <1>9, <1>10, <1>11, <1>12, <1>13 DEF Calls, Fields

\* So do the events of the vsync thread.
LEMMA EventsKnown ==
  ASSUME ServiceInv, KnownInv, Events
  PROVE  KnownInv'
<1>0. \A d \in Displays : lastLayer[d] <= MaxLayers
  BY DEF KnownInv, NumbersInv
<1>1. PICK d \in Displays : Refresh(d) \/ SendVsyncEventToClient(d)
                              \/ SendVsyncPeriodTimingChangedEventToClient(d)
  BY DEF Events
<1>2. CASE Dies("hook")
  BY <1>2, DiesKnown
<1>3. CASE UNCHANGED vars
  BY <1>0, <1>3, CacheKeepsKnown DEF vars, shown, service
<1>4. CASE /\ Real(d) /\ SetDisplayMustValidateState(d, TRUE)
           /\ UNCHANGED <<shown, service, others>>
  <2>1. UNCHANGED <<kind, lastDisplay, lastLayer, phase, uev>>
    BY <1>4 DEF shown, service, others
  <2>2. \A e \in Displays : cached[e] # None => cached'[e] # None
    <3>1. CASE cached[d] = None
      BY <1>4, <3>1 DEF SetDisplayMustValidateState
    <3>2. CASE cached[d] # None
      <4>1. phase \in InUse
        BY <1>4 DEF Real, ServiceInv, LifeInv, AllGone, NullDisplay
      <4>2. cached[d] \in Resources
        BY <3>2 DEF ServiceInv, TypeOK
      <4>3. /\ [cached[d] EXCEPT !.must = TRUE] \in Resources
            /\ [cached[d] EXCEPT !.must = TRUE].layers = cached[d].layers
        BY <4>2 DEF Resources
      <4>4. \E r \in Resources : /\ cached' = [cached EXCEPT ![d] = r]
                                 /\ r.layers = cached[d].layers
        BY <1>4, <3>2, <4>3 DEF SetDisplayMustValidateState
      <4> QED
        BY <3>2, <4>1, <4>4, StaysKnown DEF KnownInv
    <3> QED
      BY <3>1, <3>2
  <2> QED
    BY <1>0, <2>1, <2>2, CacheKeepsKnown
<1> QED
  BY <1>1, <1>2, <1>3, <1>4
     DEF Refresh, SendVsyncEventToClient, SendVsyncPeriodTimingChangedEventToClient, Hook,
         TellClient

-------------------------------------------------------------------------------
(* Theorems *)

\* The invariant holds of every behaviour of the service.
THEOREM ServiceKeepsInv == Spec => []ServiceInv
<1>1. ASSUME Init PROVE ServiceInv
  <2>1. made \in Nat
    BY <1>1 DEF Init
  <2> QED
    BY <1>1, <2>1, NothingKept DEF Init
<1>2. ASSUME ServiceInv, [Next]_vars PROVE ServiceInv'
  <2>1. CASE Step
    BY <1>2, <2>1, LifeService, UEventsService, CallsService, FieldsService, EventsService DEF Step
  <2>2. CASE Restart \/ UNCHANGED vars
    BY <1>2, <2>2 DEF Restart, ServiceInv, vars, shown, service, TypeOK, LifeInv,
       BufferInv, Setting
  <2> QED
    BY <1>2, <2>1, <2>2 DEF Next
<1> QED
  BY <1>1, <1>2, PTL DEF Spec

\* A layer that the device and the handle cache both know has the buffer of its slot,
\* through hotplugs, destroyed layers and displays announced again (executeSetLayerBuffer).
THEOREM LayersShowCached == Spec => []LayersShowCachedBuffers
<1>1. ServiceInv => LayersShowCachedBuffers
  BY DEF ServiceInv, BufferInv, Setting, LayersShowCachedBuffers
<1> QED
  BY <1>1, ServiceKeepsInv, PTL

\* The next client finds nothing of the previous one (~ComposerClient).
THEOREM HandoverClean == Spec => []CleanHandover
<1>1. ServiceInv => CleanHandover
  BY DEF ServiceInv, LifeInv, CleanHandover, NullDisplay, AllGone, NoLayers, NoTargets,
     NothingCached, InUse
<1> QED
  BY <1>1, ServiceKeepsInv, PTL

\* The hooks under the main lock never meet a reset event callback (hook::refresh).
THEOREM HooksSafe == Spec => []LockedHooksSafe
<1>1. ServiceInv => LockedHooksSafe
  BY DEF ServiceInv, TypeOK, Phases, LifeInv, LockedHooksSafe, InUse
<1> QED
  BY <1>1, ServiceKeepsInv, PTL

\* The handle cache knows every display with a monitor when no hotplug is being told, also
\* one that an event of the previous client's time met (onHotplug, FinalizeDisplayBinding).
THEOREM DisplaysKnown == Spec => []AttachedDisplaysKnown
<1>1. ASSUME Init PROVE KnownInv
  <2>1. /\ kind = AllGone /\ lastDisplay = 0 /\ lastLayer = NoLayerIds /\ phase = "none"
        /\ uev.todo = <<>> /\ Len(uev.todo) = 0
    BY <1>1 DEF Init, Idle, kPrimaryDisplay
  <2>2. NumbersInv
    BY <2>1, ServiceAssumption DEF NumbersInv, AllGone, NoLayerIds
  <2> QED
    BY <2>1, <2>2 DEF KnownInv, TodoInv, ToldInv
<1>2. ASSUME ServiceInv, KnownInv, [Next]_vars PROVE KnownInv'
  <2>1. CASE Step
    BY <1>2, <2>1, LifeKnown, UEventsKnown, CallThreadKnown, EventsKnown DEF Step
  <2>2. CASE Restart \/ UNCHANGED vars
    <3>1. UNCHANGED <<kind, lastDisplay, lastLayer, cached, uev, phase>>
      BY <2>2 DEF Restart, vars, shown, service
    <3>2. \A d \in Displays : lastLayer'[d] <= MaxLayers
      BY <1>2, <3>1 DEF KnownInv, NumbersInv
    <3> QED
      BY <1>2, <3>1, <3>2, CacheKeepsKnown
  <2> QED
    BY <1>2, <2>1, <2>2 DEF Next
<1>3. KnownInv => AttachedDisplaysKnown
  BY DEF KnownInv, ToldInv, Telling, AttachedDisplaysKnown
<1> QED
  BY <1>1, <1>2, <1>3, ServiceKeepsInv, PTL DEF Spec
===============================================================================
