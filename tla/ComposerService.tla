---------------------------- MODULE ComposerService ----------------------------
(* The HWC3 service: Composer with its one client, ComposerClient, the command   *)
(* engine, the cache of buffer handles, HalImpl and the HWC2 displays behind it.  *)
(*                                                                                *)
(* Three threads take steps.  A call thread serves the client, one call at a    *)
(* time (the client serialises its calls); every HWC2 call it makes holds the     *)
(* main lock only for itself, and every access to the handle cache only the       *)
(* cache's own lock, so that steps of the other threads come between.  The uevent *)
(* thread attaches and detaches displays and calls onHotplug with the main lock   *)
(* released.  The vsync thread sends vsync events and requests for a refresh under *)
(* the main lock.  A fault ends the process, which init starts again.             *)
(*                                                                                *)
(* A buffer handle is the number of its import.  The cache owns a handle as long  *)
(* as it is in a slot; a replaced one lives until its call ends.  Layers and the  *)
(* client target have one slot each.  What the command engine reports back is left *)
(* out: an error changes nothing else, the engine goes on with the next field.     *)
EXTENDS HalTable, FiniteSets, Functions

CONSTANTS
  MaxDisplay,   \* bound: handles of displays other than the primary
  MaxLayers,    \* bound: layers created, all displays together
  MaxHandles,   \* bound: buffer handles imported
  MaxPlugs,     \* bound: hotplugs
  Monitors,     \* kinds of displays that may be plugged in
  Asked,        \* the two-call queries the client makes
  None

ASSUME ServiceAssumption ==
  /\ MaxDisplay \in Nat /\ MaxLayers \in Nat /\ MaxHandles \in Nat /\ MaxPlugs \in Nat
  /\ Monitors \subseteq {"sdr", "hdr"} /\ Monitors # {}
  /\ Asked \subseteq Queries

\* HalImpl gets a device only if it provides the functions HalImpl demands.
ASSUME DeviceLoads == HalImplLoads

kPrimaryDisplay == 0
Displays == kPrimaryDisplay..MaxDisplay

\* A map with an entry inserted or replaced.
WithEntry(f, k, v) == [j \in DOMAIN f \cup {k} |-> IF j = k THEN v ELSE f[j]]

\* The calls in progress; None is none of them.
CallRecord ==
  [op : Queries \cup {"call", "createLayer", "destroyLayer", "setLayerBuffer",
                      "setClientTarget", "validateDisplay"},
   d : Displays, l : Nat \cup {None},
   pc : {"addLayer", "removeLayer", "data", "again", "device", "validated", "answered"},
   handle : Nat \cup {None}, replaced : Nat \cup {None},
   count : Nat, written : Int, bad : BOOLEAN]

\* What the handle cache may keep for a display with slots for these layers.
CacheRecord(ls) == [must : BOOLEAN, sized : BOOLEAN, target : Nat \cup {None},
                    layers : [ls -> Nat \cup {None}]]

ASSUME NoneAssumption ==
  /\ None \notin CallRecord
  /\ \A ls \in SUBSET (1..MaxLayers) : None \notin CacheRecord(ls)

VARIABLES
  kind,      \* [display -> existence, pipeline and monitor]
  lastDisplay, \* last_display_handle_
  layers,    \* [display -> [layer -> [handle, fresh]]]: HwcDisplay::layers_ with
             \* buffer_handle_ and buffer_handle_updated_
  lastLayer, \* [display -> layer_idx_]
  target,    \* [display -> [handle, fresh]]: client_layer_
  cached,    \* [display -> None or what the handle cache keeps for it]
  hooked,    \* callbacks registered with DrmHwcTwo
  event,     \* HalImpl::mEventCallback is set
  phase,     \* of the ComposerClient: its life and its destructor
  alive,     \* Composer::mClientAlive
  call,      \* the call the call thread serves, or None
  uev,       \* the uevent thread
  made,      \* buffer handles imported so far
  plugs,     \* hotplugs so far
  fault      \* why the process died, or None

shown == <<kind, lastDisplay, layers, lastLayer, target>>
service == <<hooked, event, phase, alive>>
others == <<call, uev, made, plugs, fault>>
vars == <<shown, cached, service, call, uev, made, plugs, fault>>

NoBuffer == [handle |-> None, fresh |-> FALSE]
NoResources == [must |-> TRUE, sized |-> FALSE, target |-> None, layers |-> <<>>]
Idle == [pc |-> "idle", todo |-> <<>>, handle |-> None]

\* The process begins: no display, no client.
AllGone == [d \in Displays |-> "gone"]
NoLayers == [d \in Displays |-> <<>>]
NoLayerIds == [d \in Displays |-> 0]
NoTargets == [d \in Displays |-> NoBuffer]
NothingCached == [d \in Displays |-> None]

Init ==
  /\ kind = AllGone /\ lastDisplay = kPrimaryDisplay
  /\ layers = NoLayers /\ lastLayer = NoLayerIds /\ target = NoTargets
  /\ cached = NothingCached
  /\ hooked = {} /\ event = FALSE
  /\ phase = "none" /\ alive = FALSE
  /\ call = None
  /\ uev = Idle
  /\ made = 0 /\ plugs = 0
  /\ fault = None

\* A null pointer or one to a destroyed object is used: the process ends, with all it
\* keeps.
Dies(why) ==
  /\ fault' = why
  /\ kind' = AllGone /\ lastDisplay' = kPrimaryDisplay
  /\ layers' = NoLayers /\ lastLayer' = NoLayerIds /\ target' = NoTargets
  /\ cached' = NothingCached
  /\ hooked' = {} /\ event' = FALSE
  /\ phase' = "none" /\ alive' = FALSE
  /\ call' = None
  /\ uev' = Idle
  /\ UNCHANGED <<made, plugs>>

\* init starts the service again; the framework connects anew.
Restart ==
  /\ fault # None
  /\ fault' = None
  /\ UNCHANGED <<shown, cached, service, call, uev, made, plugs>>

Real(d) == kind[d] \in {"sdr", "hdr"}

\* The client makes one call at a time, once it is registered.
MayCall == phase = "registered" /\ call = None

\* The handles the cache owns, and the one that the running call still keeps.
Owned ==
  UNION {IF cached[d] = None THEN {} ELSE {cached[d].target} \cup Range(cached[d].layers)
           : d \in Displays}
    \cup (IF call = None THEN {} ELSE {call.replaced})

-------------------------------------------------------------------------------
(* Composer and the life of its client *)

\* createClient: waitForClientDestroyedLocked waits up to a second for the previous
\* client.  A caller that waits in vain gets none, and tries again.
CreateClientTimesOut == alive /\ UNCHANGED vars

CreateClient ==
  /\ phase = "none" /\ ~alive
  /\ phase' = "created" /\ alive' = TRUE
  /\ UNCHANGED <<shown, cached, hooked, event, others>>

\* UpdateFrontendDisplays when nothing is attached: the first monitor serves the primary
\* display, another one a new display; without any there is a headless primary.
BindFound(first, more) ==
  /\ more # "gone" => first # "headless" /\ lastDisplay < MaxDisplay
  /\ lastDisplay' = IF more # "gone" THEN lastDisplay + 1 ELSE lastDisplay
  /\ kind' = [d \in Displays |-> IF d = kPrimaryDisplay THEN first
                                 ELSE IF d = lastDisplay + 1 THEN more ELSE kind[d]]

\* registerCallback, hotplug: ResourceManager::Init binds the displays it finds and
\* announces those that it binds or makes: not a headless primary that was left over.
\* The client makes no call before registerCallback returns.
RegisterHotplug ==
  /\ phase = "created"
  /\ event' = TRUE
  /\ hooked' = {"hotplug"}
  /\ phase' = "hooking"
  /\ \E first \in Monitors \cup {"headless"}, more \in Monitors \cup {"gone"} :
       BindFound(first, more)
  /\ cached' = [d \in Displays |->
                  IF kind'[d] = "gone" \/ (kind'[d] = "headless" /\ kind[d] = "headless")
                  THEN None ELSE NoResources]
  /\ UNCHANGED <<layers, lastLayer, target, alive, others>>

\* The other callbacks, all called under the main lock, one after the other.
LockedHooks == <<"refresh", "vsync", "vsyncPeriodTimingChanged">>
RegisterLockedHook(i) ==
  /\ phase = "hooking" /\ LockedHooks[i] \notin hooked
  /\ \A j \in 1..(i - 1) : LockedHooks[j] \in hooked
  /\ hooked' = hooked \cup {LockedHooks[i]}
  /\ phase' = IF i = Len(LockedHooks) THEN "registered" ELSE "hooking"
  /\ UNCHANGED <<shown, cached, event, alive, others>>

\* Faulty: mEventCallback is reset before the callbacks.
EventResetFirst == FALSE
\* mEventCallback stays until all callbacks are unregistered.
EventWhileUnhooking == event

\* The framework drops the client; its destructor runs when no call is served.
\* unregisterEventCallback, hotplug: the callback goes, ResourceManager::DeInit replaces
\* the handler of hotplugs and takes the pipelines away, which is not announced, and
\* FinalizeDisplayBinding sleeps with the main lock released.
UnregisterHotplug ==
  /\ phase = "registered" /\ call = None
  /\ phase' = "detaching"
  /\ hooked' = hooked \ {"hotplug"}
  /\ event' = EventWhileUnhooking
  /\ kind' = [d \in Displays |-> IF Real(d) THEN "headless" ELSE kind[d]]
  /\ target' = [d \in Displays |-> IF Real(d) THEN NoBuffer ELSE target[d]]
  /\ UNCHANGED <<lastDisplay, layers, lastLayer, cached, alive, others>>

\* Then it disposes of the displays, the devices go, and RegisterCallback disposes of
\* the primary.  If that one has a pipeline again its device is gone: Deinit uses it.
RegisterCallback ==
  /\ phase = "detaching"
  /\ \/ /\ Real(kPrimaryDisplay)
        /\ Dies("detached")
     \/ /\ ~Real(kPrimaryDisplay)
        /\ phase' = "unhooking"
        /\ kind' = AllGone
        /\ layers' = NoLayers /\ lastLayer' = NoLayerIds /\ target' = NoTargets
        /\ UNCHANGED <<lastDisplay, cached, hooked, event, alive, others>>

UnregisterLockedHook(i) ==
  /\ phase = "unhooking" /\ LockedHooks[i] \in hooked
  /\ \A j \in 1..(i - 1) : LockedHooks[j] \notin hooked
  /\ hooked' = hooked \ {LockedHooks[i]}
  /\ UNCHANGED <<shown, cached, event, phase, alive, others>>

ResetEventCallback ==
  /\ phase = "unhooking" /\ hooked = {}
  /\ event' = FALSE
  /\ phase' = "destroying"
  /\ UNCHANGED <<shown, cached, hooked, alive, others>>

\* Faulty: destroyResources keeps the cache for the next client.
ResourcesKept == cached
\* mResources.reset() gives all handles back.
ResourcesLeft == NothingCached

\* destroyResources destroys the layers the cache knows and presents; the displays
\* are gone, or the primary is new and headless, and no HWC2 call changes anything.  An
\* onHotplug that still runs has lost its objects.
InCallback == {"clean", "remove", "add", "told"}
DestroyResources ==
  /\ phase = "destroying"
  /\ cached' = ResourcesLeft
  /\ phase' = "destroyed"
  /\ uev' = [uev EXCEPT !.pc = IF @ \in InCallback THEN "lost" ELSE @]
  /\ UNCHANGED <<shown, hooked, event, alive, call, made, plugs, fault>>

\* Faulty: nobody is told.
StillAlive == alive
\* onClientDestroyed
AliveOnDestroyed == FALSE
ClientDestroyed ==
  /\ phase = "destroyed"
  /\ phase' = "none" /\ alive' = AliveOnDestroyed
  /\ UNCHANGED <<shown, cached, hooked, event, others>>

-------------------------------------------------------------------------------
(* The uevent thread: DrmHwcTwo and HalEventCallback::onHotplug *)

\* SetPipeline drops the client target.
Rebound(ds) == target' = [d \in Displays |-> IF d \in ds THEN NoBuffer ELSE target[d]]

\* UEventListener::Routine reads a hotplug, and the handler of ResourceManager::Init
\* waits for the main lock.
ReadUevent ==
  /\ uev.pc = "idle" /\ "hotplug" \in hooked /\ plugs < MaxPlugs
  /\ uev' = [uev EXCEPT !.pc = "wait"]
  /\ plugs' = plugs + 1
  /\ UNCHANGED <<shown, cached, service, call, made, fault>>

\* The handler has the lock and a client is registered, the one that was when the
\* hotplug was read or a later one: UpdateFrontendDisplays.
Updates == uev.pc = "wait" /\ "hotplug" \in hooked

\* Nobody cancels a handler that waits: it runs in the sleep of DeInit, or after it.
UpdatesLate == uev.pc = "wait" /\ "hotplug" \notin hooked

Announces(events) == uev' = [pc |-> "call", todo |-> events, handle |-> None]

\* A connector is plugged in: it serves the headless primary, else a new display.
Plug(k) ==
  /\ Updates
  /\ kind[kPrimaryDisplay] # "gone"
  /\ LET d == IF Real(kPrimaryDisplay) THEN lastDisplay + 1 ELSE kPrimaryDisplay
     IN /\ d \in Displays
        /\ kind' = [kind EXCEPT ![d] = k]
        /\ lastDisplay' = IF d = kPrimaryDisplay THEN lastDisplay ELSE d
        /\ Rebound({d})
        /\ Announces(<<[display |-> d, connected |-> TRUE]>>)
  /\ UNCHANGED <<layers, lastLayer, cached, service, call, made, plugs, fault>>

\* The connector of display d is unplugged.  The primary goes headless, or takes the
\* pipeline of another display.  A display without a pipeline stays for a while.
Unplug(d) ==
  /\ Updates
  /\ Real(d)
  /\ \E heir \in {e \in Displays : Real(e)} :
       /\ heir = d \/ d = kPrimaryDisplay
       /\ heir = d => \A e \in Displays : d = kPrimaryDisplay /\ Real(e) => e = d
       /\ kind' = [kind EXCEPT ![heir] = "headless",
                               ![d] = IF heir = d THEN "headless" ELSE kind[heir]]
       /\ Rebound({d, heir})
       /\ Announces(IF heir = d THEN <<[display |-> d, connected |-> d = kPrimaryDisplay]>>
                    ELSE <<[display |-> d, connected |-> TRUE],
                           [display |-> heir, connected |-> FALSE]>>)
  /\ UNCHANGED <<lastDisplay, layers, lastLayer, cached, service, call, made, plugs, fault>>

\* Or the connectors are as they were.
UpdateNothing ==
  /\ Updates
  /\ uev' = [uev EXCEPT !.pc = "sleep"]
  /\ UNCHANGED <<shown, cached, service, call, made, plugs, fault>>

\* In the sleep of DeInit nothing is attached: what is connected is attached again.  The
\* callback is gone, and nothing is announced.
AttachLate ==
  /\ UpdatesLate /\ phase = "detaching"
  /\ \E first \in Monitors \cup {"headless"}, more \in Monitors \cup {"gone"} :
       BindFound(first, more)
  /\ Rebound({d \in Displays : Real(d)'})
  /\ uev' = [uev EXCEPT !.pc = "sleep"]
  /\ UNCHANGED <<layers, lastLayer, cached, service, call, made, plugs, fault>>

\* After DeInit there is no device: a primary display is made, headless, that nobody is
\* told of and that stays.
MakeNullDisplayLate ==
  /\ UpdatesLate /\ phase # "detaching"
  /\ kind' = [kind EXCEPT ![kPrimaryDisplay] = "headless"]
  /\ uev' = [uev EXCEPT !.pc = "sleep"]
  /\ UNCHANGED <<lastDisplay, layers, lastLayer, target, cached, service, call, made, plugs,
                 fault>>

Event == uev.todo[1]
UEventKeeps == UNCHANGED <<kind, lastDisplay, layers, lastLayer, service, call, made, plugs,
                           fault>>

\* The hook takes the event callback without looking; onHotplug.
OnHotplug ==
  /\ uev.pc = "call"
  /\ LET d == Event.display
         known == cached[d] # None
     IN \/ /\ ~event
           /\ Dies("teardown")
        \/ /\ event
           /\ uev' = [uev EXCEPT !.pc = IF ~Event.connected THEN "remove"
                                        ELSE IF ~known THEN "add"
                                        ELSE IF cached[d].sized THEN "clean" ELSE "remove",
                                 !.handle = IF known THEN cached[d].target ELSE None]
           /\ UNCHANGED <<target, cached>> /\ UEventKeeps

OnHotplugTooLate == uev.pc = "lost" /\ Dies("teardown")

\* HwcDisplay::SetClientTarget: without a pipeline the buffer waits.
SetClientTarget(d, h) ==
  target' = [target EXCEPT ![d] = [handle |-> h, fresh |-> h # None /\ ~Real(d)]]

\* cleanDisplayResources gives the device the handle of the slot once more.
CleanDisplayResources ==
  /\ uev.pc = "clean"
  /\ uev' = [uev EXCEPT !.pc = "remove"]
  /\ IF kind[Event.display] = "gone" THEN UNCHANGED target
     ELSE SetClientTarget(Event.display, uev.handle)
  /\ UNCHANGED cached /\ UEventKeeps

\* Faulty: a display that is announced again is forgotten.
RemoveDisplayForGood ==
  /\ uev.pc = "remove"
  /\ cached' = [cached EXCEPT ![Event.display] = None]
  /\ uev' = [uev EXCEPT !.pc = "told", !.handle = None]
  /\ UNCHANGED target /\ UEventKeeps

RemoveDisplay ==
  /\ uev.pc = "remove"
  /\ cached' = [cached EXCEPT ![Event.display] = None]
  /\ uev' = [uev EXCEPT !.pc = IF Event.connected THEN "add" ELSE "told", !.handle = None]
  /\ UNCHANGED target /\ UEventKeeps

AddPhysicalDisplay ==
  /\ uev.pc = "add"
  /\ cached' = [cached EXCEPT ![Event.display] = NoResources]
  /\ uev' = [uev EXCEPT !.pc = "told", !.handle = None]
  /\ UNCHANGED target /\ UEventKeeps

\* FinalizeDisplayBinding goes on: the next event, then the disposal of displays
\* that lost their pipeline, after a while.
NextEvent ==
  /\ uev.pc = "told"
  /\ uev' = IF Len(uev.todo) > 1 /\ "hotplug" \in hooked
            THEN [uev EXCEPT !.pc = "call", !.todo = Tail(uev.todo)]
            ELSE [uev EXCEPT !.pc = "sleep", !.todo = <<>>]
  /\ UNCHANGED <<target, cached>> /\ UEventKeeps

\* Displays marked for disposal: never the primary.
Disposable == Displays \ {kPrimaryDisplay}

Dispose ==
  /\ uev.pc = "sleep"
  /\ uev' = Idle
  /\ LET doomed == {d \in Disposable : kind[d] = "headless"}
     IN /\ kind' = [d \in Displays |-> IF d \in doomed THEN "gone" ELSE kind[d]]
        /\ layers' = [d \in Displays |-> IF d \in doomed THEN <<>> ELSE layers[d]]
        /\ target' = [d \in Displays |-> IF d \in doomed THEN NoBuffer ELSE target[d]]
  /\ UNCHANGED <<lastDisplay, lastLayer, cached, service, call, made, plugs, fault>>

\* The hooks of HalImpl take the event callback without looking.
Hook(name, d, onEvent) ==
  /\ Real(d) /\ name \in hooked
  /\ IF event THEN onEvent ELSE Dies("hook")

\* setDisplayMustValidateState: nothing if the cache does not know the display.
SetDisplayMustValidateState(d, must) ==
  cached' = IF cached[d] = None THEN cached ELSE [cached EXCEPT ![d].must = must]
MustValidateDisplay(d) == cached[d] # None /\ cached[d].must

\* The vsync thread ends flattening: onRefresh asks for a validation.
Refresh(d) ==
  Hook("refresh", d, SetDisplayMustValidateState(d, TRUE) /\ UNCHANGED <<shown, service, others>>)

\* Events that only tell the client: onVsync, onVsyncPeriodTimingChanged.
TellClient == UNCHANGED vars

\* The vsync thread.
SendVsyncEventToClient(d) == Hook("vsync", d, TellClient)

\* A frame of the call thread made a staged configuration active.
SendVsyncPeriodTimingChangedEventToClient(d) ==
  MayCall /\ Hook("vsyncPeriodTimingChanged", d, TellClient)

-------------------------------------------------------------------------------
(* The call thread: calls of ComposerClient *)

Known(d, l) == l \in DOMAIN layers[d]

\* A call in progress: where it is, the handles it carries, for a list the entries
\* expected and then written, and whether the device knows no such display.
Call(op, d, l, pc) ==
  [op |-> op, d |-> d, l |-> l, pc |-> pc, handle |-> None, replaced |-> None,
   count |-> 0, written |-> 0, bad |-> FALSE]
Goes(pc) == call' = [call EXCEPT !.pc = pc]
Answered(d, status) == [Call("call", d, None, "answered") EXCEPT !.bad = status = "BadDisplay"]
BinderKeeps == UNCHANGED <<kind, lastDisplay, service, uev, plugs, fault>>

\* The call returns; a replaced handle is given back.
Returns ==
  /\ call # None /\ call.pc = "answered"
  /\ call' = None
  /\ UNCHANGED <<layers, lastLayer, target, cached, made>> /\ BinderKeeps

\* The calls that HalImpl passes on to a display, or answers itself.
Forward(f, d) ==
  /\ MayCall
  /\ \E status \in HalStatuses(f, kind[d]) : call' = Answered(d, status)
  /\ UNCHANGED <<layers, lastLayer, target, cached, made>> /\ BinderKeeps

\* createLayer: the device makes the layer, then the cache gets its entry.
CreateLayer(d) ==
  /\ MayCall /\ DisplayHook(kind[d]) = "None"
  /\ lastLayer[d] < MaxLayers /\ SumFunction(lastLayer) < MaxLayers
  /\ lastLayer' = [lastLayer EXCEPT ![d] = @ + 1]
  /\ layers' = [layers EXCEPT ![d] = WithEntry(@, lastLayer[d] + 1, NoBuffer)]
  /\ call' = Call("createLayer", d, lastLayer[d] + 1, "addLayer")
  /\ UNCHANGED <<target, cached, made>> /\ BinderKeeps

\* If the cache does not know the display the layer stays with the device.
AddLayer ==
  /\ call # None /\ call.pc = "addLayer"
  /\ cached' = IF cached[call.d] = None THEN cached
               ELSE [cached EXCEPT ![call.d].layers = WithEntry(@, call.l, None)]
  /\ call' = None
  /\ UNCHANGED <<layers, lastLayer, target, made>> /\ BinderKeeps

DestroyLayer(d, l) ==
  /\ MayCall /\ LayerHook(kind[d], Known(d, l)) = "None"
  /\ layers' = [layers EXCEPT ![d] = Restrict(@, DOMAIN @ \ {l})]
  /\ call' = Call("destroyLayer", d, l, "removeLayer")
  /\ UNCHANGED <<lastLayer, target, cached, made>> /\ BinderKeeps

RemoveLayer ==
  /\ call # None /\ call.pc = "removeLayer"
  /\ cached' = IF cached[call.d] = None THEN cached
               ELSE [cached EXCEPT ![call.d].layers = Restrict(@, DOMAIN @ \ {call.l})]
  /\ call' = None
  /\ UNCHANGED <<layers, lastLayer, target, made>> /\ BinderKeeps

\* setClientTargetSlotCount: once for a display.
SetClientTargetSlotCount(d) ==
  /\ MayCall /\ cached[d] # None /\ ~cached[d].sized
  /\ cached' = [cached EXCEPT ![d].sized = TRUE]
  /\ UNCHANGED <<layers, lastLayer, target, call, made>> /\ BinderKeeps

\* A list is fetched with two calls of the device; the display may change between.
AskCount(q, d) ==
  /\ MayCall /\ q \in Asked /\ Answers(q, kind[d])
  /\ call' = [Call(q, d, None, "data") EXCEPT !.count = Entries(q, kind[d], 0, 0)]
  /\ UNCHANGED <<layers, lastLayer, target, cached, made>> /\ BinderKeeps

\* The data call, with the count as the capacity; that of getRenderIntents is made
\* twice.  The lists that belong to validate and present end here as well.
AskData ==
  /\ call # None /\ call.pc \in {"data", "again"}
  /\ LET k == kind[call.d]
         n == Written(call.op, Entries(call.op, k, call.count, call.count), call.count)
     IN call' = IF ~Answers(call.op, k)
                THEN [call EXCEPT !.pc = "answered"]
                ELSE [call EXCEPT !.written = n,
                        !.pc = IF call.op = "getRenderIntents" /\ call.pc = "data" THEN "again"
                               ELSE IF call.op = "getChangedCompositionTypes" THEN "validated"
                               ELSE "answered"]
  /\ UNCHANGED <<layers, lastLayer, target, cached, made>> /\ BinderKeeps

\* The calls that change nothing but for a fault.
SetPowerModeOn(d) ==
  /\ MayCall /\ kind[d] # "gone"
  /\ PowerOnFaults(kind[d])
  /\ Dies("headless")

-------------------------------------------------------------------------------
(* ComposerCommandEngine.  executeCommands holds no lock and an error does not stop *)
(* it, so that commands with many fields are sequences of calls, one for each field. *)

\* A field of a layer that is passed on.
SetLayerField(f, d, l) ==
  /\ MayCall /\ f.field # "buffer"
  /\ ~(f.field = "perFrameMetadata" /\ Known(d, l) /\ MetadataFaults(kind[d]))
  /\ \E status \in LayerStatuses(f, kind[d], Known(d, l)) : call' = Answered(d, status)
  /\ UNCHANGED <<layers, lastLayer, target, cached, made>> /\ BinderKeeps

\* The metadata of a layer is written to the connector.
SetLayerMetadata(d, l) ==
  /\ MayCall /\ Known(d, l) /\ MetadataFaults(kind[d])
  /\ Dies("headless")

\* Faulty: the handle of a cached slot is not looked up.
HandleIn(slot, useCache, new) == IF useCache THEN None ELSE new
\* ComposerHandleCache: the handle of the slot, or an imported one that replaces it.
HandleOf(slot, useCache, new) == IF useCache THEN slot ELSE new

\* The first part of executeSetLayerBuffer and executeSetClientTarget: the handle, and
\* what the cache is once a new handle is stored in the slot.
LookUp(op, d, l, slot, stored) ==
  \E useCache \in BOOLEAN :
    /\ useCache \/ made < MaxHandles
    /\ LET new == made + 1
       IN /\ call' = [Call(op, d, l, "device") EXCEPT
                        !.handle = HandleOf(slot, useCache, new),
                        !.replaced = IF useCache THEN None ELSE slot]
          /\ made' = IF useCache THEN made ELSE new
          /\ cached' = IF useCache THEN cached ELSE stored[new]

LookUpLayerBuffer(d, l) ==
  /\ MayCall /\ cached[d] # None /\ l \in DOMAIN cached[d].layers
  /\ LET stored == [h \in 1..MaxHandles |-> [cached EXCEPT ![d].layers[l] = h]]
     IN LookUp("setLayerBuffer", d, l, cached[d].layers[l], stored)
  /\ UNCHANGED <<layers, lastLayer, target>> /\ BinderKeeps

LookUpClientTarget(d) ==
  /\ MayCall /\ cached[d] # None /\ cached[d].sized
  /\ LET stored == [h \in 1..MaxHandles |-> [cached EXCEPT ![d].target = h]]
     IN LookUp("setClientTarget", d, None, cached[d].target, stored)
  /\ UNCHANGED <<layers, lastLayer, target>> /\ BinderKeeps

\* The device gets the handle; the replaced one goes when the call returns.
SetBuffer ==
  /\ call # None /\ call.pc = "device"
  /\ IF call.op = "setLayerBuffer"
     THEN /\ layers' = IF ~Known(call.d, call.l) THEN layers
                       ELSE [layers EXCEPT ![call.d][call.l] =
                                             [handle |-> call.handle, fresh |-> TRUE]]
          /\ UNCHANGED target
     ELSE /\ IF kind[call.d] = "gone" THEN UNCHANGED target
             ELSE SetClientTarget(call.d, call.handle)
          /\ UNCHANGED layers
  /\ Goes("answered")
  /\ UNCHANGED <<lastLayer, cached, made>> /\ BinderKeeps

\* Importing the buffers of the layers that go to planes.
ImportBuffers(d) ==
  \E S \in SUBSET {l \in DOMAIN layers[d] : Real(d) /\ layers[d][l].fresh} :
    layers' = [layers EXCEPT ![d] = [l \in DOMAIN @ |->
                                       IF l \in S THEN [@[l] EXCEPT !.fresh = FALSE] ELSE @[l]]]

\* validateDisplay of the device, then the list of changed types.
ValidateDisplay(d) ==
  /\ MayCall
  /\ IF kind[d] = "gone" THEN /\ call' = Call("validateDisplay", d, None, "validated")
                              /\ UNCHANGED layers
     ELSE /\ ImportBuffers(d)
          /\ \E n \in 0..Cardinality(DOMAIN layers[d]) :
               call' = [Call("getChangedCompositionTypes", d, None, "data") EXCEPT !.count = n]
  /\ UNCHANGED <<lastLayer, target, cached, made>> /\ BinderKeeps

\* Whatever the device said, the display need not be validated again.
Validated ==
  /\ call # None /\ call.pc = "validated"
  /\ SetDisplayMustValidateState(call.d, FALSE)
  /\ Goes("answered")
  /\ UNCHANGED <<layers, lastLayer, target, made>> /\ BinderKeeps

\* presentDisplay is refused unless the display is validated; then the fences.
PresentDisplay(d) ==
  /\ MayCall /\ kind[d] # "gone"
  /\ ~MustValidateDisplay(d)
  /\ ImportBuffers(d)
  /\ \E n \in 0..Cardinality(DOMAIN layers[d]) :
       call' = [Call("getReleaseFences", d, None, "data") EXCEPT !.count = n]
  /\ UNCHANGED <<lastLayer, target, cached, made>> /\ BinderKeeps

\* The device reads a handle that was given back; the import may fail, or this.
ReadsFreed ==
  /\ \/ MayCall /\ \E d \in Displays : Real(d) /\ \E l \in DOMAIN layers[d] :
                       /\ layers[d][l].fresh
                       /\ layers[d][l].handle \notin Owned \cup {None}
     \/ /\ call # None /\ call.pc = "device" /\ call.op = "setClientTarget"
        /\ Real(call.d) /\ call.handle \notin Owned \cup {None}
     \/ /\ uev.pc = "clean"
        /\ Real(Event.display) /\ uev.handle \notin Owned \cup {None}
  /\ Dies("dangling")

-------------------------------------------------------------------------------

Life == \/ CreateClientTimesOut \/ CreateClient \/ RegisterHotplug
        \/ \E i \in DOMAIN LockedHooks : RegisterLockedHook(i) \/ UnregisterLockedHook(i)
        \/ UnregisterHotplug \/ RegisterCallback \/ ResetEventCallback
        \/ DestroyResources \/ ClientDestroyed

UEvents == \/ ReadUevent \/ UpdateNothing \/ AttachLate \/ MakeNullDisplayLate
           \/ \E k \in Monitors : Plug(k)
           \/ \E d \in Displays : Unplug(d)
           \/ OnHotplug \/ OnHotplugTooLate \/ CleanDisplayResources \/ RemoveDisplay
           \/ AddPhysicalDisplay \/ NextEvent \/ Dispose

Calls == \/ \E d \in Displays :
             \/ CreateLayer(d) \/ SetClientTargetSlotCount(d) \/ SetPowerModeOn(d)
             \/ \E l \in 1..MaxLayers : DestroyLayer(d, l)
             \/ \E q \in Asked : AskCount(q, d)
             \/ \E f \in Forwarded : Forward(f, d)
         \/ AddLayer \/ RemoveLayer \/ AskData \/ Returns

Fields == \/ \E d \in Displays, l \in 1..MaxLayers :
              \/ SetLayerMetadata(d, l) \/ LookUpLayerBuffer(d, l)
              \/ \E i \in DOMAIN LayerFields : SetLayerField(LayerFields[i], d, l)
          \/ \E d \in Displays :
               \/ LookUpClientTarget(d) \/ ValidateDisplay(d) \/ PresentDisplay(d)
          \/ SetBuffer \/ Validated \/ ReadsFreed

Events == \E d \in Displays :
            \/ Refresh(d) \/ SendVsyncEventToClient(d)
            \/ SendVsyncPeriodTimingChangedEventToClient(d)

Step == Life \/ UEvents \/ Calls \/ Fields \/ Events

Next == \/ fault = None /\ Step
        \/ Restart

\* Calls end: each has finitely many steps.
Progress == AddLayer \/ RemoveLayer \/ AskData \/ SetBuffer \/ Validated \/ Returns
LifeGoesOn == \/ CreateClient \/ RegisterHotplug
              \/ \E i \in DOMAIN LockedHooks : RegisterLockedHook(i) \/ UnregisterLockedHook(i)
              \/ RegisterCallback \/ ResetEventCallback \/ DestroyResources \/ ClientDestroyed

Spec == Init /\ [][Next]_vars
FairSpec == /\ Spec
            /\ WF_vars(fault = None /\ Progress)
            /\ WF_vars(fault = None /\ LifeGoesOn)
            /\ WF_vars(Restart)

-------------------------------------------------------------------------------
(* Properties *)

\* A layer known to the device and to the handle cache has the buffer of its slot, so
\* that the buffer lives; whatever hotplugs, destroyed layers and re-announced
\* displays came between (executeSetLayerBuffer, onHotplug, createLayer).
LayersShowCachedBuffers ==
  \A d \in Displays : cached[d] # None =>
    \A l \in DOMAIN cached[d].layers \cap DOMAIN layers[d] :
      \/ layers[d][l].handle = cached[d].layers[l]
      \/ call # None /\ call.op = "setLayerBuffer" /\ call.d = d /\ call.l = l

\* When mClientAlive lets the next client in, nothing of the previous one is left: no
\* layer, cached handle, client target or callback, and no display but a headless primary,
\* though a handler of hotplugs may have waited through DeInit and the whole destructor
\* (~ComposerClient, waitForClientDestroyedLocked, DetachAllFrontendDisplays).
CleanHandover ==
  ~alive => /\ \A d \in Displays :
                 /\ kind[d] = "gone" \/ (d = kPrimaryDisplay /\ kind[d] = "headless")
                 /\ layers[d] = <<>> /\ target[d] = NoBuffer /\ cached[d] = None
            /\ hooked = {} /\ ~event /\ call = None

\* The hooks that run under the main lock never meet a reset event callback: it is set
\* before they are registered and reset after (registerEventCallback, hook::refresh,
\* hook::vsync).
LockedHooksSafe ==
  hooked \cap Range(LockedHooks) # {} => event /\ phase \notin {"destroying", "destroyed"}

\* The handle cache knows every display with a monitor whenever the uevent thread has no
\* event to tell: a removal and an addition of onHotplug are two steps, a primary takes the
\* pipeline of another display, and an event that was meant for the previous client can
\* reach the next one (onHotplug, UpdateFrontendDisplays, FinalizeDisplayBinding).
AttachedDisplaysKnown ==
  phase = "registered" /\ uev.pc \in {"idle", "wait", "sleep"} =>
    \A d \in Displays : Real(d) => cached[d] # None

\* A dropped client makes room for the next: clients are served again and again,
\* through refusals of createClient, faults and restarts (waitForClientDestroyedLocked).
ServedAgain == []<>(phase = "registered")

\* The device reads no handle that was given back ("Keep the old handle until it is
\* replaced in ComposerHal, otherwise we risk leaving a dangling pointer").
NoDanglingRead == fault # "dangling"

\* A headless display keeps the service running ("Creating null-display for headless
\* mode"; SetPowerMode checks IsInHeadlessMode).
HeadlessServes == fault # "headless"

\* DeInit ends with no display attached (DetachAllFrontendDisplays; "Headless display may
\* still be here. Remove it!").
DetachedForGood == fault # "detached"

\* The next client is told of the primary display ("Primary display MUST always exist").
PrimaryAnnounced ==
  phase = "registered" /\ uev.pc \in {"idle", "wait", "sleep"} => cached[kPrimaryDisplay] # None

\* No list is longer than announced, for any query ("must not exceed the value stored in
\* outNumModes prior to the call").
AnswersFit ==
  call # None /\ call.pc \in {"again", "validated", "answered"} => call.written <= call.count
===============================================================================
