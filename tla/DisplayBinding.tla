---------------------------- MODULE DisplayBinding ----------------------------
(***************************************************************************)
(* Hotplug: ResourceManager (drm/ResourceManager.cpp), which gives every   *)
(* connected connector a pipeline, and DrmHwcTwo                           *)
(* (hwc2_device/DrmHwcTwo.cpp), which binds the pipelines to displays and  *)
(* tells the client.                                                       *)
(*                                                                         *)
(* Two threads run this code: the uevent thread, and the client's thread   *)
(* that registers and unregisters the hotplug callback.  Both hold the     *)
(* main lock, but FinalizeDisplayBinding releases it while it calls the    *)
(* client ("send") and for 0.2 s before it disposes of displays ("sleep"). *)
(* Every state of this module is one in which the lock can be free, so its *)
(* invariants are what the other API calls see.  A pipeline is named after *)
(* its connector.                                                          *)
(***************************************************************************)
EXTENDS Naturals, Sequences, Functions

CONSTANTS
    Order,       \* the connectors as GetOrderedConnectors orders them
    NoPipe,      \* no pipeline: headless mode, or a detached display
    CreateFails, \* CreatePipeline may fail
    Windows,     \* where the other thread may step in: see LockFree
    MaxHandle    \* bound on last_display_handle_

Conns   == Range(Order)
Handles == 0 .. MaxHandle
Primary == 0    \* kPrimaryDisplay
Threads == {"uevent", "client"}

ASSUME BindingAssumption ==
    /\ Order \in Seq(Conns) /\ IsInjective(Order)
    /\ NoPipe \notin Conns
    /\ CreateFails \in BOOLEAN
    /\ Windows \subseteq {"update", "init", "deinit", "handler"}
    /\ MaxHandle \in Nat

VARIABLES
    b,           \* the bookkeeping, a record: see Binding
    connected,   \* the connectors that have a monitor
    pending,     \* a hotplug uevent waits to be read
    drms,        \* drms_ is not empty
    handler,     \* hotplug_handler_ is UpdateFrontendDisplays
    initialized, \* initialized_
    registered,  \* hotplug_callback_ # nullptr
    pc,          \* where each thread is
    job,         \* what each thread is doing there
    cursor,      \* handles whose events the thread has sent
    known        \* the displays the client was told to be connected (history)

vars == <<b, connected, pending, drms, handler, initialized, registered, pc,
          job, cursor, known>>

(* displays_, display_handles_, deferred_hotplug_events_,                  *)
(* displays_for_removal_list_, last_display_handle_, attached_pipelines_,  *)
(* and the connectors that got no pipeline at the last update (history).   *)
Empty == [displays |-> [h \in {} |-> NoPipe], handles |-> [c \in {} |-> Primary],
          deferred |-> [h \in {} |-> TRUE], removal |-> {}, last |-> Primary,
          attached |-> {}, refused |-> {}]

Init ==
    /\ b = Empty
    /\ connected \in SUBSET Conns
    /\ pending = FALSE
    /\ drms = FALSE
    /\ handler = FALSE
    /\ initialized = FALSE
    /\ registered = FALSE
    /\ pc = [t \in Threads |-> "idle"]
    /\ job = [t \in Threads |-> "none"]
    /\ cursor = [t \in Threads |-> {}]
    /\ known = {}

-----------------------------------------------------------------------------
(* The bookkeeping.                                                        *)

Put(f, x, v) == [y \in DOMAIN f \cup {x} |-> IF y = x THEN v ELSE f[y]]
Drop(f, S)   == [y \in DOMAIN f \ S |-> f[y]]

(* Faulty: a headless primary display is reported as disconnected.         *)
SetPipelineReported(s, h, p) ==
    [s EXCEPT !.displays = Put(@, h, p),
              !.deferred = Put(@, h, p # NoPipe)]

(* HwcDisplay::SetPipeline, with the event it schedules.                   *)
SetPipeline(s, h, p) ==
    [s EXCEPT !.displays = Put(@, h, p),
              !.deferred = Put(@, h, p # NoPipe \/ h = Primary)]

HasPipe(s, h) == h \in DOMAIN s.displays /\ s.displays[h] # NoPipe

(* Faulty: a new pipeline is always given to the primary display.          *)
BindPrimary(s, c) ==
    [SetPipeline(s, Primary, c) EXCEPT !.handles = Put(@, c, Primary)]

BindDisplay(s, c) ==
    LET new == HasPipe(s, Primary)
        h   == IF new THEN s.last + 1 ELSE Primary
    IN [SetPipeline(s, h, c) EXCEPT !.handles = Put(@, c, h),
                                    !.last = IF new THEN h ELSE @]

UnbindDisplay(s, c) ==
    LET h == s.handles[c]
        t == [s EXCEPT !.handles = Drop(@, {c})]
    IN IF h \in DOMAIN s.displays
       THEN [SetPipeline(t, h, NoPipe) EXCEPT
               !.removal = IF h = Primary THEN @ ELSE @ \cup {h}]
       ELSE t

(* One connector in UpdateFrontendDisplays; CreatePipeline fails for bad.  *)
UpdateConnector(s, c, bad) ==
    CASE c \in connected /\ c \notin s.attached /\ c \notin bad ->
           [BindDisplay(s, c) EXCEPT !.attached = @ \cup {c}]
      [] c \notin connected /\ c \in s.attached ->
           [UnbindDisplay(s, c) EXCEPT !.attached = @ \ {c}]
      [] OTHER -> s

(* The connectors one after the other: done[k] is what the first k leave.  *)
UpdateConnectors(s, bad) ==
    LET done[k \in 0 .. Len(Order)] ==
          IF k = 0 THEN [s EXCEPT !.refused = bad]
          ELSE UpdateConnector(done[k - 1], Order[k], bad)
    IN IF drms THEN done[Len(Order)] ELSE s

DetachAll(s) ==
    LET done[k \in 0 .. Len(Order)] ==
          IF k = 0 THEN s
          ELSE IF Order[k] \in s.attached THEN UnbindDisplay(done[k - 1], Order[k])
          ELSE done[k - 1]
    IN [done[Len(Order)] EXCEPT !.attached = {}, !.refused = {}]

(* The beginning of FinalizeDisplayBinding: the primary display exists,    *)
(* and takes over the pipeline of some other display if it has none.       *)
WithPrimary(s) ==
    IF Primary \in DOMAIN s.displays THEN s ELSE SetPipeline(s, Primary, NoPipe)

(* Faulty: a headless primary stays headless.                              *)
NoReattach(s) == {WithPrimary(s)}

Reattached(s) ==
    LET t == WithPrimary(s)
    IN IF ~HasPipe(t, Primary) /\ DOMAIN t.handles # {}
       THEN {BindDisplay(UnbindDisplay(t, c), c) : c \in DOMAIN t.handles}
       ELSE {t}

-----------------------------------------------------------------------------
(* The rest of FinalizeDisplayBinding, for thread t.                       *)

Finalize(t, what, s) ==
    /\ b' \in Reattached(s)
    /\ pc' = [pc EXCEPT ![t] = "send"]
    /\ job' = [job EXCEPT ![t] = what]
    /\ cursor' = [cursor EXCEPT ![t] = {}]

ToSend(t) == DOMAIN b.deferred \ cursor[t]

(* SendHotplugEventToClient                                                *)
Send(t) ==
    /\ pc[t] = "send"
    /\ ToSend(t) # {}
    /\ LET h == CHOOSE h \in ToSend(t) : \A g \in ToSend(t) : h <= g
       IN /\ cursor' = [cursor EXCEPT ![t] = @ \cup {h}]
          /\ known' = CASE ~registered -> known
                        [] registered /\ b.deferred[h] -> known \cup {h}
                        [] OTHER -> known \ {h}
    /\ UNCHANGED <<b, connected, pending, drms, handler, initialized,
                   registered, pc, job>>

AllSent(t) ==
    /\ pc[t] = "send"
    /\ ToSend(t) = {}
    /\ b' = [b EXCEPT !.deferred = [h \in {} |-> TRUE]]
    /\ pc' = [pc EXCEPT ![t] = "sleep"]
    /\ UNCHANGED <<connected, pending, drms, handler, initialized, registered,
                   job, cursor, known>>

(* Faulty: displays are disposed of before the client is told.             *)
DisposeEarly(t) ==
    /\ pc[t] = "send"
    /\ b' = [b EXCEPT !.displays = Drop(@, b.removal)]
    /\ pc' = [pc EXCEPT ![t] = IF job[t] = "deinit" THEN "primary" ELSE "idle"]
    /\ job' = [job EXCEPT ![t] = "none"]
    /\ initialized' = CASE job[t] = "init" -> TRUE
                        [] job[t] = "deinit" -> FALSE
                        [] OTHER -> initialized
    /\ drms' = (drms /\ job[t] # "deinit")
    /\ UNCHANGED <<connected, pending, handler, registered, cursor, known>>

(* The displays on the list, which is never cleared, are disposed of, and  *)
(* the caller finishes: Init, DeInit or the hotplug handler.               *)
Dispose(t) ==
    /\ pc[t] = "sleep"
    /\ b' = [b EXCEPT !.displays = Drop(@, b.removal)]
    /\ pc' = [pc EXCEPT ![t] = IF job[t] = "deinit" THEN "primary" ELSE "idle"]
    /\ job' = [job EXCEPT ![t] = "none"]
    /\ initialized' = CASE job[t] = "init" -> TRUE
                        [] job[t] = "deinit" -> FALSE
                        [] OTHER -> initialized
    /\ drms' = (drms /\ job[t] # "deinit")
    /\ UNCHANGED <<connected, pending, handler, registered, cursor, known>>

-----------------------------------------------------------------------------
(* The callers.                                                            *)

(* Thread t gets the main lock while the other thread has released it in   *)
(* the middle of a job of one of the kinds in Windows, or waits for it in  *)
(* the hotplug handler.  No kind covers the calls of the client: there the *)
(* other thread would clear the map that is being iterated over.           *)
LockFree(t) ==
    \A u \in Threads \ {t} :
        \/ pc[u] = "idle"
        \/ pc[u] = "sleep" /\ job[u] \in Windows
        \/ pc[u] = "handler" /\ "handler" \in Windows

RoomForHandles == b.last + Len(Order) < MaxHandle

Update(t, what, s) ==
    \E bad \in (IF CreateFails THEN SUBSET (connected \ s.attached) ELSE {{}}) :
        Finalize(t, what, UpdateConnectors(s, bad))

(* UEventListener calls the hotplug handler, which waits for the lock ...  *)
ReadUevent ==
    /\ pc["uevent"] = "idle"
    /\ pending
    /\ handler
    /\ pending' = FALSE
    /\ pc' = [pc EXCEPT !["uevent"] = "handler"]
    /\ UNCHANGED <<b, connected, drms, handler, initialized, registered, job,
                   cursor, known>>

(* ... and runs UpdateFrontendDisplays.                                    *)
HandleUevent ==
    /\ pc["uevent"] = "handler"
    /\ LockFree("uevent")
    /\ RoomForHandles
    /\ Update("uevent", "update", b)
    /\ UNCHANGED <<connected, pending, drms, handler, initialized, registered, known>>

(* Nobody listens: the uevent is dropped.                                  *)
DropUevent ==
    /\ pc["uevent"] = "idle"
    /\ pending
    /\ ~handler
    /\ pending' = FALSE
    /\ UNCHANGED <<b, connected, drms, handler, initialized, registered, pc,
                   job, cursor, known>>

(* RegisterCallback with a callback: the devices are opened first, so Init *)
(* is two steps, both under the main lock.                                 *)
OpenDevices ==
    /\ pc["client"] = "idle"
    /\ LockFree("client")
    /\ ~registered /\ ~initialized
    /\ RoomForHandles
    /\ registered' = TRUE
    /\ drms' = TRUE
    /\ pc' = [pc EXCEPT !["client"] = "open"]
    /\ UNCHANGED <<b, connected, pending, handler, initialized, job, cursor, known>>

(* Faulty: the hotplug handler is not installed before the first update.   *)
InitNoHandler ==
    /\ pc["client"] = "open"
    /\ Update("client", "init", b)
    /\ UNCHANGED <<connected, pending, drms, handler, initialized, registered, known>>

ResourceManagerInit ==
    /\ pc["client"] = "open"
    /\ handler' = TRUE
    /\ Update("client", "init", b)
    /\ UNCHANGED <<connected, pending, drms, initialized, registered, known>>

(* RegisterCallback with a null pointer: DeInit ...                        *)
Unregister ==
    /\ pc["client"] = "idle"
    /\ LockFree("client")
    /\ registered /\ initialized
    /\ registered' = FALSE
    /\ known' = {}
    /\ handler' = FALSE
    /\ Finalize("client", "deinit", DetachAll(b))
    /\ UNCHANGED <<connected, pending, drms, initialized>>

(* ... and the removal of the headless display.                            *)
RemovePrimary ==
    /\ pc["client"] = "primary"
    /\ pc' = [pc EXCEPT !["client"] = "idle"]
    /\ b' = [b EXCEPT !.displays = Drop(@, {Primary})]
    /\ UNCHANGED <<connected, pending, drms, handler, initialized, registered,
                   job, cursor, known>>

(* A monitor is plugged in or out.                                         *)
Plug(c) ==
    /\ connected' = IF c \in connected THEN connected \ {c} ELSE connected \cup {c}
    /\ pending' = TRUE
    /\ UNCHANGED <<b, drms, handler, initialized, registered, pc, job, cursor, known>>

Step(t) == Send(t) \/ AllSent(t) \/ Dispose(t)

Next ==
    \/ \E t \in Threads : Step(t)
    \/ ReadUevent
    \/ HandleUevent
    \/ DropUevent
    \/ OpenDevices
    \/ ResourceManagerInit
    \/ Unregister
    \/ RemovePrimary
    \/ \E c \in Conns : Plug(c)

(* Both threads finish what they began, and uevents are read.  Moves are   *)
(* the steps of HandleUevent and ResourceManagerInit as pc shows them.     *)
Moves(t, from) == pc[t] = from /\ pc' = [pc EXCEPT ![t] = "send"]
Fairness ==
    /\ \A t \in Threads : WF_vars(Step(t))
    /\ WF_vars(ReadUevent)
    /\ SF_pc(LockFree("uevent") /\ RoomForHandles /\ Moves("uevent", "handler"))
    /\ WF_pc(Moves("client", "open"))
    /\ WF_vars(RemovePrimary)

Spec == Init /\ [][Next]_vars
FairSpec == Spec /\ Fairness

-----------------------------------------------------------------------------
(* Properties.                                                             *)

(* The pipelines that exist and the displays that use one are paired up by *)
(* display_handles_: no display refers to a deleted pipeline, no two share *)
(* one, and no attached pipeline lacks a display.                          *)
BindingConsistent ==
    /\ DOMAIN b.handles = b.attached
    /\ \A c \in b.attached : HasPipe(b, b.handles[c]) /\ b.displays[b.handles[c]] = c
    /\ \A h \in DOMAIN b.displays : HasPipe(b, h) =>
         b.displays[h] \in b.attached /\ b.handles[b.displays[h]] = h

(* While the client is registered the primary display exists, and is       *)
(* headless only if nothing is attached ("Primary display MUST always      *)
(* exist").                                                                *)
PrimaryServes ==
    initialized =>
        /\ Primary \in DOMAIN b.displays
        /\ registered /\ b.attached # {} => HasPipe(b, Primary)

(* A display is disposed of only when it has no pipeline and the client    *)
(* has been told ("We must defer display disposal and removal, since it    *)
(* may still have pending HWC_API calls").  The thread that ends Init may  *)
(* dispose of what the other is about to announce; else no step does.      *)
DisposedAfterNotice ==
    [][\A h \in DOMAIN b.displays \ DOMAIN b'.displays :
          /\ ~HasPipe(b, h)
          /\ h \in known => pc["uevent"] = "send" /\ job["client"] = "init"]_vars

(* Whenever no events are being sent, the client knows exactly the         *)
(* displays that have a pipeline, and the primary one.                     *)
ClientKnows ==
    registered /\ initialized /\ (\A t \in Threads : pc[t] # "send") =>
        known = {h \in DOMAIN b.displays : HasPipe(b, h)} \cup {Primary}

(* While the client is registered the attached connectors are, again and   *)
(* again, exactly those that have a monitor, but for the ones no pipeline  *)
(* can be made for: no hotplug is lost, not even one that comes while Init *)
(* or another update is under way.                                         *)
Settled == b.attached = connected \ b.refused
HotplugHandled == []<>(Settled \/ ~registered \/ ~RoomForHandles)

=============================================================================
