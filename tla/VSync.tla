-------------------------------- MODULE VSync --------------------------------
(***************************************************************************)
(* The vsync thread of a display: Worker (utils/Worker.cpp), VSyncWorker   *)
(* (drm/VSyncWorker.cpp) and what HwcDisplay hangs on it: vsync events,    *)
(* the countdown to flattening and the tracking of mode changes.           *)
(*                                                                         *)
(* The actors are client threads, whose calls hold the main lock from      *)
(* beginning to end; the hotplug thread, which binds and destroys the      *)
(* display; and the worker, which waits for vertical blanks without a lock *)
(* and takes the main lock for the display's callback.  The worker's own   *)
(* mutex is never held while waiting, so what happens under it is one      *)
(* step.  Time is left out of the steps: a vertical blank arrives or is    *)
(* interrupted.  The arithmetic of timestamps stands by itself.            *)
(***************************************************************************)
EXTENDS Integers

CONSTANTS
    Interrupts,    \* a wait may be interrupted or fail
    Spurious,      \* the condition variable may wake up by itself
    CountdownMax,  \* VsyncCountdownMax (60 in the code)
    MaxTime        \* bound: periods and times GetPhasedVSync is checked for

ASSUME VSyncAssumption ==
    /\ {Interrupts, Spurious} \subseteq BOOLEAN
    /\ CountdownMax \in Nat \ {0}
    /\ MaxTime \in Nat

(* ClientFlattenningState; the states above are those of the countdown.    *)
NotRequired == -2
Flattened   == -1
ClientRefreshRequested == 0

VARIABLES
    primary,       \* handle_ = kPrimaryDisplay
    has_refresh,   \* the client registered a refresh callback
    event_en,      \* vsync_event_en_
    flat_en,       \* vsync_flattening_en_
    track_en,      \* vsync_tracking_en_
    fstate,        \* flattenning_state_
    pipeline,      \* pipeline_ # nullptr
    enabled,       \* VSyncWorker::enabled_
    wpipe,         \* VSyncWorker::pipe_ # nullptr
    callback,      \* callback_: "none", "empty" or the "display"'s
    initialized,   \* Worker::initialized_
    exit,          \* Worker::exit_
    wpc,           \* worker thread: where it is
    main,          \* main lock: "free" or who keeps it between two steps
    dpc,           \* hotplug thread: where it is in destroying the display
    delivered      \* a vsync event was sent since they were enabled (history)

displayVars == <<event_en, flat_en, track_en, fstate, pipeline>>
workerVars  == <<enabled, wpipe, callback, initialized, exit>>
kindVars    == <<primary, has_refresh>>
lifeVars    == <<main, dpc, kindVars>>
vsyncVars   == <<displayVars, workerVars, wpc, lifeVars, delivered>>

VSyncInit ==
    /\ primary \in BOOLEAN
    /\ has_refresh \in BOOLEAN
    /\ event_en = FALSE
    /\ flat_en = FALSE
    /\ track_en = FALSE
    /\ fstate = NotRequired
    /\ pipeline = FALSE
    /\ enabled = FALSE
    /\ wpipe = FALSE
    /\ callback = "none"
    /\ initialized = FALSE
    /\ exit = FALSE
    /\ wpc = "none"
    /\ main = "free"
    /\ dpc = "alive"
    /\ delivered = FALSE

-----------------------------------------------------------------------------
(* Worker and VSyncWorker as the other threads call them.                  *)

(* cond_.notify_all()                                                      *)
Signal == wpc' = IF wpc = "wait" THEN "woken" ELSE wpc

VSyncOn == enabled' = TRUE /\ Signal

(* VSyncWorker::Init: pipe_ and callback_ are written without the mutex;   *)
(* InitWorker starts the thread the first time only.                       *)
InitWorker(p, c) ==
    /\ wpipe' = p
    /\ callback' = c
    /\ initialized' = TRUE
    /\ IF initialized
       THEN UNCHANGED <<exit, wpc>>
       ELSE exit' = FALSE /\ wpc' = "top"
    /\ UNCHANGED enabled

-----------------------------------------------------------------------------
(* Calls of the clients, under the main lock.                              *)

Call == main = "free" /\ dpc = "alive" /\ initialized

EnableVsync ==
    /\ Call
    /\ event_en' = TRUE
    /\ VSyncOn
    /\ delivered' = FALSE
    /\ UNCHANGED <<flat_en, track_en, fstate, pipeline, wpipe, callback,
                   initialized, exit, lifeVars>>

DisableVsync ==
    /\ Call
    /\ event_en' = FALSE
    /\ UNCHANGED <<flat_en, track_en, fstate, pipeline, workerVars, wpc,
                   lifeVars, delivered>>

(* SetActiveConfigWithConstraints, a valid one.                            *)
TrackModeChange ==
    /\ Call
    /\ track_en' = TRUE
    /\ VSyncOn
    /\ UNCHANGED <<event_en, flat_en, fstate, pipeline, wpipe, callback,
                   initialized, exit, lifeVars, delivered>>

(* CreateComposition, once a staged mode is committed.                     *)
ModeCommitted ==
    /\ Call
    /\ pipeline
    /\ track_en
    /\ track_en' = FALSE
    /\ UNCHANGED <<event_en, flat_en, fstate, pipeline, workerVars, wpc,
                   lifeVars, delivered>>

(* ProcessClientFlatteningState, from the backend's ValidateDisplay; skip: *)
(* there is at most one layer.                                             *)
SkipFlattening ==
    /\ Call
    /\ pipeline
    /\ fstate' = NotRequired
    /\ UNCHANGED <<event_en, flat_en, track_en, pipeline, workerVars, wpc,
                   lifeVars, delivered>>

Flatten ==
    /\ Call
    /\ pipeline
    /\ fstate = ClientRefreshRequested
    /\ fstate' = Flattened
    /\ UNCHANGED <<event_en, flat_en, track_en, pipeline, workerVars, wpc,
                   lifeVars, delivered>>

(* Faulty: the worker is not switched on for the countdown.                *)
StartCountdownOnly ==
    /\ Call
    /\ pipeline
    /\ fstate # ClientRefreshRequested
    /\ flat_en' = TRUE
    /\ fstate' = CountdownMax
    /\ UNCHANGED <<event_en, track_en, pipeline, workerVars, wpc, lifeVars,
                   delivered>>

StartCountdown ==
    /\ Call
    /\ pipeline
    /\ fstate # ClientRefreshRequested
    /\ flat_en' = TRUE
    /\ VSyncOn
    /\ fstate' = CountdownMax
    /\ UNCHANGED <<event_en, track_en, pipeline, wpipe, callback, initialized,
                   exit, lifeVars, delivered>>

-----------------------------------------------------------------------------
(* The hotplug thread.                                                     *)

(* SetPipeline of a new display, or of a primary display in headless mode. *)
AttachPipeline ==
    /\ main = "free" /\ dpc = "alive"
    /\ ~pipeline
    /\ primary \/ ~initialized
    /\ pipeline' = TRUE
    /\ InitWorker(TRUE, "display")
    /\ UNCHANGED <<event_en, flat_en, track_en, fstate, lifeVars, delivered>>

(* FinalizeDisplayBinding makes a null-display of a new primary.           *)
AttachHeadless ==
    /\ main = "free" /\ dpc = "alive"
    /\ primary /\ ~initialized
    /\ InitWorker(FALSE, "display")
    /\ UNCHANGED <<displayVars, lifeVars, delivered>>

(* SetPipeline(nullptr) of a display that has one: Deinit gives the worker *)
(* an empty callback, and a primary display gets its own back, without a   *)
(* pipeline, under the same main lock.  The worker may run in between.     *)
Deinit ==
    /\ main = "free" /\ dpc = "alive"
    /\ pipeline
    /\ pipeline' = FALSE
    /\ InitWorker(FALSE, "empty")
    /\ main' = "binder"
    /\ UNCHANGED <<event_en, flat_en, track_en, fstate, dpc, kindVars, delivered>>

(* Faulty: the primary display does not get its callback back.             *)
DetachedForGood ==
    /\ main = "binder"
    /\ main' = "free"
    /\ UNCHANGED <<displayVars, workerVars, wpc, dpc, kindVars, delivered>>

Detached ==
    /\ main = "binder"
    /\ main' = "free"
    /\ IF primary THEN InitWorker(FALSE, "display")
                  ELSE UNCHANGED <<workerVars, wpc>>
    /\ UNCHANGED <<displayVars, dpc, kindVars, delivered>>

(* FinalizeDisplayBinding takes the display out of displays_ with the main *)
(* lock held and destroys it with the lock released.                       *)
Unlink ==
    /\ main = "free" /\ dpc = "alive"
    /\ initialized /\ ~pipeline
    /\ main' = "disposer"
    /\ dpc' = "unlinked"
    /\ UNCHANGED <<displayVars, workerVars, wpc, kindVars, delivered>>

(* Faulty: the display is destroyed under the main lock.                   *)
UnlockMainNot ==
    /\ dpc = "unlinked"
    /\ dpc' = "unlocked"
    /\ UNCHANGED <<displayVars, workerVars, wpc, main, kindVars, delivered>>

UnlockMain ==
    /\ dpc = "unlinked"
    /\ main' = "free"
    /\ dpc' = "unlocked"
    /\ UNCHANGED <<displayVars, workerVars, wpc, kindVars, delivered>>

(* Worker::Exit                                                            *)
Exit ==
    /\ dpc = "unlocked"
    /\ exit' = TRUE
    /\ Signal
    /\ dpc' = "join"
    /\ UNCHANGED <<displayVars, enabled, wpipe, callback, initialized, main,
                   kindVars, delivered>>

Join ==
    /\ dpc = "join"
    /\ wpc = "done"
    /\ initialized' = FALSE
    /\ dpc' = "gone"
    /\ UNCHANGED <<displayVars, enabled, wpipe, callback, exit, wpc, main,
                   kindVars, delivered>>

(* A new display.                                                          *)
NewDisplay ==
    /\ dpc = "gone"
    /\ primary' \in BOOLEAN /\ has_refresh' \in BOOLEAN
    /\ event_en' = FALSE /\ flat_en' = FALSE /\ track_en' = FALSE
    /\ fstate' = NotRequired /\ pipeline' = FALSE
    /\ enabled' = FALSE /\ wpipe' = FALSE /\ callback' = "none"
    /\ initialized' = FALSE /\ exit' = FALSE /\ wpc' = "none"
    /\ main' = main /\ dpc' = "alive" /\ delivered' = FALSE

-----------------------------------------------------------------------------
(* The worker thread.                                                      *)

AtWorker(from, to) ==
    /\ wpc = from
    /\ wpc' = to
    /\ UNCHANGED <<displayVars, workerVars, lifeVars, delivered>>

(* InternalRoutine                                                         *)
LoopTop == AtWorker("top", IF exit THEN "done" ELSE "routine")

(* Routine, up to the wait: WaitForSignalOrExitLocked looks for an exit    *)
(* request first and again after it was woken.  enabled_ is not looked at  *)
(* again.                                                                  *)
RoutineHead ==
    AtWorker("routine", IF enabled THEN "vblank" ELSE IF exit THEN "top" ELSE "wait")

SpuriousWakeup == Spurious /\ AtWorker("wait", "woken")

WokenUp == AtWorker("woken", IF exit THEN "top" ELSE "vblank")

(* Integer division of C++, which rounds towards zero.                     *)
Truncated(a, b) == IF a >= 0 THEN a \div b ELSE -((-a) \div b)

(* Faulty: the phase is kept, but the time has passed.                     *)
GetPastVSync(frame_ns, current, last_timestamp) ==
    IF last_timestamp < 0 THEN current + frame_ns
    ELSE frame_ns * Truncated(current - last_timestamp, frame_ns) + last_timestamp

(* When the synthetic vertical blank comes: the next time in phase with    *)
(* the last one, if there was one since the worker was switched on.        *)
GetPhasedVSync(frame_ns, current, last_timestamp) ==
    IF last_timestamp < 0 THEN current + frame_ns
    ELSE frame_ns * (Truncated(current - last_timestamp, frame_ns) + 1)
           + last_timestamp

(* drmWaitVBlank, or SyntheticWaitVBlank without a pipeline or when it     *)
(* fails.                                                                  *)
VBlank == AtWorker("vblank", "gate")
VBlankFails == Interrupts /\ AtWorker("vblank", "top")

Gate ==
    AtWorker("gate", IF enabled /\ callback = "display" THEN "call" ELSE "top")

(* ProcessFlatenningVsyncInternal, when flattening is on.                  *)
Counted == IF flat_en /\ fstate > ClientRefreshRequested THEN fstate - 1 ELSE fstate

RefreshCalled ==
    /\ has_refresh
    /\ Counted = ClientRefreshRequested
    /\ Counted # fstate

(* Faulty: the tracking of a mode change is forgotten.                     *)
CallbackNoTracking ==
    /\ wpc = "call"
    /\ main = "free"
    /\ delivered' = (delivered \/ event_en)
    /\ fstate' = Counted
    /\ flat_en' = (flat_en /\ ~RefreshCalled)
    /\ enabled' = (enabled /\ (event_en \/ flat_en'))
    /\ wpc' = "top"
    /\ UNCHANGED <<event_en, track_en, pipeline, wpipe, callback, initialized,
                   exit, lifeVars>>

(* Faulty: the worker is not switched off.                                 *)
CallbackStaysOn ==
    /\ wpc = "call"
    /\ main = "free"
    /\ delivered' = (delivered \/ event_en)
    /\ fstate' = Counted
    /\ flat_en' = (flat_en /\ ~RefreshCalled)
    /\ wpc' = "top"
    /\ UNCHANGED <<event_en, track_en, pipeline, workerVars, lifeVars>>

(* The callback that HwcDisplay::Init installs, under the main lock.       *)
Callback ==
    /\ wpc = "call"
    /\ main = "free"
    /\ delivered' = (delivered \/ event_en)
    /\ fstate' = Counted
    /\ flat_en' = (flat_en /\ ~RefreshCalled)
    /\ enabled' = (enabled /\ (event_en \/ flat_en' \/ track_en))
    /\ wpc' = "top"
    /\ UNCHANGED <<event_en, track_en, pipeline, wpipe, callback, initialized,
                   exit, lifeVars>>

(* callback_ was overwritten while the worker ran it and waited for the    *)
(* main lock: a data race, after which the old one runs or nothing does.   *)
CallbackLost == callback = "empty" /\ AtWorker("call", "top")

WorkerStep ==
    \/ LoopTop \/ RoutineHead \/ WokenUp \/ VBlank \/ VBlankFails \/ Gate
    \/ Callback \/ CallbackLost

VSyncNext ==
    \/ EnableVsync
    \/ DisableVsync
    \/ TrackModeChange
    \/ ModeCommitted
    \/ SkipFlattening
    \/ Flatten
    \/ StartCountdown
    \/ AttachPipeline
    \/ AttachHeadless
    \/ Deinit
    \/ Detached
    \/ Unlink
    \/ UnlockMain
    \/ Exit
    \/ Join
    \/ NewDisplay
    \/ SpuriousWakeup
    \/ WorkerStep

(* The worker runs; vertical blanks keep arriving although single waits    *)
(* may fail; the hotplug thread finishes what it began and destroys what   *)
(* it detached; and a display is not unplugged for ever, since the worker  *)
(* could find the callback empty at every vertical blank.                  *)
Fairness ==
    /\ WF_vsyncVars(WorkerStep)
    /\ SF_vsyncVars(VBlank)
    /\ <>[][~Deinit]_vsyncVars
    /\ WF_vsyncVars(Detached)
    /\ WF_vsyncVars(~primary /\ Unlink)
    /\ WF_vsyncVars(UnlockMain \/ Exit \/ Join)

VSyncSpec == VSyncInit /\ [][VSyncNext]_vsyncVars
FairSpec == VSyncSpec /\ Fairness

-----------------------------------------------------------------------------
(* Properties.                                                             *)

(* Every variable holds a value of its kind.                               *)
TypeOK ==
    /\ {primary, has_refresh} \subseteq BOOLEAN
    /\ {event_en, flat_en, track_en, pipeline} \subseteq BOOLEAN
    /\ fstate \in NotRequired .. CountdownMax
    /\ {enabled, wpipe, initialized, exit, delivered} \subseteq BOOLEAN
    /\ callback \in {"none", "empty", "display"}
    /\ wpc \in {"none", "top", "routine", "wait", "woken", "vblank", "gate",
                "call", "done"}
    /\ main \in {"free", "binder", "disposer"}
    /\ dpc \in {"alive", "unlinked", "unlocked", "join", "gone"}

(* The worker is never switched off while somebody needs it: the callback  *)
(* that does so decides with flags that client threads set, and a display  *)
(* changes its pipeline without switching anything.                        *)
NeedsKeepWorkerOn == event_en \/ flat_en \/ track_en => enabled

(* A client that enabled vsync events gets one, unless it disables them or *)
(* the display is detached: no enabling is lost to a worker that is about  *)
(* to sleep, and headless mode and hotplug do not stop them.               *)
Leaving == dpc # "alive" \/ (~primary /\ ~pipeline)
VsyncDelivered ==
    (event_en /\ ~delivered) ~> (delivered \/ ~event_en \/ Leaving)

(* The countdown to flattening does not get stuck.                         *)
CountdownAdvances ==
    \A k \in 1 .. CountdownMax :
        fstate = k ~> (fstate # k \/ Leaving)

(* A worker that nobody needs goes to sleep.                               *)
WorkerSleeps ==
    (enabled /\ ~event_en /\ ~flat_en /\ ~track_en)
        ~> (~enabled \/ event_en \/ flat_en \/ track_en \/ Leaving)

(* Whatever the clock says when the worker begins to wait: the synthetic   *)
(* vertical blank is still to come, in phase with the last one, and the    *)
(* next that is: at most a period away, or a period after the last         *)
(* timestamp if that one lies ahead (GetPhasedVSync; the division of C++   *)
(* rounds a negative difference the other way).                            *)
PhasedVSyncAhead ==
    wpc = "vblank" =>
      \A frame_ns \in 1 .. MaxTime, current \in 0 .. MaxTime, last \in -1 .. MaxTime :
        LET next == GetPhasedVSync(frame_ns, current, last)
        IN  /\ next > current
            /\ next <= frame_ns + (IF last > current THEN last ELSE current)
            /\ last >= 0 => (next - last) % frame_ns = 0

(* Destroying a display ends: the worker it joins is not waiting for a     *)
(* lock the destroyer holds ("Destroy HwcDisplays while unlocked to avoid  *)
(* vsyncworker deadlocks").                                                *)
DestroyEnds == dpc = "unlinked" ~> dpc = "gone"

=============================================================================
