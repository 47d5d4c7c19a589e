------------------------- MODULE AtomicStateManager -------------------------
(***************************************************************************)
(* DrmAtomicStateManager and its PresentTrackerThread                      *)
(* (drm/DrmAtomicStateManager.cpp, .h): one instance per display pipeline. *)
(*                                                                         *)
(* Three actors share the state of this module.                            *)
(*  - A client thread that holds the main lock while it runs               *)
(*    ExecuteAtomicCommit.  CommitFrame blocks in sync_wait with the lock  *)
(*    held, so the call is split where the kernel can move on meanwhile:   *)
(*    the building of the request, the wait for the prior frame, the       *)
(*    atomic commit ioctl and, after a failure, the clean-up commit.       *)
(*    The lock is held exactly when mpc # "idle".                          *)
(*  - The present tracker thread, which takes the lock twice per frame and *)
(*    waits for the frame's fence in between, without the lock.            *)
(*  - The KMS driver (external), which flips to a queued configuration     *)
(*    and then signals the fence of that commit.                           *)
(***************************************************************************)
EXTENDS Integers, FiniteSets

CONSTANTS
    Planes,         \* hardware planes of the pipeline
    Fbs,            \* framebuffers (DrmFbIdHandle)
    Modes,          \* display modes
    NoFb,           \* a plane that scans out nothing
    NoMode,         \* no display mode in a request
    Requests,       \* the AtomicCommitArgs the callers pass
    HdrDevice,      \* DrmDevice::IsHdrSupportedDevice
    SyncMayTimeOut, \* sync_wait may give up after its 500 ms
    DupFaults,      \* where dup() may fail: "commit", "tracker"
    Failures,       \* what may be refused: "build", "disable", "commit"
    MaxFrames       \* bound on frames_staged_

(* A composition: the framebuffer of each plane it uses (DrmKmsPlan).      *)
Plans == UNION {[S -> Fbs] : S \in SUBSET Planes}

(* AtomicCommitArgs; "keep" is an empty optional, compose is               *)
(* composition # nullptr, hdr says that a layer is in a BT.2020 space.     *)
AtomicCommitArgs ==
    [test_only : BOOLEAN, display_mode : Modes \cup {NoMode},
     active : {"keep", "on", "off"}, compose : BOOLEAN, plan : Plans,
     hdr : BOOLEAN]

ASSUME FrameAssumption ==
    /\ MaxFrames \in Nat \ {0}
    /\ NoFb \notin Fbs
    /\ NoMode \notin Modes
    /\ Requests \subseteq AtomicCommitArgs
    /\ {HdrDevice, SyncMayTimeOut} \subseteq BOOLEAN
    /\ DupFaults \subseteq {"commit", "tracker"}
    /\ Failures \subseteq {"build", "disable", "commit"}

VARIABLES
    active,          \* active_frame_state_
    staged,          \* staged_frame_state_
    fence,           \* last_present_fence_: number of the commit, 0 if empty
    frames_staged,   \* frames_staged_
    frames_tracked,  \* frames_tracked_
    hdr_mdata_set,   \* hdr_mdata_set_
    hdr_valid,       \* connector->GetHdrMatedata().valid
    connector_mode,  \* connector->GetActiveMode()
    st_man,          \* ptt_->st_man_ # nullptr: the manager still exists
    mpc, job,        \* client thread: where it is, CommitFrame's locals
    tpc,             \* tracker thread: where it is
    tracking,        \* tracking_at_the_moment
    present_fence,   \* the tracker's copy of the fence
    screen,          \* KMS: the configuration on screen
    queued,          \* KMS: the configuration waiting for a flip
    inflight         \* KMS: the fence of that flip, 0 when there is none

manVars     == <<active, staged, fence, frames_staged, frames_tracked,
                 hdr_mdata_set>>
jobVars     == <<mpc, job>>
trackerVars == <<tpc, tracking, present_fence>>
kmsVars     == <<screen, queued, inflight>>
vars        == <<manVars, hdr_valid, connector_mode, st_man, jobVars,
                 trackerVars, kmsVars>>

KmsState == [used_planes : SUBSET Planes, used_framebuffers : SUBSET Fbs,
             crtc_active_state : BOOLEAN]

EmptyState == [used_planes |-> {}, used_framebuffers |-> {},
               crtc_active_state |-> FALSE]

NoPlan == [p \in {} |-> NoFb]

(* The arguments of the clean-up commit of ExecuteAtomicCommit.            *)
CleanupArgs == [test_only |-> FALSE, display_mode |-> NoMode,
                active |-> "keep", compose |-> TRUE, plan |-> NoPlan,
                hdr |-> FALSE]

Jobs == [args : AtomicCommitArgs, new : KmsState, unused : SUBSET Planes,
         nonblock : BOOLEAN, cleanup : BOOLEAN, hdr_op : {"none", "set", "reset"}]

NoJob == [args |-> CleanupArgs, new |-> EmptyState, unused |-> {},
          nonblock |-> TRUE, cleanup |-> FALSE, hdr_op |-> "none"]

(* What the CRTC is programmed with.  plan is history: the composition of  *)
(* the last commit that had one.                                           *)
Configs == [planes : [Planes -> Fbs \cup {NoFb}], plan : Plans,
            active : BOOLEAN, mode : Modes \cup {NoMode}, hdr : BOOLEAN]

DarkConfig == [planes |-> [p \in Planes |-> NoFb], plan |-> NoPlan,
               active |-> FALSE, mode |-> NoMode, hdr |-> FALSE]

(* The configuration that the next commit starts from.                     *)
Latest == IF inflight = 0 THEN screen ELSE queued

Init ==
    /\ active = EmptyState
    /\ staged = EmptyState
    /\ fence = 0
    /\ frames_staged = 0
    /\ frames_tracked = 0
    /\ hdr_mdata_set = FALSE
    /\ hdr_valid = FALSE
    /\ connector_mode = NoMode
    /\ st_man = TRUE
    /\ mpc = "idle"
    /\ job = NoJob
    /\ tpc = "check"
    /\ tracking = -1
    /\ present_fence = 0
    /\ screen = DarkConfig
    /\ queued = DarkConfig
    /\ inflight = 0

-----------------------------------------------------------------------------
(* CommitFrame, up to the wait for the prior frame.                        *)

(* args.active after "don't set the same state twice" and "force activate  *)
(* display".                                                               *)
SameState(args) == args.active = (IF active.crtc_active_state THEN "on" ELSE "off")

RequestedActive(args) ==
    IF ~active.crtc_active_state THEN "on"
    ELSE IF SameState(args) THEN "keep"
    ELSE args.active

HasInputs(args) ==
    \/ args.display_mode # NoMode
    \/ args.active # "keep" /\ ~SameState(args)
    \/ args.compose

(* NewFrameState, then the fields that the request sets.                   *)
NewFrameState(args) ==
    [used_planes |-> IF args.compose THEN DOMAIN args.plan
                     ELSE active.used_planes,
     used_framebuffers |-> IF args.compose
                           THEN {args.plan[p] : p \in DOMAIN args.plan}
                           ELSE {},
     crtc_active_state |-> IF RequestedActive(args) = "keep"
                           THEN active.crtc_active_state
                           ELSE RequestedActive(args) = "on"]

UnusedPlanes(args) ==
    IF args.compose THEN active.used_planes \ DOMAIN args.plan ELSE {}

HasHdrLayer(args) == args.compose /\ args.hdr

(* The HDR metadata property of the request: a blob, 0, or not in it.      *)
HdrOp(args) ==
    CASE ~HdrDevice \/ ~hdr_valid -> "none"
      [] HdrDevice /\ hdr_valid /\ HasHdrLayer(args) -> "set"
      [] HdrDevice /\ hdr_valid /\ ~HasHdrLayer(args) -> "reset"

(* The bookkeeping that goes with it: the reset is sent until it has been  *)
(* built twice.                                                            *)
BuildHdr(args) ==
    /\ hdr_mdata_set' = CASE HdrOp(args) = "set" -> TRUE
                          [] HdrOp(args) = "reset" -> FALSE
                          [] OTHER -> hdr_mdata_set
    /\ hdr_valid' = (hdr_valid /\ ~(HdrOp(args) = "reset" /\ ~hdr_mdata_set))

Locals(args, cleanup) ==
    [args |-> args, new |-> NewFrameState(args),
     unused |-> UnusedPlanes(args),
     nonblock |-> RequestedActive(args) = "keep",
     cleanup |-> cleanup, hdr_op |-> HdrOp(args)]

(* Where a failed CommitFrame continues: a test returns the error, a       *)
(* frame is followed by the clean-up commit, whose failure is only logged. *)
Fail(args, cleanup) ==
    IF args.test_only \/ cleanup
    THEN mpc' = "idle" /\ job' = NoJob
    ELSE mpc' = "failed" /\ job' = NoJob

(* The request is refused before it is built: no property set, a property  *)
(* that cannot be added, a plane that does not take the layer.             *)
BuildFails(args, cleanup) ==
    /\ "build" \in Failures
    /\ HasInputs(args)
    /\ Fail(args, cleanup)
    /\ UNCHANGED <<hdr_mdata_set, hdr_valid>>

(* A plane to be disabled cannot be added: the HDR bookkeeping is done.    *)
DisableFails(args, cleanup) ==
    /\ "disable" \in Failures
    /\ HasInputs(args)
    /\ UnusedPlanes(args) # {}
    /\ BuildHdr(args)
    /\ Fail(args, cleanup)

(* A test commit: the driver answers and keeps nothing.                    *)
BuildTest(args) ==
    /\ HasInputs(args)
    /\ args.test_only
    /\ BuildHdr(args)
    /\ mpc' = "idle" /\ job' = NoJob

BuildFrame(args, cleanup) ==
    /\ HasInputs(args)
    /\ ~args.test_only
    /\ BuildHdr(args)
    /\ job' = Locals(args, cleanup)
    /\ mpc' = IF fence # 0 THEN "prior" ELSE "commit"

NoInputs(args) ==
    /\ ~HasInputs(args)
    /\ UNCHANGED <<hdr_mdata_set, hdr_valid, jobVars>>

Build(args, cleanup) ==
    /\ \/ NoInputs(args)
       \/ BuildFails(args, cleanup)
       \/ DisableFails(args, cleanup)
       \/ BuildTest(args)
       \/ BuildFrame(args, cleanup)
    /\ UNCHANGED <<active, staged, fence, frames_staged, frames_tracked,
                   connector_mode, st_man, trackerVars, kmsVars>>

(* ExecuteAtomicCommit, called with the main lock held; MaxFrames bounds   *)
(* the calls.                                                              *)
ExecuteAtomicCommit(args) ==
    /\ mpc = "idle"
    /\ st_man
    /\ frames_staged < MaxFrames
    /\ Build(args, FALSE)

(* The clean-up commit after a failure.                                    *)
CleanupCommit ==
    /\ mpc = "failed"
    /\ Build(CleanupArgs, TRUE)

-----------------------------------------------------------------------------
(* The wait for the prior frame and the commit.                            *)

(* Faulty: the fence is not cleared.                                       *)
CleanupKeepsFence ==
    /\ frames_tracked' = frames_tracked + 1
    /\ active' = staged
    /\ staged' = [EmptyState EXCEPT !.crtc_active_state = staged.crtc_active_state]
    /\ UNCHANGED <<fence, frames_staged, hdr_mdata_set>>

(* CleanupPriorFrameResources; a moved-from KmsState keeps its flag.       *)
CleanupPriorFrameResources ==
    /\ frames_tracked' = frames_tracked + 1
    /\ active' = staged
    /\ staged' = [EmptyState EXCEPT !.crtc_active_state = staged.crtc_active_state]
    /\ fence' = 0
    /\ UNCHANGED <<frames_staged, hdr_mdata_set>>

(* Faulty: a wait that does not wait.                                      *)
SyncIgnored(f) == TRUE

(* sync_wait(f, 500) returns.                                              *)
SyncReturns(f) == f # inflight \/ SyncMayTimeOut

WaitPriorFrame ==
    /\ mpc = "prior"
    /\ SyncReturns(fence)
    /\ CleanupPriorFrameResources
    /\ mpc' = "commit"
    /\ UNCHANGED <<job, hdr_valid, connector_mode, st_man, trackerVars, kmsVars>>

(* What the driver programs for the request in job.                        *)
Programmed ==
    LET args == job.args IN
    [planes |-> IF args.compose
                THEN [p \in Planes |->
                        CASE p \in DOMAIN args.plan -> args.plan[p]
                          [] p \in job.unused -> NoFb
                          [] OTHER -> Latest.planes[p]]
                ELSE Latest.planes,
     plan   |-> IF args.compose THEN args.plan ELSE Latest.plan,
     active |-> IF job.nonblock THEN Latest.active
                ELSE job.new.crtc_active_state,
     mode   |-> IF args.display_mode = NoMode THEN Latest.mode
                ELSE args.display_mode,
     hdr    |-> CASE job.hdr_op = "set" -> TRUE
                  [] job.hdr_op = "reset" -> FALSE
                  [] OTHER -> Latest.hdr]

(* connector->SetActiveMode                                                *)
SetActiveMode ==
    connector_mode' = IF job.args.display_mode = NoMode THEN connector_mode
                      ELSE job.args.display_mode

(* Faulty: nobody is woken up.                                             *)
NotifyNobody == tpc' = tpc

(* cv_.notify_all(): a waiting tracker wakes up and checks again.          *)
Notify == tpc' = IF tpc = "blocked" THEN "check" ELSE tpc

(* A nonblocking commit is queued, one at a time.  dup() of the out fence  *)
(* may fail.                                                               *)
StageFrame ==
    /\ mpc = "commit"
    /\ job.nonblock
    /\ inflight = 0
    /\ queued' = Programmed
    /\ inflight' = frames_staged + 1
    /\ fence' \in {frames_staged + 1} \cup (IF "commit" \in DupFaults THEN {0} ELSE {})
    /\ staged' = job.new
    /\ frames_staged' = frames_staged + 1
    /\ Notify
    /\ SetActiveMode
    /\ mpc' = "idle" /\ job' = NoJob
    /\ UNCHANGED <<active, frames_tracked, hdr_mdata_set, hdr_valid, st_man,
                   tracking, present_fence, screen>>

(* Faulty: a blocking commit does not become the active frame.             *)
SwitchFrameKeepsActive ==
    /\ mpc = "commit"
    /\ ~job.nonblock
    /\ screen' = Programmed
    /\ queued' = DarkConfig
    /\ inflight' = 0
    /\ SetActiveMode
    /\ mpc' = "idle" /\ job' = NoJob
    /\ UNCHANGED <<active, staged, fence, frames_staged, frames_tracked,
                   hdr_mdata_set, hdr_valid, st_man, trackerVars>>

(* A blocking commit waits for the queued flip and for its own.            *)
SwitchFrame ==
    /\ mpc = "commit"
    /\ ~job.nonblock
    /\ screen' = Programmed
    /\ queued' = DarkConfig
    /\ inflight' = 0
    /\ active' = job.new
    /\ SetActiveMode
    /\ mpc' = "idle" /\ job' = NoJob
    /\ UNCHANGED <<staged, fence, frames_staged, frames_tracked, hdr_mdata_set,
                   hdr_valid, st_man, trackerVars>>

(* The driver refuses the commit: EBUSY for a nonblocking one behind a     *)
(* flip that is still to come, or any other reason.                        *)
CommitFails ==
    /\ mpc = "commit"
    /\ (job.nonblock /\ inflight # 0) \/ "commit" \in Failures
    /\ Fail(job.args, job.cleanup)
    /\ UNCHANGED <<manVars, hdr_valid, connector_mode, st_man, trackerVars,
                   kmsVars>>

-----------------------------------------------------------------------------
(* PresentTrackerThreadFn                                                  *)

(* cv_.wait and the dup of the fence, under the main lock.                 *)
TrackerExit ==
    /\ tpc \in {"check", "relock"}
    /\ mpc = "idle"
    /\ ~st_man
    /\ tpc' = "done"
    /\ UNCHANGED <<manVars, hdr_valid, connector_mode, st_man, jobVars,
                   tracking, present_fence, kmsVars>>

TrackerSleep ==
    /\ tpc = "check"
    /\ mpc = "idle"
    /\ st_man
    /\ frames_staged <= tracking
    /\ tpc' = "blocked"
    /\ UNCHANGED <<manVars, hdr_valid, connector_mode, st_man, jobVars,
                   tracking, present_fence, kmsVars>>

TrackerPick ==
    /\ tpc = "check"
    /\ mpc = "idle"
    /\ st_man
    /\ frames_staged > tracking
    /\ tracking' = frames_staged
    /\ present_fence' \in {fence} \cup (IF "tracker" \in DupFaults THEN {0} ELSE {})
    /\ tpc' = IF present_fence' = 0 THEN "check" ELSE "sync"
    /\ UNCHANGED <<manVars, hdr_valid, connector_mode, st_man, jobVars, kmsVars>>

(* sync_wait without the lock.                                             *)
TrackerSync ==
    /\ tpc = "sync"
    /\ SyncReturns(present_fence)
    /\ tpc' = "relock"
    /\ UNCHANGED <<manVars, hdr_valid, connector_mode, st_man, jobVars,
                   tracking, present_fence, kmsVars>>

(* Faulty: the manager may have been destroyed meanwhile.                  *)
TrackerCleanupDangling ==
    /\ tpc = "relock"
    /\ mpc = "idle"
    /\ tracking > frames_tracked
    /\ CleanupPriorFrameResources
    /\ tpc' = "check" /\ present_fence' = 0
    /\ UNCHANGED <<hdr_valid, connector_mode, st_man, jobVars, tracking, kmsVars>>

TrackerCleanup ==
    /\ tpc = "relock"
    /\ mpc = "idle"
    /\ st_man
    /\ tracking > frames_tracked
    /\ CleanupPriorFrameResources
    /\ tpc' = "check" /\ present_fence' = 0
    /\ UNCHANGED <<hdr_valid, connector_mode, st_man, jobVars, tracking, kmsVars>>

TrackerSkip ==
    /\ tpc = "relock"
    /\ mpc = "idle"
    /\ st_man
    /\ tracking <= frames_tracked
    /\ tpc' = "check" /\ present_fence' = 0
    /\ UNCHANGED <<manVars, hdr_valid, connector_mode, st_man, jobVars,
                   tracking, kmsVars>>

Tracker == \/ TrackerExit \/ TrackerSleep \/ TrackerPick
           \/ TrackerSync \/ TrackerCleanup \/ TrackerSkip

-----------------------------------------------------------------------------
(* The surroundings.                                                       *)

(* Faulty: the tracker is not told.                                        *)
StopSilently ==
    /\ mpc = "idle"
    /\ st_man
    /\ st_man' = FALSE
    /\ UNCHANGED <<manVars, hdr_valid, connector_mode, jobVars, trackerVars, kmsVars>>

(* ~DrmAtomicStateManager: Stop() when the pipeline is erased, under the   *)
(* main lock.  The members, last_present_fence_ included, die with it.     *)
Stop ==
    /\ mpc = "idle"
    /\ st_man
    /\ st_man' = FALSE
    /\ Notify
    /\ UNCHANGED <<manVars, hdr_valid, connector_mode, jobVars, tracking,
                   present_fence, kmsVars>>

(* HwcLayer::SetLayerPerFrameMetadata marks the connector's metadata.      *)
SetHdrMetadata ==
    /\ HdrDevice
    /\ mpc = "idle"
    /\ st_man
    /\ ~hdr_valid
    /\ hdr_valid' = TRUE
    /\ UNCHANGED <<manVars, connector_mode, st_man, jobVars, trackerVars, kmsVars>>

(* The driver flips and signals the fence.                                 *)
Flip ==
    /\ inflight # 0
    /\ screen' = queued
    /\ queued' = DarkConfig
    /\ inflight' = 0
    /\ UNCHANGED <<manVars, hdr_valid, connector_mode, st_man, jobVars,
                   trackerVars>>

Next ==
    \/ \E args \in Requests : ExecuteAtomicCommit(args)
    \/ CleanupCommit
    \/ WaitPriorFrame
    \/ StageFrame
    \/ SwitchFrame
    \/ CommitFails
    \/ Tracker
    \/ Stop
    \/ SetHdrMetadata
    \/ Flip

(* The driver flips what is queued, a call that was started returns, and   *)
(* the tracker, which the client thread releases the main lock to after    *)
(* every call, gets it again and again.  Nothing obliges a client to call. *)
Fairness ==
    /\ WF_vars(Flip)
    /\ WF_vars(TrackerSync)
    /\ SF_vars(Tracker)
    /\ WF_vars(CleanupCommit \/ WaitPriorFrame \/ StageFrame \/ SwitchFrame
               \/ CommitFails)

Spec == Init /\ [][Next]_vars
FairSpec == Spec /\ Fairness

-----------------------------------------------------------------------------
(* Properties.                                                             *)

(* Every variable holds a value of its kind.                               *)
TypeOK ==
    /\ active \in KmsState
    /\ staged \in KmsState
    /\ frames_staged \in 0 .. MaxFrames
    /\ frames_tracked \in 0 .. frames_staged
    /\ fence \in 0 .. MaxFrames
    /\ hdr_mdata_set \in BOOLEAN
    /\ hdr_valid \in BOOLEAN
    /\ connector_mode \in Modes \cup {NoMode}
    /\ st_man \in BOOLEAN
    /\ mpc \in {"idle", "prior", "commit", "failed"}
    /\ job \in Jobs
    /\ tpc \in {"check", "blocked", "sync", "relock", "done"}
    /\ tracking \in -1 .. frames_staged
    /\ present_fence \in 0 .. MaxFrames
    /\ screen \in Configs
    /\ queued \in Configs
    /\ inflight \in 0 .. MaxFrames

(* The two asserts of CleanupPriorFrameResources hold whenever one of its  *)
(* two callers is about to run it: exactly one frame is staged and its     *)
(* fence is there.  The callers race for the same frame: the client thread *)
(* that commits the next one and the tracker that waited for this one.     *)
CleanupAssertsHold ==
    \/ mpc = "prior"
    \/ mpc = "idle" /\ st_man /\ tpc = "relock" /\ tracking > frames_tracked
    => frames_staged - frames_tracked = 1 /\ fence # 0

(* Why they hold, as an inductive invariant: frames_staged_ is one ahead   *)
(* of frames_tracked_ exactly while last_present_fence_ is set, the fence  *)
(* is that of the staged frame, the tracker, which works from copies it    *)
(* made in an earlier critical section, holds the fence of the frame       *)
(* number it compares with, and no commit is under way without a manager.  *)
StagingInv ==
    /\ frames_staged = frames_tracked + (IF fence = 0 THEN 0 ELSE 1)
    /\ fence # 0 => fence = frames_staged
    /\ mpc = "prior" => fence # 0
    /\ mpc = "commit" => fence = 0
    /\ tpc \in {"sync", "relock"} => present_fence = tracking /\ tracking > 0
    /\ inflight <= frames_staged
    /\ mpc # "idle" => frames_staged < MaxFrames /\ st_man

(* A staged frame becomes the active one, and the framebuffers of the      *)
(* frame before it are released, only after its own flip: whoever cleans   *)
(* up has waited for the fence of the frame it promotes.                   *)
PromotedAfterFlip ==
    [][frames_tracked' > frames_tracked => inflight # frames_tracked']_vars

(* The framebuffers of the frame that is on screen, and of the one that is *)
(* queued to follow it, are referenced by active_frame_state_ or           *)
(* staged_frame_state_ ("we have to hold a reference to framebuffer while  *)
(* displaying it, otherwise picture will blink").                          *)
Held == active.used_framebuffers \cup staged.used_framebuffers
FbsOf(c) == {c.plan[p] : p \in DOMAIN c.plan}
DisplayedFbHeld ==
    st_man => /\ FbsOf(screen) \subseteq Held
              /\ inflight # 0 => FbsOf(queued) \subseteq Held

(* Why, when every request has a composition and no wait times out: what   *)
(* is queued is the staged frame, and what is on screen is the frame       *)
(* before it.                                                              *)
HeldInv ==
    /\ inflight = 0 => FbsOf(screen) \subseteq
           (IF fence # 0 THEN staged ELSE active).used_framebuffers
    /\ inflight # 0 => /\ inflight = fence
                       /\ FbsOf(queued) \subseteq staged.used_framebuffers
                       /\ FbsOf(screen) \subseteq active.used_framebuffers
    /\ mpc \in {"prior", "commit"} =>
           /\ job.args.compose
           /\ job.new.used_framebuffers = FbsOf(job.args)

(* The manager's idea of the CRTC's power state, by which it drops and     *)
(* forces args.active, is the one the driver was last given.               *)
CrtcStateInSync ==
    (IF fence # 0 THEN staged ELSE active).crtc_active_state = Latest.active

(* Why: only an active CRTC is given nonblocking commits, so a staged      *)
(* frame never changes the power state.                                    *)
CrtcInv ==
    /\ fence # 0 => active.crtc_active_state /\ staged.crtc_active_state
    /\ mpc \in {"prior", "commit"} /\ job.nonblock =>
           active.crtc_active_state /\ job.new.crtc_active_state
    /\ CrtcStateInSync

(* Once the manager is destroyed the tracker, which outlives it, no longer *)
(* touches its fields.                                                     *)
UntouchedAfterStop == [][~st_man => UNCHANGED manVars]_vars

(* A plane that the last committed composition does not use has been       *)
(* switched off ("Required to cleanup unused planes").                     *)
NoStalePlane ==
    st_man => \A p \in Planes : screen.planes[p] # NoFb => p \in DOMAIN screen.plan

(* When the manager stops sending the reset of the HDR metadata the        *)
(* configuration no longer has the metadata ("Do the hdr meta info clean   *)
(* up twise considering the first time clean up may not taking effect").   *)
HdrResetReachesScreen ==
    st_man /\ mpc = "idle" /\ ~hdr_valid => ~Latest.hdr

(* Every staged frame is promoted, by the tracker or by the next commit,   *)
(* unless the manager is destroyed first: no wake-up is lost.              *)
StagedFramePromoted ==
    \A n \in 1 .. MaxFrames :
        (st_man /\ frames_staged >= n) ~> (~st_man \/ frames_tracked >= n)

(* A destroyed manager's tracker thread ends.                              *)
TrackerEnds == ~st_man ~> tpc = "done"

(* AtomicStateManager implements Presentation: what is on screen, what     *)
(* waits for its flip and what is referenced change by its steps only, so  *)
(* that the interplay of commits, tracker, failures and clean-up commits   *)
(* comes down to frames handed over, flipped and released in turn          *)
(* (CommitFrame, CleanupPriorFrameResources, PresentTrackerThreadFn).      *)
P == INSTANCE Presentation WITH
        shown   <- FbsOf(screen),
        pending <- IF inflight = 0 THEN {} ELSE {FbsOf(queued)},
        held    <- IF st_man THEN Held ELSE {},
        open    <- st_man
ImplementsPresentation == P!Spec

=============================================================================
