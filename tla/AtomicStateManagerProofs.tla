---------------------- MODULE AtomicStateManagerProofs ----------------------
(***************************************************************************)
(* Proofs about AtomicStateManager for every set of planes, framebuffers,  *)
(* modes and requests, and every bound on the number of frames.            *)
(***************************************************************************)
EXTENDS AtomicStateManager, TLAPS

-----------------------------------------------------------------------------
(* Operators                                                               *)

(* A composition uses planes of the pipeline and shows framebuffers.       *)
LEMMA PlanFacts ==
    ASSUME NEW plan \in Plans
    PROVE  /\ DOMAIN plan \subseteq Planes
           /\ \A p \in DOMAIN plan : plan[p] \in Fbs
           /\ {plan[p] : p \in DOMAIN plan} \subseteq Fbs
<1>1. PICK S \in SUBSET Planes : plan \in [S -> Fbs]
  BY DEF Plans
<1>2. DOMAIN plan = S
  BY <1>1
<1> QED
  BY <1>1, <1>2

(* The empty composition is a composition.                                 *)
LEMMA NoPlanIsPlan == NoPlan \in Plans
<1>1. NoPlan \in [{} -> Fbs]
  BY DEF NoPlan
<1>2. {} \in SUBSET Planes
  OBVIOUS
<1> QED
  BY <1>1, <1>2 DEF Plans

(* The arguments of the clean-up commit and the idle job have their types. *)
LEMMA ConstantTypes ==
    /\ CleanupArgs \in AtomicCommitArgs
    /\ EmptyState \in KmsState
    /\ NoJob \in Jobs
    /\ DarkConfig \in Configs
<1>1. CleanupArgs \in AtomicCommitArgs
  BY NoPlanIsPlan DEF CleanupArgs, AtomicCommitArgs
<1>2. EmptyState \in KmsState
  BY DEF EmptyState, KmsState
<1>3. NoJob \in Jobs
  BY <1>1, <1>2 DEF NoJob, Jobs
<1>4. DarkConfig \in Configs
  BY NoPlanIsPlan DEF DarkConfig, Configs
<1> QED
  BY <1>1, <1>2, <1>3, <1>4

(* The frame state built from a request has its type.                      *)
LEMMA NewFrameStateType ==
    ASSUME active \in KmsState, NEW args \in AtomicCommitArgs
    PROVE  NewFrameState(args) \in KmsState
<1>1. args.plan \in Plans
  BY DEF AtomicCommitArgs
<1>2. DOMAIN args.plan \subseteq Planes
      /\ {args.plan[p] : p \in DOMAIN args.plan} \subseteq Fbs
  BY <1>1, PlanFacts
<1>3. active.used_planes \in SUBSET Planes /\ active.crtc_active_state \in BOOLEAN
  BY DEF KmsState
<1>4. (IF args.compose THEN DOMAIN args.plan ELSE active.used_planes)
        \in SUBSET Planes
  BY <1>2, <1>3
<1>5. (IF args.compose THEN {args.plan[p] : p \in DOMAIN args.plan} ELSE {})
        \in SUBSET Fbs
  BY <1>2
<1>6. (IF RequestedActive(args) = "keep" THEN active.crtc_active_state
       ELSE RequestedActive(args) = "on") \in BOOLEAN
  BY <1>3
<1> QED
  BY <1>4, <1>5, <1>6 DEF NewFrameState, KmsState

(* The locals of CommitFrame have their types.                             *)
LEMMA LocalsType ==
    ASSUME active \in KmsState, NEW args \in AtomicCommitArgs,
           NEW cleanup \in BOOLEAN
    PROVE  Locals(args, cleanup) \in Jobs
<1>1. NewFrameState(args) \in KmsState
  BY NewFrameStateType
<1>2. UnusedPlanes(args) \in SUBSET Planes
  BY DEF UnusedPlanes, KmsState
<1>3. (RequestedActive(args) = "keep") \in BOOLEAN
  OBVIOUS
<1>4. HdrOp(args) \in {"none", "set", "reset"}
  BY FrameAssumption DEF HdrOp
<1> QED
  BY <1>1, <1>2, <1>3, <1>4 DEF Locals, Jobs

(* What the driver programs is a configuration.                            *)
LEMMA ProgrammedType ==
    ASSUME job \in Jobs, screen \in Configs, queued \in Configs
    PROVE  Programmed \in Configs
<1> DEFINE args == job.args
<1>1. Latest \in Configs
  BY DEF Latest
<1>2. args \in AtomicCommitArgs /\ job.new \in KmsState
  BY DEF Jobs
<1>3. args.plan \in Plans
  BY <1>2 DEF AtomicCommitArgs
<1>4. Latest.planes \in [Planes -> Fbs \cup {NoFb}] /\ Latest.plan \in Plans
      /\ Latest.active \in BOOLEAN /\ Latest.mode \in Modes \cup {NoMode}
      /\ Latest.hdr \in BOOLEAN
  BY <1>1 DEF Configs
<1>5. [p \in Planes |->
         CASE p \in DOMAIN args.plan -> args.plan[p]
           [] p \in job.unused -> NoFb
           [] OTHER -> Latest.planes[p]] \in [Planes -> Fbs \cup {NoFb}]
  <2> SUFFICES ASSUME NEW p \in Planes
               PROVE  (CASE p \in DOMAIN args.plan -> args.plan[p]
                         [] p \in job.unused -> NoFb
                         [] OTHER -> Latest.planes[p]) \in Fbs \cup {NoFb}
    OBVIOUS
  <2>1. p \in DOMAIN args.plan => args.plan[p] \in Fbs
    BY <1>3, PlanFacts
  <2>2. Latest.planes[p] \in Fbs \cup {NoFb}
    BY <1>4
  <2> HIDE DEF args
  <2> QED
    BY <2>1, <2>2
<1>6. job.new.crtc_active_state \in BOOLEAN
  BY <1>2 DEF KmsState
<1>7. args.display_mode \in Modes \cup {NoMode}
  BY <1>2 DEF AtomicCommitArgs
<1> HIDE DEF args
<1>8. (IF args.compose
       THEN [p \in Planes |->
               CASE p \in DOMAIN args.plan -> args.plan[p]
                 [] p \in job.unused -> NoFb
                 [] OTHER -> Latest.planes[p]]
       ELSE Latest.planes) \in [Planes -> Fbs \cup {NoFb}]
  BY <1>4, <1>5
<1>9. (IF args.compose THEN args.plan ELSE Latest.plan) \in Plans
  BY <1>3, <1>4
<1>10. (IF job.nonblock THEN Latest.active ELSE job.new.crtc_active_state)
          \in BOOLEAN
  BY <1>4, <1>6
<1>11. (IF args.display_mode = NoMode THEN Latest.mode ELSE args.display_mode)
          \in Modes \cup {NoMode}
  BY <1>4, <1>7
<1>12. (CASE job.hdr_op = "set" -> TRUE
          [] job.hdr_op = "reset" -> FALSE
          [] OTHER -> Latest.hdr) \in BOOLEAN
  BY <1>4
<1> QED
  BY <1>8, <1>9, <1>10, <1>11, <1>12 DEF Programmed, Configs, args

-----------------------------------------------------------------------------
(* Typing and staging                                                      *)

IInv == TypeOK /\ StagingInv

(* Every way a call to CommitFrame can be built keeps the types: the       *)
(* request ends up idle, failed, waiting for the prior frame or ready.     *)
LEMMA BuildIInv ==
    ASSUME IInv, NEW args \in AtomicCommitArgs, NEW cleanup \in BOOLEAN,
           mpc \in {"idle", "failed"}, frames_staged < MaxFrames, st_man,
           Build(args, cleanup)
    PROVE  IInv'
<1> USE DEF IInv, TypeOK
<1>1. /\ UNCHANGED <<active, staged, fence, frames_staged, frames_tracked,
                     connector_mode, st_man, tpc, tracking, present_fence,
                     screen, queued, inflight>>
  BY DEF Build, trackerVars, kmsVars
<1>2. NoJob \in Jobs /\ Locals(args, cleanup) \in Jobs
  BY ConstantTypes, LocalsType
<1>3. BuildHdr(args) => hdr_mdata_set' \in BOOLEAN /\ hdr_valid' \in BOOLEAN
  BY DEF BuildHdr
<1>4. CASE NoInputs(args)
  BY <1>1, <1>4 DEF NoInputs, jobVars, StagingInv
<1>5. CASE BuildFails(args, cleanup)
  BY <1>1, <1>2, <1>5 DEF BuildFails, Fail, StagingInv
<1>6. CASE DisableFails(args, cleanup)
  BY <1>1, <1>2, <1>3, <1>6 DEF DisableFails, Fail, StagingInv
<1>7. CASE BuildTest(args)
  BY <1>1, <1>2, <1>3, <1>7 DEF BuildTest, StagingInv
<1>8. CASE BuildFrame(args, cleanup)
  BY <1>1, <1>2, <1>3, <1>8 DEF BuildFrame, StagingInv
<1> QED
  BY <1>4, <1>5, <1>6, <1>7, <1>8 DEF Build

(* Promoting the staged frame keeps the types and the staging relation     *)
(* when there is one.                                                      *)
LEMMA CleanupPriorIInv ==
    ASSUME IInv, fence # 0, CleanupPriorFrameResources
    PROVE  /\ active' \in KmsState /\ staged' \in KmsState
           /\ fence' = 0
           /\ frames_staged' = frames_staged
           /\ frames_tracked' = frames_staged
           /\ hdr_mdata_set' = hdr_mdata_set
<1>1. [EmptyState EXCEPT !.crtc_active_state = staged.crtc_active_state] \in KmsState
  BY DEF IInv, TypeOK, EmptyState, KmsState
<1> QED
  BY <1>1 DEF IInv, TypeOK, StagingInv, CleanupPriorFrameResources

(* The inductive invariant, if dup() of the out fence does not fail.       *)
THEOREM StagingInvariant ==
    ASSUME "commit" \notin DupFaults
    PROVE  Spec => [](TypeOK /\ StagingInv)
<1>1. Init => IInv
  <2> SUFFICES ASSUME Init PROVE IInv
    OBVIOUS
  <2>1. MaxFrames \in Nat \ {0}
    BY FrameAssumption
  <2>2. TypeOK
    <3>1. active \in KmsState /\ staged \in KmsState /\ job \in Jobs
          /\ screen \in Configs /\ queued \in Configs
      BY ConstantTypes DEF Init
    <3>2. /\ frames_staged \in 0 .. MaxFrames /\ frames_tracked \in 0 .. frames_staged
          /\ fence \in 0 .. MaxFrames /\ tracking \in -1 .. frames_staged
          /\ present_fence \in 0 .. MaxFrames /\ inflight \in 0 .. MaxFrames
      BY <2>1 DEF Init
    <3>3. hdr_mdata_set \in BOOLEAN /\ hdr_valid \in BOOLEAN /\ st_man \in BOOLEAN
      BY DEF Init
    <3> QED
      BY <3>1, <3>2, <3>3 DEF Init, TypeOK
  <2>3. StagingInv
    BY <2>1 DEF Init, StagingInv
  <2> QED
    BY <2>2, <2>3 DEF IInv
<1>2. IInv /\ [Next]_vars => IInv'
  <2> SUFFICES ASSUME IInv, [Next]_vars
               PROVE  IInv'
    OBVIOUS
  <2> USE FrameAssumption
  <2>1. ASSUME NEW args \in Requests, ExecuteAtomicCommit(args)
        PROVE  IInv'
    BY <2>1, BuildIInv DEF ExecuteAtomicCommit
  <2>2. CASE CleanupCommit
    BY <2>2, BuildIInv, ConstantTypes DEF CleanupCommit, IInv, StagingInv
  <2>3. CASE WaitPriorFrame
    <3>1. fence # 0 /\ CleanupPriorFrameResources
      BY <2>3 DEF WaitPriorFrame, IInv, StagingInv
    <3> QED
      BY <2>3, <3>1, CleanupPriorIInv
      DEF WaitPriorFrame, IInv, TypeOK, StagingInv, trackerVars, kmsVars
  <2>4. CASE StageFrame
    <3>1. Programmed \in Configs /\ NoJob \in Jobs /\ job.new \in KmsState
      BY ProgrammedType, ConstantTypes DEF IInv, TypeOK, Jobs
    <3>2. connector_mode' \in Modes \cup {NoMode}
      BY <2>4 DEF StageFrame, SetActiveMode, IInv, TypeOK, Jobs, AtomicCommitArgs
    <3>3. fence' = frames_staged + 1 /\ frames_staged < MaxFrames /\ fence = 0
      BY <2>4 DEF StageFrame, IInv, StagingInv
    <3>4. tpc' \in {"check", "blocked", "sync", "relock", "done"}
          /\ (tpc' \in {"sync", "relock"} => tpc = tpc')
      BY <2>4 DEF StageFrame, Notify, IInv, TypeOK
    <3> QED
      BY <2>4, <3>1, <3>2, <3>3, <3>4
      DEF StageFrame, IInv, TypeOK, StagingInv
  <2>5. CASE SwitchFrame
    <3>1. Programmed \in Configs /\ NoJob \in Jobs /\ job.new \in KmsState
          /\ DarkConfig \in Configs
      BY ProgrammedType, ConstantTypes DEF IInv, TypeOK, Jobs
    <3>2. connector_mode' \in Modes \cup {NoMode}
      BY <2>5 DEF SwitchFrame, SetActiveMode, IInv, TypeOK, Jobs, AtomicCommitArgs
    <3> QED
      BY <2>5, <3>1, <3>2
      DEF SwitchFrame, IInv, TypeOK, StagingInv, trackerVars
  <2>6. CASE CommitFails
    BY <2>6, ConstantTypes
    DEF CommitFails, Fail, IInv, TypeOK, StagingInv, manVars, trackerVars, kmsVars
  <2>7. CASE TrackerExit
    BY <2>7 DEF TrackerExit, IInv, TypeOK, StagingInv, manVars, jobVars, kmsVars
  <2>8. CASE TrackerSleep
    BY <2>8 DEF TrackerSleep, IInv, TypeOK, StagingInv, manVars, jobVars, kmsVars
  <2>9. CASE TrackerPick
    BY <2>9 DEF TrackerPick, IInv, TypeOK, StagingInv, manVars, jobVars, kmsVars
  <2>10. CASE TrackerSync
    BY <2>10 DEF TrackerSync, IInv, TypeOK, StagingInv, manVars, jobVars, kmsVars
  <2>11. CASE TrackerCleanup
    <3>1. fence # 0 /\ CleanupPriorFrameResources
      BY <2>11 DEF TrackerCleanup, IInv, TypeOK, StagingInv
    <3> QED
      BY <2>11, <3>1, CleanupPriorIInv
      DEF TrackerCleanup, IInv, TypeOK, StagingInv, jobVars, kmsVars
  <2>12. CASE TrackerSkip
    BY <2>12 DEF TrackerSkip, IInv, TypeOK, StagingInv, manVars, jobVars, kmsVars
  <2>13. CASE Stop
    BY <2>13 DEF Stop, Notify, IInv, TypeOK, StagingInv, manVars, jobVars, kmsVars
  <2>14. CASE SetHdrMetadata
    BY <2>14 DEF SetHdrMetadata, IInv, TypeOK, StagingInv, manVars, jobVars,
                 trackerVars, kmsVars
  <2>15. CASE Flip
    BY <2>15, ConstantTypes
    DEF Flip, IInv, TypeOK, StagingInv, manVars, jobVars, trackerVars
  <2>16. CASE UNCHANGED vars
    BY <2>16 DEF vars, IInv, TypeOK, StagingInv, manVars, jobVars, trackerVars,
                 kmsVars
  <2> QED
    BY <2>1, <2>2, <2>3, <2>4, <2>5, <2>6, <2>7, <2>8, <2>9, <2>10, <2>11,
       <2>12, <2>13, <2>14, <2>15, <2>16 DEF Next, Tracker
<1> QED
  BY <1>1, <1>2, PTL DEF Spec, IInv

(* The asserts of CleanupPriorFrameResources never fail, whatever timeouts *)
(* and failures there are, as long as dup() of the out fence succeeds.     *)
THEOREM CleanupAssertsNeverFail ==
    ASSUME "commit" \notin DupFaults
    PROVE  Spec => []CleanupAssertsHold
<1>1. TypeOK /\ StagingInv => CleanupAssertsHold
  BY DEF TypeOK, StagingInv, CleanupAssertsHold
<1> QED
  BY <1>1, StagingInvariant, PTL

(* The tracker never touches a destroyed manager.                          *)
THEOREM ManagerUntouchedAfterStop ==
    ASSUME "commit" \notin DupFaults
    PROVE  Spec => UntouchedAfterStop
<1>1. TypeOK /\ StagingInv /\ [Next]_vars => [~st_man => UNCHANGED manVars]_vars
  <2> SUFFICES ASSUME TypeOK, StagingInv, Next, ~st_man
               PROVE  UNCHANGED manVars
    BY DEF vars
  <2>1. mpc = "idle"
    BY DEF StagingInv
  <2> QED
    BY <2>1 DEF Next, ExecuteAtomicCommit, CleanupCommit, WaitPriorFrame,
                StageFrame, SwitchFrame, CommitFails, Tracker, TrackerExit,
                TrackerSleep, TrackerPick, TrackerSync, TrackerCleanup,
                TrackerSkip, Stop, SetHdrMetadata, Flip
<1> QED
  BY <1>1, StagingInvariant, PTL DEF Spec, UntouchedAfterStop

-----------------------------------------------------------------------------
(* Promotion after the flip                                                *)

(* A tracker that is about to clean up has seen its frame's fence.         *)
FlippedInv == tpc = "relock" => inflight # tracking

(* It stays so: a later commit has a larger number.                        *)
LEMMA FlippedInvariant ==
    ASSUME "commit" \notin DupFaults, SyncMayTimeOut = FALSE
    PROVE  Spec => []FlippedInv
<1>1. Init => FlippedInv
  BY DEF Init, FlippedInv
<1>2. TypeOK /\ StagingInv /\ FlippedInv /\ [Next]_vars => FlippedInv'
  <2> SUFFICES ASSUME TypeOK, StagingInv, FlippedInv, [Next]_vars
               PROVE  FlippedInv'
    OBVIOUS
  <2> USE DEF FlippedInv
  <2>1. CASE StageFrame
    BY <2>1 DEF StageFrame, Notify, TypeOK, StagingInv
  <2>2. CASE SwitchFrame
    BY <2>2 DEF SwitchFrame, trackerVars, TypeOK, StagingInv
  <2>3. CASE Flip
    BY <2>3 DEF Flip, trackerVars, TypeOK, StagingInv
  <2>4. CASE TrackerSync
    BY <2>4 DEF TrackerSync, SyncReturns, kmsVars, StagingInv
  <2>5. CASE Tracker /\ ~TrackerSync
    BY <2>5 DEF Tracker, TrackerExit, TrackerSleep, TrackerPick, TrackerCleanup,
                TrackerSkip, kmsVars
  <2>6. CASE Stop
    BY <2>6 DEF Stop, Notify, kmsVars
  <2>7. ASSUME NEW args \in Requests, ExecuteAtomicCommit(args)
        PROVE  FlippedInv'
    BY <2>7 DEF ExecuteAtomicCommit, Build, trackerVars, kmsVars
  <2>8. CASE CleanupCommit \/ WaitPriorFrame \/ CommitFails \/ SetHdrMetadata
    BY <2>8 DEF CleanupCommit, Build, WaitPriorFrame, CommitFails,
                SetHdrMetadata, trackerVars, kmsVars
  <2>9. CASE UNCHANGED vars
    BY <2>9 DEF vars, trackerVars, kmsVars
  <2> QED
    BY <2>1, <2>2, <2>3, <2>4, <2>5, <2>6, <2>7, <2>8, <2>9 DEF Next
<1> QED
  BY <1>1, <1>2, StagingInvariant, PTL DEF Spec

(* Without timeouts a frame is promoted only after its own flip.           *)
THEOREM PromotionWaitsForFlip ==
    ASSUME "commit" \notin DupFaults, SyncMayTimeOut = FALSE
    PROVE  Spec => PromotedAfterFlip
<1>1. TypeOK /\ StagingInv /\ FlippedInv /\ [Next]_vars
      => [frames_tracked' > frames_tracked => inflight # frames_tracked']_vars
  <2> SUFFICES ASSUME TypeOK, StagingInv, FlippedInv, Next,
                      frames_tracked' > frames_tracked
               PROVE  inflight # frames_tracked'
    BY DEF vars
  <2> USE DEF TypeOK
  <2>1. CASE WaitPriorFrame
    BY <2>1 DEF WaitPriorFrame, SyncReturns, CleanupPriorFrameResources,
                StagingInv
  <2>2. CASE TrackerCleanup
    BY <2>2 DEF TrackerCleanup, CleanupPriorFrameResources, StagingInv,
                FlippedInv
  <2>3. CASE ~WaitPriorFrame /\ ~TrackerCleanup
    <3>1. frames_tracked' = frames_tracked
      BY <2>3 DEF Next, ExecuteAtomicCommit, CleanupCommit, Build, StageFrame,
                  SwitchFrame, CommitFails, Tracker, TrackerExit, TrackerSleep,
                  TrackerPick, TrackerSync, TrackerSkip, Stop, SetHdrMetadata,
                  Flip, manVars
    <3> QED
      BY <3>1
  <2> QED
    BY <2>1, <2>2, <2>3
<1> QED
  BY <1>1, StagingInvariant, FlippedInvariant, PTL DEF Spec, PromotedAfterFlip

-----------------------------------------------------------------------------
(* The CRTC's power state                                                  *)

(* The manager and the driver agree on the power state of the CRTC.        *)
THEOREM CrtcStateAgrees ==
    ASSUME "commit" \notin DupFaults
    PROVE  Spec => []CrtcStateInSync
<1>1. Init => CrtcInv
  BY DEF Init, CrtcInv, CrtcStateInSync, Latest, EmptyState, DarkConfig
<1>2. TypeOK /\ StagingInv /\ CrtcInv /\ [Next]_vars => CrtcInv'
  <2> SUFFICES ASSUME TypeOK, StagingInv, CrtcInv, [Next]_vars
               PROVE  CrtcInv'
    OBVIOUS
  <2> USE DEF CrtcInv, CrtcStateInSync, Latest
  <2>1. ASSUME NEW args \in AtomicCommitArgs, NEW cleanup \in BOOLEAN,
               mpc \in {"idle", "failed"}, Build(args, cleanup)
        PROVE  CrtcInv'
    <3>1. UNCHANGED <<active, staged, fence, screen, queued, inflight>>
      BY <2>1 DEF Build, kmsVars
    <3>2. CASE mpc' \in {"prior", "commit"}
      <4>1. job' = Locals(args, cleanup)
        BY <2>1, <3>2 DEF Build, NoInputs, BuildFails, DisableFails, BuildTest,
                          BuildFrame, Fail, jobVars
      <4>2. job'.nonblock => RequestedActive(args) = "keep"
        BY <4>1 DEF Locals
      <4>3. job'.nonblock => active.crtc_active_state
        BY <4>2 DEF RequestedActive
      <4>4. job'.nonblock => job'.new.crtc_active_state = active.crtc_active_state
        BY <4>1, <4>2 DEF Locals, NewFrameState
      <4> QED
        BY <3>1, <4>3, <4>4
    <3>3. CASE mpc' \notin {"prior", "commit"}
      BY <3>1, <3>3
    <3> QED
      BY <3>2, <3>3
  <2>2. ASSUME NEW args \in Requests, ExecuteAtomicCommit(args)
        PROVE  CrtcInv'
    BY <2>1, <2>2, FrameAssumption DEF ExecuteAtomicCommit
  <2>3. CASE CleanupCommit
    BY <2>1, <2>3, ConstantTypes DEF CleanupCommit
  <2>4. CASE WaitPriorFrame
    BY <2>4 DEF WaitPriorFrame, CleanupPriorFrameResources, StagingInv, kmsVars
  <2>5. CASE StageFrame
    <3>1. Programmed.active = Latest.active
      BY <2>5 DEF StageFrame, Programmed
    <3> QED
      BY <2>5, <3>1 DEF StageFrame, StagingInv, TypeOK
  <2>6. CASE SwitchFrame
    <3>1. Programmed.active = job.new.crtc_active_state
      BY <2>6 DEF SwitchFrame, Programmed
    <3> QED
      BY <2>6, <3>1 DEF SwitchFrame, StagingInv
  <2>7. CASE CommitFails
    BY <2>7 DEF CommitFails, Fail, manVars, kmsVars
  <2>8. CASE TrackerCleanup
    BY <2>8 DEF TrackerCleanup, CleanupPriorFrameResources, StagingInv, TypeOK,
                jobVars, kmsVars
  <2>9. CASE Tracker /\ ~TrackerCleanup
    BY <2>9 DEF Tracker, TrackerExit, TrackerSleep, TrackerPick, TrackerSync,
                TrackerSkip, manVars, jobVars, kmsVars
  <2>10. CASE Stop \/ SetHdrMetadata
    BY <2>10 DEF Stop, SetHdrMetadata, manVars, jobVars, kmsVars
  <2>11. CASE Flip
    BY <2>11 DEF Flip, manVars, jobVars
  <2>12. CASE UNCHANGED vars
    BY <2>12 DEF vars, manVars, jobVars, kmsVars
  <2> QED
    BY <2>2, <2>3, <2>4, <2>5, <2>6, <2>7, <2>8, <2>9, <2>10, <2>11, <2>12
    DEF Next
<1>3. CrtcInv => CrtcStateInSync
  BY DEF CrtcInv
<1> QED
  BY <1>1, <1>2, <1>3, StagingInvariant, PTL DEF Spec

-----------------------------------------------------------------------------
(* Framebuffers on screen                                                  *)

(* With a composition in every request, as HwcDisplay makes them, and      *)
(* without timeouts, what is queued is the staged frame, and what is on    *)
(* screen the one before.                                                  *)
LEMMA HeldInvariant ==
    ASSUME "commit" \notin DupFaults, SyncMayTimeOut = FALSE,
           \A args \in Requests : args.compose
    PROVE  Spec => []HeldInv
<1> USE DEF HeldInv, FbsOf
<1>1. Init => HeldInv
  <2> SUFFICES ASSUME Init PROVE HeldInv
    OBVIOUS
  <2>1. DOMAIN screen.plan = {}
    BY DEF Init, DarkConfig, NoPlan
  <2> QED
    BY <2>1 DEF Init
<1>2. TypeOK /\ StagingInv /\ FlippedInv /\ HeldInv /\ [Next]_vars => HeldInv'
  <2> SUFFICES ASSUME TypeOK, StagingInv, FlippedInv, HeldInv, [Next]_vars
               PROVE  HeldInv'
    OBVIOUS
  <2>1. ASSUME NEW args \in AtomicCommitArgs, NEW cleanup \in BOOLEAN,
               args.compose, mpc \in {"idle", "failed"}, Build(args, cleanup)
        PROVE  HeldInv'
    <3>1. UNCHANGED <<active, staged, fence, screen, queued, inflight>>
      BY <2>1 DEF Build, kmsVars
    <3>2. CASE mpc' \in {"prior", "commit"}
      <4>1. job' = Locals(args, cleanup)
        BY <2>1, <3>2 DEF Build, NoInputs, BuildFails, DisableFails, BuildTest,
                          BuildFrame, Fail, jobVars
      <4>2. job'.args = args /\ job'.new = NewFrameState(args)
        BY <4>1 DEF Locals
      <4>3. job'.new.used_framebuffers = {args.plan[p] : p \in DOMAIN args.plan}
        BY <2>1, <4>2 DEF NewFrameState
      <4> QED
        BY <2>1, <3>1, <4>2, <4>3
    <3>3. CASE mpc' \notin {"prior", "commit"}
      BY <3>1, <3>3
    <3> QED
      BY <3>2, <3>3
  <2>2. ASSUME NEW args \in Requests, ExecuteAtomicCommit(args)
        PROVE  HeldInv'
    BY <2>1, <2>2, FrameAssumption DEF ExecuteAtomicCommit
  <2>3. CASE CleanupCommit
    BY <2>1, <2>3, ConstantTypes DEF CleanupCommit, CleanupArgs
  <2>4. CASE WaitPriorFrame
    <3>1. inflight = 0 /\ fence # 0
      BY <2>4 DEF WaitPriorFrame, SyncReturns, StagingInv
    <3> QED
      BY <2>4, <3>1 DEF WaitPriorFrame, CleanupPriorFrameResources, kmsVars
  <2>5. CASE StageFrame
    <3>1. Programmed.plan = job.args.plan
      BY <2>5 DEF StageFrame, Programmed
    <3> QED
      BY <2>5, <3>1 DEF StageFrame, StagingInv, TypeOK
  <2>6. CASE SwitchFrame
    <3>1. Programmed.plan = job.args.plan
      BY <2>6 DEF SwitchFrame, Programmed
    <3> QED
      BY <2>6, <3>1 DEF SwitchFrame, StagingInv
  <2>7. CASE CommitFails
    BY <2>7 DEF CommitFails, Fail, manVars, kmsVars
  <2>8. CASE Flip
    BY <2>8 DEF Flip, manVars, jobVars
  <2>9. CASE UNCHANGED vars \/ Stop \/ SetHdrMetadata
    BY <2>9 DEF vars, Stop, SetHdrMetadata, manVars, jobVars, kmsVars
  <2>10. CASE Tracker /\ ~TrackerCleanup
    BY <2>10 DEF Tracker, TrackerExit, TrackerSleep, TrackerPick, TrackerSync,
                 TrackerSkip, manVars, jobVars, kmsVars
  <2>11. CASE TrackerCleanup
    <3>1. inflight = 0 /\ fence # 0
      BY <2>11 DEF TrackerCleanup, StagingInv, FlippedInv, TypeOK
    <3> QED
      BY <2>11, <3>1 DEF TrackerCleanup, CleanupPriorFrameResources, jobVars,
                         kmsVars
  <2> QED
    BY <2>2, <2>3, <2>4, <2>5, <2>6, <2>7, <2>8, <2>9, <2>10, <2>11 DEF Next
<1> QED
  BY <1>1, <1>2, StagingInvariant, FlippedInvariant, PTL DEF Spec

(* So what is shown or queued is referenced.                               *)
THEOREM DisplayedFramebuffersHeld ==
    ASSUME "commit" \notin DupFaults, SyncMayTimeOut = FALSE,
           \A args \in Requests : args.compose
    PROVE  Spec => []DisplayedFbHeld
<1>1. HeldInv => DisplayedFbHeld
  BY DEF HeldInv, DisplayedFbHeld, Held
<1> QED
  BY <1>1, HeldInvariant, PTL

-----------------------------------------------------------------------------
(* The abstract presentation                                               *)

(* A frame state that was moved from references nothing.                   *)
MovedInv == fence = 0 => staged.used_framebuffers = {}

(* It stays so until the next frame is staged.                             *)
LEMMA MovedInvariant ==
    ASSUME "commit" \notin DupFaults
    PROVE  Spec => []MovedInv
<1> USE DEF MovedInv
<1>1. Init => MovedInv
  BY DEF Init, EmptyState
<1>2. TypeOK /\ StagingInv /\ MovedInv /\ [Next]_vars => MovedInv'
  <2> SUFFICES ASSUME TypeOK, StagingInv, MovedInv, [Next]_vars
               PROVE  MovedInv'
    OBVIOUS
  <2>1. CASE CleanupPriorFrameResources
    BY <2>1 DEF CleanupPriorFrameResources, EmptyState
  <2>2. CASE StageFrame
    BY <2>2 DEF StageFrame, TypeOK
  <2>3. CASE UNCHANGED <<staged, fence>>
    BY <2>3
  <2> QED
    BY <2>1, <2>2, <2>3 DEF Next, ExecuteAtomicCommit, CleanupCommit, Build,
       WaitPriorFrame, SwitchFrame, CommitFails, Tracker, TrackerExit, TrackerSleep,
       TrackerPick, TrackerSync, TrackerCleanup, TrackerSkip, Stop, SetHdrMetadata,
       Flip, manVars, vars
<1> QED
  BY <1>1, <1>2, StagingInvariant, PTL DEF Spec

(* The manager implements the abstract presentation, for callers that      *)
(* always pass a composition and a driver that flips before a wait gives   *)
(* up: every step is a step of it or changes nothing of it.                *)
THEOREM RefinesPresentation ==
    ASSUME "commit" \notin DupFaults, SyncMayTimeOut = FALSE,
           \A args \in Requests : args.compose
    PROVE  Spec => ImplementsPresentation
<1>1. Init => P!Init
  BY DEF Init, P!Init, FbsOf, Held, EmptyState, DarkConfig, NoPlan
<1>2. TypeOK /\ StagingInv /\ FlippedInv /\ HeldInv /\ MovedInv /\ [Next]_vars
      => [P!Next]_(P!vars)
  <2> SUFFICES ASSUME TypeOK, StagingInv, FlippedInv, HeldInv, MovedInv, [Next]_vars
               PROVE  P!Next \/ UNCHANGED P!vars
    OBVIOUS
  <2>1. ASSUME UNCHANGED <<screen, queued, inflight, active, staged, st_man>>
        PROVE  UNCHANGED P!vars
    BY <2>1 DEF P!vars, FbsOf, Held
  <2>2. ASSUME CleanupPriorFrameResources, UNCHANGED <<screen, queued, inflight, st_man>>,
               st_man, inflight = 0, fence # 0
        PROVE  P!Release
    BY <2>2 DEF P!Release, CleanupPriorFrameResources, HeldInv, Held, FbsOf, EmptyState
  <2>3. CASE WaitPriorFrame
    <3>1. inflight = 0 /\ fence # 0 /\ st_man
      BY <2>3 DEF WaitPriorFrame, SyncReturns, StagingInv, HeldInv
    <3> QED
      BY <2>2, <2>3, <3>1 DEF WaitPriorFrame, kmsVars, P!Next
  <2>4. CASE TrackerCleanup
    <3>1. inflight = 0 /\ fence # 0 /\ st_man
      BY <2>4 DEF TrackerCleanup, StagingInv, FlippedInv, HeldInv, TypeOK
    <3> QED
      BY <2>2, <2>4, <3>1 DEF TrackerCleanup, kmsVars, P!Next
  <2>5. CASE StageFrame
    <3>1. FbsOf(Programmed) = job.new.used_framebuffers
      BY <2>5 DEF StageFrame, Programmed, FbsOf, HeldInv
    <3>2. job.new.used_framebuffers \in SUBSET Fbs
      BY DEF TypeOK, Jobs, KmsState
    <3>3. inflight = 0 /\ inflight' # 0 /\ fence = 0 /\ st_man /\ st_man'
      BY <2>5 DEF StageFrame, StagingInv, TypeOK
    <3>4. P!Submit(job.new.used_framebuffers)
      BY <2>5, <3>1, <3>3 DEF StageFrame, P!Submit, Held, FbsOf, MovedInv
    <3> QED
      BY <3>2, <3>4 DEF P!Next
  <2>6. CASE SwitchFrame
    <3>1. FbsOf(Programmed) = job.new.used_framebuffers
      BY <2>6 DEF SwitchFrame, Programmed, FbsOf, HeldInv
    <3>2. job.new.used_framebuffers \in SUBSET Fbs
      BY DEF TypeOK, Jobs, KmsState
    <3>3. inflight = 0 /\ fence = 0 /\ st_man /\ st_man'
      BY <2>6 DEF SwitchFrame, StagingInv, HeldInv
    <3>4. P!Switch(job.new.used_framebuffers)
      BY <2>6, <3>1, <3>3 DEF SwitchFrame, P!Switch, Held, FbsOf, MovedInv
    <3> QED
      BY <3>2, <3>4 DEF P!Next
  <2>7. CASE Flip
    BY <2>7 DEF Flip, P!Flip, P!Next, FbsOf, Held, manVars
  <2>8. CASE Stop
    BY <2>8 DEF Stop, P!Close, P!Next, FbsOf, Held, manVars, kmsVars
  <2>9. CASE \/ \E args \in Requests : ExecuteAtomicCommit(args)
             \/ CleanupCommit \/ CommitFails \/ SetHdrMetadata \/ UNCHANGED vars
    BY <2>1, <2>9 DEF ExecuteAtomicCommit, CleanupCommit, Build, CommitFails,
                      SetHdrMetadata, vars, manVars, kmsVars
  <2>10. CASE Tracker /\ ~TrackerCleanup
    BY <2>1, <2>10 DEF Tracker, TrackerExit, TrackerSleep, TrackerPick, TrackerSync,
                       TrackerSkip, manVars, kmsVars
  <2> QED
    BY <2>3, <2>4, <2>5, <2>6, <2>7, <2>8, <2>9, <2>10 DEF Next
<1> QED
  BY <1>1, <1>2, StagingInvariant, FlippedInvariant, HeldInvariant, MovedInvariant, PTL
  DEF Spec, ImplementsPresentation, P!Spec

(* The steps of Presentation keep what it promises, in any order of        *)
(* hand-overs, flips and releases: no reference is given up too early.     *)
LEMMA ShownIsHeld == P!Spec => []P!NothingShownUnheld
<1>1. P!Init => P!NothingShownUnheld
  BY DEF P!Init, P!NothingShownUnheld
<1>2. P!NothingShownUnheld /\ [P!Next]_(P!vars) => P!NothingShownUnheld'
  <2> SUFFICES ASSUME P!NothingShownUnheld, [P!Next]_(P!vars)
               PROVE  P!NothingShownUnheld'
    OBVIOUS
  <2> USE DEF P!NothingShownUnheld
  <2>1. ASSUME NEW frame \in SUBSET Fbs, P!Submit(frame)
        PROVE  P!NothingShownUnheld'
    BY <2>1 DEF P!Submit
  <2>2. ASSUME NEW frame \in SUBSET Fbs, P!Switch(frame)
        PROVE  P!NothingShownUnheld'
    BY <2>2 DEF P!Switch
  <2>3. CASE P!Flip
    BY <2>3 DEF P!Flip
  <2>4. CASE P!Release
    BY <2>4 DEF P!Release
  <2>5. CASE P!Close
    BY <2>5 DEF P!Close
  <2>6. CASE UNCHANGED P!vars
    BY <2>6 DEF P!vars
  <2> QED
    BY <2>1, <2>2, <2>3, <2>4, <2>5, <2>6 DEF P!Next
<1> QED
  BY <1>1, <1>2, PTL DEF P!Spec

(* So the manager keeps it: while the pipeline exists, the framebuffers on *)
(* screen and those that wait for their flip are referenced.               *)
THEOREM NothingShownIsGivenUp ==
    ASSUME "commit" \notin DupFaults, SyncMayTimeOut = FALSE,
           \A args \in Requests : args.compose
    PROVE  Spec => []P!NothingShownUnheld
<1>1. Spec => P!Spec
  BY RefinesPresentation DEF ImplementsPresentation
<1> QED
  BY <1>1, ShownIsHeld, PTL

=============================================================================
