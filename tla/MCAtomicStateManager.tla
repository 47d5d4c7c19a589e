------------------------ MODULE MCAtomicStateManager ------------------------
(* Instances of AtomicStateManager for TLC.                                *)
EXTENDS AtomicStateManager

Frame(plan, mode, test, hdr) ==
    [test_only |-> test, display_mode |-> mode, active |-> "keep",
     compose |-> TRUE, plan |-> plan, hdr |-> hdr]

(* HwcDisplay::Deinit: active = false and an empty composition.            *)
DeinitArgs == [CleanupArgs EXCEPT !.active = "off"]

(* HwcDisplay::CreateComposition: always has layers.                       *)
FrameRequests ==
    {Frame(plan, mode, test, FALSE) :
        plan \in Plans \ {NoPlan}, mode \in Modes \cup {NoMode}, test \in BOOLEAN}

(* What HwcDisplay passes.                                                 *)
CallerRequests == FrameRequests \cup {DeinitArgs}

(* Frames with and without HDR layers, and their tests.                    *)
HdrRequests ==
    {Frame(plan, NoMode, test, hdr) :
        plan \in Plans \ {NoPlan}, test \in BOOLEAN, hdr \in BOOLEAN}
    \cup {DeinitArgs}

(* Everything the interface of ExecuteAtomicCommit allows: a mode, a power *)
(* state, a composition with or without HDR layers, or none.               *)
ApiRequests ==
    {args \in AtomicCommitArgs :
        /\ args.compose \/ args.plan = NoPlan
        /\ args.hdr => args.plan # NoPlan}

=============================================================================
