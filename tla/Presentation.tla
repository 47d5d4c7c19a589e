---------------------------- MODULE Presentation ----------------------------
(***************************************************************************)
(* What a display pipeline promises about framebuffers, without fences,    *)
(* counters, threads or failures: frames are shown one after the other,    *)
(* at most one is waiting for its flip, a frame's framebuffers are         *)
(* referenced from the moment it is handed over, and a reference is given  *)
(* up only when the frame that replaces it is on screen.                   *)
(* AtomicStateManager implements it.                                       *)
(***************************************************************************)
CONSTANT Fbs  \* framebuffers

VARIABLES
    shown,    \* the framebuffers that are scanned out
    pending,  \* the frame that waits for its flip, if any: a set of frames
    held,     \* the framebuffers that are referenced
    open      \* the pipeline exists

vars == <<shown, pending, held, open>>

Init ==
    /\ shown = {} /\ held = {}
    /\ pending = {}
    /\ open = TRUE

(* A frame is handed over, behind the one on screen.                       *)
Submit(frame) ==
    /\ open
    /\ pending = {}
    /\ pending' = {frame}
    /\ held' = held \cup frame
    /\ UNCHANGED <<shown, open>>

(* A frame that changes the power state is waited for.                     *)
Switch(frame) ==
    /\ open
    /\ pending = {}
    /\ shown' = frame
    /\ held' = frame
    /\ UNCHANGED <<pending, open>>

Flip ==
    /\ shown' \in pending
    /\ pending' = {}
    /\ UNCHANGED <<held, open>>

(* What is no longer on screen is given up, while nothing is pending.      *)
Release ==
    /\ open
    /\ pending = {}
    /\ held' \in SUBSET held
    /\ shown \subseteq held'
    /\ UNCHANGED <<shown, pending, open>>

(* The pipeline is destroyed with all its references.                      *)
Close ==
    /\ open
    /\ open' = FALSE
    /\ held' = {}
    /\ UNCHANGED <<shown, pending>>

Next ==
    \/ \E frame \in SUBSET Fbs : Submit(frame) \/ Switch(frame)
    \/ Flip
    \/ Release
    \/ Close

Spec == Init /\ [][Next]_vars

(* Whatever is on screen or about to be is referenced: the promise that    *)
(* matters, and a consequence of the steps above.                          *)
NothingShownUnheld ==
    open => /\ shown \subseteq held
            /\ \A frame \in pending : frame \subseteq held

=============================================================================
