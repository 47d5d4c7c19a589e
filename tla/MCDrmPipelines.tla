---------------------------- MODULE MCDrmPipelines ----------------------------
(* A device with two CRTCs, each with its primary plane, two overlays that     *)
(* both can use and one that only the first can.                               *)
EXTENDS DrmPipelines, TLC

CONSTANTS c1, c2, e1, e2, r1, r2

TwoConnectors == <<c1, c2>>
TwoEncoders == <<e1, e2>>
TwoCrtcs == <<r1, r2>>
OneEncoderEach == c1 :> {e1} @@ c2 :> {e2}
AnyCrtc == e1 :> {r1, r2} @@ e2 :> {r1, r2}
FirmwareLitFirst == e1 :> r1 @@ e2 :> None

PlaneOf(type, crtcs, formats, props) ==
  [type |-> type, crtcs |-> crtcs, formats |-> formats, props |-> Mandatory \cup props,
   rotations |-> {"rotate_0", "rotate_180", "reflect_x"}, blends |-> {"Coverage"}]
FivePlanes ==
  << PlaneOf("primary", {r1}, {"rgb"}, {"rotation", "pixel blend mode", "IN_FENCE_FD"}),
     PlaneOf("overlay", {r1, r2}, {"rgb", "nv12"}, {"IN_FENCE_FD"}),
     PlaneOf("primary", {r2}, {"rgb"}, {"alpha", "IN_FENCE_FD"}),
     PlaneOf("overlay", {r1, r2}, {"rgb", "nv12"}, {"rotation", "pixel blend mode", "IN_FENCE_FD"}),
     PlaneOf("cursor", {r1, r2}, {"rgb"}, {"IN_FENCE_FD"}) >>

\* The sizes the device shows.
Smallest == <<32, 32>>
Largest == <<64, 64>>
Layer(format, transform, blend, alpha) ==
  [format |-> format, transform |-> transform, alpha |-> alpha,
   blend |-> blend, size |-> Smallest, fence |-> TRUE]
\* The second layer is upside down, which only planes with a rotation show.
TwoLayers ==
  {Layer("rgb", {}, "premult", 1000), Layer("nv12", {"flipH", "flipV"}, "coverage", 1000)}
===============================================================================
