----------------------------- MODULE MCFrameCycle -----------------------------
(* Instances of FrameCycle for TLC.                                        *)
EXTENDS FrameCycle

K(forced, video, area, type) ==
    [forced |-> forced, video |-> video, area |-> area, sf |-> type]

Plain == {K(FALSE, FALSE, 1, "Device"), K(FALSE, FALSE, 3, "Device"),
          K(TRUE, FALSE, 2, "Device")}
Video == {K(FALSE, TRUE, 2, "Device")}
Decoration == {K(FALSE, FALSE, 1, "Decoration")}

AllKinds == Plain \cup Video \cup Decoration
=============================================================================
