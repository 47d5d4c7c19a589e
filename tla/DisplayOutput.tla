------------------------------ MODULE DisplayOutput ------------------------------
(* What one display puts out besides its planes: whether its CRTC is on, the HDR    *)
(* metadata of its connector, and the colour adjustment of its CRTC                 *)
(* (DrmAtomicStateManager.cpp, DrmConnector.cpp, DrmCrtc.cpp, HwcLayer.cpp and the  *)
(* power mode of HwcDisplay.cpp).  Every call here holds the main lock, so each is  *)
(* one step.  The display shows one layer; staging of frames is in                  *)
(* AtomicStateManager.                                                              *)
EXTENDS Integers, Sequences, FiniteSets

CONSTANTS
  Devices,    \* the devices there are, [hdr, adjust]: IsHdrSupportedDevice (the driver is
              \* i915) and GetColorAdjustmentEnabling (a property of the system)
  Edids,      \* the monitors there are, as the extension blocks of their EDIDs
  Spares,     \* the monitors among them that are plugged in later
  Presets,    \* contents of the four files of /data/vendor/color
  Metadata,   \* HDR metadata a client gives, [cll, redX]: redX in thousandths
  LutSize     \* GAMMA_LUT_SIZE

\* A block is [cta, data], data being the bytes between the header and the detailed
\* timings; what follows is zero.
ExtensionBlock == [cta : BOOLEAN, data : Seq(0 .. 255)]

ASSUME OutputAssumption ==
  /\ Devices \subseteq [hdr : BOOLEAN, adjust : BOOLEAN]
  /\ Edids \subseteq Seq(ExtensionBlock)
  /\ Spares \subseteq Edids
  /\ LutSize \in Nat \ {0}

VARIABLES
  dev,      \* the device of the display
  plugged,  \* the EDID of the monitor on the connector; NoMonitor
  conn,     \* DrmConnector: [edid, md, primary, valid, given]
  layer,    \* HwcLayer: [space, bi, buffer, updated]
  mdSet,    \* hdr_mdata_set_
  active,   \* active_frame_state_.crtc_active_state
  files,    \* the files of /data/vendor/color
  crtc,     \* the kernel's CRTC and connector: [on, bound, ctm, lut, hdr]; bound: the
            \* connector has the CRTC, and the CRTC a mode
  asked     \* the power mode asked for since the last frame, "none" (history)

outputVars == <<dev, plugged, conn, layer, mdSet, active, files, crtc, asked>>

NoMonitor == <<>>
NoMd == [none |-> TRUE]
\* The colour properties of a fresh CRTC.
NoCtm == [none |-> TRUE]
NoLut == <<>>

-------------------------------------------------------------------------------
(* The monitor's EDID.                                                               *)

Byte(block, i) == IF i \in DOMAIN block.data THEN block.data[i] ELSE 0
Tag(b) == b \div 32
DbLen(b) == b % 32
ExtendedTag == 7
HdrCode == 6

\* Faulty: the walk ends before the last data block may start.
LastPositionEarly(block) == Len(block.data) - 4
\* The walk looks at every byte, those inside data blocks too.
LastPosition(block) == Len(block.data) - 1
Bytes(edid) == UNION {{n} \X DOMAIN edid[n].data : n \in DOMAIN edid}
Positions(edid) ==
  {p \in Bytes(edid) :
     /\ edid[p[1]].cta
     /\ p[2] <= LastPosition(edid[p[1]])
     /\ Tag(Byte(edid[p[1]], p[2])) = ExtendedTag}

\* GetHDRStaticMetadata refuses a block whose length, an unsigned byte, is below 2.
PayloadLength(block, i) == (DbLen(Byte(block, i)) - 1) % 256
HdrPositions(edid) ==
  {p \in Positions(edid) : /\ Byte(edid[p[1]], p[2] + 1) = HdrCode
                           /\ PayloadLength(edid[p[1]], p[2]) >= 2}

Later(p, q) == p[1] > q[1] \/ (p[1] = q[1] /\ p[2] >= q[2])
Last(S) == CHOOSE p \in S : \A q \in S : Later(p, q)

\* The luminances are taken only from a payload of three to five bytes.
GetHDRStaticMetadata(block, i) ==
  LET full == PayloadLength(block, i) \in 3 .. 5
      maxLl == Byte(block, i + 4)
  IN [eotf    |-> Byte(block, i + 2) % 64,
      max_ll  |-> IF ~full THEN 0 ELSE IF maxLl = 0 THEN 255 ELSE maxLl,
      max_fall |-> IF full THEN Byte(block, i + 5) ELSE 0,
      min_ll  |-> IF full THEN Byte(block, i + 6) ELSE 0]

\* Ten bits of a fraction, as a multiple of 1/50000.
ColorPrimary(val) == ((val % 1024) * 50000) \div 1024

\* The red coordinate, at the offset it has in the base block, counted from the data
\* block the walk has come to.
GetColorPrimaries(block, i) ==
  ColorPrimary(Byte(block, i + 29) * 4 + Byte(block, i + 27) \div 64)

\* CreateInstance reads the EDID once, on a device that can do HDR.
ParseCTAFromExtensionBlock(edid) ==
  [edid    |-> edid,
   md      |-> IF HdrPositions(edid) = {} THEN NoMd
               ELSE LET p == Last(HdrPositions(edid))
                    IN GetHDRStaticMetadata(edid[p[1]], p[2]),
   primary |-> IF Positions(edid) = {} THEN 0
               ELSE LET p == Last(Positions(edid)) IN GetColorPrimaries(edid[p[1]], p[2]),
   valid   |-> FALSE,
   given   |-> NoMd]

UpdateEdidProperty(hdr, monitor) == IF hdr THEN monitor ELSE NoMonitor
CreateInstance(hdr, monitor) == ParseCTAFromExtensionBlock(UpdateEdidProperty(hdr, monitor))

\* What the display says of itself: edid_contains_hdr_tag_ is set with the metadata.
IsConnectorHdrCapable == conn.md # NoMd
Supports(bit) == conn.md # NoMd /\ (conn.md.eotf \div bit) % 2 = 1
HdrTypes == {t \in {<<"ST2084", 4>>, <<"HLG", 8>>} : Supports(t[2])}
\* A call without room for the types is refused, and so is the first of two calls.
GetHdrCapabilities(room) == IF ~room \/ conn.md = NoMd THEN NoMd ELSE HdrTypes
GetColorModes ==
  IF dev.hdr /\ IsConnectorHdrCapable THEN {"native", "hdr"} ELSE {"native"}

-------------------------------------------------------------------------------
(* HDR metadata of the frame                                                         *)

Undefined == "undefined"
Spaces == {Undefined, "601", "709", "2020"}

\* SetLayerDataspace: a standard it does not know is Undefined.
ColorSpaceOf(standard) ==
  CASE standard = "BT709" -> "709"
    [] standard \in {"BT601_625", "BT601_525"} -> "601"
    [] standard \in {"BT2020", "BT2020_CONSTANT_LUMINANCE"} -> "2020"
    [] OTHER -> Undefined
Standards == {"BT601_625", "BT2020", "DCI_P3"}

\* PopulateLayerData: a new buffer brings the space its allocator noted; the client's
\* choice goes over it, but taking the choice back does not bring it again.
PopulateLayerData ==
  LET imported == IF layer.updated THEN layer.buffer ELSE layer.bi
  IN [layer EXCEPT !.updated = FALSE,
                   !.bi = IF layer.space # Undefined THEN layer.space ELSE imported]

\* The coordinate is a fraction, and becomes a short before it is encoded.
Short(thousandths) == thousandths \div 1000
MinIfNotZero(c, d) == IF c = 0 THEN d ELSE IF c < d THEN c ELSE d
PrepareHdrMetadata ==
  [cll |-> conn.given.cll,
   redX |-> MinIfNotZero(ColorPrimary(Short(conn.given.redX)), conn.primary)]

\* The metadata is set with an HDR layer and reset without one; two resets, and the
\* connector forgets that it was given any.  h is [valid, set].
Hdr == [valid |-> conn.valid, set |-> mdSet]
HdrOp(h, hdrLayer) ==
  IF ~dev.hdr \/ ~h.valid THEN "none" ELSE IF hdrLayer THEN "set" ELSE "reset"
HdrAfter(h, op) ==
  CASE op = "none" -> h
    [] op = "set" -> [h EXCEPT !.set = TRUE]
    [] op = "reset" -> [valid |-> h.set, set |-> FALSE]
HdrShown(shown, op) ==
  CASE op = "none" -> shown [] op = "set" -> PrepareHdrMetadata [] op = "reset" -> NoMd

-------------------------------------------------------------------------------
(* Colour adjustment.  A text is a sequence of digits (0 to 9), Newline and Minus;   *)
(* the two reads of one function share a buffer that is cleared once.                *)

Newline == 10
Minus == 11
Absent == <<-1>>
Chunk == 8

\* Faulty: the end of the text is not copied.
FreadUnterminated(buf, text) ==
  LET new == SelectSeq(text, LAMBDA c : c # Newline)
  IN new \o SubSeq(buf, Len(new) + 1, Len(buf))
Fread(buf, text) ==
  LET new == SubSeq(text, 1, IF Len(text) < Chunk THEN Len(text) ELSE Chunk)
  IN new \o SubSeq(buf, Len(new) + 1, Len(buf))

\* atoi and atof: the number the text starts with.
Signed(buf) == buf # <<>> /\ buf[1] = Minus
Digits(buf) ==
  LET first == IF Signed(buf) THEN 2 ELSE 1
      ends == {i \in first .. Len(buf) + 1 : i = Len(buf) + 1 \/ buf[i] > 9}
  IN SubSeq(buf, first, (CHOOSE i \in ends : \A j \in ends : i <= j) - 1)
Decimal(digits) ==
  LET value[i \in 0 .. Len(digits)] == IF i = 0 THEN 0 ELSE value[i - 1] * 10 + digits[i]
  IN value[Len(digits)]
Atoi(buf) == IF Signed(buf) THEN 0 - Decimal(Digits(buf)) ELSE Decimal(Digits(buf))

\* A file that is there but empty is an error, and nothing is applied.
Unreadable(a, b) == a = <<>> \/ b = <<>>
ReadTwo(a, b, default) ==
  LET first == IF a = Absent THEN <<>> ELSE Fread(<<>>, a)
  IN <<IF a = Absent THEN default[1] ELSE Atoi(first),
       IF b = Absent THEN default[2] ELSE Atoi(Fread(first, b))>>

\* The matrix is a function of these two; the identity is hue 0, saturation 100.
GenerateHueSaturationMatrix(hue, saturation) ==
  [hue |-> IF hue \in 0 .. 359 THEN hue ELSE 0,
   saturation |-> IF saturation \in 75 .. 125 THEN saturation ELSE 100]

SetColorTransformMatrix ==
  LET read == ReadTwo(files.saturation, files.hue, <<100, 0>>)
  IN GenerateHueSaturationMatrix(read[2], read[1])

\* SetColorSaturationHue; blob: the kernel creates the property blob.
ApplyPendingCTM(blob) ==
  IF ~blob \/ Unreadable(files.saturation, files.hue) THEN crtc.ctm ELSE SetColorTransformMatrix

\* Both settings are bytes, the same for red, green and blue.
SettingByte(n) == IF n \in 0 .. 255 THEN n ELSE 128

\* (i/size - 1/2) * contrast/128 + brightness/255, over the common denominator.
Scale == LutSize * 256 * 255
\* Faulty: the result may be negative.
TransformUnclamped(i, brightness, contrast) ==
  LET x == (2 * i - LutSize) * contrast * 255 + brightness * LutSize * 256
  IN IF x > Scale THEN Scale ELSE x
TransformContrastBrightness(i, brightness, contrast) ==
  LET x == (2 * i - LutSize) * contrast * 255 + brightness * LutSize * 256
  IN IF x < 0 THEN 0 ELSE IF x > Scale THEN Scale ELSE x

\* An entry is an unsigned 16-bit number; the gamma is 1.  The darkest one is 0.
SetColorCorrection(brightness, contrast) ==
  [n \in 1 .. LutSize |->
     IF n = 1 THEN 0
     ELSE ((257 * TransformContrastBrightness(n - 1, brightness, contrast))
             \div (LutSize * 256)) % 65536]

\* With both at 0 no table is made, and the blob of no table is refused.
ApplyPendingLUT(blob) ==
  LET read == ReadTwo(files.brightness, files.contrast, <<128, 128>>)
      brightness == SettingByte(read[1])
      contrast == SettingByte(read[2])
  IN IF ~blob \/ Unreadable(files.brightness, files.contrast) \/ (brightness = 0 /\ contrast = 0)
     THEN crtc.lut ELSE SetColorCorrection(brightness, contrast)

\* CommitFrame sets both with legacy calls, before the atomic commit and whatever it does.
Adjusted(adjust, blobs) ==
  IF adjust THEN [crtc EXCEPT !.ctm = ApplyPendingCTM(blobs), !.lut = ApplyPendingLUT(blobs)]
  ELSE crtc

-------------------------------------------------------------------------------
OutputInit ==
  /\ dev \in Devices
  /\ plugged \in Edids
  /\ dev.hdr \/ plugged = NoMonitor
  /\ conn = CreateInstance(dev.hdr, plugged)
  /\ layer = [space |-> Undefined, bi |-> Undefined, buffer |-> Undefined, updated |-> FALSE]
  /\ mdSet = FALSE
  /\ active = FALSE
  /\ files \in Presets
  /\ dev.adjust \/ \A f \in DOMAIN files : files[f] = Absent
  /\ crtc = [on |-> FALSE, bound |-> FALSE, ctm |-> NoCtm, lut |-> NoLut, hdr |-> NoMd]
  /\ asked = "none"

\* The monitor changes; UpdateModes reads its modes, but its EDID is not parsed again.
Hotplug(monitor) ==
  /\ monitor # plugged
  /\ plugged' = monitor
  /\ UNCHANGED <<dev, conn, layer, mdSet, active, files, crtc, asked>>

\* A tool of the vendor rewrites the files.
Edit(preset) ==
  /\ files' = preset
  /\ UNCHANGED <<dev, plugged, conn, layer, mdSet, active, crtc, asked>>

SetLayerDataspace(standard) ==
  /\ layer' = [layer EXCEPT !.space = ColorSpaceOf(standard)]
  /\ UNCHANGED <<dev, plugged, conn, mdSet, active, files, crtc, asked>>

SetLayerBuffer(space) ==
  /\ layer' = [layer EXCEPT !.buffer = space, !.updated = TRUE]
  /\ UNCHANGED <<dev, plugged, conn, mdSet, active, files, crtc, asked>>

\* The metadata goes to the connector at once, whichever layer it is for.
SetLayerPerFrameMetadata(md) ==
  /\ conn' = [conn EXCEPT !.valid = TRUE, !.given = md]
  /\ UNCHANGED <<dev, plugged, layer, mdSet, active, files, crtc, asked>>

HdrIs(h) == mdSet' = h.set /\ conn' = [conn EXCEPT !.valid = h.valid]
HdrLayer == PopulateLayerData.bi = "2020"

\* Where CommitFrame may give up: a plane's state, an unused plane, the commit itself.
Stages == {"planes", "unused", "commit"}
HdrBy(stage, hdrLayer) ==
  IF stage = "planes" THEN Hdr ELSE HdrAfter(Hdr, HdrOp(Hdr, hdrLayer))
AdjustedBy(stage, blobs) == Adjusted(dev.adjust /\ stage = "commit", blobs)

\* A display believed off is switched on, and its connector given the CRTC.
Lit(c) == [c EXCEPT !.on = @ \/ ~active, !.bound = @ \/ ~active]

\* ValidateDisplay: a test commit, which counts as one for the HDR metadata.
Validate(stage) ==
  /\ layer' = PopulateLayerData
  /\ HdrIs(HdrBy(stage, HdrLayer))
  /\ UNCHANGED <<dev, plugged, active, files, crtc, asked>>

\* PresentDisplay.
Present(blobs) ==
  LET op == HdrOp(Hdr, HdrLayer)
  IN /\ layer' = PopulateLayerData
     /\ HdrIs(HdrAfter(Hdr, op))
     /\ crtc' = [Lit(Adjusted(dev.adjust, blobs)) EXCEPT !.hdr = HdrShown(@, op)]
     /\ active' = TRUE
     /\ asked' = "none"
     /\ UNCHANGED <<dev, plugged, files>>

\* ExecuteAtomicCommit after a failure: a commit without planes, which may fail too.  It
\* gives the CRTC no mode: the kernel refuses it if there was never a frame.
Recovered(h, left, cleaned) ==
  LET op == HdrOp(h, FALSE)
  IN [hdr    |-> HdrAfter(h, op),
      crtc   |-> IF cleaned THEN [Lit(left) EXCEPT !.hdr = HdrShown(@, op)] ELSE left,
      active |-> active \/ cleaned]
PresentFails(stage, blobs, cleaned) ==
  LET r == Recovered(HdrBy(stage, HdrLayer), AdjustedBy(stage, blobs), cleaned)
  IN /\ cleaned => crtc.bound
     /\ layer' = PopulateLayerData
     /\ HdrIs(r.hdr)
     /\ crtc' = r.crtc
     /\ active' = r.active
     /\ asked' = IF cleaned THEN "none" ELSE asked
     /\ UNCHANGED <<dev, plugged, files>>

\* The kernel switches on the CRTC of the connector, when it has one.
ActivateDisplayUsingDPMS == [crtc EXCEPT !.on = @ \/ crtc.bound]

\* SetPowerMode: both modes come to the call that switches the display on, since what
\* is tested is whether a state is given, not which.  Doze is refused.
SetPowerMode(mode) ==
  /\ asked' = mode
  /\ crtc' = ActivateDisplayUsingDPMS
  /\ UNCHANGED <<dev, plugged, conn, layer, mdSet, active, files>>

\* What becomes of the pipeline of a display that gives it up: another display takes
\* it, its state manager ends with it, or the devices are opened anew (DeInit, Init).
Fates == {"kept", "ended", "reopened"}
Handed(r, fate) ==
  /\ mdSet' = (fate = "kept" /\ r.hdr.set)
  /\ conn' = IF fate = "reopened" THEN CreateInstance(dev.hdr, plugged)
             ELSE [conn EXCEPT !.valid = r.hdr.valid]
  /\ active' = (fate = "kept" /\ r.active)
  /\ crtc' = r.crtc
  /\ asked' = "none"
  /\ UNCHANGED <<dev, plugged, layer, files>>

\* HwcDisplay::Deinit: a commit without planes and with the CRTC off; if that is what
\* the manager believes already, the request is dropped and then the CRTC forced on.  No
\* mode comes with it: the kernel refuses it if there was never a frame.
Deinit(blobs, fate) ==
  LET op == HdrOp(Hdr, FALSE)
  IN /\ crtc.bound
     /\ Handed([hdr |-> HdrAfter(Hdr, op), active |-> ~active,
                crtc |-> [Adjusted(dev.adjust, blobs) EXCEPT !.on = ~active,
                                                             !.hdr = HdrShown(@, op)]], fate)
DeinitFails(blobs, fate, cleaned) ==
  /\ cleaned => crtc.bound
  /\ Handed(Recovered(HdrBy("commit", FALSE), AdjustedBy("commit", blobs), cleaned), fate)

\* Monitors and layers are of interest to a device with HDR, files to one that adjusts.
OutputNext ==
  \/ dev.hdr /\ \/ \E m \in Spares \cup {NoMonitor} : Hotplug(m)
                \/ \E s \in Standards : SetLayerDataspace(s)
                \/ \E s \in {Undefined, "2020"} : SetLayerBuffer(s)
                \/ \E m \in Metadata : SetLayerPerFrameMetadata(m)
  \/ dev.adjust /\ \E p \in Presets : Edit(p)
  \/ \E t \in Stages : Validate(t)
  \/ \E b \in BOOLEAN : \/ Present(b)
                        \/ \E f \in Fates : \/ Deinit(b, f)
                                            \/ \E c \in BOOLEAN : DeinitFails(b, f, c)
                        \/ \E t \in Stages, c \in BOOLEAN : PresentFails(t, b, c)
  \/ \E m \in {"on", "off"} : SetPowerMode(m)

OutputSpec == OutputInit /\ [][OutputNext]_outputVars

-------------------------------------------------------------------------------
(* Properties *)

\* The data blocks of the standard: each starts where the one before it ends, and the
\* last one ends with the data.
IsStart(data) ==
  LET start[i \in 1 .. Len(data)] ==
        i = 1 \/ \E j \in 1 .. i - 1 : start[j] /\ j + DbLen(data[j]) + 1 = i
  IN start
HdrBlocks(edid) ==
  {p \in Bytes(edid) :
     /\ edid[p[1]].cta
     /\ IsStart(edid[p[1]].data)[p[2]]
     /\ p[2] + DbLen(edid[p[1]].data[p[2]]) <= Len(edid[p[1]].data)
     /\ edid[p[1]].data[p[2]] \div 32 = 7
     /\ edid[p[1]].data[p[2]] % 32 >= 3
     /\ edid[p[1]].data[p[2] + 1] = 6}
Lookalikes(edid) == HdrPositions(edid) \ HdrBlocks(edid)

\* The byte by byte walk of ParseCTAFromExtensionBlock misses no HDR metadata block of
\* the monitor; when no other bytes look like one, the metadata is that of the last one.
HdrBlockFound ==
  LET found == HdrBlocks(conn.edid)
  IN /\ found # {} => IsConnectorHdrCapable
     /\ Lookalikes(conn.edid) = {} /\ found # {} =>
          LET p == Last(found)
          IN conn.md.eotf = conn.edid[p[1]].data[p[2] + 2] % 64

\* The settings as each file alone gives them.
Wanted(text, default, low, high, other) ==
  IF text = Absent THEN default ELSE IF Atoi(text) \in low .. high THEN Atoi(text) ELSE other
WantedCtm == [hue |-> Wanted(files.hue, 0, 0, 359, 0),
              saturation |-> Wanted(files.saturation, 100, 75, 125, 100)]
WantedLut == SetColorCorrection(Wanted(files.brightness, 128, 0, 255, 128),
                                Wanted(files.contrast, 128, 0, 255, 128))

\* The colours of the CRTC change only to what the files say at that time, each file
\* taken by itself, although the two reads of SetColorTransformMatrix and of
\* SetColorBrightnessContrast share a buffer that keeps the longer text's end.
SettingsTaken ==
  [][crtc'.ctm \in {crtc.ctm, WantedCtm} /\ crtc'.lut \in {crtc.lut, WantedLut}]_outputVars

\* Whatever contrast and brightness, a brighter input never comes out darker, and black
\* stays black (SetColorCorrection, "the darkest color should has brightness 0").
LutSound ==
  /\ crtc.lut # NoLut => crtc.lut[1] = 0
  /\ \A i, j \in DOMAIN crtc.lut : i <= j => crtc.lut[i] <= crtc.lut[j]

\* A display asked to be off is off until a frame comes (SetPowerMode).
OffIsOff == asked = "off" => ~crtc.on

\* The table is reset when contrast and brightness are 0 (SetColorCorrection).
LutReset ==
  [][\A b \in BOOLEAN : Present(b) /\ b /\ dev.adjust
        /\ Wanted(files.brightness, 128, 0, 255, 128) = 0
        /\ Wanted(files.contrast, 128, 0, 255, 128) = 0 => crtc'.lut = NoLut]_outputVars

\* The modes reported are those of the monitor that is there (CreateInstance, "help to
\* report HDR capabilities to surfaceflinger correctly in later HWC API calls").
ModesOfMonitor ==
  dev.hdr /\ HdrBlocks(plugged) # {} => "hdr" \in GetColorModes
===============================================================================
