------------------------------- MODULE HalTable -------------------------------
(* The interface between the HWC3 service and the HWC2 device: which functions  *)
(* the device provides and with which lookups (hwc2_device.cpp), which of them  *)
(* HalImpl demands, and what a call answers, given the display it is about.     *)
(*                                                                              *)
(* A display is described by its kind: "gone" (no such display), "headless" (no *)
(* pipeline), "sdr" or "hdr" (whether its device supports HDR).                 *)
(* Arguments that HalImpl refuses before it asks the device are left aside when  *)
(* there is no such display: the call fails either way.                          *)
EXTENDS Naturals, Sequences

Kinds == {"gone", "headless", "sdr", "hdr"}

-------------------------------------------------------------------------------
(* HookDevGetFunction.  Functions are called by the names HalImpl has for them. *)

DeviceHooks == {"createVirtualDisplay", "destroyVirtualDisplay", "dump",
                "getMaxVirtualDisplayCount", "registerCallback"}

DisplayHooks ==
  {"acceptDisplayChanges", "createLayer", "destroyLayer", "getActiveConfig",
   "getChangedCompositionTypes", "getClientTargetSupport", "getColorModes",
   "getDisplayAttribute", "getDisplayConfigs", "getDisplayName", "getDisplayRequests",
   "getDisplayType", "getDozeSupport", "getPerFrameMetadataKeys", "getHdrCapabilities",
   "getReleaseFences", "presentDisplay", "setActiveConfig", "setClientTarget",
   "setColorMode", "setColorTransform", "setOutputBuffer", "setPowerMode",
   "setVsyncEnabled", "validateDisplay"}

\* The functions of later versions of the interface.
NewerDisplayHooks ==
  {"getRenderIntents", "setColorModeWithRenderIntent", "getDisplayIdentificationData",
   "getDisplayCapabilities", "getDisplayBrightnessSupport", "setDisplayBrightness",
   "getDisplayConnectionType", "getDisplayVsyncPeriod", "setActiveConfigWithConstraints",
   "setAutoLowLatencyMode", "getSupportedContentTypes", "setContentType"}

LayerHooks ==
  {"setCursorPosition", "setLayerBlendMode", "setLayerBuffer", "setLayerColor",
   "setLayerCompositionType", "setLayerDataspace", "setLayerDisplayFrame",
   "setLayerPlaneAlpha", "setLayerSidebandStream", "setLayerSourceCrop",
   "setLayerSurfaceDamage", "setLayerTransform", "setLayerVisibleRegion",
   "setLayerZOrder", "setLayerPerFrameMetadata"}

\* The one function of HWC3 the device knows; it is not in the table of HWC2.
Hwc3Hooks == {"setExpectedPresentTime"}

Provided == DeviceHooks \cup DisplayHooks \cup NewerDisplayHooks \cup LayerHooks
              \cup Hwc3Hooks

-------------------------------------------------------------------------------
(* HalImpl *)

\* initDispatch: without one of these functions there is no device.
Required ==
  DeviceHooks \cup (LayerHooks \ {"setLayerSidebandStream", "setLayerPerFrameMetadata"})
    \cup (DisplayHooks \ {"getPerFrameMetadataKeys"}) \cup Hwc3Hooks
    \cup {"getDisplayCapabilities", "setDisplayBrightness", "getDisplayVsyncPeriod",
          "setActiveConfigWithConstraints"}

\* The device reports no capability, so HalImpl leaves the sideband function out.
Capabilities == {"BOOT_DISPLAY_CONFIG"}
Loaded == Provided \ (IF "SIDEBAND_STREAM" \in Capabilities THEN {}
                      ELSE {"setLayerSidebandStream"})

\* The constructor closes the device otherwise, and the service has none to work with.
HalImplLoads == /\ "PRESENT_FENCE_IS_NOT_RELIABLE" \notin Capabilities
                /\ Required \subseteq Provided

\* DisplayHook and LayerHook: the status of a call before its method runs.
DisplayHook(kind) == IF kind = "gone" THEN "BadDisplay" ELSE "None"
LayerHook(kind, known) ==
  IF kind = "gone" THEN "BadDisplay" ELSE IF known THEN "None" ELSE "BadLayer"

\* The layer fields of a command, in the order of dispatchLayerCommand, each with
\* the function HalImpl needs for it; None where it answers by itself.
LayerFields ==
  <<[field |-> "cursorPosition",   hook |-> "setCursorPosition"],
    [field |-> "buffer",           hook |-> "setLayerBuffer"],
    [field |-> "damage",           hook |-> "setLayerSurfaceDamage"],
    [field |-> "blendMode",        hook |-> "setLayerBlendMode"],
    [field |-> "color",            hook |-> "setLayerColor"],
    [field |-> "composition",      hook |-> "setLayerCompositionType"],
    [field |-> "dataspace",        hook |-> "setLayerDataspace"],
    [field |-> "displayFrame",     hook |-> "setLayerDisplayFrame"],
    [field |-> "planeAlpha",       hook |-> "setLayerPlaneAlpha"],
    [field |-> "sidebandStream",   hook |-> "setLayerSidebandStream"],
    [field |-> "sourceCrop",       hook |-> "setLayerSourceCrop"],
    [field |-> "transform",        hook |-> "setLayerTransform"],
    [field |-> "visibleRegion",    hook |-> "setLayerVisibleRegion"],
    [field |-> "z",                hook |-> "setLayerZOrder"],
    [field |-> "colorTransform",   hook |-> "setLayerColorTransform"],
    [field |-> "brightness",       hook |-> "none"],
    [field |-> "perFrameMetadata", hook |-> "setLayerPerFrameMetadata"],
    [field |-> "perFrameMetadataBlob", hook |-> "setLayerPerFrameMetadataBlobs"],
    [field |-> "blockingRegion",   hook |-> "none"]>>

\* A setter of a layer is passed on if the device has the function.
PassedOn(hook, kind, known) ==
  IF hook \in Loaded THEN {LayerHook(kind, known)} ELSE {"Unsupported"}

\* setLayerColorTransform notes layers for the client in a set nobody reads.
HalLayerStatuses(f, kind, known) == PassedOn(f.hook, kind, known)
\* Metadata, blobs and the stream: empty entries are left out of the arrays, but counted.
HalMetadataStatuses(f, kind, known) == PassedOn(f.hook, kind, known)
\* Geometry and order; HalImpl itself takes a brightness and the blocking region.
HalGeometryStatuses(f, kind, known) ==
  CASE f.field = "brightness" -> {"None", "BadParameter"}
    [] f.field = "blockingRegion" -> {"None"}
    [] OTHER -> PassedOn(f.hook, kind, known)

LayerStatuses(f, kind, known) ==
  CASE f.field \in {"perFrameMetadata", "perFrameMetadataBlob", "sidebandStream", "planeAlpha"}
         -> HalMetadataStatuses(f, kind, known)
    [] f.field \in {"sourceCrop", "damage", "transform", "visibleRegion", "brightness", "z",
                    "blockingRegion"} -> HalGeometryStatuses(f, kind, known)
    [] OTHER -> HalLayerStatuses(f, kind, known)

-------------------------------------------------------------------------------
(* Lists a caller fetches with two calls, one for the count, one for the data    *)

Queries == {"getColorModes", "getRenderIntents", "getDisplayConfigs", "getDisplayName",
            "getDisplayIdentificationData", "getPerFrameMetadataKeys",
            "getDisplayCapabilities", "getSupportedContentTypes",
            "getChangedCompositionTypes", "getReleaseFences"}

\* GetDisplayIdentificationData needs a monitor.
Answers(q, kind) ==
  /\ kind # "gone"
  /\ q = "getDisplayIdentificationData" => kind # "headless"

\* The number of entries a display of this kind has, layers aside.  (Numbers of
\* configurations, name and EDID lengths are examples; they differ by kind.)
GetColorModes(kind) == IF kind = "hdr" THEN 4 ELSE 1
GetRenderIntents(kind) == IF kind = "hdr" THEN 2 ELSE 1
GetDisplayConfigs(kind) == CASE kind = "headless" -> 1 [] kind = "sdr" -> 2 [] OTHER -> 3
GetDisplayName(kind) == IF kind = "headless" THEN 12 ELSE 10
GetDisplayIdentificationData(kind) == IF kind = "sdr" THEN 1 ELSE 2
GetPerFrameMetadataKeys(kind) == 12

\* changed and released: layers of the display with a changed type, and with a
\* release fence to fetch.  A headless display has neither.
Entries(q, kind, changed, released) ==
  CASE q = "getColorModes" -> GetColorModes(kind)
    [] q = "getRenderIntents" -> GetRenderIntents(kind)
    [] q = "getDisplayConfigs" -> GetDisplayConfigs(kind)
    [] q = "getDisplayName" -> GetDisplayName(kind)
    [] q = "getDisplayIdentificationData" -> GetDisplayIdentificationData(kind)
    [] q = "getPerFrameMetadataKeys" -> GetPerFrameMetadataKeys(kind)
    [] q = "getChangedCompositionTypes" -> IF kind = "headless" THEN 0 ELSE changed
    [] q = "getReleaseFences" -> IF kind = "headless" THEN 0 ELSE released
    [] OTHER -> 0

\* The data call of these looks at the capacity it is given; that of the others
\* writes all there is.
TakesCapacity == {"getDisplayConfigs", "getDisplayName", "getDisplayIdentificationData",
                  "getChangedCompositionTypes", "getReleaseFences"}
\* GetDisplayName keeps one character back.
Written(q, entries, capacity) ==
  LET fits == IF q = "getDisplayName" THEN entries - 1 ELSE entries
  IN IF q \in TakesCapacity /\ capacity < fits THEN capacity ELSE fits

-------------------------------------------------------------------------------
(* Methods of HwcDisplay that answer with a status.  A status that depends on the     *)
(* arguments or on the driver is one of a set.                                        *)

GetActiveConfig == {"None", "BadConfig"}
SetActiveConfig == {"None", "BadConfig"}
GetDisplayVsyncPeriod == {"None", "BadConfig"}
GetDisplayConnectionType == {"None"}
SetActiveConfigWithConstraints == {"None", "BadConfig", "SeamlessNotAllowed"}

\* The first call has no place for the types, which the connector refuses: a display
\* of a device with HDR never reports its capabilities.
GetHdrCapabilities(kind) == {IF kind \in {"headless", "hdr"} THEN "Unsupported" ELSE "None"}

\* Modes and intents are checked, but only the native mode is taken.
SetColorModeWithIntent == {"None", "BadParameter", "Unsupported"}
SetColorTransform == {"None", "BadParameter"}

\* Doze is refused; Off and On are commits that may fail.
SetPowerMode(kind) ==
  IF kind = "headless" THEN {"None", "Unsupported"} ELSE {"None", "Unsupported", "BadParameter"}
\* On asks the pipeline for its device before it looks whether there is a pipeline.
PowerOnFaults(kind) == kind = "headless"
\* SetLayerPerFrameMetadata writes to the connector of the display's pipeline.
MetadataFaults(kind) == kind = "headless"

\* Nothing but the content type "none" is supported, and no brightness.
SetOptions(f) ==
  CASE f = "setContentType" -> {"None", "Unsupported"}
    [] f = "getDisplayBrightnessSupport" -> {"None"}
    [] OTHER -> {"Unsupported"}

-------------------------------------------------------------------------------
(* The same calls as HalImpl makes them, in the order of the file.                    *)

\* createVirtualDisplay, destroyVirtualDisplay: not implemented by DrmHwcTwo.
VirtualDisplays == {"Unsupported"}

\* An error of getDisplayAttribute is hidden unless the value is -1, which depends on
\* what the caller left there.
HalAttributes(f) ==
  CASE f = "getDisplayAttribute" -> {"None", "BadParameter"}
    [] f = "getDisplayBrightnessSupport" -> SetOptions(f)
    [] f = "getDataspaceSaturationMatrix" -> {"None", "BadParameter"}

\* From notifyExpectedPresent to getMaxVirtualDisplayCount.
HalMonitor(f, kind) ==
  CASE f \in {"notifyExpectedPresent", "getDisplayedContentSample",
              "getDisplayedContentSamplingAttributes"} -> {"Unsupported"}
    [] f = "getDisplayVsyncPeriod" -> GetDisplayVsyncPeriod
    [] f = "getDisplayConnectionType" -> GetDisplayConnectionType
    [] f = "getHdrCapabilities" -> GetHdrCapabilities(kind)
    [] OTHER -> {"None"}

\* The device has no readback function.
HalReadback == {"Unsupported"}

\* Boot configurations are accepted and forgotten.
HalConfigs(f) ==
  CASE f = "setActiveConfig" -> SetActiveConfig
    [] f = "setActiveConfigWithConstraints" -> SetActiveConfigWithConstraints
    [] f = "setAutoLowLatencyMode" -> SetOptions(f)
    [] f = "setBootDisplayConfig" -> {"None", "BadConfig"}
    [] OTHER -> {"None"}

\* The matrix decides the hint: one that the device takes.
HalColors(f) ==
  CASE f = "setColorMode" -> SetColorModeWithIntent
    [] f = "setColorTransform" -> SetColorTransform \ {"BadParameter"}
    [] f = "setDisplayBrightness" -> SetOptions(f) \cup {"BadParameter"}
    [] f = "setDisplayedContentSamplingEnabled" -> {"Unsupported"}
    [] OTHER -> SetOptions(f)

HalPower(f, kind) ==
  CASE f = "setPowerMode" -> SetPowerMode(kind)
    [] f = "setVsyncEnabled" -> {"None"}
    [] OTHER -> {"Unsupported"}

\* The end of the file: the expected present time goes to the device, the rest is
\* answered with success and the caller's value.
HalHwc3 == {"None"}

\* Calls answered without the device, whatever display they are about.
NoDeviceCall ==
  {"notifyExpectedPresent", "getDisplayedContentSample", "createVirtualDisplay",
   "getDisplayedContentSamplingAttributes", "setIdleTimerEnabled", "getMaxVirtualDisplayCount",
   "setDisplayedContentSamplingEnabled", "getReadbackBufferAttributes", "getReadbackBufferFence",
   "setReadbackBuffer", "getDataspaceSaturationMatrix", "getDisplayPhysicalOrientation",
   "setBootDisplayConfig", "clearBootDisplayConfig", "destroyVirtualDisplay",
   "getDisplayDecorationSupport"}

Asks == {"getDisplayAttribute", "getDisplayBrightnessSupport", "getDataspaceSaturationMatrix"}
Readbacks == {"getReadbackBufferAttributes", "getReadbackBufferFence"}
Watches == {"notifyExpectedPresent", "getDisplayConnectionType", "getDisplayVsyncPeriod",
            "getDisplayedContentSample", "getDisplayedContentSamplingAttributes",
            "getDisplayPhysicalOrientation", "getDozeSupport", "getHdrCapabilities",
            "getMaxVirtualDisplayCount"}
ConfigCalls == {"setActiveConfig", "setActiveConfigWithConstraints", "setBootDisplayConfig",
                "clearBootDisplayConfig", "setAutoLowLatencyMode"}
ColorCalls == {"setColorMode", "setColorTransform", "setContentType", "setDisplayBrightness",
               "setDisplayedContentSamplingEnabled"}
PowerCalls == {"setOutputBuffer", "setPowerMode", "setReadbackBuffer", "setVsyncEnabled",
               "setIdleTimerEnabled"}

\* getDisplayDecorationSupport has no decoration to report.
Hwc3Calls == {"getDisplayDecorationSupport", "setExpectedPresentTime"}

\* Questions and settings of ComposerClient, and display fields of a command, that
\* change nothing the service keeps.
Questions == {"getActiveConfig"} \cup Asks \cup Watches \cup Readbacks
Settings == ConfigCalls \cup ColorCalls \cup PowerCalls
Forwarded == Questions \cup Settings \cup Hwc3Calls
               \cup {"createVirtualDisplay", "destroyVirtualDisplay", "acceptDisplayChanges"}

HalStatuses(f, kind) ==
  IF kind = "gone" /\ f \notin NoDeviceCall \cup {"getDisplayAttribute"}
  THEN {DisplayHook(kind)}
  ELSE CASE f = "acceptDisplayChanges" -> {"None"}
         [] f = "getActiveConfig" -> GetActiveConfig
         [] f \in Asks -> HalAttributes(f)
         [] f \in Watches -> HalMonitor(f, kind)
         [] f \in Readbacks -> HalReadback
         [] f \in ConfigCalls -> HalConfigs(f)
         [] f \in ColorCalls -> HalColors(f)
         [] f \in PowerCalls -> HalPower(f, kind)
         [] f \in Hwc3Calls -> HalHwc3
         [] OTHER -> VirtualDisplays
===============================================================================
