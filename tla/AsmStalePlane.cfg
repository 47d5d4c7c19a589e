SPECIFICATION Spec
CONSTANTS
  Planes = {p1, p2}
  Fbs = {f1, f2}
  Modes = {m1}
  NoFb = NoFb
  NoMode = NoMode
  Requests <- FrameRequests
  HdrDevice = FALSE
  SyncMayTimeOut = FALSE
  DupFaults = {}
  Failures = {}
  MaxFrames = 3
INVARIANT NoStalePlane
CHECK_DEADLOCK FALSE
