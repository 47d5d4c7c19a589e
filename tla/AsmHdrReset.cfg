SPECIFICATION Spec
CONSTANTS
  Planes = {p1}
  Fbs = {f1, f2}
  Modes = {m1}
  NoFb = NoFb
  NoMode = NoMode
  Requests <- HdrRequests
  HdrDevice = TRUE
  SyncMayTimeOut = FALSE
  DupFaults = {}
  Failures = {}
  MaxFrames = 3
INVARIANT HdrResetReachesScreen
CHECK_DEADLOCK FALSE
