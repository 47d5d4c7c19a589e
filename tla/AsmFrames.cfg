SPECIFICATION Spec
CONSTANTS
  Planes = {p1, p2}
  Fbs = {f1, f2}
  Modes = {m1}
  NoFb = NoFb
  NoMode = NoMode
  Requests <- CallerRequests
  HdrDevice = FALSE
  SyncMayTimeOut = FALSE
  DupFaults = {"tracker"}
  Failures = {"build", "disable", "commit"}
  MaxFrames = 3
INVARIANT CleanupAssertsHold
PROPERTIES PromotedAfterFlip UntouchedAfterStop ImplementsPresentation
CHECK_DEADLOCK FALSE
