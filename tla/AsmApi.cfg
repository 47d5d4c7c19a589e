SPECIFICATION FairSpec
CONSTANTS
  Planes = {p1}
  Fbs = {f1}
  Modes = {m1}
  NoFb = NoFb
  NoMode = NoMode
  Requests <- ApiRequests
  HdrDevice = TRUE
  SyncMayTimeOut = TRUE
  DupFaults = {}
  Failures = {"build", "disable", "commit"}
  MaxFrames = 3
INVARIANT CrtcStateInSync
PROPERTIES StagedFramePromoted TrackerEnds
CHECK_DEADLOCK FALSE
