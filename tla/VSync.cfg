SPECIFICATION FairSpec
CONSTANTS
  Interrupts = TRUE
  Spurious = TRUE
  CountdownMax = 2
  MaxTime = 12
INVARIANTS NeedsKeepWorkerOn PhasedVSyncAhead
PROPERTIES VsyncDelivered CountdownAdvances WorkerSleeps DestroyEnds
CHECK_DEADLOCK FALSE
