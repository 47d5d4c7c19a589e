SPECIFICATION Spec
CONSTANTS
  Displays = {d0, d1}
  Primary = d0
  ModeLists <- Monitors
  Settings <- AllSettings
  MaxConfigId = 9
  None = None
INVARIANT ActiveConfigKnown
CHECK_DEADLOCK FALSE
