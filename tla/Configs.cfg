SPECIFICATION Spec
CONSTANTS
  Displays = {d0, d1}
  Primary = d0
  ModeLists <- Monitors
  Settings <- AllSettings
  MaxConfigId = 8
  None = None
INVARIANTS ConfigsSound NumbersKeepMeaning ActiveConfigListed ReportedModeShown
\* Everything stops once the numbers below MaxConfigId are used up.
CHECK_DEADLOCK FALSE
