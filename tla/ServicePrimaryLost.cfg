SPECIFICATION Spec
CONSTANTS
  MaxDisplay = 1
  MaxLayers = 1
  MaxHandles = 2
  MaxPlugs = 1
  Monitors = {"sdr"}
  Asked = {"getDisplayConfigs"}
  None = None
INVARIANT PrimaryAnnounced
