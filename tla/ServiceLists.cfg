SPECIFICATION Spec
CONSTANTS
  MaxDisplay = 1
  MaxLayers = 1
  MaxHandles = 2
  MaxPlugs = 1
  Monitors = {"sdr", "hdr"}
  Asked = {"getColorModes"}
  None = None
INVARIANT AnswersFit
