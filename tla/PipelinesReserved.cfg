SPECIFICATION Spec
CONSTANTS
  c1 = c1
  c2 = c2
  e1 = e1
  e2 = e2
  r1 = r1
  r2 = r2
  None = None
  Connectors <- TwoConnectors
  Encoders <- TwoEncoders
  Crtcs <- TwoCrtcs
  Supported <- OneEncoderEach
  PossibleCrtcs <- AnyCrtc
  BootCrtc <- FirmwareLitFirst
  Planes <- FivePlanes
  PlanesEnabled = TRUE
  PlanesNum = 99
  MinResolution <- Smallest
  MaxResolution <- Largest
  Layers <- TwoLayers
  MaxLayers = 1
INVARIANTS
  FreeCrtcServesConnector
