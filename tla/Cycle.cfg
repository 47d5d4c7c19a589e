SPECIFICATION Spec
CONSTANTS
  SizeMod = 256
  MaxLayers = 4
  MaxPlanes = 5
  MaxChanging = 3
  Kinds <- AllKinds
  Revalidate = FALSE
  BadLayerMayHappen = TRUE
INVARIANTS ProposalSound ProposalIsCheapest VideoStaysOnPlanes
PROPERTY ReleaseFenceForScannedOut
