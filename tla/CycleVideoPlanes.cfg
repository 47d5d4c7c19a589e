SPECIFICATION Spec
CONSTANTS
  SizeMod = 256
  MaxLayers = 3
  MaxPlanes = 3
  MaxChanging = 3
  Kinds <- AllKinds
  Revalidate = TRUE
  BadLayerMayHappen = FALSE
INVARIANT ProposalFits
