SPECIFICATION Spec
CONSTANTS
  b1 = b1
  b2 = b2
  b3 = b3
  b4 = b4
  o1 = o1
  o2 = o2
  o3 = o3
  o4 = o4
  Bufs = {b1, b2, b3}
  Mem <- MCMem3
  Layers = {l1}
  Frames = {f1, f2}
  Identified = {b1, b2, b3}
  NumHandles = 5
  NumFbs = 13
  CleanupSize = 1
  None = None
INVARIANTS FbShowsWantedBuffer HandlesOfLiveFbsOpen NoHandleLeak
CONSTRAINT UntilDoubled
SYMMETRY Exchanges
