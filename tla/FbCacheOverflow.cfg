SPECIFICATION Spec
CONSTANTS
  b1 = b1
  b2 = b2
  b3 = b3
  b4 = b4
  o1 = o1
  o2 = o2
  o3 = o3
  o4 = o4
  Bufs = {b1, b2, b3, b4}
  Mem <- MCMem4
  Layers = {l1, l2}
  Frames = {f1}
  Identified = {}
  NumHandles = 5
  NumFbs = 16
  CleanupSize = 1
  None = None
INVARIANT FbAlwaysShowsWanted
