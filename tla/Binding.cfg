SPECIFICATION FairSpec
CONSTANTS
  c1 = c1
  c2 = c2
  c3 = c3
  Order <- ThreeConnectors
  NoPipe = NoPipe
  CreateFails = TRUE
  Windows = {"update", "init"}
  MaxHandle = 7
INVARIANTS BindingConsistent PrimaryServes ClientKnows
PROPERTIES HotplugHandled DisposedAfterNotice
