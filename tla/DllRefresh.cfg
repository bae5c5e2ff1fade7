CONSTANTS
  v1 = v1
  v2 = v2
  v3 = v3
  d1 = d1
  d2 = d2
  d3 = d3
  d4 = d4
  Versions <- MCVersions
  Dlls <- MCDlls
  Builds <- MCBuilds
  Torn = Torn
  NoDll = NoDll
  NoVersion = NoVersion
  NoRecord = NoRecord
SPECIFICATION Spec
INVARIANTS
  Consistent
  AcceptedWasShipped
  FreshPasses
PROPERTY PinFollowsDll
