CONSTANTS
  k1 = k1
  k2 = k2
  k3 = k3
  token = token
  Kinds <- MCKinds
  Handleable <- Gaps
  DefaultSkipped <- MCDefaultSkipped
SPECIFICATION Spec
SYMMETRY Symmetry
INVARIANTS
  QuietMeansRecorded
  SkipsKept
  FreshIsAccepted
  TestIsAsStrict
