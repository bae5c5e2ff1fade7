CONSTANT Inputs <- MCInputs
SPECIFICATION Spec
CHECK_DEADLOCK FALSE
INVARIANTS
  AllNormal
  MeaningKept
  RegroupingsCollapse
