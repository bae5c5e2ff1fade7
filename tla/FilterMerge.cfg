CONSTANTS
  a = a
  b = b
  c = c
  MaxOps = 5
  Conjuncts <- MCConjuncts
  OpLists <- MCOpLists
SPECIFICATION Spec
CHECK_DEADLOCK FALSE
INVARIANTS
  NoAdjacentFilters
  ConjunctsKept
  NewConjunctionsNormal
