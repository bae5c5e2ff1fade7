CONSTANTS
  Trees <- MCTrees
SPECIFICATION Spec
CHECK_DEADLOCK FALSE
INVARIANTS
  OperatorsInOrder
  SourceFromText
  OutputIsQuery
PROPERTY BuildReturns
