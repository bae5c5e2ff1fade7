CONSTANTS
  Corpora <- MCCorpora
  NegatedOps = {"!="}
  TableNames = {"T"}
  ColumnTypes = {"long"}
SPECIFICATION Spec
CHECK_DEADLOCK FALSE
INVARIANTS
  RoundTripLossless
