CONSTANTS
  Corpora <- MCCorpora
  NegatedOps = {"!="}
  TableNames = {"T"}
  ColumnTypes = {"long"}
SPECIFICATION Spec
CHECK_DEADLOCK FALSE
INVARIANTS
  DataSurvives
  WalkReaches
  ViewTellsApart
  PassedMeansClean
  MinedIsVerified
