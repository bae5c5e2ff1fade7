CONSTANTS
  Units <- MCUnits
  Points <- MCPoints
  Tables <- MCTables
  Columns <- MCColumns
  TimeFuncs <- MCTimeFuncs
  Macros <- MCMacros
  Queries <- MCQueries
  Jobs <- MCJobs
  MaxRenames = 2
SPECIFICATION Spec
CHECK_DEADLOCK FALSE
INVARIANTS
  RenamesReferences
  RenameMovesTable
  ModesAgree
  TimesComplete
