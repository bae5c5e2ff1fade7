SPECIFICATION Spec
CONSTANTS
  Tables <- MCTables
  Columns <- MCColumns
  TypeNames <- MCTypeNames
  Queries <- MCQueries
  SchemaChoices <- MCSchemas
  NoTable = NoTable
  NoName = NoName
  NoType = NoType
  NoSchema = NoSchema
  MaxPasses = 1
INVARIANT
  JoinKeepsColumns
CHECK_DEADLOCK FALSE
