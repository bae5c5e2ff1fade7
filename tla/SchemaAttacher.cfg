SPECIFICATION Spec
CONSTANTS
  Tables <- MCTables
  Columns <- MCColumns
  TypeNames <- MCTypeNames
  Queries <- MCQueries
  SchemaChoices <- MCSchemas
  NoTable = NoTable
  NoName = NoName
  NoType = NoType
  NoSchema = NoSchema
  MaxPasses = 2
INVARIANTS
  ScopesSound
  Attributed
  TypesJustified
  UnionKeepsColumns
  ColumnsHaveOrigin
  SourceColumnsAttributed
  SidesNamed
PROPERTIES
  ImplementsAnnotations
  SecondPassChangesNothing
CHECK_DEADLOCK FALSE
