SPECIFICATION Spec
CONSTANTS
  Statements <- MCStatements
  Schema <- MCSchema
  Known <- AllCols
  Values = {0, 1}
INVARIANTS
  StopsOnlyForForeignTable
  ScansKeepWhere
  ColumnsTile
CHECK_DEADLOCK FALSE
