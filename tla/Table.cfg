SPECIFICATION Spec
CHECK_DEADLOCK FALSE
CONSTANTS
  Tables <- MCTables
  Column <- MCColumn
  Empty = Empty
  None = None
  Threw = Threw
INVARIANTS TypeOK RowsAreFound AnswerIsTheCell EndsOnlyOn
PROPERTY LoadedStays
