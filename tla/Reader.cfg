SPECIFICATION Spec
CHECK_DEADLOCK FALSE
CONSTANTS
  MaxReads = 3
  None = None
INVARIANTS TypeOK FoldersStayValid UndefinedOnlyUnread
PROPERTY FirstOpenDecides
