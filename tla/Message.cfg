SPECIFICATION Spec
CHECK_DEADLOCK FALSE
CONSTANTS
  Nid <- MCNid
  Images <- MCImages
  None = None
  Threw = Threw
INVARIANTS TypeOK PartsAreOwn AnswersAreOwn EndsOnlyOn
