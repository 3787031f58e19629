SPECIFICATION Spec
CHECK_DEADLOCK FALSE
CONSTANTS
  Images <- MCImages
  Calls <- MCCalls
  None = None
  Threw = Threw
INVARIANTS TypeOK RecordsAreTheFiles AnswerIsTheValue EndsOnlyOn
PROPERTY FetchedStays
