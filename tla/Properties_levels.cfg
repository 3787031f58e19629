SPECIFICATION Spec
CHECK_DEADLOCK FALSE
CONSTANTS
  Images <- MCDeep
  Calls <- MCCalls
  None = None
  Threw = Threw
INVARIANT IndexLevelsAreRead
