SPECIFICATION Spec
CHECK_DEADLOCK FALSE
CONSTANTS
  Page <- MCPage
  Root <- MCRoot
  Ib <- MCIb
  Level <- MCLevel
  Keys <- MCKeys
  Child <- MCChild
  FileSize <- MCFileSize
  Special <- MCSpecial
  Zero = Zero
  None = None
INVARIANTS TypeOK GetIsLookup LossIsATail AllIsTheGroup ReadyIsComplete
