SPECIFICATION Spec
CHECK_DEADLOCK FALSE
CONSTANTS
  Block <- MCBlock
  Data <- MCData
  Nid <- MCNid
  Roots <- MCOwnRoots
  Kind <- MCKind
  Ib <- MCIb
  Cb <- MCCb
  Entries <- MCEntries
  SLBlocks <- MCSLBlocks
  InBBT <- MCInBBT
  Sig <- MCSig
  Torn <- MCTorn
  FileSize <- MCOwnSize
  Cuts <- MCCuts
  None = None
INVARIANT AnswersForItsOwn
