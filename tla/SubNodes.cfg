SPECIFICATION Spec
CHECK_DEADLOCK FALSE
CONSTANTS
  Block <- MCBlock
  Data <- MCData
  Nid <- MCNid
  Roots <- MCRoots
  Kind <- MCKind
  Ib <- MCIb
  Cb <- MCCb
  Entries <- MCEntries
  SLBlocks <- MCSLBlocks
  InBBT <- MCInBBT
  Sig <- MCSig
  Torn <- MCTorn
  FileSize <- MCFileSize
  Cuts <- MCCuts
  None = None
INVARIANTS TypeOK BuiltIsImage LossIsATail AnswerIsShallowest ReadyIsComplete
