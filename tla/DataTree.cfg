SPECIFICATION Spec
CHECK_DEADLOCK FALSE
CONSTANTS
  h1 = h1
  h2 = h2
  Handle <- MCHandle
  Bid <- MCBid
  Kind <- MCKind
  Ib <- MCIb
  Cb <- MCCb
  Rgbid <- MCRgbid
  Root <- MCRoot
  InBBT <- MCInBBT
  ZeroSig <- MCZeroSig
  FileSize <- MCFileSize
  MaxStale = 1
  Empty = Empty
  Garbage = Garbage
  None = None
INVARIANTS TypeOK LoadedIsImage AssertsCatchShortReads IntactNeverAborts
PROPERTIES LoadingAgainAddsNothing LoadEnds LazySpec
