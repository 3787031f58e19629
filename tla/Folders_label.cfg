SPECIFICATION Spec
CHECK_DEADLOCK FALSE
CONSTANTS
  Nid <- MCNid
  Root = "top"
  PartsOf <- MCPartsOf
  SubFolders <- MCSubFolders
  Messages <- MCMessages
  Name <- MCName
  Ids <- MCIds
  Accepts <- MCAccepts
  Lost = {"lost"}
  Broken = {"broken"}
  BatchSizes <- MCBatches
  None = None
INVARIANT FoundIsLabelled
