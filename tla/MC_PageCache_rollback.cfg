CONSTANTS
  MAX_FILE_PAGES <- MCMaxFilePages
  L2_ASSOC <- MCAssoc
  ROW_GROW <- MCGrow
  MaxCapacity <- MCCapacity
  MaxFrames <- MCFrames
  MaxVersion <- MCVersions
  MaxLoad <- MCLoads
  AUTOSAVE = FALSE
  IoMayFail = FALSE
  MayCrash = FALSE
  MallocMayFail = FALSE
SPECIFICATION Spec
INVARIANT FileIsCommitted
