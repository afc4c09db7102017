CONSTANTS
  MAX_FILE_PAGES <- MCMaxFilePages
  L2_ASSOC <- MCAssoc
  ROW_GROW <- MCGrow
  MaxCapacity <- MCCapacity
  MaxFrames <- MCFrames
  MaxVersion <- MCVersions
  MaxLoad <- MCLoads
  AUTOSAVE = TRUE
  IoMayFail = TRUE
  MayCrash = TRUE
  MallocMayFail = FALSE
SPECIFICATION Spec
INVARIANT TypeOK NoDuplicate PinnedReached

VIEW CacheView
