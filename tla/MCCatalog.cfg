SPECIFICATION LiveSpec
CONSTANTS
  v1 = v1
  v2 = v2
  v3 = v3
  Videos <- ThreeVideos
  Edited <- OneEdited
  Blank = blank
  Prices <- TwoPrices
  DefaultPrice = 25
  PageSize = 2
  MaxChanges = 1
  Libraries <- SomeLibraries
  MaxFaults = 1
INVARIANTS
  TypeOK
  ScanIsComplete
  EditsOutliveScans
PROPERTIES
  CatalogCatchesUp
