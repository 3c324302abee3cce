SPECIFICATION Spec
CONSTANTS
  PAGES = 2
  IMAGE_PAGES = 5
  SECTORS = 3
  SECTOR_LIMIT = 4
  WORD = 16777216
  MaxCuts = 1
  MaxFaults = 0
PROPERTIES
  OnlyWhatNeedsUpdating
