SPECIFICATION FairSpec
CONSTANTS
  PAGES = 2
  IMAGE_PAGES = 5
  SECTORS = 3
  SECTOR_LIMIT = 4
  WORD = 16777216
  MaxCuts = 3
  MaxFaults = 1
INVARIANTS
  TypeOK
  BrickOnlyInHeader
  GoneMeansInstalled
  BadPackageHarmless
  SpareKept
PROPERTIES
  FirstSectorHolds
  UpdateEnds
