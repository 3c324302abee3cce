SPECIFICATION Spec
CONSTANTS
  Sectors = {0, 26}
  NoImage = NoImage
  prog = prog
  ramprog = ramprog
  ramtool = ramtool
  late = late
  bits = bits
  package = package
  Images = {ramprog, late}
  Laid <- MCLaid
  ChipIds = {"c8144015", "ef177018"}
  FIRST_PACKET = 64
  MaxLives = 2
  MaxCuts = 1
  MaxBlocks = 2
INVARIANTS
  RamBootSparesFlash
