SPECIFICATION FairSpec
CONSTANTS
  Sectors = {0, 26}
  NoImage = NoImage
  prog = prog
  ramprog = ramprog
  ramtool = ramtool
  late = late
  bits = bits
  package = package
  Images = {prog, ramprog, ramtool, late, bits, package}
  Laid <- MCLaid
  ChipIds = {"c8144015", "ef177018"}
  FIRST_PACKET = 64
  MaxLives = 2
  MaxCuts = 1
  MaxBlocks = 2
INVARIANTS
  BootTypeOK
  StartsAsLaidOut
  TornOnlyByPowerCut
  NeverProgramsTwice
  ChipAnswers
  UpdaterForThisDevice
PROPERTIES
  IgnoredForCause
  Autoboots
