SPECIFICATION FairSpec
CONSTANTS
  ERASE_SIZE = 4
  WRITE_SIZE = 2
  FLASH_SIZE = 12
  RamAddr = {100}
  Erased = Erased
  Corrupt = Corrupt
  CONFIG_RESCUE_IMAGE_OFFSET = 4
  FLASH_MAX_ADDR = 8
  DFU_TRANSFER_SIZE = 4
  PACKET_SIZE = 2
  Blocks = {0, 1}
  Lengths = {0, 3, 4, 5}
  p1 = p1
  p2 = p2
  r = r
  Payloads = {p1, p2}
  LoadAddress <- MCLoadAddress
  Old = Old
  NoRequest = NoRequest
  Unknown = Unknown
INVARIANTS
  TypeOK
  BootloaderUntouched
  NeverCorrupt
  AcceptedDataInPlace
  ReportedMeansWritten
PROPERTIES
  ImplementsBlockStore
  AcceptedBlockSettles
