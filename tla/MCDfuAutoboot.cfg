SPECIFICATION Spec
CONSTANTS
  ERASE_SIZE = 2
  WRITE_SIZE = 1
  FLASH_SIZE = 6
  RamAddr = {100}
  Erased = Erased
  Corrupt = Corrupt
  CONFIG_RESCUE_IMAGE_OFFSET = 2
  FLASH_MAX_ADDR = 4
  DFU_TRANSFER_SIZE = 2
  PACKET_SIZE = 1
  Blocks = {0, 1}
  Lengths = {0, 2}
  p1 = p1
  p2 = p2
  r = r
  Payloads = {p1, r}
  LoadAddress <- MCLoadAddress
  Old = Old
  NoRequest = NoRequest
  Unknown = Unknown
INVARIANTS
  UploadCancelsAutoboot
