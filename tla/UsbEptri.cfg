SPECIFICATION FairSpec
CONSTANTS
  MaxTransfers = 3
  MAX_BYTES = 2
  MaxData = 4
  MaxResets = 1
  Requests <- MCRequests
INVARIANTS
  UsbTypeOK
  RightReply
  BlockInOrder
  NothingLeftBehind
PROPERTIES
  TransferEnds
CHECK_DEADLOCK FALSE
