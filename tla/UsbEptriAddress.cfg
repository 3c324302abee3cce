SPECIFICATION Spec
CONSTANTS
  MaxTransfers = 2
  MAX_BYTES = 2
  MaxData = 4
  MaxResets = 1
  Requests <- Enumeration
INVARIANTS
  AddressAfterAck
CHECK_DEADLOCK FALSE
