SPECIFICATION Spec
CONSTANTS
  MaxTransfers = 2
  MAX_BYTES = 2
  MaxData = 4
  MaxResets = 0
  Requests <- ResetStatus
INVARIANTS
  RebootAfterAck
CHECK_DEADLOCK FALSE
