SPECIFICATION FairSpec
CONSTANTS
  PacketSize = 4
  Packets = 2
  TxSize = 2
  MaxRead = 3
  MaxBytes = 6
INVARIANTS MpsseTypeOK BusInStep BytesKeepOrder
PROPERTIES ReadReturns
CHECK_DEADLOCK FALSE
