SPECIFICATION Spec
CONSTANTS
  BlockSize = 7
  Lengths = {1, 2, 4}
  LongLength = 3
  LongHeader = 2
  MaxBytes = 18
  MaxLosses = 1
  Word = 2
  LongPacket = 2
  TooLong = 4
  Packets = {1, 2, 3}
  MaxPackets = 3
INVARIANTS FittingIsKept InOrderAndCounted ExecutedAsArrived ReaderInStep
CHECK_DEADLOCK FALSE
