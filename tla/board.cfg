SPECIFICATION Spec
CONSTANTS
  Bytes <- MCBytes
  Registers <- MCRegisters
  MaxLen = 2
  MaxErrors = 1
  PacketSize = 2
  FifoSize = 5
  Labels = 2
  LastAddress = 5
  RecordSize = 2
  Stride = 3
  MaxRestarts = 1
INVARIANTS BusReleased LogReadable NoSilentBacklog RecoversFromOverflow TornIsNoticed
PROPERTIES TransferExact UsesBus LoopKeepsGoing
CHECK_DEADLOCK FALSE
