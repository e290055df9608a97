SPECIFICATION Spec
CONSTANTS
  Size = 2
  Nothing = Nothing
  Idle = Idle
  MaxReceived = 5
  MaxPut = 5
INVARIANTS TypeOK ReadInOrder NoPhantomBytes SentInOrder TransmitterNotStranded
PROPERTY AllSent
CHECK_DEADLOCK FALSE
