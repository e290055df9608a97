SPECIFICATION Spec
CONSTANTS
  Size = 2
  Nothing = Nothing
  Idle = Idle
  MaxReceived = 2
  MaxPut = 0
PROPERTY AllRead
CHECK_DEADLOCK FALSE
