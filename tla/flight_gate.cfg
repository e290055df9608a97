SPECIFICATION FlightSpec
CONSTANTS
  Keys = {0, 3, 4}
  LinkLimit = 3
  MaxKeys = 4
  MaxLost = 0
PROPERTY SafeModeFirst
CHECK_DEADLOCK FALSE
