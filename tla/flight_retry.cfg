SPECIFICATION FairFlightSpec
CONSTANTS
  Keys = {0, 4}
  LinkLimit = 2
  MaxKeys = 3
  MaxLost = 2
PROPERTY LastRequestArrives
CHECK_DEADLOCK FALSE
