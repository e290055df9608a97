SPECIFICATION FairFlightSpec
CONSTANTS
  Keys = {0, 4}
  LinkLimit = 2
  MaxKeys = 2
  MaxLost = 2
PROPERTY FireStopsFlight
CHECK_DEADLOCK FALSE
