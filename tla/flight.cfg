SPECIFICATION FairFlightSpec
CONSTANTS
  Keys = {0, 2, 3, 4, 9, 117}
  LinkLimit = 1
  MaxKeys = 3
  MaxLost = 2
INVARIANTS FlightTypeOK BeliefIsLatest
PROPERTY RequestsSettle
CHECK_DEADLOCK FALSE
