SPECIFICATION Spec
CONSTANTS
  MaxLen = 3
  MaxLine = 2
  MaxLost = 4
  MaxPrinted = 1
  Text = {50, 51}
  Messages <- MCMessages
INVARIANTS TypeOK DeliveredInOrder LossIsLocal
CHECK_DEADLOCK FALSE
