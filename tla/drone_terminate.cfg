SPECIFICATION Spec
CONSTANTS
  MinRpm = 3
  MaxRpm = 7
  Step = 2
  MotorLimit = 8
  Thrusts <- MCOneThrust
  RawThrusts <- MCRawThrusts
  PcModes = {0, 2, 9}
  Gains = {}
  GainMax = 2
  Timeout = 20
  BatteryPeriod = 160
  LogRecords = 1
PROPERTY TerminateArmsExit
