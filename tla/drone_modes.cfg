SPECIFICATION FairSpec
CONSTANTS
  MinRpm = 3
  MaxRpm = 7
  Step = 2
  MotorLimit = 8
  Thrusts <- MCOneThrust
  RawThrusts <- MCRawThrusts
  PcModes = {0, 1, 2, 3, 6, 9}
  Gains = {"yaw"}
  GainMax = 1
  Timeout = 1
  BatteryPeriod = 2
  LogRecords = 1
INVARIANTS TypeOK ShutdownLanded NoFlightOnSilentLink
PROPERTIES PanicNeverSpeedsUp PanicLevels ImplementsContract LinkLossLands LowBatteryPanics
