SPECIFICATION Spec
CONSTANTS
  Motors = {0, 1}
  TimerOf <- MCTimerOf
  Top = 4
  Base = 2
  Full = 1
  Window = 1
  Slack = 1
  Notice = 2
  Quiet = 4
  Scale = 1
  Wrap = 9
  Targets <- MCTargets
  MaxLaps = 1
INVARIANT NeverFlipped
