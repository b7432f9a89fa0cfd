SPECIFICATION Spec
CONSTANTS
  SessionCount = 2
  SaveIntervals = 1
  MediumDefault = 1
  LongDefault = 2
  HourTicks = 2
  Thresholds = {}
  HostCommands = {"power_loss"}
  HostColors = {}
  SwitchTargets = {}
  StartFeature = "time_tracker"
  Garbage <- MCGarbage
  MaxTime = 2
INVARIANTS TypeOK ThresholdsMarked
