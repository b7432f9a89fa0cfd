SPECIFICATION FairSpec
CONSTANTS
  SessionCount = 1
  SaveIntervals = 1
  MediumDefault = 1
  LongDefault = 1
  HourTicks = 2
  Thresholds = {1, 2}
  HostCommands = {"set_threshold"}
  HostColors = {}
  SwitchTargets = {"ctrl_c_v"}
  StartFeature = "time_tracker"
  Garbage <- MCGarbage
  MaxTime = 2
PROPERTIES LongThresholdDetected TrackedTimeSaved
