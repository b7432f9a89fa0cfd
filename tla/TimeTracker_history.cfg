SPECIFICATION Spec
CONSTANTS
  SessionCount = 2
  SaveIntervals = 1
  MediumDefault = 1
  LongDefault = 2
  HourTicks = 2
  Thresholds = {1}
  HostCommands = {"set_threshold", "power_loss"}
  HostColors = {}
  SwitchTargets = {"ctrl_c_v"}
  StartFeature = "time_tracker"
  Garbage <- MCGarbage
  MaxTime = 1
PROPERTIES ThresholdKeepsHistory
