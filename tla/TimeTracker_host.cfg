SPECIFICATION Spec
CONSTANTS
  SessionCount = 2
  SaveIntervals = 1
  MediumDefault = 2
  LongDefault = 2
  HourTicks = 2
  Thresholds = {2}
  HostCommands = {"new_session", "factory_init", "erase", "power_loss"}
  HostColors = {"green"}
  SwitchTargets = {"ctrl_c_v", "time_tracker"}
  StartFeature = "ctrl_c_v"
  Garbage <- MCGarbage
  MaxTime = 1
INVARIANTS ExclusiveTracking PersistLag TimerOnlyForTracker LedsShowTracking
