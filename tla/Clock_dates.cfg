SPECIFICATION ClockSpec
CONSTANTS
  EPOCH_YEAR = 1970
  YearModulus = 2104
  SyncDays <- MCSyncDays
  MaxElapsed = 3
INVARIANTS ClockTypeOK DateRight
