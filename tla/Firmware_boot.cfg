SPECIFICATION FwFairSpec
CONSTANTS
  SlotCount = 4
  SlotsPerSector = 2
  PagesPerSlot = 2
  Contexts = {"thread", "tick"}
  ThreadBlobs <- MCThreadBlobs
  TickBlobs <- MCTickBlobs
  PowerMayFail = TRUE
  MaxData = 3
  Versions = {0, 1}
  MaxLosses = 1
INVARIANTS FwTypeOK LastSaveSurvives TornOnlyIfCut RunningIsStored
PROPERTIES ReturnsToLoop
\* The system may really stop: see Storage_selflock, and the bound on boots.
CHECK_DEADLOCK FALSE
