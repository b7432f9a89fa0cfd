SPECIFICATION FairSpec
CONSTANTS
  SlotCount = 4
  SlotsPerSector = 2
  PagesPerSlot = 2
  Contexts = {"thread", "tick"}
  ThreadBlobs <- MCThreadBlobs
  TickBlobs <- MCTickBlobs
  PowerMayFail = FALSE
  MaxData = 1
PROPERTIES SaveReturns
CHECK_DEADLOCK FALSE
