SPECIFICATION Spec
CONSTANTS
  SlotCount = 4
  SlotsPerSector = 2
  PagesPerSlot = 2
  Contexts = {"thread", "tick"}
  ThreadBlobs <- MCThreadBlobs
  TickBlobs <- MCTickBlobs
  PowerMayFail = TRUE
  MaxData = 2
INVARIANTS TypeOK LedsNeverDuringFlashWrite OneSaver
PROPERTIES ImplementsBlobStore
\* The system may really stop: see Storage_selflock, and the bound on boots.
CHECK_DEADLOCK FALSE
