SPECIFICATION FairSpec
CONSTANTS
  HEADER_1 = 4
  HEADER_2 = 5
  ENTER = 3
  BACKSPACE = 6
  Printable = {7, 15}
  CrcByte = 0
  Words = {7, 15}
  StoppingWords = {15}
  Commands <- MCCommands
  CommandType <- MCCommandType
  PayloadSize <- MCPayloadSize
  GET_TIME_REPORT = 2
  SessionIds = {0, 1}
  MaxChars = 2
  Heap = 11
  SizeModulus = 16
  MaxCuts = 2
  Messages <- MCMessages
INVARIANTS TypeOK PacketCanEnd InSyncAnswered CrcProtects
PROPERTIES EventuallyInSync
\* The system may really stop: see StoppingWords and BinaryStops.
CHECK_DEADLOCK FALSE
