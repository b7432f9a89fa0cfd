SPECIFICATION KbFairSpec
CONSTANTS
  KeyIds <- MCKeyIds
  LedsCount = 1
  Colors = {"red", "green"}
INVARIANTS KbTypeOK ReleaseOwed
PROPERTIES LedsSettle HostSettles
