SPECIFICATION FairSpec
CONSTANTS
  Hosts = {h1}
  Embedded = {e1}
  NoProc = NoProc
  First = 1
  Block = 2
  MaxId = 5
  AcceptMayFail = TRUE
PROPERTY RestartReleases
CHECK_DEADLOCK FALSE
