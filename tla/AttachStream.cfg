CONSTANTS
  Conns = {c1, c2}
  Capacity = 2
  MaxAttaches = 2
  MaxOutput = 3
SPECIFICATION FairSpec
INVARIANTS TypeOK NothingLostSilently
PROPERTIES RefinesTerminalViews ViewersCatchUp
CHECK_DEADLOCK FALSE
