SPECIFICATION Spec
CONSTANTS
  Windows = {w1, w2}
  NoWindow = NoWindow
  Tabs = {t1, t2}
  MaxStarts = 2
  MaxSaves = 2
SYMMETRY Symmetric
INVARIANTS TypeOK WindowsSaved SavedSessionUsable SavedWorkspaceKept
PROPERTY TabsLeaveByClosing
CHECK_DEADLOCK FALSE
