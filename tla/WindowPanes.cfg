SPECIFICATION Spec
CONSTANTS
  p1 = p1
  p2 = p2
  t1 = t1
  t2 = t2
  Panes <- MCPanes
  Tabs <- MCTabs
  Layouts <- MCLayouts
  MaxShells = 2
  MaxChecks = 2
  MaxEvents = 2
  Retries = 1
INVARIANTS TypeOK OneShellPerPane WaitsAreAnswered
PROPERTIES PanesLeaveStopped OnlyForcedCloseEmptiesTabs
CHECK_DEADLOCK FALSE
