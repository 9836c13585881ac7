SPECIFICATION Spec
CONSTANTS
  Hosts = {h1, h2, h3}
  Embedded = {}
  NoProc = NoProc
  First = 1
  Block = 2
  MaxId = 7
  AcceptMayFail = FALSE
SYMMETRY Symmetric
INVARIANTS TypeOK IdsUnique DurableAboveIssued ServingReachable
PROPERTY FreshIdsSpec
CHECK_DEADLOCK FALSE
