SPECIFICATION Spec
CONSTANTS
  Clients = {c1, c2}
  NoClient = NoClient
  Requests = {r1}
  NoRequest = NoRequest
  MaxId = 3
  Ops = {"spawn", "status", "list", "restart", "close"}
  LowestScope = 2
  AcceptMayFail = FALSE
SYMMETRY Symmetric
INVARIANT TypeOK
PROPERTIES TableSpec SpawnStatusExact
CHECK_DEADLOCK FALSE
