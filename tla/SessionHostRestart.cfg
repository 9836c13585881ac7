SPECIFICATION FairSpec
CONSTANTS
  Clients = {c1, c2}
  NoClient = NoClient
  Requests = {}
  NoRequest = NoRequest
  MaxId = 1
  Ops = {"list", "spawn", "restart", "host_status", "close_if_idle", "write"}
  LowestScope = 1
  AcceptMayFail = FALSE
PROPERTIES EveryRequestAnswered RestartCompletes
CHECK_DEADLOCK FALSE
