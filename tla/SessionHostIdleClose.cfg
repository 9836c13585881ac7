SPECIFICATION Spec
CONSTANTS
  Clients = {c1, c2}
  NoClient = NoClient
  Requests = {}
  NoRequest = NoRequest
  MaxId = 2
  Ops = {"spawn", "close_if_idle", "close_batch", "write"}
  LowestScope = 2
  AcceptMayFail = TRUE
SYMMETRY Symmetric
INVARIANTS HandlersWaitForMutexes HandlersNeverStuck
PROPERTY NoInputAfterIdleCheck
CHECK_DEADLOCK FALSE
