SPECIFICATION Spec
CONSTANTS
  c1 = c1
  c2 = c2
  Clients <- MCClients
  Version <- MCVersion
  Anonymous = {2}
  MaxHosts = 2
  MaxSpawns = 1
  Askers = {c1}
INVARIANT TypeOK
PROPERTY RefinesHostedSessions
CHECK_DEADLOCK FALSE
