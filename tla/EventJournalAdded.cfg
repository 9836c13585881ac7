SPECIFICATION FairSpec
CONSTANTS
  Ids = {i1}
  Infos = {a, b}
  Absent = Absent
  Observations = {}
  Pending = Pending
  Subscribers = {s1}
  ProcessEvents = {}
  Capacity = 4
  LateSessions = TRUE
  MaxChanges = 1
  MaxGeneration = 0
PROPERTIES ChangesReachSubscribers
CHECK_DEADLOCK FALSE
