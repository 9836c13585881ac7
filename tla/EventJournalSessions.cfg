SPECIFICATION FairSpec
CONSTANTS
  Ids = {i1}
  Infos = {a, b}
  Absent = Absent
  Observations = {o}
  Pending = Pending
  Subscribers = {s1, s2}
  ProcessEvents = {s1}
  Capacity = 2
  LateSessions = TRUE
  MaxChanges = 2
  MaxGeneration = 1
INVARIANTS TypeOK JournalMatchesRegistry ReplayReachesJournal RemovedIsLast
PROPERTY MembershipConverges
CHECK_DEADLOCK FALSE
