SPECIFICATION FairSpec
CONSTANTS
  s1 = s1
  s2 = s2
  c1 = c1
  c2 = c2
  Sessions <- MCSessions
  Consumers <- MCConsumers
  Shows <- MCShows
  Leavers = {c1}
  MaxCwd <- MCMaxCwd
  MaxDrops = 1
INVARIANTS TypeOK FollowedByWorker ToldWhatIsKnown
PROPERTIES NeverBack CatchesUp
CHECK_DEADLOCK FALSE
