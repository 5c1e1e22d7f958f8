SPECIFICATION FairSpec
CONSTANTS
  Parts = {"net", "disk", "key", "account", "backups", "feed", "aisctl"}
  FailThreshold = 3
  LowWater = 2
  WarnWater = 3
  MaxFree = 3
  MaxMisses = 2
  MaxKeys = 3
  MaxFaults = 2
  Browsers = {b1, b2}
  Long = {p1, p2}
  Default = p0
  MaxCommits = 3
  Savers = {s1, s2}
  Keep = 1
  MaxWrites = 3
  MaxTicks = 1
  MaxFileFaults = 1
  Publishers = {h1, w1}
  Readers = {r1}
  Names = {n1}
  MaxRows = 2
  MaxRequests = 3
  MaxPending = 2
  MaxEras = 2
INVARIANTS BouncedOnlyWhenDead DefaultOnlyWhileForced AtMostKeep NewestSurvive ToldIsDone
PROPERTIES Heals ShownCatchesUp KeyKept ChangeAuthorised OthersGoOn HitsWhatItMeant
