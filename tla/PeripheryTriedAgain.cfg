SPECIFICATION FairSpec
CONSTANTS
  Parts = {"net"}
  FailThreshold = 2
  LowWater = 2
  WarnWater = 3
  MaxFree = 3
  MaxMisses = 0
  MaxKeys = 1
  MaxFaults = 0
  Browsers = {b1}
  Long = {p1}
  Default = p0
  MaxCommits = 1
  Savers = {s1}
  Keep = 1
  MaxWrites = 1
  MaxTicks = 0
  MaxFileFaults = 0
  Publishers = {h1}
  Readers = {r1}
  Names = {n1}
  MaxRows = 1
  MaxRequests = 1
  MaxPending = 1
  MaxEras = 1
PROPERTY TriedAgain
