SPECIFICATION FairSpec
CONSTANTS
  Payloads = {p}
  Skews <- MCSkews
  Hold = 2
  MaxQueue = 2
  MaxWait = 1
  MaxStarved = 1
  MaxThreads = 2
  MaxPush = 3
  MaxTime = 4
INVARIANTS TypeOK Conservation LateOnly BoundedLatency
PROPERTY Drains
