SPECIFICATION PipelineSpec
CONSTANTS
  k1 = k1
  k2 = k2
  Threads = {t1, t2}
  Keys = {k1, k2}
  TTL = 1
  MaxEntries = 1
  MaxCalls = 3
  MaxTime = 3
  Hold = 1
  MaxQueue = 1
  MaxWait = 1
  MaxStarved = 0
  Intrinsic <- PastClock
INVARIANT EachInOnePlace
PROPERTY KeepsStreamPromise
SYMMETRY Threadwise
