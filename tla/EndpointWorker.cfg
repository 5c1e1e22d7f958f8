SPECIFICATION FairSpec
CONSTANTS
  Capacity = 2
  MaxSentences = 4
  MaxFaults = 1
  BatchMax = 2
INVARIANTS NoSilentLoss OneSendAfterStop
PROPERTIES KeepsFifoPromise EndsWhenStopped QueueDrains
