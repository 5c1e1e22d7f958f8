SPECIFICATION Spec
CONSTANTS
  NumPages = 2
  CkptInterval = 3
  VacuumInterval = 7
  PruneInterval = 2
  MinWake = 1
  IdleWake = 4
  AutoCkpt = 2
  MaxTime = 11
  MaxCommits = 2
  MaxFailures = 1
  MaxCrashes = 1
INVARIANT ArchiveHasOld
PROPERTY LosesOnlyRecent
