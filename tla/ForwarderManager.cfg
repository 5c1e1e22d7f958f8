SPECIFICATION FairSpec
CONSTANTS
  Ids = {e1, e2}
  Versions = {v1, v2}
  Off = Off
  MaxEdits = 1
  MaxCrashes = 1
INVARIANTS ActiveIsMapped OnlyEditedAreStopped
PROPERTIES DispatchProceeds Converges
