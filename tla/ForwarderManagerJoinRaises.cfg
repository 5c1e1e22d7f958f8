SPECIFICATION FairSpec
CONSTANTS
  Ids = {e1, e2}
  Versions = {v1}
  Off = Off
  MaxEdits = 1
  MaxCrashes = 0
PROPERTY EditsTakeEffect
