SPECIFICATION Spec
CONSTANTS
  s1 = s1
  s2 = s2
  s3 = s3
  h1 = h1
  h2 = h2
  None = None
  Sessions = {s1, s2, s3}
  HostOf <- MCHosts
  Tags = {n1, n2}
  MaxLines = 4
INVARIANTS Filed CountsSurviveUpgrades ExactUntilNamed ExactWhileUnmixed
PROPERTY NodeStays
