SPECIFICATION FairSpec
CONSTANTS
  Clients = {c1, c2, c3, c4}
  MaxClients = 2
  MaxFaults = 2
INVARIANTS TypeOK AtMostMaxClients
PROPERTIES EveryClientAnswered ListensAgain
