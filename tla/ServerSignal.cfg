SPECIFICATION FairSpec
CONSTANTS
  Clients = {c1, c2}
  MaxClients = 1
  MaxFaults = 1
PROPERTY SignalStops
