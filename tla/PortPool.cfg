CONSTANTS
  c1 = c1
  c2 = c2
  None = None
  Clients <- MCClients
  RTPFirstPort = 4721
  RTPPorts = 9
SPECIFICATION Spec
INVARIANTS TypeOK Exclusive LossesKnown PairsWhole
PROPERTY CyclesThroughRange
