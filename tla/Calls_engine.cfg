CONSTANTS
  None = None
  c1 = c1
  c2 = c2
  c3 = c3
  x1 = x1
  x2 = x2
  x3 = x3
  w1 = w1
  w2 = w2
  RTPFirstPort = 4
  RTPPorts = 4
  Calls <- TwoCalls
  Contexts <- TwoContexts
  Workers <- OneWorker
  Offers = {"supported", "0.0.0.0"}
  Faults = {}
  MaxClicks = 3
  MaxNotes = 2
SPECIFICATION Spec
SYMMETRY Symmetry
INVARIANTS EngineHeld StopsOwnEngine NeverDead PortsExclusive
CHECK_DEADLOCK FALSE
