CONSTANTS
  None = None
  c1 = c1
  c2 = c2
  c3 = c3
  x1 = x1
  x2 = x2
  x3 = x3
  w1 = w1
  w2 = w2
  RTPFirstPort = 4
  RTPPorts = 4
  Calls <- ThreeCalls
  Contexts <- OneContext
  Workers <- TwoWorkers
  Offers = {"no SDP", "bad", "no audio", "unsupported", "supported"}
  Faults = {"context", "engine"}
  MaxClicks = 1
  MaxNotes = 5
SPECIFICATION Spec
SYMMETRY Symmetry
INVARIANTS TypeOK OneCallPerContext
CHECK_DEADLOCK FALSE
