CONSTANTS
  None = None
  c1 = c1
  c2 = c2
  c3 = c3
  x1 = x1
  x2 = x2
  x3 = x3
  w1 = w1
  w2 = w2
  RTPFirstPort = 4
  RTPPorts = 4
  Calls <- OneCall
  Contexts <- OneContext
  Workers <- TwoWorkers
  Offers = {"supported", "0.0.0.0"}
  Faults = {}
  MaxClicks = 4
  MaxNotes = 2
SPECIFICATION Spec
PROPERTY HangupFreesEngine
CHECK_DEADLOCK FALSE
