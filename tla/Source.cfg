CONSTANTS
  Wrap = 120
  frame_dur = 2
  MaxUnits = 2
  Ages = {0, 2, 4}
  Elapsed = {2, 4}
  Start = 114
  Ends = {2, 4}
  Stall = 12
  MaxTroubles = 1
  Delays = {2}
  cushion = 2
  max_packets = 2
  history_ts = 2
  keep_source_ts = 4
  repair_max_gap = 5
  transit_jump = 3
  Sane = 10
  Fresh = 2
  SkewAfter = 1
  RepairAfter = 1
SPECIFICATION Spec
INVARIANTS TypeOK BuffersInOrder NoAssertionFails EachMixedOnce DueIsMixed
PROPERTY PlayAdvances
