CONSTANTS
  t1 = t1
  t2 = t2
  Threads <- OneThread
  Reorder = FALSE
  Patient = TRUE
  AppInputs <- AllCalls
  MaxCalls = 6
  MaxFaults = 0
SPECIFICATION Spec
INVARIANT OneEnds
CHECK_DEADLOCK FALSE
