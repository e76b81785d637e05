CONSTANTS
  t1 = t1
  t2 = t2
  Threads <- TwoThreads
  Reorder = TRUE
  Patient = FALSE
  AppInputs <- AllCalls
  MaxCalls = 3
  MaxFaults = 1
SPECIFICATION Spec
SYMMETRY Symmetry
INVARIANTS TypeOK Consent
CHECK_DEADLOCK FALSE
