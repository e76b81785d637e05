CONSTANTS
  MaxToggles = 3
  MaxRenewals = 2
  MaxLosses = 2
SPECIFICATION Spec
INVARIANTS TypeOK SessionOnce MuteApplied
PROPERTY StartReturns
CHECK_DEADLOCK FALSE
