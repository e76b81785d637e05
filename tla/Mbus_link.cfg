CONSTANTS
  None = None
  ui = ui
  control = control
  Peers = {control}
  Engine = engine
  c_addr = control
  MBUS_MAX_QLEN = 2
  MaxIndex = 2
  MaxSeqnum = 2
  retries = 1
  Messages <- OneMessage
SPECIFICATION Spec
CHECK_DEADLOCK FALSE
INVARIANTS TypeOK QueueInOrder ReliableInOrder SuccessMeansAccepted
PROPERTIES ReleasedWhenGot Settled Reported
