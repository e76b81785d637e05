CONSTANTS
  NoThread = NoThread
  gui = gui
  worker1 = worker1
  worker2 = worker2
  Threads <- TwoThreads
  MaxPosts = 2
  MaxDepth = 2
SPECIFICATION Spec

PROPERTY EveryEventTold
CHECK_DEADLOCK FALSE
