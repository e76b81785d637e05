CONSTANTS
  NoThread = NoThread
  gui = gui
  worker1 = worker1
  worker2 = worker2
  Threads <- ThreeThreads
  MaxPosts = 5
  MaxDepth = 2
SPECIFICATION Spec
SYMMETRY Symmetry
INVARIANTS TypeOK IdleUnlocked
CHECK_DEADLOCK FALSE
