CONSTANTS
  NoThread = NoThread
  gui = gui
  worker1 = worker1
  worker2 = worker2
  Threads <- OneThread
  MaxPosts = 8
  MaxDepth = 2
SPECIFICATION Spec
INVARIANTS OneNotification ToldInOrder
PROPERTY ImplementsQueue
CHECK_DEADLOCK FALSE
