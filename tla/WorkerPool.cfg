SPECIFICATION FairSpec
CONSTANTS
  w1 = w1
  w2 = w2
  w3 = w3
  Threads = {w1, w2, w3}
  PoolSize = 2
  MaxTasks = 4
  MaxQueueSize = 3
  MaxCrashes = 1
INVARIANTS
  TypeOK
  NoIdleWhileQueued
  NoSlotIsLost
PROPERTIES
  StartsInOrder
  Refines
