SPECIFICATION LocksSpec
CONSTANTS
  Threads = {t1, t2, t3}
  NoThread = NoThread
  Recursive = TRUE
  MaxDepth = 2
  MaxCalls = 5
  MaxInterrupts = 1
  MaxSharedCalls = 3
  Unparkers = {t1, t2}
  Workers = {w1, w2}
  Clients = {t1, t2}
  creator = t1
  MaxPoolCalls = 4
  MaxTasks = 2
INVARIANTS
  MutualExclusion
  NoLostWakeup
  SleeperIsWoken
  UnparkTouchesLiveThread
PROPERTIES
  NotificationReaches
  ImplementsLock
  LockReturns
  ImplementsReaderWriterLock
  ImplementsLockSupport
  PoolCallReturns
CHECK_DEADLOCK FALSE
