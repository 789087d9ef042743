SPECIFICATION FairLockSpec
CONSTANTS
  Threads = {t1, t2}
  NoThread = NoThread
  LockKind = "Mutex"
  MaxCheckpoints = 1
PROPERTY EmptyCheckpointReturns
