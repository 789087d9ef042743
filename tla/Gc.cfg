SPECIFICATION GcSpec
CONSTANTS
  Threads = {t1, t2}
  daemon = daemon
  main = main
  GcNumModulus = 16
  FirstGcNum = 14
  CollectorTypes = {"CC", "CMS"}
  HasZygoteSpace = FALSE
  MaxCalls = 2
  NoThread = NoThread
  LockKind = "ReaderWriterMutex"
  MaxCheckpoints = 1
INVARIANTS
  CriticalSectionPinsObjects
  NoAccessSpansCheckpoint
PROPERTIES
  RequestedGcCompletes
  HeapCallReturns
  EmptyCheckpointReturns
  WeakRefAccessReturns
