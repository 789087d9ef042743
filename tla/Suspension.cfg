CONSTANTS
  NoThread = NoThread
  Thread = {a,b,m}
  InitialThreads = {a,b,m}
  Mutators = {b,m}
  Exiting = {m}
  SuspendAllers = {a,b}
  Flippers = {a}
  Checkpointers = {a,b}
  Synchronizers = {b}
  IdSuspenders = {a}
  PeerSuspenders = {b}
  JniCritical = {m}
  kMaxSuspendBarriers = 1
  MaxOps = 1
SPECIFICATION Spec
INVARIANTS
  SuspendCountIsHolders
  PendingIsOwed
  HeldThreadStaysSuspended
  SuspendersFormNoCycle
  DetachedIsUnreferenced
  FlippedBeforeRunning
  VisitedWhileSuspended
  StoppedWorldIsFlipped
  AnsweredBeforeReturn
  CheckpointRunsOnce
PROPERTIES
  ImplementsMutatorLock
