CONSTANTS
  NoThread = NoThread
  Thread = {a,b,m}
  InitialThreads = {a,b,m}
  Mutators = {b}
  Exiting = {}
  SuspendAllers = {}
  Flippers = {a}
  Checkpointers = {b}
  Synchronizers = {}
  IdSuspenders = {}
  PeerSuspenders = {}
  JniCritical = {}
  kMaxSuspendBarriers = 3
  MaxOps = 1
SPECIFICATION Spec
INVARIANT VisitedAfterFlip
