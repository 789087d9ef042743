CONSTANTS
  NoThread = NoThread
  Thread = {a,b,m}
  InitialThreads = {a,b,m}
  Mutators = {b,m}
  Exiting = {}
  SuspendAllers = {a}
  Flippers = {}
  Checkpointers = {a}
  Synchronizers = {m}
  IdSuspenders = {m}
  PeerSuspenders = {}
  JniCritical = {}
  kMaxSuspendBarriers = 3
  MaxOps = 1
SPECIFICATION FairSpec
PROPERTIES ResumedThreadWakes RequestReturns
