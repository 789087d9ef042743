CONSTANTS
  NoThread = NoThread
  Thread = {a,b,m}
  InitialThreads = {a,b,m}
  Mutators = {m}
  Exiting = {}
  SuspendAllers = {a,b}
  Flippers = {a}
  Checkpointers = {}
  Synchronizers = {}
  IdSuspenders = {}
  PeerSuspenders = {}
  JniCritical = {}
  kMaxSuspendBarriers = 1
  MaxOps = 1
SPECIFICATION FairSpec
PROPERTIES SuspendAllReturns FlipFunctionRuns
