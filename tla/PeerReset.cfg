CONSTANTS
  NoThread = NoThread
  Thread = {b,m}
  InitialThreads = {b,m}
  Mutators = {m}
  Exiting = {m}
  SuspendAllers = {}
  Flippers = {}
  Checkpointers = {}
  Synchronizers = {}
  IdSuspenders = {}
  PeerSuspenders = {b}
  JniCritical = {}
  kMaxSuspendBarriers = 3
  MaxOps = 1
SPECIFICATION FairSpec
PROPERTY ResumedThreadWakes
