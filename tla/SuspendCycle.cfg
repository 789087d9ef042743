CONSTANTS
  NoThread = NoThread
  Thread = {a,x}
  InitialThreads = {a,x}
  Mutators = {x}
  Exiting = {}
  SuspendAllers = {}
  Flippers = {}
  Checkpointers = {}
  Synchronizers = {x}
  IdSuspenders = {a}
  PeerSuspenders = {}
  JniCritical = {}
  kMaxSuspendBarriers = 3
  MaxOps = 1
SPECIFICATION Spec
INVARIANT NoSuspendCycle
