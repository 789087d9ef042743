SPECIFICATION ObjectsSpec
CONSTANTS
  Threads = {t1, t2, t3}
  NoThread = NoThread
  kThinLockMaxCount = 1
  MaxCalls = 6
  MaxInflations = 2
  MaxInterrupts = 2
  Readers = {r1, r2}
  MaxClears = 1
  Null = Null
  object = object
  zombie = zombie
  weak1 = weak1
  weak2 = weak2
  soft = soft
  finalizer = finalizer
  phantom = phantom
  derived = derived
  base = base
  NoClass = NoClass
  kMaxClasses = 2
  MaxClassCalls = 3
INVARIANTS
  ReferentSurvives
  ClearedTogether
  EntryCountKept
  HashCodeStable
  MonitorNotFreed
  NotifiedIsAwaited
  NoClassDeadlock
PROPERTY
  ImplementsLock
  ClassStatusLegal
SYMMETRY Symmetry
