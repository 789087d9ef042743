SPECIFICATION Spec
CONSTANTS
  Threads = {t1, t2}
  daemon = daemon
  main = main
  GcNumModulus = 8
  FirstGcNum = 0
  CollectorTypes = {"CMS"}
  HasZygoteSpace = TRUE
  MaxCalls = 3
INVARIANT RequestIsBeyondObserved
