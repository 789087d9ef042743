SPECIFICATION Spec
CONSTANTS
  Unparkers = {u1, u2}
  NoThread = NoThread
INVARIANT
  FoundThreadStays
