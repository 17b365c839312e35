CONSTANTS
  w1 = w1 w2 = w2 d = d p1 = p1 p2 = p2
  Fiber = {w1, w2, d}
  Process = {p1, p2}
  ProcessOf <- Together
  Store = {w1, w2}
  Update = 1
  Stale = 2
  Wait = 4
  MaxPause = 2
  MaxStalls = 2
  MaxCrashes = 1
  None = None
  Orphan = Orphan
SPECIFICATION FairSpec
INVARIANTS
  LockTypeOK
  MutualExclusion
  RefusedOnlyByTheLiving
  NoStrandedLock
PROPERTIES
  EveryWaitEnds
