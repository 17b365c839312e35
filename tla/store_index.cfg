CONSTANTS
  c1 = c1 c2 = c2 a1 = a1 a2 = a2
  Caller = {c1, c2}
  Title = {1}
  Art = {a1, a2}
  Seeds <- SmallSeeds
  Kinds = {"write", "batch", "correct", "archive", "supersede", "link", "update", "rebuild"}
  Env = {"fault", "late", "kill", "session"}
  MaxOrdinal = 3
  MaxGeneration = 1
  MaxCalls = 2
  None = None
SPECIFICATION Spec
CHECK_DEADLOCK FALSE
SYMMETRY Symmetric
INVARIANTS
  StoreTypeOK
  FreshAgrees
  ArchiveLinksResolve
  ActiveOnceInTurn
  
PROPERTIES
  FailedChangesNothing
