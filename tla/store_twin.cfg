CONSTANTS
  c1 = c1 c2 = c2 a1 = a1 a2 = a2
  Caller = {c1}
  Title = {1}
  Art = {a1, a2}
  Seeds <- Empty
  Kinds = {"write", "correct"}
  Env = {}
  MaxOrdinal = 2
  MaxGeneration = 1
  MaxCalls = 3
  None = None
SPECIFICATION Spec
CHECK_DEADLOCK FALSE
INVARIANTS
  ActiveOnce
