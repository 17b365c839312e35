CONSTANTS
  a1 = a1 a2 = a2 a3 = a3
  Names = 2
  Article = {a1, a2, a3}
  Broken = Broken
  MaxCommits = 5
  Kept = 4
SPECIFICATION Spec
CHECK_DEADLOCK FALSE
INVARIANTS
  AgreesWithLoad
