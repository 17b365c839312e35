CONSTANTS
  c1 = c1 c2 = c2 m1 = m1 m2 = m2 f1 = f1 f2 = f2
  Fact = {f1, f2}
  Curator = {c1, c2}
  Merger = {m1, m2}
  Env = {"hand", "fail"}
  MaxCommits = 5
  MaxAttempts = 2
  None = None
SPECIFICATION Spec
CHECK_DEADLOCK FALSE
SYMMETRY Symmetric
INVARIANTS
  MergeTypeOK
  NothingLost
  ThreeWay
  AnswersWhatItMoved
