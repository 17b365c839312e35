CONSTANTS
  s1 = s1 s2 = s2 s3 = s3 main = main curate = curate
  Session = {s1}
  Proc = {p1, p2}
  V1 = {v1}
  Fact = {f1, f2}
  Ref = {main}
  Main = main
  RefOf <- OneRef
  MaxCommits = 3
  MaxCrashes = 1
  Calls = {"put", "commit", "drop", "rebase"}
  Env = {"crash", "git", "io", "timeout", "gc"}
  None = None
SPECIFICATION Spec
CHECK_DEADLOCK FALSE
SYMMETRY Symmetric
INVARIANTS
  NoOpLost
  PendingHoldsOps
  UncommittedNotLanded
  NoStagedDeletion
PROPERTIES
  ImplementsLedger
