CONSTANTS
  s1 = s1 s2 = s2 s3 = s3 main = main curate = curate
  Session = {s1}
  Proc = {p1, p2}
  V1 = {}
  Fact = {f1}
  Ref = {main}
  Main = main
  RefOf <- OneRef
  MaxCommits = 2
  MaxCrashes = 1
  Calls = {"put", "rebase", "commit"}
  Env = {"crash"}
  None = None
SPECIFICATION Spec
CHECK_DEADLOCK FALSE
SYMMETRY Symmetric
INVARIANTS
  NotItsOwnDuplicate
