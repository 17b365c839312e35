CONSTANTS
  s1 = s1 s2 = s2 s3 = s3 main = main curate = curate
  Session = {s1, s2, s3}
  Proc = {p1}
  V1 = {}
  Fact = {f1, f2}
  Ref = {main, curate}
  Main = main
  RefOf <- TwoRefs
  MaxCommits = 2
  MaxCrashes = 2
  Calls = {"put", "commit", "drop", "rebase"}
  Env = {"crash", "io", "timeout"}
  None = None
SPECIFICATION Spec
CHECK_DEADLOCK FALSE
SYMMETRY SoloSymmetric
INVARIANTS
  TypeOK
  LandedOpsNamed
  StagedIsNamed
