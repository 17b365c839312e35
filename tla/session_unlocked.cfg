CONSTANTS
  s1 = s1 s2 = s2 s3 = s3 main = main curate = curate
  Session = {s1}
  Proc = {p1, p2}
  V1 = {}
  Fact = {f1}
  Ref = {main}
  Main = main
  RefOf <- OneRef
  MaxCommits = 2
  MaxCrashes = 1
  Calls = {"start", "put", "commit"}
  Env = {"crash", "stall", "user", "timeout"}
  None = None
SPECIFICATION FairSpec
CHECK_DEADLOCK FALSE
PROPERTIES
  RefsOnlyAdvance
  EveryCallEnds
