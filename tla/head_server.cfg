CONSTANTS
  w1 = w1 w2 = w2 s1 = s1 f1 = f1 f2 = f2
  Server = {w1, w2}
  Session = {s1}
  Fact = {f1, f2}
  Kinds = {"commit", "drop", "rebase", "search"}
  Env = {"kill", "fault", "decline", "other"}
  MaxCalls = 2
  MaxCommits = 3
  MaxEvents = 2
  MaxRounds = 1
  None = None
SPECIFICATION Spec
SYMMETRY Symmetric
CHECK_DEADLOCK FALSE
INVARIANTS
  HeadTypeOK
  LandsOnce
  HonestAnswer
  NeverOlder
  OpsKept
PROPERTIES
  HeldForward
  ImplementsLedger
