CONSTANTS
  a = a b = b c = c d = d w = w x = x y = y z = z e1 = e1
  Name = {a, b, c, d}
  Article = {w, x, y, z}
  Entity = {e1}
  Rival <- Contradicts
  Workspace = {a}
  Curated = {d}
  CurateScope = FALSE
  RequireAnchor = TRUE
  Cap = 4
  MaxGeneration = 2
  MaxEdges = 1
  MaxCommits = 1
  BaseHeads <- SomeHeads
  ArchivePut <- SomeSlots
  Reuse = {"put"}
SPECIFICATION Spec
INVARIANTS
  LogTypeOK
  RecordsKept
  OverlayIsStaged
  NoEdgeLeftBehind
  CompletionSuffices
PROPERTIES
  HistoryKept
  NoGapMade
CHECK_DEADLOCK FALSE
