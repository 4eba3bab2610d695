\* Two callers of reconfigure_enrichment at once.
SPECIFICATION Spec
CONSTANTS
  w1 = w1
  w2 = w2
  p1 = p1
  p2 = p2
  Frames = {1, 2}
  OldFrames = {1}
  MaxJobId = 2
  MaxAttempts = 2
  BackoffBase = 1
  BackoffCap = 1
  VisibilityTimeout = 1
  Pools = {p1, p2}
  Workers = {w1, w2}
  PoolOf <- TwoPools
  Controllers = {c1, c2}
  Levels = {0, 2}
  Floor = 1
  RowsDeleted = FALSE
  SlowPoints = {}
  MaxEvents = 2
INVARIANT ExclusiveClaim
