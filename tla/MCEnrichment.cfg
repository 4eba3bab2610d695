\* Two workers of one pool, one caller at a time, no row ever deleted.
SPECIFICATION Spec
CONSTANTS
  w1 = w1
  w2 = w2
  p1 = p1
  p2 = p2
  Frames = {1}
  OldFrames = {1}
  MaxJobId = 2
  MaxAttempts = 2
  BackoffBase = 1
  BackoffCap = 1
  VisibilityTimeout = 1
  Pools = {p1}
  Workers = {w1, w2}
  PoolOf <- OnePool
  Controllers = {c1}
  Levels = {0, 2}
  Floor = 1
  RowsDeleted = FALSE
  SlowPoints = {}
  MaxEvents = 2
INVARIANTS ExclusiveClaim NoSilentDrop GuardCoversHolder
PROPERTY ImplementsLeasedQueue
SYMMETRY WorkerSymmetry
