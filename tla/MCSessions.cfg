\* One day, a frame deleted and a store call that fails.
SPECIFICATION SessionSpec
CONSTANTS
  word = word
  browser = browser
  Apps = {word, browser}
  Captured <- OneDay
  MergeGap = 2
  MinLength = 1
  Lookback = 3
  ChunkLength = 2
  FirstPass = 4
  LastInstant = 11
  MaxSessionRows = 4
  MaxUpsets = 2
INVARIANTS TracksDisjoint
CHECK_DEADLOCK FALSE
