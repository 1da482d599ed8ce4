SPECIFICATION Spec
CONSTANTS
  Sizes = {1, 2}
  SizeLimits = {1, 3}
  FileLimits = {0, 2}
  MaxLogs = 4
  MaxFaults = 3
CHECK_DEADLOCK FALSE
INVARIANTS TypeOK OldestFirst OldestGoFirst NeverUnderestimates
PROPERTY GrowsWithinLimit
