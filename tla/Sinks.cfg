SPECIFICATION Spec
CONSTANTS
  d1 = d1
  d2 = d2
  console = console
  console2 = console2
  file = file
  Dispatchers = {d1, d2}
  StdoutSinks = {console}
  FileSinks = {file}
  Attached <- SharedSinks
  Nobody = nobody
  MaxEntries = 3
CHECK_DEADLOCK FALSE
SYMMETRY Symmetry
INVARIANTS TypeOK LinesWhole FlushedToLineEnd LinesInTurn
