SPECIFICATION Spec
CONSTANTS
  d1 = d1
  d2 = d2
  console = console
  console2 = console2
  file = file
  Dispatchers = {d1, d2}
  StdoutSinks = {console, console2}
  FileSinks = {}
  Attached <- OwnConsoles
  Nobody = nobody
  MaxEntries = 2
CHECK_DEADLOCK FALSE
INVARIANT LinesWhole
