SPECIFICATION Spec
CONSTANTS
  Clients = {a, b}
  Flushers = {a}
  Worker = worker
  Owner = owner
  NumSinks = 1
  Async = TRUE
  OverflowPolicy = "BLOCK"
  Capacity = 2
  OwnerWaits = TRUE
  MaxLogs = 2
CHECK_DEADLOCK FALSE
INVARIANTS TypeOK BlockKeepsAll LastPassIsEmpty
PROPERTIES UsesQueue LogReturns EntriesSettle FlushReturnsUnlessMissed ShutdownCompletes
