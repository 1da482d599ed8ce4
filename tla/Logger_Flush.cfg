SPECIFICATION Spec
CONSTANTS
  Clients = {a}
  Flushers = {a}
  Worker = worker
  Owner = owner
  NumSinks = 1
  Async = TRUE
  OverflowPolicy = "BLOCK"
  Capacity = 1
  OwnerWaits = TRUE
  MaxLogs = 1
CHECK_DEADLOCK FALSE
PROPERTY FlushReturns
