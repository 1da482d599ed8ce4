SPECIFICATION SafetySpec
CONSTANTS
  Clients = {c1}
  Workers = {w1}
  Owner = owner
  QueueSizes = {2}
  Kinds = {"log", "flush"}
  Policies = {"block"}
  NoMessage = none
  MaxCalls = 2
INVARIANT FlushDrains
CHECK_DEADLOCK FALSE
