SPECIFICATION SafetySpec
CONSTANTS
  Clients = {c1, c2}
  Workers = {w1, w2}
  Owner = owner
  QueueSizes = {0, 1, 2}
  Kinds = {"log", "urgent", "flush"}
  Policies = {"block", "overrun_oldest", "discard_new"}
  NoMessage = none
  MaxCalls = 2
INVARIANTS TypeOK LossesAreCounted NoIdleWorker NoBlockedCaller TerminatesAreLast ShutdownDrains OneThreadKeepsOrder
CHECK_DEADLOCK FALSE
SYMMETRY Symmetry
