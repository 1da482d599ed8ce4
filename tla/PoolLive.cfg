SPECIFICATION Spec
CONSTANTS
  Clients = {c1, c2}
  Workers = {w1, w2}
  Owner = owner
  QueueSizes = {0, 1}
  Kinds = {"log"}
  Policies = {"block", "overrun_oldest", "discard_new"}
  NoMessage = none
  MaxCalls = 2
PROPERTIES CallsReturn WorkersEnd RingIsFifo
CHECK_DEADLOCK FALSE
