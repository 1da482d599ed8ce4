SPECIFICATION SafetySpec
CONSTANTS
  c1 = c1
  c2 = c2
  c3 = c3
  worker = worker
  owner = owner
CHECK_DEADLOCK FALSE
INVARIANTS ExactlyOnePlace PendingAccounting NoStrandedFlusher ProgramOrder FlushIsBarrier ShutdownDelivers
PROPERTY KeepsPromise
