SPECIFICATION Spec
CONSTANTS
  Threads = {t1, t2}
  NumMsgs = 2
  Nobody = nobody
  Garbled = garbled
CHECK_DEADLOCK FALSE
INVARIANT WritesOwnMessage
