\* Four messages and a semaphore that saturates at two: batches of several
\* messages, counts left over from them, and Set without effect all happen.
SPECIFICATION FairSpec
CONSTANTS
  Msg = {m1, m2, m3, m4}
  MaxCount = 2
INVARIANTS
  WakeupPending
PROPERTIES
  ImplementsFIFO
  CloseReturns
