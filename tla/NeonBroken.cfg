\* main's own script, and a gateway that closes the connection.
CONSTANTS
  Script   <- MainScript
  QueueCap = 128
  FirstSeq = 5
  SendBuf  = 4
  RecvCap  = 1
  MaxIn    = 1
  MaxRuns  = 1
SPECIFICATION Spec
INVARIANTS BrokenIsKnown
CHECK_DEADLOCK FALSE
