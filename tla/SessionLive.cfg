\* main's own script, run three times on one day, and a gateway that reads.
CONSTANTS
  Script   <- MainScript
  QueueCap = 128
  FirstSeq = 5
  SendBuf  = 4
  RecvCap  = 1
  MaxIn    = 0
  MaxRuns  = 3
SPECIFICATION FairSessionSpec
INVARIANTS RefusedForEarlierRun
PROPERTIES Served
CHECK_DEADLOCK FALSE
