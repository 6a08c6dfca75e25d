\* main's script with its commented lines.
CONSTANTS
  Script   <- FullScript
  QueueCap = 128
  FirstSeq = 5
  SendBuf  = 8
  RecvCap  = 1
  MaxIn    = 0
  MaxRuns  = 1
SPECIFICATION Spec
INVARIANTS EncodedAsAsked
CHECK_DEADLOCK FALSE
