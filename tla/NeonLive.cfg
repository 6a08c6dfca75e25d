\* Two runs, a queue shorter than the script, room for every message.
CONSTANTS
  Script   <- LongScript
  QueueCap = 2
  FirstSeq = 5
  SendBuf  = 8
  RecvCap  = 1
  MaxIn    = 2
  MaxRuns  = 2
SPECIFICATION FairSpec
INVARIANTS NoneLost LostFromTheEnd
PROPERTIES AllHandled AllHeard
CHECK_DEADLOCK FALSE
