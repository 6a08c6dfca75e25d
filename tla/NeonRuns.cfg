\* Two runs of the program and the gateway's session: a queue shorter than the
\* script, which has requests that are not sent, and a send buffer that cuts
\* messages.
CONSTANTS
  Script   <- HoleScript
  QueueCap = 2
  FirstSeq = 5
  SendBuf  = 3
  RecvCap  = 2
  MaxIn    = 1
  MaxRuns  = 2
SPECIFICATION SessionSpec
INVARIANTS TypeOK HandledAfterInit Accounted OneRunServed
PROPERTIES OrderedOnce
CHECK_DEADLOCK FALSE
