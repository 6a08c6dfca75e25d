\* The receiving thread, bytes that come at any time, a recv_buf smaller than the
\* stream, and a connection that may end anywhere.
CONSTANTS
  Wire     <- MixedWire
  Types    <- MixedTypes
  Start    <- MixedStart
  Cuts     <- SocketCuts
  MinFrame = 50
  TempCap  = 160
  RecvCap  = 200
SPECIFICATION FairReceiverSpec
INVARIANTS HeardOut LockstepIsSound
PROPERTIES AllDelivered Ends
CHECK_DEADLOCK FALSE
