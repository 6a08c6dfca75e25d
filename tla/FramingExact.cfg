\* Every segmentation, of a stream that ends with a message whose header overruns.
CONSTANTS
  Wire     <- WideWire
  Types    <- MixedTypes
  Start    <- MixedStart
  Cuts     <- MixedCuts
  MinFrame = 50
  TempCap  = 160
  RecvCap  = 400
SPECIFICATION TrackedSpec
INVARIANTS ExactlyTame
CHECK_DEADLOCK FALSE
