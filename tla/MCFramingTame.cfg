\* Every segmentation HandleMsg copes with.
CONSTANTS
  Wire     <- MixedWire
  Types    <- MixedTypes
  Start    <- MixedStart
  Cuts     <- MixedCuts
  MinFrame = 50
  TempCap  = 160
  RecvCap  = 400
SPECIFICATION TameSpec
INVARIANTS TypeOK Intact InStep Defined
PROPERTIES Implements Progress
CHECK_DEADLOCK FALSE
