\* Messages of different lengths, cut only between them: TCP may stick them.
CONSTANTS
  Wire     <- MixedWire
  Types    <- MixedTypes
  Start    <- MixedStart
  Cuts     <- StickCuts
  MinFrame = 50
  TempCap  = 160
  RecvCap  = 400
SPECIFICATION Spec
INVARIANTS Intact
CHECK_DEADLOCK FALSE
