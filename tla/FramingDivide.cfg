\* Messages of one length, cut near their ends: TCP may divide them.
CONSTANTS
  Wire     <- EvenWire
  Types    <- EvenTypes
  Start    <- EvenStart
  Cuts     <- EvenCuts
  MinFrame = 50
  TempCap  = 160
  RecvCap  = 400
SPECIFICATION Spec
INVARIANTS Intact
CHECK_DEADLOCK FALSE
