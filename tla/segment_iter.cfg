SPECIFICATION Spec
CONSTANTS
  Modulus = 16
  OverflowChecks = FALSE
INVARIANT TypeOK
INVARIANT PiecesThenRest
INVARIANT FullSteps
INVARIANT AtMostTimes
INVARIANT HandsOutPieces
