SPECIFICATION Spec
CONSTANTS
  MaxPositions = 3
  MisusesIterators = TRUE
  MayClear = TRUE
CHECK_DEADLOCK FALSE
INVARIANTS
  OpenPositionsListed
  LoopMissesNone
PROPERTY Promised
