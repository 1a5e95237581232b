SPECIFICATION Spec
CONSTANTS
    Ids = {1, 2}
    Prices = {1, 6}
    SameMoment = FALSE
    NoShares = FALSE
    CountRange = 16
INVARIANTS CurvesAreRight OpenPosCountIsHeld
CHECK_DEADLOCK FALSE
