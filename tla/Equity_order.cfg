SPECIFICATION Spec
CONSTANTS
    Ids = {1, 2}
    Prices = {1, 6}
    SameMoment = TRUE
    NoShares = FALSE
    CountRange = 16
CHECK_DEADLOCK FALSE
INVARIANT OpenPosCountIsHeld
