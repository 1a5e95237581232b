SPECIFICATION Spec
CONSTANTS
  Users = {u1, u2}
  Ids = {i1, i2}
  Size = 1
  MaxVersion = 1
  MaxCalls = 3
  Relock = {"throws", "blocks", "succeeds"}
INVARIANTS NeverStale OneObjectPerVersion
PROPERTY DeleteEnds
CHECK_DEADLOCK FALSE
