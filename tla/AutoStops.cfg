\* Five bars, the first two before the trades start; with and without signal handlers, slippage, stops of every kind.
SPECIFICATION Spec
CONSTANTS
  Prices = {4, 8, 12}
  Slippages = {0, 2}
  Size = 5
  StartTrades = 2
  InstalledSets = {{"timeBasedAtMarket", "stopLoss", "target"}, {"stopLossLong", "targetLong", "targetShort", "timeBasedAtClose"}, {"breakEven", "stopLossShort"}, {"breakEven", "breakEvenLong", "breakEvenShort"}, {"breakEvenLong", "breakEvenShort", "target"}, {"trailing", "stopLoss"}, {"reverse", "stopLoss"}, {"reverse", "reverseLong", "reverseShort"}, {"reverseLong", "reverseShort"}, {"breakEven", "reverse"}, {"stopLossLong", "stopLossShort", "target"}}
  ExitBars = 2
  LossLevel = 25
  TargetLevel = 50
  BreakEvenLevel = 50
  ReverseLevel = 50
  TrailTrigger = 50
  TrailLevel = 50
CHECK_DEADLOCK FALSE
INVARIANTS
  FillsHonest
  StopBeatsTarget
  NoLookahead
  OrdersSignalled
PROPERTY LevelsProtect
