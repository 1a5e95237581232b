SPECIFICATION Spec
CONSTANTS
  FileLines = 4
  Lens = {2, 5}
  NBars = 2
  MaxLines = 3
  TradeTimes = {1, 2}
  Actions = {"BUY", "SELL_SHORT", "SELL", "EXIT_ALL"}
  Types = {"MARKET", "LIMIT"}
  Shares = {1}
  Symbols = {a, b}
  Times = {1, 2, 3, 4}
  None = None
  Garbage = Garbage
  MaxSync = 2
  MaxSeries = 3
  Users = {x}
  HandleTimes = {1, 2}
  MaxHandleCalls = 2
  Sizes = {0, 1, 2, 3, 5, 11, 12, 13, 14, 15, 32, 33, 34, 63, 64, 65}
  Values = {0, 1, 3}
  MaxValues = 5
  BarSymbols = {c, d}
  OwnSymbol = c
  Prices = {0, 1}
  BarPrices = {1, 2}
  Slips = {0, 1}
  OrderSizes = {2}
  FilteredTo = {0, 1}
  SizedTo = {0, 1}
  MaxCalls = 3
  MaxEntries = 2
CHECK_DEADLOCK FALSE
INVARIANTS BarsAreTheRange ClosesAsWritten SeriesAreRight SignalsAreOrders
PROPERTY SearchEnds
