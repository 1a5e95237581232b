SPECIFICATION Spec
CONSTANTS
  Libraries <- MCLibraries
  PluginPaths <- MCPaths
  Offers <- MCOffers
  Ignored = {"chartdir60"}
  Unauthorized = {"banned"}
  RootIds <- MCRootIds
  Documents <- MCDocuments
  None = None
  Extra = 3
  SeriesSizes = {0, 1, 10, 11, 33, 64, 100}
  ExtDates = {1, 2}
  ExtPrices = {1, 2}
  MaxTrades = 2
  MaxBars = 3
  Supplies <- MCSupplies
  MaxSymbols = 2
  MaxActs = 2
  Indices = {0, 1, 2}
  NoError = NoError
  ChartSessions <- MCChartSessions
  NoFile = NoFile
  NoName = NoName
  LowerCase <- MCLowerCase
  Drawings <- MCDrawings
  TradeCases <- MCPositions
  RunSymbols <- MCRunSymbols
  MaxListed = 4
  MaxEntered = 3
  MaxCalls = 1
  ListFiles <- MCOutputs
  Missing = Missing
  DataOfSymbol <- MCData
  SymbolCount = 2
  Deals <- MCDeals
  Capital = 10
  CommandLines <- MCLines
  ConfigFiles <- MCConfigFiles
  OptimizerSources <- MCOptimizerSources
  ThisDay = 3
  VarsCount = 2
  Flaws = {"none", "no config file", "session exists", "no system file"}
CHECK_DEADLOCK FALSE
INVARIANTS
  ObjectsHaveTheirLibrary
  SessionIsAsConfigured
  ExamplesDoAsNamed
  ExternalTradesAsWritten
  RunsAreShown
  StatisticsAddUp
  ProgramsAreAsAsked
