\* Two systems, two threads, with a bar limit, a symbol timeout, and plugins
\* that may fail to load.
SPECIFICATION RunSystemFairSpec
CONSTANTS
  Threads = {t1, t2}
  NRunnables = 2
  NSystems = 2
  Iterators <- Systems
  IteratorOf <- OneIteratorPerSystem
  NSymbols = 2
  MaxRuns = 1
  MaxPasses = 0
  OneSystemInMultipleThreads = FALSE
  HasSignalHandler = TRUE
  MayFailToStart = TRUE
  MaxTotalBarCount = TRUE
  SymbolTimeout = TRUE
CHECK_DEADLOCK FALSE
INVARIANTS
  EventsNest
  PluginsLiveWithRun
  SavedResultsAreFinal
PROPERTY SessionCompletes
