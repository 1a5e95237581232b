\* Two calls of run() on the same list, so that the tail of one overlaps the
\* other; the calling thread, the canceling thread and two fair workers, which
\* take symbols from one iterator.
SPECIFICATION FairSpec
CONSTANTS
  Threads = {t1, t2}
  Iterators = {"a"}
  NRunnables = 2
  IteratorOf <- OneIterator
  NSymbols = 2
  MaxRuns = 2
  MaxPasses = 1
CHECK_DEADLOCK FALSE
INVARIANTS
  OneWorkerPerRunnable
  SymbolsRunAtMostOnce
  UncutRunnablesDrainIterator
  CancelStopsWorkers
  NoWorkerOutlivesRun
  EveryRunnableAccountedFor
PROPERTY RunEnds
