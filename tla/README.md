# Tradery: specification and verification

Tradery runs trading systems (user-written C++ plugins) over the price history
of a list of symbols, in parallel, and reports the trades they would have made.
This directory holds TLA+ modules that model it, the TLC configurations that
check them on small instances, and proofs, checked by TLAPS, of theorems about
them for every instance. Paths below are relative to `src/src/`.

## 1. Inventory of the system

| component | source | state | operations |
|---|---|---|---|
| Scheduler | `core/Scheduler.h`, `datasource/datasource.cpp` | list of runnables with a cursor, iterators over symbols, flags `_running` and `_cancelState`, thread group | `addRunnable`, `resetRunnables`, `run` (sync, async), `cancelAsync`, `cancelSync`; per worker `operator()`, per runnable `begin`/`run`/`again` |
| Session | `tradery/session.h` | `_status`, `_mx`, `_mxStatusChange`, plugin contexts with counts, `_sessionEndedReceived`, runnable plugins | `start`, `cancel`, `runStarted`, `runCanceled`, `runEnded`, destructor |
| RunSystem | `tradery/runsystem.cpp` | locals of the main loop, session, results | start, poll, time out, cancel at the bar limit, save, destroy |
| Processing thread and launcher | `tradery/ProcessingThread*.cpp`, `tradery/Process.cpp`, `tradery/tradery.cpp` | the thread, the build process, heartbeat, cancel and end files | launch, wait, time out, terminate, run |
| Cache and data manager | `core/Cache.h`, `core/DataManager.h` | cached objects, a background thread | find-and-add, check, evict, end |
| Data sources | `fileplugins/DataSource.h` | a file of bars, its index of positions | find the start of a range, read |
| Series, synchronizer, indicators, bars | `core/Bars*`, `core/SeriesImpl*`, `core/Indicators.h` | price data, derived series | synchronize, index, combine, compute |
| Explicit trades | `core/ExplicitTrades.cpp`, `include/explicittrades.h` | the trades of a file | read, book |
| Positions container | `core/Positions.h`, `core/Position.h` | list of positions, list of open ones (cleaned lazily), map of ids | add, close, set shares, count, last, loop with handler, iterator, sort, clear |
| Positions manager: orders | `core/Positions.cpp` | none of their own | 4 entry and 4 exit orders on each side |
| Positions manager: automatic stops | `core/Positions.cpp` | installed stops, and per position the flags and the level in `PositionExtraInfo` | `applyAutoStops` and fifteen stops |
| Equity and statistics | `include/stats.h`, `core/Stats.cpp`, `fileplugins/StatsHandler.h` | entries and exits by day, equity and drawdown curves | size positions, walk the days |
| Client session | `traderyapi/`, `optimizer/OptimizerTraderySession.h` | session thread, connection, token | start, run, poll, heartbeat, stop, request with retries |
| Optimizer | `optimizer/optimizer1.cpp`, `optimizer/task.h` | task queue, regions, processor threads | create tasks, run, report, wait, stop |
| Plugin tree and contexts | `plugin/`, `tradery/plugintree.h`, `tradery/session.h`, `include/plugin.h` | trees of libraries and of the instances they offer, contexts with counts | explore, load, make trees, look up, create objects, release, destroy |
| Configuration and document | `tradery/Configuration*`, `tradery/Document.h` | options, document | read, merge, validate, make the document |
| Errors and events | `include/exceptions.h`, `core/Scheduler.h` | what was thrown in the run of a symbol | throw, catch, clean up, report |
| Charts, symbols sources | `tradery/wchart.*`, `include/charthandler.h`, `filesymbols/` | symbols, charts with panes and their parts | read, get a chart, draw, write |
| Lists of trades | `include/core.h` (from 2060), `core/Positions.h`, `tradery/runsystem.cpp` | the vector of containers, a common one, files | copy, sort, loop, format |
| Runtime and trade statistics | `tradery/runtime_stats_impl.h`, `include/stats.h`, `fileplugins/StatsHandler.h` | progress, tables | count, calculate, print |
| Example systems | `systemsplugin1/`, `systemsplugin2/` | state of their own | read bars, place orders |
| Shells | `traderyconsole/`, `thrift/` ... | | |

How they interact: `tradery::run` starts a processing thread, which has the
user's systems built by an external process while it talks with the client
through files, and then calls `RunSystem::run`. That starts a session; the
session loads plugins, creates the runnables and starts an asynchronous run of
the scheduler; the run's thread calls back `runStarted`, starts the worker
threads, joins them and calls back `runEnded`, which has the statistics made
from all positions, releases the plugins and sets the status to ready; the
main loop polls that status, and may cancel (which calls back `runCanceled`) or
give up. Inside a worker, a runnable gets the bars of a symbol from the data
source (beside the cache), has the explicit trades booked, and runs the user's
code with a positions manager on the container of its run. The code reads
series and indicators of one or more symbols and places orders, explicitly or
through `applyAutoStops`. A remote client runs whole sessions through a
connection; the optimizer runs many of them from several threads.

What makes it hard, and what has to be right:

* Scheduler: workers share the list and the iterators; a cancel may come at any
  point; a failure in one runnable may cut short others; the tail of one run
  overlaps the next. Each runnable is in one worker, each symbol runs once, a
  run ends after its workers, a cancel takes effect at the next symbol.
* Session and RunSystem: callbacks under two mutexes, from two threads; plugins
  must live as long as the workers and be given up at the end; the status that the
  main thread polls decides when results are read and objects are destroyed.
* Launcher: files are the only link between client, thread and build process;
  their tests and the timers interleave with all of them.
* Cache: the end waits for a background thread that may not have begun. That a
  stale object is replaced while others ask for it is written in the cache, but
  no call gets there today: see `DataCache` below.
* Plugins: objects are made by code of libraries that are loaded per directory and
  unloaded when the last reference goes; an object must go before its library, and
  a session must be made of what its document names, with that configuration.
* Client session and optimizer: requests fail, are repeated, and find the session
  id expired; an outcome must be told once; a task must not get lost.
* Data: a bisection over bytes must find the first bar of a range; a value must
  never be made of a bar that is still to come, be it by an indicator that is
  copied to the wrong place or by two symbols put on one axis of time.
* Positions: closed positions stay in the list of open ones until someone walks
  over them, and the walk happens while user code holds iterators.
* Orders and stops: a fill must be a price the bar had; a stop must not use the
  close of a bar for a fill before that close; when one bar reaches two prices
  the worse counts; the bar after the last one yields signals, not trades.
* Equity and statistics: entries and exits of one day are taken one by one, in an
  order, while sizing disables some; cash and values have to add up on every day,
  and tables that are made in separate passes have to agree.
* Configuration: an option comes from the command line, several files or a
  default; what runs must be what was asked for.
* Errors: thirty handlers in a row, of classes that derive from each other; a
  failure must be told once, as what it is, and must not stop the other symbols.
* Charts and lists: systems that run in parallel draw on one chart; the trades of
  all runs go through one container that is sized, sorted and read in turn.
* Example systems: no system may read a bar after the one it is called for.

`PROJECT.json` lists every hazard at its line, with the properties about it.

## 2. Modules

| module | models | how |
|---|---|---|
| `Scheduler` | `SchedulerImpl`, `RunnableInfo`, `RunnableInfoList`, `RunnableThread`, the symbols iterator | one program counter per worker and per call of `run`, one action per critical section or user call |
| `MCScheduler` | instances | which runnables share an iterator |
| `TASession` | the session, extends `Scheduler` | the two threads inside the session, a label between any two steps that another thread may observe |
| `RunSystem`, `MCRunSystem` | the main thread, extends `TASession` | polls, times out, cancels, saves, destroys |
| `RunSystemProofs` | theorems about `Scheduler`, then about `RunSystem` | threads, cancel, accounting, iterators and symbols; notifications, plugins, saved results |
| `Launcher` | `tradery::run`, `ProcessingThread`, the build process, the client | four actors and a clock |
| `DataCache` | `Cache`, its thread, `tradery::init` and `uninit` | askers step by step around the mutex; files change |
| `DataCacheProofs` | theorems | who holds the mutex, and what the map may have |
| `ClientSession` | `TraderySession`, `TraderyConnection`, `runy` | one program counter per session; the server answers anything |
| `Optimizer` | `adrian_optimizer::run`, `TaskQueue`, `Processor`, `TasksRegion` | the main thread and the processors |
| `OptimizerMain` | the optimizer as a program: options, ranges of days, walk forward | the search is one step here; a run has a value or fails |
| `MCPrograms` | the launcher, the client session and the optimizer's search, each the program of its own behaviour | a behaviour is one of one program |
| `ProgramsProofs` | theorems about the three, and about `MCPrograms` | |
| `Plugins` | explorer, trees and contexts of plugins, the creation and release of their objects | files are offered in any order and may fail to load; a document names what it wants |
| `MCPlugins` | instances | the libraries of two directories and the documents |
| `PluginsProofs` | theorems | what the trees have, and what each object is bound to |
| `SampleSystems` | the example systems of one symbol | each as the order of what it does on a bar: reads, positions, orders, its own state |
| `ExternalTrades` | `ExtTradesSystem`, which makes the trades another program wrote | line by line, then bar by bar |
| `RunErrors` | the failures of a run, `RunnableInfo::run` and its handlers | the name of an exception stands for its class; `Kinds` is the derivation |
| `Charts` | the file symbols source, the chart manager and `ChartHandler` | a worker per system, a step per symbol's drawing |
| `TradeLists` | the `PositionsVector`, sorting, loops with predicates, the lists of trades | positions are numbers; a comparison that is no order gives any outcome a merge may give |
| `Statistics` | `RuntimeStatsImpl`, `FileStatsHandler`, `StatsCalculator` | pass by pass |
| `Configuration` | options, `Configuration`, its validation, `Document` | option by option, file by file |
| `MCTrading` | `MCPlugins`, the seven parts above and `OptimizerMain` | a behaviour is one of one part |
| `TradingProofs` | theorems about `MCTrading` | the ranges of the optimizer; the configuration of a session; the trades of another program |
| `BarFile` | the file data source | every file and range of a bounded size |
| `ExplicitTrades` | the trade file and its booking | line by line, then bar by bar |
| `Synchronizer` | bars on a common axis, indices, operations on series | a cell is the set of bars it was made of |
| `SeriesHandles` | what a system does with its series, extends `Synchronizer` | series at addresses, handles of them; an element is the term it was calculated as |
| `Indicators` | the builders of `core/Indicators.h` | a cell is the newest element its value was made of; averages and shifts are computed |
| `SystemOrders` | an order from `BarSystem` through the filter to a position or a signal, and the signals at the end | calls with every filter, kind and bar; uses `Orders` |
| `MCSymbolRun` | the six parts above as parts of the run of one symbol | a behaviour is one of one part |
| `SymbolRunProofs` | theorems about `MCSymbolRun` | explicit trades; handles of series; the bars of a file; orders |
| `OpenPositions` | abstract: what `PositionsContainer` promises in `include/core.h` | open positions as a set; counts, last, loops and iterators speak of that set |
| `Positions` | the container and its lazily cleaned list | refines `OpenPositions` (`Promised`) |
| `PositionsProofs` | theorems | the invariant; then the refinement |
| `Orders` | the sixteen orders | for each, the set of prices it may be filled at (empty: not filled) |
| `AutoStops` | `applyAutoStops` over the bars of a symbol, uses `Orders` | one action per stop |
| `AutoStopsProofs` | theorems about `Orders`, then about `AutoStops` | all bars, prices and slippages; the fifteen stops as four kinds of step |
| `Equity` | equity curve, position sizing, drawdown | the days, and on each the multiset of entries and exits |

### Scheduler

`list` and `crt` are the list of runnables and its cursor, `pos` the place of
each iterator. A worker goes `fetch` -> `begin` -> `next` -> `symbol` ->
`check` -> ... -> `again` and back; `go` is the local `f` of `operator()`. The
caller, the canceling thread, the threads of the calls of `run` and the workers
interleave. User code is the environment: it returns, throws or calls `exit`.
The notifications `runStarted`, `runCanceled` and `runEnded` do nothing here;
`TASession` supplies them. `FinishRun` is the end of `run` after the flags are
cleared, so the model has the state in which the next run has already started.
The mutex of `getNext` makes `Fetch` and `NextSymbol` atomic.

### TASession and RunSystem

`mx` and `mxStatusChange` hold the owner of a mutex. A second lock by its owner
is undefined behaviour: `RelockBlocks` and `RelockThrows` are the two outcomes
looked at. `count` is the count of each plugin context, `plugins` the
presence of the instances of the runnables. A session is started once, as
`RunSystem::run` does. The main thread and the destructor follow the code order;
a timeout skips the wait and leaves the process (`exit`), which kills the others.
The bar limit becomes true at any time after a symbol has been run.

### Launcher

One call of `tradery::run`. The processing thread goes round `timeoutHandler`:
is the process active, is there a heartbeat file, has the timer elapsed, is
there a cancel file, is it time for a reverse heartbeat. Each test is a step,
because the client, the build and the clock move in between. `quiet` is the
true time since the client's last heartbeat; the timer is what the thread knows.
`core` is the time between `tradery::init` and `uninit`. The run of the systems
is one step here; it is what `RunSystem` models.

### DataCache

The version of a file stands for the stamp that `isConsistent` compares, an
object is the number of the `make()` that built it. `Relock` names what a second
lock of a `std::mutex` by its owner may do: throw, block, or succeed. In this
version of the code the call of `findAndAdd` for bars is commented out; the
threads and destructors run all the same, and series go through a cache that is
created disabled (`core/core.cpp:135`). So what a stale object or two askers of
one id could do is no hazard of the programs as they are; `NeverStale` and
`OneObjectPerVersion` say that the cache as it is written keeps its promise for
the day it is used again. `DeleteEnds` is about what runs today.

### ClientSession and Optimizer

The server is the environment: it may answer a request well, with an error, with
an invalid session id, or not at all. `api` is the request under way and `again`
its retries; `token` says that the connection has a session id. The connection
mutex is `mutex`. In `Optimizer` a task is the number of its region, and its run
a step that gives a value or fails; the regions of the search and the second
region around the best task follow `adrian_optimizer::run`. A null pointer that
is popped ends the process (`crashed`).

### OptimizerMain

`_tmain` of the optimizer: options from the command line and from files, the
first of which to have an option wins; then the loop over the ranges of days,
each optimized and, for the types of run that do so, walked forward. `made`
has the runs of the current range with their days and variables; `covered` and
`walked` are history. What differential evolution or the search finds is any
vector within the limits (two values for each variable). `RangesAreAsAsked`
says that a walk forward comes right after the days its variables were chosen
on, and that success is told only when all ranges were done.

### Plugins

A library is loaded while a reference to one of its instances lives. `Process`
fills a tree for each of the two paths, file by file and type by type; an id that
the tree has already is a duplicate, and the set of them is what is reported. The
ids of the roots are made at random by the code and are a constant here
(`RootIds`). `CheckDocument` refuses a document that lacks
what a session needs. The session makes its contexts from the document, kind by
kind; each context counts its objects, and releases and destructors take place in
the order of `releasePlugins`, then of the members. A library may fail to
load, a constructor may throw. The run between making and release is one step
here; it is what `RunSystem` models. The iterators of symbols are left out of
`Objects`: their code is in the datasource library, which is not a plugin.

### BarFile, ExplicitTrades, Synchronizer, SeriesHandles, Indicators, SystemOrders

Lines have lengths in bytes, kinds and times, so that the bisection of
`findStart` is over positions as in the code; all else of a line is left out. `Starts` says at which byte each begins. In
`ExplicitTrades` a price matters by whether it is given and reached; the trades of a
bar that are still to be processed are a set of places in the file, `Turn` the one
of them whose turn it is.
`Synchronizer` keeps, beside each series, what its user takes its indices for:
the properties compare the two. In `SeriesHandles` a variable of a system has an
address, and copies of it share the series there; `meant` is what each would have
if, as the comment on `operator=` says (`include/series.h:381`), a copy were one of
the values. They agree until the series is changed through another handle or by the
bars, or a synchronized series is combined in place with one that is not.
In `Indicators` the look-backs of the library, whose source is in the repository
(`external/ta-lib/0.4.0/c/src/ta_func`), are modelled with their ranges of
parameters and with the settings that `TA_Initialize` leaves: no unstable periods,
the candle averages of `ta_global.c`. Functions whose look-backs are the same but
for the name (`Windows`, `Changes`, the functions without a period) share a
definition, which is mapped to one of their files. For every builder the model has
the guard on the size, if there is one, the vector that is made, the address that
is written from and the shift afterwards. In `SystemOrders` an order keeps what
the system asked for beside what is made of it (`asked`), and the properties
compare the two; whether it may be filled is looked up in `Orders` over all
bars. A call that closes all positions is a loop in the code and here: `sweep` is
what the call is to close and what of it is left, and each step (`CloseNext`) is
an exit of the next position, which may throw and so end the loop.

### Positions

Positions are numbered when they are opened and only ever pushed at the back,
so a list is the set of its numbers in increasing order; `End` and `Dangling`
stand for `end()` and for an iterator to an erased node. A disabled position is
one without shares. The handler of a loop may call everything the code outside
may, except a second loop. Loops with predicates are in `TradeLists`.
`MisusesIterators` says whether user code goes on with an iterator whose node
was erased by another call; the promise is about the steps up to the first one
that does.

### Orders and AutoStops

Prices are integers of a unit in which the percentages of the configurations are
exact. Slippage is not negative, as in the plugins of the repository; it shifts
the trigger of stops and limits as in the code. Volume is never 0 in the model
(the check is off by default), the end of the trade range has no effect
(the test lacks a negation, so it has none in the code), shares and commission
are left out. One position is followed. An entry order, or an explicit trade
booked before the system runs, opens it at any price its order may be filled
at. The system's own exits are left out: they end the position as any stop does.
The long and short variants of a stop share its level constant. A level that the
code reads without its having been set is a nondeterministic choice. Whether
signal handlers are registered is chosen at the start; an order filter may
decline any exit order, and properties that need the order say `~declined`.

### Equity

Amounts are whole numbers. The multiset of a day is a sequence into which each
leg is inserted by the comparison of the code (`Less`), so that an inconsistent
comparison shows. `held` is the set of the positions that were entered and have
not been left, which the code does not keep: it keeps cash, totals and a count.

Only whether a curve is there matters in `Statistics`; its values are in `Equity`.

### SampleSystems and ExternalTrades

Prices are left out: a condition may hold or not, an order may be filled or not.
A series has the values of the bars up to its index, from the look-back on that
`Indicators` has for it, so `LooksBackOnly` (a part of `ExamplesDoAsNamed`)
relates the two modules. An order after the last bar is a signal if there is a
handler. Systems of several symbols are left out.
`ExternalTrades` enters and exits the trades of a bar one by one, in the order of
the file: `due` is those that are still to be made, and a price that is not met or
an exit without a position ends the run in the middle of them.

### RunErrors

`here` is the run on the current symbol: the bars that were loaded, how they are
synchronized, the positions, what was thrown first and last, the events. What a
system may do is enumerated by what it may throw (an index past the end, a price
that is not positive, an exit of the wrong side ...), as the library tests it.
`Handlers` is the list of handlers in the order of the code.

### Charts

The workers of different systems interleave, a step for each drawing; what they
draw goes to the chart of the symbol, which they share. The map of charts is
changed by several workers without a lock, which is undefined; the model takes
each insertion as one step.

### TradeLists

Runs share nothing but the vector, so they are taken one after another, in the
order of their containers; each position comes with what becomes of it.
`disabled` is what the sizing leaves without shares. `EndAgain` is the cancel
order that finds no run and ends the session before `runEnded` does so again
(`RunSystem` has the threads of it). `times` is a history variable: how often
the common container has each position.

### Statistics and Configuration

`Statistics` goes through the handler at the end of a session as the code does:
the range of dates, the curves, positions bought and held for comparison, tables
of all, long and short positions, print. In `Configuration` the value of an
option is where it comes from ("line", "first", "second", "default") or what is
wrong with it, so that a session shows which place won.

## 3. Runs

`CHECK_DEADLOCK FALSE` everywhere: the models stop when a bound is reached, the
process has exited, or the last bar is over. What must not stop is stated as a
liveness property.

| run | shows | bounds |
|---|---|---|
| `Scheduler` | one worker per runnable, one run per symbol, iterators drained, cancel effective, no worker outlives its run, every runnable accounted for, every run ends | 2 threads, 2 runnables that share an iterator, 2 symbols, 2 runs that overlap at their ends, 1 extra pass |
| `RunSystem` | notifications nest, plugins outlive workers and are given up when a session that was not canceled is ready, saved results are final, a session that is left alone completes | 2 systems, 2 threads, plugins that fail, bar limit and timeout |
| `Positions` | the container keeps the promise of `OpenPositions`; no open position lost, no loop misses one, whatever user code does | 3 positions, iterators misused |
| `AutoStops` | honest fills, stop before target, break even protects, no look-ahead, ratchet of the long trailing stop, signals | 5 bars of 3 prices, trading from the third, slippage 0 or 2, 11 sets of stops, with and without handlers, a filter that may decline |
| `DataCache` | nobody gets what was out of date when it asked, one object per version, the end ends | 2 askers, 2 ids, size 1, a change of file, 3 calls, all outcomes of a second lock |
| `Programs` | launcher: a timeout means silence; client: the outcome is told once; optimizer: no task lost or counted twice; each program ends | timeout 2, period 1, 2 heartbeats; 2 clients, 1 retry, 2 polls per heartbeat; 2 processors, 3 tasks, 3 values around the reference |
| `SymbolRun` | what is read of a file is the range, the bisection ends; exits close as the file says; `SeriesAreRight`: synced series show the latest bar and are causal, copies of a series read as their own until it is changed behind their back, indicators are in their place, averages and shifts are right; signals are the orders | files of 4 lines of 2 lengths, all ranges; trade files of 3 lines on 2 bars; 2 symbols on 4 times, 3 series; one variable beside the bars of 2 symbols on 2 times, 2 calls; sizes 0 to 65 around every look-back; series of 5 of 3 values; 3 calls of a system, 2 symbols, 2 positions or signals |
| `Equity` | `CurvesAreRight`: money adds up (`MoneyAddsUp`) and the drawdown is the deepest fall (`DrawdownIsDeepestFall`); the count of open positions is that | 2 positions on 4 bars of 3 days, 4 ways of sizing |
| `Trading` | no plugin of a readable file is lost without a word, objects live inside their libraries, a session is what its document says; examples look back only and fail as named; trades of another program are made as written; charts, errors and lists show what the runs did (`RunsAreShown`); the tables add up; the session is the one asked for, and so are the optimizer's ranges (`ProgramsAreAsAsked`) | 5 libraries in 2 paths with 15 offers, 250 documents, loads and constructors that fail; every example on 0 to 3 bars more than it skips; 2 trades on 3 bars; 2 symbols, 2 acts each of every kind, indices 0 to 2; 2 systems, 2 symbols, 6 drawings; 3 positions of 4 kinds of order in 2 runs, pages of 1 and 2 lines; 2 symbols with a position each, 18 pairs of them; one option missing, empty, wrong or double, 2 files; ranges of 0 or 2 days in steps of 0 to 2, up to days 0, 3 and 5 |

The bounds are enough for what can go wrong here: two workers, askers, clients
or processors are what a race needs; two symbols have a middle and an end; the
third position is the one behind an erased node and its neighbour; five bars are
one before the trades, entry, trigger, reaction and one after it, and three
prices lie below, at and above the entry. Four lines are a first, a last and a
middle with a neighbour; a version that changes once is stale once, and one
retry is one that succeeds or is the last. Two paths have a library each that
repeats an offer of the other, and libraries with several kinds of plugins. The
sizes of series are those around the look-backs of the library, which are at
most 63. Three calls of a system are one to open, one to close and one that
meets what is closed. The proofs do not depend on the bounds.

Three runs find a violation, of what the code says of itself (`findings` in
`PROJECT.json` quotes it). In `Equity_order` one bar may open and close
positions by orders of one kind. The comparison of the multiset is then no
order, an exit may be taken before its entry, and the count of open positions is
not the number held. In `Trading_curve` a session wants none of statistics,
equity curve and trades; the handler draws the chart of the curve all the same,
which was not calculated. In `Trading_hold` the positions to compare with are
bought and held by a manager whose range of trading has ended before it begins:
it buys nothing, and the column says so of every session.

### Deviations without a run

The models do what the code does, also where that differs from a comment or from
what its author seems to have meant. These were met while modelling. The first
ones are stated in the modules; TLC shows each when it is added to a
configuration.

| definition | what the code does |
|---|---|
| `Scheduler.AllRunnablesRun` | A worker that stops takes one more runnable off the list and drops it (`core/Scheduler.h:544`); the comment at 519 says threads are busy until all have been run. |
| `RunSystem.CountNeverNegative` | A cancel as the run ends releases the contexts, and `runEnded` does so again (`tradery/session.h:1120`, against the assertion at 315). Such a session also gets `sessionEnded` twice, and its results may be saved before `runEnded`. |
| `RunSystem.CanceledSessionEnds` | `cancel` of a running session locks a mutex it holds (`session.h:1108`) and does not return, or throws; `runsystem.cpp:328` says the loop goes on waiting for its end. |
| `Positions.LoopIntegrity` | A handler that closes and counts erases the node the loop is at (`core/Positions.h:140`, against 501). |
| `AutoStops.NoStopAborts` | The short stop loss ends the call for a long position with an exception (`core/Positions.cpp:107`, against `include/core.h:3080`). |
| `Launcher.TimeoutCancelsRun` | A run whose build was given up goes on as after a success: `terminate` gives the process the exit code 0 (`tradery/ProcessingThread.cpp:94`, `TraderyProcess.h:63`). |
| `Optimizer.NoNullTask` | `empty` and `pop` are two locked calls (`optimizer/task.h:179`): two threads may see one task, and the second gets a null pointer. |
| `BarFile.StartIsFound` | `findStart` may miss bars of the range, for files with comments or an unfinished last line (`fileplugins/DataSource.h:331`). |
| `Synchronizer.SameTimestamp` | After a second synchronization, series made before it are read with the new indices. |
| `ExplicitTrades.CommentsAreIgnored` | A line that begins with `//` is not taken for a comment: the macro looks at the third character (`core/ExplicitTrades.cpp:373`). |
| `ExplicitTrades.AllAreBooked` | A limit or stop without a price ends the symbol after part of its trades have been booked. |

Others:

* `cancelSync` waits 0 seconds (`core/Scheduler.h:818`) and returns while
  threads run; `include/common.h:553` says it returns only after that.
* The cancel flag is cleared after `_running` (`core/Scheduler.h:850`): a run
  that begins in between starts canceled, or loses its cancel order.
* A second pass asked for by `again()` meets iterators at their end
  (`core/Scheduler.h:384`; `include/core.h:4138` says "on all symbols").
* `symbolsCount()` may use a symbols source that was just released
  (`tradery/session.h:348`). A third kind of exception from `start()` leaves the
  status at running.
* `clear()` empties the list of positions and not the one of the open positions
  (`core/Positions.h:164`; `include/core.h:2015` says "open or closed").
* The one-sided break even and reverse stops test flags that nothing sets, read
  the level of the two-sided stop, and set its flag (`core/Positions.cpp:185`).
  Break even and reverse stop share a flag (231): with both installed, one sets
  it from the close of a bar and the other then closes the position at an earlier
  price of that bar. `NoLookahead` names this one exception.
* The level of the trailing stop of a short position becomes the greater of the
  close and itself (`core/Positions.cpp:141`), so it does not follow the price.
* On the bar after the last one an inactive stop that reads the close ends the
  call before later stops give their signals (`core/Positions.cpp:484`).
  `OrdersSignalled` leaves out the targets behind such a stop.
* The test of the end of the trade range lacks a negation
  (`core/Positions.cpp:538`): without a start date explicit trades never fill,
  with one the end is not tested.
* Orders given with their bars: those to enter drop the wish about position
  sizing and always have it, and `sellAtLimit` of a position calls `sellAtStop`
  (`include/system.h:541`). `OrdersKeepTheirMeaning`, a part of
  `SignalsAreOrders`, names both.
* The default order filter makes one share of a short at a limit: it returns
  `true` for the number (`include/core.h:993`; the comment at 797 says that it
  leaves all orders unchanged).
* Explicit trades: the JSON format reads nothing; SELL and COVER only work at
  market, EXIT_ALL at market and close; a trade without shares opens a disabled
  position that no exit closes.
* Indicators: `HTSine` throws for series of 33 to 63 bars, `HTLeadSine` puts its
  values 31 bars early and throws too; the candle patterns with a penetration all
  use the look-back of one of them, so that `MatHold` is two bars early and
  `DarkCloudCover` one late, writes one element behind its vector and throws at
  12 bars; `Cdl3Outside` computes `ADVANCEBLOCK` and `CdlAdvanceBlock`
  `DARKCLOUDCOVER` (`core/Indicators.h:2119`, 2126); `Correlation` and `Beta` do
  not test the size, and throw on a series that is not longer than the look-back
  (`core/Indicators.h:2598`); the look-back of `TRIX` with a period of 1, which the
  library says is in its range, is -2 (`ta_TRIX.c:108`), so that the series is left
  as it was made; `WSum` sums the whole series (1868, against 1857);
  `openInterestSeries` returns the volume; averages and Aroon with a period of 0
  throw or divide by zero. Several indicators share an id, which does no harm
  only because the cache of series is disabled (`core/core.cpp:135`).
  `IndicatorsInPlace` names these exceptions; for the two without a test it says
  that they throw on a series that is too short and on no other.
* Synchronizer: before the first bar of the other symbol index 0 stands for that
  bar, which is still to come; two synchronized series of different symbols are
  combined element by element. `SeriesAreCausal` is about the others.
* Bar file: a comment line makes a null bar that is dereferenced, a heading ends
  the file with an exception, the copy constructor of `PosDateTime` leaves the
  size of the line unset, and the last line is not counted without its end.
* Launcher: an asynchronous run returns to `main`, which deletes the cache and
  the data manager under it (`tradery/tradery.cpp:66`); an exception of the
  builder ends the run without an end file, and one of the run leaves an end
  file that says "normal"; if the thread cannot be created, `_running` stays
  set.
* Cache: the copy that is asked has raised the count it is asked for, so nothing
  is evicted (`core/Cache.h:239`); the destructor does not wait for a thread
  that has not begun.
* Plugins: the explorer tests the first character of the path, not of the
  extension (`plugin/PluginExplorer.cpp:76`); `SimplePlugin::get` dereferences
  before it tests for the end (`include/pluginhelper1.h:112`); the symbols
  source is used without the test that the others have
  (`tradery/session.h:361`); an id that is found twice ends the process,
  although the message says that the second "will be ignored"
  (`include/plugin.h:273`).
* Client session: a cancelled session still asks for its statistics and is
  reported as a success.
* Optimizer: a run that fails ends its thread, and its task is never counted;
  `getBestResult` returns the greatest value also when the smallest is wanted.
* Equity: the first high of a drawdown is the smallest positive number with a
  minus sign, not the lowest value (`include/stats.h:1682`); the days of the
  maximal drawdown are compared before the day is counted; a position without
  shares keeps the count of open positions up.
* Statistics: tables are printed to a file of the default name even if they were
  not calculated, when only the curve is wanted: an assertion, or a capital that
  was never set. The percentage done is infinite while the number of symbols is
  not set; with nothing wanted the parts make 102 %. A position that is open, of
  a symbol without data at the end, ends the handler with an exception.
* Optimizer program: a step of 0, the default, is said to "use the whole date
  range" (`optimizer/CmdLine.cpp:280`), but optimizes the first range again and
  again; an unknown direction and an unknown statistic are exceptions that nobody
  catches; `adrian_walkforward` does nothing and succeeds.
* Example systems: `System1` and `System2` print to an output sink that is null;
  `System3` asks for a crossing at the first bar, which throws; `MAMA` exits on
  the wrong side after an exit that was not filled; `MFISystem` reads its series
  before the look-back; the filter of `SystemTest11` lets everything pass;
  `SystemTest32`, the test of an error, has none on a symbol of 100 bars.
* `ExtTradesSystem`: the order of an exit is chosen by the type and price of the
  entry (`systemsplugin1/extTradesSystem.h:388`); a trade is entered once for
  every bar of its date; an exit before the entry uses the position id 0.
* Configuration: `--starttradesdate` never gets to the run
  (`tradery/Document.h:81`); the test for the file of symbols looks at the
  symbols source, so that its absence is not told; an absent include, lib or
  tools path ends in a bad cast before the message about it; the help lists no
  option; `setRunSimulator` ignores its argument; a directory of the session
  that exists is an error; the file of explicit trades is named by an id that is
  made at random, so there is none.
* Charts: the attribute `endDate` has the date of the start
  (`tradery/wchart.h:423`); the chart of a run that failed says that none was
  generated but has all that was drawn until then (`core/Scheduler.h:267` says
  that it is disabled); an empty name of the description file becomes the
  directory of the session, which throws at the end, and the session never gets
  ready; the panes of all systems count for each of them although with several
  none is shown (`wchart.h:381`); symbols are made unique without regard to case
  and looked up with it.
* Errors: a time past the end is told as an index of a time series, since its
  class is not the one that `BarsImpl` catches (`core/Bars.h:269`); a cleanup
  that fails hides the first failure, and an exit asked for, so that the run
  goes on; all failures of a data source are told by one code; several classes
  have no handler and are told as unknown, without their symbol; a stop on the
  wrong side is told as selling short also for short positions
  (`core/Positions.cpp:107`).
* Lists: `sortByGain` puts open positions first, and last for descending; its
  comment says the opposite (`core/Positions.h:369`). The comparisons are not
  orders: limit, stop and price orders are before each other
  (`include/core.h:227`), an open position before another one, each way.
  `clear()` leaves the ids and the open ones. The count of open positions has
  those without shares, while the count of enabled ones has not. With 0 lines
  per page the writer divides by zero. A session that ends twice lists every
  trade twice and has its raw trades overwritten by what is left of them.

### Fairness

Every fairness condition is a weak one of a thread (or process) as a whole: the
operating system runs every thread that can go on. `Scheduler` has it for the
threads of a run and the workers, `RunSystem` for the main thread and the thread
of the session, `DataCache` for the background thread, the askers and the
destructor, `Programs` for each client session, for the main thread and the
processors of the optimizer, and for the main thread, the processing thread and
the clock of the launcher, `SymbolRun` for the thread that loads the bars. That
a step inside user code is taken at all assumes that user code terminates per
symbol; the code meets the other case with the symbol timeout, and that timeout
is not fair: nobody promises that it comes. Nothing is assumed of those who need
not act: the calls of `run` and `cancel`, the client of the launcher, the
changes of files; of the server only that a request comes back, with an answer
or an error. In `Optimizer` a process that has crashed is not run any more, and
`OptimizationEnds` is about the searches in which no run fails.

## 4. Proofs

All for every value of the constants that satisfies the named assumptions. Of the
runs' safety properties, those of `Scheduler`, `RunSystem`, `Positions`,
`AutoStops`, `DataCache` and `Programs` are all proved, of `Trading` the two about
plugins, the trades of another program and what the programs are asked for, of
`SymbolRun` the bars of a file, the explicit trades, what handles read and the
orders of a system. Each inductive invariant was checked by TLC before it was proved.

* `RunSystemProofs`, of the scheduler. The inductive invariant `IInv` joins the types with: the
  place of each run thread and of `running` fit; workers exist only between
  start and join of one run; a runnable in hand has been passed by the cursor;
  two workers have different ones. The last two need each other: the cursor only
  moves forward, and what is in hand lies behind it. It gives `TypeOK`,
  `NoWorkerOutlivesRun` and `OneWorkerPerRunnable`. Then, one at a time, each with
  what it needs: a worker that began a symbol after the cancel order is about to
  see it (`CancelStopsWorkers`); what the cursor has passed was begun or dropped by
  a worker that stops (`EveryRunnableAccountedFor`); a runnable that ran is in
  hand, was cut, or its iterator is at the end (`UncutRunnablesDrainIterator`);
  what was run lies before the place of its iterator (`SymbolsRunAtMostOnce`).
* `RunSystemProofs`, of the session. What it does with the scheduler are steps of the
  scheduler, or leave all of it alone but the list, so the `IInv` above holds
  here too (`SchedulerKeepsPromises`). Added to it: who owns each mutex, by the
  place of the two threads; where the run thread is in each state of the run;
  what has been told by then; what is created, and that it is not released while
  a worker may be inside it. It gives `EventsNest`, `PluginsLiveWithRun` and
  `SavedResultsAreFinal`, for any number of threads, systems, symbols and plugins.
* `PositionsProofs`. The invariant says that every open position is a node of
  the list, that an iterator is at a node, at the end or known to be erased, and
  that the enabled open positions between the last one given and the place of
  the loop are none. It gives `TypeOK`, `OpenPositionsListed`, `LoopMissesNone`.
  With it every step maps to a step of `OpenPositions` or a stutter: the abstract
  `open` is the positions opened and not closed. So `Spec => Promised`.
* `AutoStopsProofs`, of the orders. For all bars, prices and slippages: an order at market or at
  close is filled within its bar, stops never fill better than their price and
  limits never worse.
* `AutoStopsProofs`, of the stops. The fifteen stops are first shown to be of four kinds
  (`StopStep`): the stop leaves the position open, closes it, throws, or the call
  ends at the bar past the end; the invariant is then proved of these four. It has
  the types; where a pass is (`PassInv`); that the bar has not reached the stop loss
  once the pass is behind it (`LossInv`); that what a stop looks at is, until its
  turn, as it was when the pass began (`FlagInv`); that a close in profit has
  activated the break even stop (`ProfitInv`); which orders have become signals
  (`SignalInv`). From it and the lemmas about orders follow `FillsHonest`,
  `StopBeatsTarget`, `NoLookahead`, `OrdersSignalled` and the action property
  `LevelsProtect`, for all bars, prices, levels, slippages and sets of stops.
* `DataCacheProofs`. The invariant says who holds the mutex: from the search to
  the insertion there is one such asker, and nobody else changes the map. The map
  has one object for each id, none of them newer than its file. An object that
  somebody has is in the map, or its file has changed since, or it is on its
  way into the map. It gives `TypeOK`, `NeverStale` and `OneObjectPerVersion`.
* `ProgramsProofs`. Launcher: the heartbeat timer never shows more than
  the client's true silence, unless a heartbeat lies there that the thread has not
  looked at, so `TimeoutMeansSilence`. Client sessions: a request is made under the mutex by
  one of them, and what a session has reported fits its place, so
  `OutcomeReportedOnce`. Optimizer: what a region still waits for is what it has
  in the queue and in the hands of processors, those that failed among them, so
  `TasksAccounted`. `ProgramsKeepPromises` joins them for `MCPrograms`.
* `PluginsProofs`. The invariant has four parts: what a node of a tree may be, and
  that what was tried is in the tree or reported (`TreeInv`); the types
  (`SessionTypeInv`); the plugin, configuration and iterator that each object is
  bound to (`ObjectsInv`); what the session has by the turn it is in (`StepsInv`:
  first more and more, then less and less, in the order of release). It gives
  `ObjectsHaveTheirLibrary` and `SessionIsAsConfigured`, for all libraries,
  whatever they export, and all documents. `LibrariesAssumption` says that a path
  is a sequence of libraries, `OffersAssumption` that a library exports one plugin
  of a type, `RootsAssumption` that the random ids of the roots differ,
  `DocumentsAssumption` that the systems of a document are a sequence and that it
  does not name a root for its commission or slippage. They are as the code has
  them.
* `TradingProofs`. Of the optimizer (`RangesInv`): the options that were understood
  are those of the sources, and typed; while a range is at work every day before it
  was covered, and with the search also that one, since between two days in steps of
  n there is no third; a walk forward was made after every range that leaves room
  for it; the runs of the range at work were made with its days and in their order.
  A range ends the loop early only when it is short, which is why success means
  that all days were covered (`SuccessIsComplete`). `OutOfSample` follows from the
  days of the runs of one range. Of a configuration (`ConfigurationInv`): what is
  stored after n places is, for an option of one value, what the first place says
  that names it, and for one that composes as many texts as all of them say, and the
  same ones (`Merged`; `StoreMerges` is one more place). At the end it gives what a
  reader of the places expects (`StoredIsAsked`, `ComposedIsSaid`), and from there
  the document. `validate` never stops at the file of symbols because the id of the
  symbols source comes before it. Together: `ProgramsAreAsAsked`, for all options,
  files, days and vectors of values. Of the trades of another program
  (`ExternalInv`): each position is of a trade of the symbol, entered on its date and
  as its type says; a trade has one position for each bar of its entry that is done
  (`OncePerBar`), and the id that it keeps is that of the last one; once it was exited,
  only the entry of the bar it is exited on may be open (`ExitedIsClosed`); and an exit
  finds no position only if it comes before the entry (`NothingToExit`). It gives
  `ExternalTradesAsWritten`. `SourcesAssumption` says that what is read of a
  source of options has the type that the parser gives it, `GivenAssumption` that an
  option that is given has a value.
* `SymbolRunProofs`. Of the explicit trades (`ExplicitInv`): no entry of a bar was
  processed while an exit of it is still to be (`EntriesAreLast`), which is why an
  exit never meets a position of its own bar; and what `EXIT_ALL` promises holds from
  the time its line was processed, whatever else the bar has (`ExitAllDone`). An exit
  takes the first position of its kind or all of them (`HandledAreOldest`), from which
  the order of the closes follows. Of the handles (`HandlesInv`): a handle's address
  is that of a series; a new series is at a new address (`HoldKeeps`), and a change is
  noticed by the handles of the same address only, which are then disturbed
  (`ChangeKeeps`); that an operator in place gives what the one of two operands gives
  needs that no synchronized series is combined with one that is not. Of the bars
  (`FileInv`): lines begin at least two bytes apart (`LinesAreApart`), so that each
  place is in one line (`CrtLineIsIn`) and the byte before a line is in the line before
  it (`LinesAreFound`); the begin of the bisection is before the range and its end is
  not, and a candidate that is an end gives way to a neighbour, so that the search
  stops only at the first bar of the range, or, in a file of nothing but bars, where
  there is none; the bars that were loaded are those of the range on the lines that
  were read. `Starts` is recursive: that there is such a function, and what it
  grows by, is shown of the least line of which it would be wrong. Of the orders
  (`OrdersInv`): in the book every position and signal is what was asked for
  (`GoodBook`), and every handler has heard of all signals, in their order, since they
  are told of each before the next is made; what is left of a closing loop has no
  signal yet, and what the loop has reached is closed, or is open with one signal
  (`SweepGoesOn`), for which an order at the market or at the close must not miss
  (`FilledAnyway`); from the sizing to the writing every signal has shares, which is
  why the raw file has all of them; afterwards an exit has those of its position, and
  what was written is what the handler of the file has with shares (`WhenSaved`). It
  gives `SignalsAreOrders`.
  `HandlesAssumption` says that a system has finitely many variables.

Only model-checked, and why:

* all liveness (`RunEnds` and the like): the prover treats neither
  fairness nor `ENABLED`;
* `CurvesAreRight` of `Equity`, `StatisticsAddUp`, and of `SeriesAreRight` the parts
  about the synchronizer and the indicators (the one about handles is proved): they
  say what sums, folds, walks and sorts over sequences come to, which takes induction
  over data;
* `OpenPosCountIsHeld` of `Equity`: it depends on no position that is sized being left
  without shares, which is true of the amounts of the instance and not of all;
* `ExamplesDoAsNamed` of `SampleSystems`: each example is a table of what it does, and the property one of
  its entries; there is nothing general to prove;
* `RunsAreShown` (of `Charts`, `RunErrors` and `TradeLists`): it compares sequences
  that are built with the folds and selections of the community modules, element by
  element.

No operator here is declared recursive; functions are.

## 5. Not modelled

See `components` in `PROJECT.json` for each reason. Besides the parts that are
not modelled at all (utilities; the remote interface, which is generated):

* nested loops over positions, sorting by a predicate of the user, orders that
  close by a number of shares;
* the example systems of several symbols (`System5`, 6, 8, 11), those that are
  screens, those on ticks, and the example commission and slippage;
* session handlers that throw other exceptions than the plugin ones;
* several processing threads in one process, which no program of the repository
  has;
* the registry of data sources; the code that is generated for a user's system,
  and the parser of the compiler's messages;
* positional arguments of the command line; the names of directories and files;
* percentages and annualized figures of the statistics, the layout of what is
  printed;
* the formulas of the technical analysis library (their look-backs are modelled); the text of files, requests and results.

The user's own systems are the environment of every model.

## 6. Plan

What is left, in this order: a proof about the count of open positions in `Equity`,
from an assumption on the sizing that the code has yet to give; nested loops in
`Positions`, several positions in `AutoStops`, the systems of several symbols in
`SampleSystems`.
