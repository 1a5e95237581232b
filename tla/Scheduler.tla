------------------------------ MODULE Scheduler ------------------------------
(***************************************************************************)
(* SchedulerImpl, RunnableInfo, RunnableInfoList and RunnableThread of     *)
(* src/core/Scheduler.h.                                                   *)
(*                                                                         *)
(* A caller adds runnables and calls run().  The thread that executes      *)
(* SchedulerImpl::run(threads, ...) spawns the worker threads, joins them  *)
(* and resets the flags.  Each worker takes runnables from the shared      *)
(* list; a runnable takes symbols from its data iterator, which several    *)
(* runnables may share.  Another thread may cancel at any time.            *)
(*                                                                         *)
(* The user code of a runnable (begin, run, again) is the environment: it  *)
(* returns, throws, or calls exit(), as it likes.                          *)
(***************************************************************************)
EXTENDS Naturals, FiniteSets

CONSTANTS
  Threads,      \* worker threads of a run
  Iterators,    \* DataInfoIterator objects
  NRunnables,   \* at most this many RunnableInfo in the list
  IteratorOf,   \* the iterator of each runnable of the list
  NSymbols,     \* number of symbols an iterator walks over
  MaxRuns,      \* bound: calls of run()
  MaxPasses     \* bound: how often again() asks for another pass, per run

Runnables == 1 .. NRunnables
Symbols   == 1 .. NSymbols

ASSUME SchedulerAssumption ==
  /\ NRunnables \in Nat
  /\ NSymbols \in Nat
  /\ MaxRuns \in Nat
  /\ MaxPasses \in Nat
  /\ IteratorOf \in [Runnables -> Iterators]

VARIABLES
  list,         \* SchedulerImpl::_runnables: its size
  crt,          \* RunnableInfoList::_crt
  pos,          \* per iterator, how many symbols it has handed out
  running,      \* SchedulerImpl::_running
  cancelState,  \* SchedulerImpl::_cancelState
  runPc,        \* per call of run(), its thread in SchedulerImpl::run(threads, ...)
  caller,       \* the thread that calls run(): the synchronous run it is in (0: none)
  canceler,     \* the thread that calls cancelAsync / cancelSync
  wpc,          \* per worker, where it is in RunnableThread::operator()
  go,           \* per worker, the local variable f of operator()
  cur,          \* per worker, its RunnableInfo (0: none)
  sym           \* per worker, the symbol it runs (0: none)

\* Counters and history of the current run; no action of the code reads them.
VARIABLES
  runs,         \* calls of run() so far
  passes,       \* per runnable, how often again() returned true in this run
  begun,        \* runnables whose run() was entered
  dropped,      \* per worker, the runnable it fetched but did not run (0: none)
  cut,          \* runnables that left the symbols loop before the iterator's end
  canceled,     \* whether a cancel concerned this run
  times,        \* per iterator and symbol, how often the symbol was started
  late          \* per worker, symbols started while cancelState was set

schedVars == <<list, crt, pos, running, cancelState, runPc, caller, canceler,
               wpc, go, cur, sym>>
histVars  == <<runs, passes, begun, dropped, cut, canceled, times, late>>
vars      == <<schedVars, histVars>>

WorkerPc == {"none", "fetch", "begin", "next", "symbol", "check", "again", "exit"}
RunPc    == {"none", "start", "join", "clear", "notify", "done"}
Runs     == 1 .. MaxRuns

\* Between getNext() of the list and the return of RunnableInfo::run.
InHand(t) == wpc[t] \in {"begin", "next", "symbol", "check", "again"}

Init ==
  /\ list = 0
  /\ crt = 0
  /\ pos = [i \in Iterators |-> 0]
  /\ running = FALSE
  /\ cancelState = FALSE
  /\ runPc = [n \in Runs |-> "none"]
  /\ caller = 0
  /\ canceler = "idle"
  /\ wpc = [t \in Threads |-> "none"]
  /\ go = [t \in Threads |-> TRUE]
  /\ cur = [t \in Threads |-> 0]
  /\ sym = [t \in Threads |-> 0]
  /\ runs = 0
  /\ passes = [r \in Runnables |-> 0]
  /\ begun = {}
  /\ dropped = [t \in Threads |-> 0]
  /\ cut = {}
  /\ canceled = FALSE
  /\ times = [i \in Iterators |-> [k \in Symbols |-> 0]]
  /\ late = [t \in Threads |-> 0]

-----------------------------------------------------------------------------
(* The caller: addRunnable, resetRunnables, run *)

AddRunnable ==
  /\ caller = 0 /\ ~running
  /\ list < NRunnables
  /\ list' = list + 1
  /\ UNCHANGED <<crt, pos, running, cancelState, runPc, caller, canceler, wpc,
                 go, cur, sym, histVars>>

ResetRunnables ==
  /\ caller = 0 /\ ~running
  /\ list' = 0
  /\ UNCHANGED <<crt, pos, running, cancelState, runPc, caller, canceler, wpc,
                 go, cur, sym, histVars>>

\* run(asynch, ...): a call while running throws
\* SchedulerReentrantRunCallException and changes nothing.  The run itself
\* happens in a new thread, or in the caller's.
RunCall(asynch) ==
  /\ caller = 0
  /\ ~running
  /\ runs < MaxRuns
  /\ running' = TRUE
  /\ runs' = runs + 1
  /\ runPc' = [runPc EXCEPT ![runs + 1] = "start"]
  /\ caller' = IF asynch THEN 0 ELSE runs + 1
  /\ UNCHANGED <<list, crt, pos, cancelState, canceler, wpc, go, cur, sym,
                 passes, begun, dropped, cut, canceled, times, late>>

-----------------------------------------------------------------------------
(* The thread of call n, in SchedulerImpl::run(threads, ...).  Once it has  *)
(* reset _running the next call may overtake the rest of it.                *)

\* MUTANT: _runnables.reset() is forgotten.
StartRunNotRewound(n) ==
  /\ runPc[n] = "start"
  /\ running' = TRUE
  /\ wpc' = [t \in Threads |-> "fetch"]
  /\ go' = [t \in Threads |-> TRUE]
  /\ runPc' = [runPc EXCEPT ![n] = "join"]
  /\ passes' = [r \in Runnables |-> 0]
  /\ begun' = {}
  /\ dropped' = [t \in Threads |-> 0]
  /\ cut' = {}
  /\ canceled' = cancelState
  /\ late' = [t \in Threads |-> 0]
  /\ UNCHANGED <<crt, list, pos, cancelState, caller, canceler, cur, sym, runs,
                 times>>

\* The list is rewound and the workers are created.
StartRun(n) ==
  /\ runPc[n] = "start"
  /\ running' = TRUE
  /\ crt' = 0
  /\ wpc' = [t \in Threads |-> "fetch"]
  /\ go' = [t \in Threads |-> TRUE]
  /\ runPc' = [runPc EXCEPT ![n] = "join"]
  /\ passes' = [r \in Runnables |-> 0]
  /\ begun' = {}
  /\ dropped' = [t \in Threads |-> 0]
  /\ cut' = {}
  /\ canceled' = cancelState
  /\ late' = [t \in Threads |-> 0]
  /\ UNCHANGED <<list, pos, cancelState, caller, canceler, cur, sym, runs, times>>

\* MUTANT: the run does not wait for the workers.
JoinAllDetached(n) ==
  /\ runPc[n] = "join"
  /\ running' = FALSE
  /\ runPc' = [runPc EXCEPT ![n] = "clear"]
  /\ UNCHANGED <<list, crt, pos, cancelState, caller, canceler, wpc, go, cur,
                 sym, histVars>>

\* join_all() returns, _running is reset.
JoinAll(n) ==
  /\ runPc[n] = "join"
  /\ \A t \in Threads : wpc[t] = "exit"
  /\ running' = FALSE
  /\ wpc' = [t \in Threads |-> "none"]
  /\ runPc' = [runPc EXCEPT ![n] = "clear"]
  /\ UNCHANGED <<list, crt, pos, cancelState, caller, canceler, go, cur, sym,
                 histVars>>

ClearCancel(n) ==
  /\ runPc[n] = "clear"
  /\ cancelState' = FALSE
  /\ runPc' = [runPc EXCEPT ![n] = "notify"]
  /\ UNCHANGED <<list, crt, pos, running, caller, canceler, wpc, go, cur, sym,
                 histVars>>

\* notify_all() and the return of run().
FinishRun(n) ==
  /\ runPc[n] = "notify"
  /\ runPc' = [runPc EXCEPT ![n] = "done"]
  /\ caller' = IF caller = n THEN 0 ELSE caller
  /\ UNCHANGED <<list, crt, pos, running, cancelState, canceler, wpc, go, cur,
                 sym, histVars>>

-----------------------------------------------------------------------------
(* The threads that cancel *)

CancelAsync ==
  /\ cancelState' = TRUE
  /\ late' = IF cancelState THEN late ELSE [t \in Threads |-> 0]
  /\ canceled' = TRUE
  /\ UNCHANGED <<list, crt, pos, running, runPc, caller, canceler, wpc, go, cur,
                 sym, runs, passes, begun, dropped, cut, times>>

\* cancelSync: sets the flag, then waits on the condition for 0 seconds.
CancelSyncCall ==
  /\ canceler = "idle"
  /\ cancelState' = TRUE
  /\ canceler' = "waiting"
  /\ late' = IF cancelState THEN late ELSE [t \in Threads |-> 0]
  /\ canceled' = TRUE
  /\ UNCHANGED <<list, crt, pos, running, runPc, caller, wpc, go, cur, sym,
                 runs, passes, begun, dropped, cut, times>>

\* wait_for(lock, 0s, pred) returns at once, whatever the predicate says.
CancelSyncReturn ==
  /\ canceler = "waiting"
  /\ canceler' = "idle"
  /\ UNCHANGED <<list, crt, pos, running, cancelState, runPc, caller, wpc, go,
                 cur, sym, histVars>>

-----------------------------------------------------------------------------
(* A worker: RunnableThread::operator() and RunnableInfo::run *)

\* MUTANT: getNext() does not lock, so that an increment of _crt may be lost.
FetchRacing(t) ==
  /\ wpc[t] = "fetch"
  /\ crt < list
  /\ crt' \in {crt, crt + 1}
  /\ cur' = [cur EXCEPT ![t] = crt + 1]
  /\ begun' = begun \cup {crt + 1}
  /\ wpc' = [wpc EXCEPT ![t] = "begin"]
  /\ UNCHANGED <<list, pos, running, cancelState, runPc, caller, canceler, go,
                 sym, runs, passes, dropped, cut, canceled, times, late>>

\* MUTANT: at the end of the list the search starts over.
FetchWraps(t) ==
  /\ wpc[t] = "fetch"
  /\ list > 0
  /\ crt' = (crt % list) + 1
  /\ cur' = [cur EXCEPT ![t] = crt']
  /\ begun' = begun \cup {crt'}
  /\ wpc' = [wpc EXCEPT ![t] = "begin"]
  /\ UNCHANGED <<list, pos, running, cancelState, runPc, caller, canceler, go,
                 sym, runs, passes, dropped, cut, canceled, times, late>>

\* for (si = getNext(); si != 0 && f; si = getNext()): the next runnable is
\* taken off the list before f is looked at.
Fetch(t) ==
  /\ wpc[t] = "fetch"
  /\ \/ /\ crt < list
        /\ crt' = crt + 1
        /\ \/ /\ go[t]
              /\ cur' = [cur EXCEPT ![t] = crt + 1]
              /\ begun' = begun \cup {crt + 1}
              /\ wpc' = [wpc EXCEPT ![t] = "begin"]
              /\ UNCHANGED dropped
           \/ /\ ~go[t]
              /\ dropped' = [dropped EXCEPT ![t] = crt + 1]
              /\ wpc' = [wpc EXCEPT ![t] = "exit"]
              /\ UNCHANGED <<cur, begun>>
     \/ /\ crt >= list
        /\ wpc' = [wpc EXCEPT ![t] = "exit"]
        /\ UNCHANGED <<crt, cur, begun, dropped>>
  /\ UNCHANGED <<list, pos, running, cancelState, runPc, caller, canceler, go,
                 sym, runs, passes, cut, canceled, times, late>>

\* RunnableInfo::run returns to operator() with the given value of f.
ReturnFromRun(t, f) ==
  /\ wpc' = [wpc EXCEPT ![t] = "fetch"]
  /\ go' = [go EXCEPT ![t] = f]
  /\ cur' = [cur EXCEPT ![t] = 0]

\* Runnable::begin(): false leaves the loop, and the runnable is done.
Begin(t) ==
  /\ wpc[t] = "begin"
  /\ \/ /\ wpc' = [wpc EXCEPT ![t] = "next"]
        /\ UNCHANGED <<go, cur, cut>>
     \/ /\ ReturnFromRun(t, TRUE)
        /\ cut' = cut \cup {cur[t]}
  /\ UNCHANGED <<list, crt, pos, running, cancelState, runPc, caller, canceler,
                 sym, runs, passes, begun, dropped, canceled, times, late>>

\* MUTANT: the iterator does not lock, so that an increment may be lost.
NextSymbolRacing(t) ==
  LET i == IteratorOf[cur[t]] IN
  /\ wpc[t] = "next"
  /\ pos[i] < NSymbols
  /\ pos' \in {pos, [pos EXCEPT ![i] = @ + 1]}
  /\ sym' = [sym EXCEPT ![t] = pos[i] + 1]
  /\ wpc' = [wpc EXCEPT ![t] = "symbol"]
  /\ times' = [times EXCEPT ![i][pos[i] + 1] = @ + 1]
  /\ UNCHANGED <<list, crt, running, cancelState, runPc, caller, canceler, go,
                 cur, runs, passes, begun, dropped, cut, canceled, late>>

\* MUTANT: the iterator ends one symbol early.
NextSymbolStopsEarly(t) ==
  LET i == IteratorOf[cur[t]] IN
  /\ wpc[t] = "next"
  /\ pos[i] >= NSymbols - 1
  /\ wpc' = [wpc EXCEPT ![t] = "again"]
  /\ UNCHANGED <<list, crt, pos, running, cancelState, runPc, caller, canceler,
                 go, cur, sym, histVars>>

\* _symbols->getNext() is serialized by the iterator's own mutex.
NextSymbol(t) ==
  LET i == IteratorOf[cur[t]] IN
  /\ wpc[t] = "next"
  /\ \/ /\ pos[i] < NSymbols
        /\ pos' = [pos EXCEPT ![i] = @ + 1]
        /\ sym' = [sym EXCEPT ![t] = pos[i] + 1]
        /\ wpc' = [wpc EXCEPT ![t] = "symbol"]
        /\ times' = [times EXCEPT ![i][pos[i] + 1] = @ + 1]
        /\ late' = IF cancelState THEN [late EXCEPT ![t] = @ + 1] ELSE late
     \/ /\ pos[i] = NSymbols
        /\ wpc' = [wpc EXCEPT ![t] = "again"]
        /\ UNCHANGED <<pos, sym, times, late>>
  /\ UNCHANGED <<list, crt, running, cancelState, runPc, caller, canceler, go,
                 cur, runs, passes, begun, dropped, cut, canceled>>

\* getNext() takes the symbol, then the DataInfo constructor throws
\* DataInfoException: the symbols loop is left.
NextSymbolFails(t) ==
  LET i == IteratorOf[cur[t]] IN
  /\ wpc[t] = "next"
  /\ pos[i] < NSymbols
  /\ pos' = [pos EXCEPT ![i] = @ + 1]
  /\ cut' = cut \cup {cur[t]}
  /\ wpc' = [wpc EXCEPT ![t] = "again"]
  /\ UNCHANGED <<list, crt, running, cancelState, runPc, caller, canceler, go,
                 cur, sym, runs, passes, begun, dropped, canceled, times, late>>

\* runSymbol returns, or throws anything the catch chain turns into an error
\* event: either way the loop goes on.
RunSymbol(t) ==
  /\ wpc[t] = "symbol"
  /\ wpc' = [wpc EXCEPT ![t] = "check"]
  /\ sym' = [sym EXCEPT ![t] = 0]
  /\ UNCHANGED <<list, crt, pos, running, cancelState, runPc, caller, canceler,
                 go, cur, histVars>>

\* The user code called exit(): ExitRunnableException, run returns false.
ExitSymbol(t) ==
  /\ wpc[t] = "symbol"
  /\ ReturnFromRun(t, FALSE)
  /\ sym' = [sym EXCEPT ![t] = 0]
  /\ cut' = cut \cup {cur[t]}
  /\ UNCHANGED <<list, crt, pos, running, cancelState, runPc, caller, canceler,
                 runs, passes, begun, dropped, canceled, times, late>>

\* MUTANT: the cancel flag is not looked at between symbols.
CheckCancelIgnored(t) ==
  /\ wpc[t] = "check"
  /\ wpc' = [wpc EXCEPT ![t] = "next"]
  /\ UNCHANGED <<list, crt, pos, running, cancelState, runPc, caller, canceler,
                 go, cur, sym, histVars>>

\* if (cancelState) return false;
CheckCancel(t) ==
  /\ wpc[t] = "check"
  /\ \/ /\ cancelState
        /\ ReturnFromRun(t, FALSE)
        /\ cut' = cut \cup {cur[t]}
     \/ /\ ~cancelState
        /\ wpc' = [wpc EXCEPT ![t] = "next"]
        /\ UNCHANGED <<go, cur, cut>>
  /\ UNCHANGED <<list, crt, pos, running, cancelState, runPc, caller, canceler,
                 sym, runs, passes, begun, dropped, canceled, times, late>>

\* while (_runnable->again()); return true;
Again(t) ==
  /\ wpc[t] = "again"
  /\ \/ /\ passes[cur[t]] < MaxPasses
        /\ passes' = [passes EXCEPT ![cur[t]] = @ + 1]
        /\ wpc' = [wpc EXCEPT ![t] = "begin"]
        /\ UNCHANGED <<go, cur>>
     \/ /\ ReturnFromRun(t, TRUE)
        /\ UNCHANGED passes
  /\ UNCHANGED <<list, crt, pos, running, cancelState, runPc, caller, canceler,
                 sym, runs, begun, dropped, cut, canceled, times, late>>

-----------------------------------------------------------------------------
Worker(t) ==
  \/ Fetch(t) \/ Begin(t) \/ NextSymbol(t) \/ NextSymbolFails(t)
  \/ RunSymbol(t) \/ ExitSymbol(t) \/ CheckCancel(t) \/ Again(t)

RunThread(n) == StartRun(n) \/ JoinAll(n) \/ ClearCancel(n) \/ FinishRun(n)

Next ==
  \/ AddRunnable \/ ResetRunnables
  \/ \E asynch \in BOOLEAN : RunCall(asynch)
  \/ \E n \in Runs : RunThread(n)
  \/ CancelAsync \/ CancelSyncCall \/ CancelSyncReturn
  \/ \E t \in Threads : Worker(t)

Spec == Init /\ [][Next]_vars

\* The operating system runs every thread, and user code terminates on each
\* symbol.  Nothing obliges anybody to call run() or to cancel.
Fairness ==
  /\ \A n \in Runs : WF_vars(RunThread(n))
  /\ \A t \in Threads : WF_vars(Worker(t))

FairSpec == Spec /\ Fairness

-----------------------------------------------------------------------------
(* Properties *)

\* The state in which join_all() returns.
WorkersDone == running /\ \A t \in Threads : wpc[t] = "exit"

\* The variables have their types: the iterators of the runnables and of the
\* symbols stay within their lists.
TypeOK ==
  /\ list \in 0 .. NRunnables
  /\ crt \in 0 .. NRunnables
  /\ pos \in [Iterators -> 0 .. NSymbols]
  /\ running \in BOOLEAN
  /\ cancelState \in BOOLEAN
  /\ runPc \in [Runs -> RunPc]
  /\ caller \in 0 .. MaxRuns
  /\ canceler \in {"idle", "waiting"}
  /\ wpc \in [Threads -> WorkerPc]
  /\ go \in [Threads -> BOOLEAN]
  /\ cur \in [Threads -> 0 .. NRunnables]
  /\ sym \in [Threads -> 0 .. NSymbols]
  /\ runs \in 0 .. MaxRuns
  /\ passes \in [Runnables -> 0 .. MaxPasses]
  /\ begun \in SUBSET Runnables
  /\ dropped \in [Threads -> 0 .. NRunnables]
  /\ cut \in SUBSET Runnables
  /\ canceled \in BOOLEAN
  /\ times \in [Iterators -> [Symbols -> Nat]]
  /\ late \in [Threads -> Nat]

\* No worker is alive while the scheduler says it is not running, so that the
\* next run(), and resetRunnables, never meet a worker of the previous run.
NoWorkerOutlivesRun ==
  ~running => \A t \in Threads : wpc[t] = "none"

\* RunnableInfo holds one Runnable instance, which cannot be run on two
\* symbols at the same time: no two workers are inside the same one.
OneWorkerPerRunnable ==
  \A t, u \in Threads : t # u /\ InHand(t) /\ InHand(u) => cur[t] # cur[u]

\* Runnables that share an iterator never run the same symbol, neither at the
\* same time nor one after the other, and none is run that was not handed out.
SymbolsRunAtMostOnce ==
  /\ \A i \in Iterators, k \in Symbols :
       times[i][k] <= IF k <= pos[i] THEN 1 ELSE 0
  /\ \A t, u \in Threads :
       t # u /\ wpc[t] = "symbol" /\ wpc[u] = "symbol" /\ sym[t] = sym[u]
       => IteratorOf[cur[t]] # IteratorOf[cur[u]]

\* When the workers are joined, a runnable that did not run is accounted for:
\* a worker that was told to stop took it off the list, or every worker stopped.
EveryRunnableAccountedFor ==
  WorkersDone =>
    \A r \in 1 .. list :
      \/ r \in begun
      \/ \E t \in Threads : dropped[t] = r /\ ~go[t]
      \/ \A t \in Threads : ~go[t]

\* A runnable that ran and was not cut short by begin(), exit(), a data info
\* error or a cancel has seen its iterator's end: no symbol is left over.
UncutRunnablesDrainIterator ==
  WorkersDone =>
    \A r \in begun \ cut : pos[IteratorOf[r]] = NSymbols

\* After a cancel each worker starts at most one more symbol.
CancelStopsWorkers ==
  \A t \in Threads : cancelState => late[t] <= 1

\* A run ends: the workers are joined, and the flag is reset.
RunEnds == running ~> ~running

-----------------------------------------------------------------------------
(* What a comment of the code says *)

\* All threads are busy until the iterator is at the end of the list, "meaning
\* that all the Runnable have been run".
AllRunnablesRun ==
  WorkersDone /\ ~canceled => begun = 1 .. list
=============================================================================
