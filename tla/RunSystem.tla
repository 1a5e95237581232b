------------------------------ MODULE RunSystem ------------------------------
(***************************************************************************)
(* RunSystem::run of src/tradery/runsystem.cpp: the thread that owns a     *)
(* TASession, polls it, cancels it when too many bars were processed,      *)
(* gives up on it when a symbol takes too long, writes the results and     *)
(* destroys the session.  When this thread is done the process exits.      *)
(***************************************************************************)
EXTENDS TASession

CONSTANTS
  MaxTotalBarCount,  \* whether a maximum number of bars is configured
  SymbolTimeout      \* whether a symbol timeout is configured

ASSUME RunSystemAssumption ==
  /\ MaxTotalBarCount \in BOOLEAN
  /\ SymbolTimeout \in BOOLEAN

VARIABLES
  exceeded,   \* XRunnableRunInfoHandler::exceededBarCount: it only becomes true
  timedOut,   \* the local variable symbolTimedOut
  saved       \* the final statistics and trades were written

mainVars == <<exceeded, timedOut, saved>>
allVars  == <<vars, sessVars, mainVars>>

RunSystemInit ==
  /\ SessionInit
  /\ exceeded = FALSE
  /\ timedOut = FALSE
  /\ saved = FALSE

\* The bars of a finished symbol take the total over the maximum.
BarsExceeded ==
  /\ MaxTotalBarCount
  /\ ~exceeded
  /\ \E i \in Iterators, k \in Symbols : times[i][k] > 0
  /\ exceeded' = TRUE
  /\ UNCHANGED <<vars, sessVars, timedOut, saved>>

\* session.defSymbolsCount(), without a lock: _symbolsSource is tested ...
SymbolsCountTest ==
  /\ Goto("main", "symbols", IF count["symbolsSource"] = 1 THEN "symbolsUse" ELSE "loop")
  /\ UNCHANGED <<vars, status, mx, mxStatusChange, count, plugins,
                 endedReceived, events, mainVars>>

\* ... and its size() is called.
SymbolsCountUse ==
  /\ Goto("main", "symbolsUse", "loop")
  /\ UNCHANGED <<vars, status, mx, mxStatusChange, count, plugins,
                 endedReceived, events, mainVars>>

\* while (session.isRunning()) { if the symbol timed out and sessionEnded was
\* not received, break; ...
LoopTimeout ==
  /\ Goto("main", "loop", "save")
  /\ status # "READY"
  /\ SymbolTimeout /\ ~endedReceived
  /\ timedOut' = TRUE
  /\ UNCHANGED <<vars, status, mx, mxStatusChange, count, plugins,
                 endedReceived, events, exceeded, saved>>

\* ... if the bar count is exceeded, cancel: again at every turn ...
LoopCancel ==
  /\ Goto("main", "loop", "cancel")
  /\ status # "READY"
  /\ exceeded
  /\ UNCHANGED <<vars, status, mx, mxStatusChange, count, plugins,
                 endedReceived, events, mainVars>>

\* ... } the session is not running any more.
LoopEnds ==
  /\ Goto("main", "loop", "save")
  /\ status = "READY"
  /\ UNCHANGED <<vars, status, mx, mxStatusChange, count, plugins,
                 endedReceived, events, mainVars>>

\* All positions are gathered; statistics and trades files are written.
SaveResults ==
  /\ Goto("main", "save", "destroy")
  /\ saved' = TRUE
  /\ UNCHANGED <<vars, status, mx, mxStatusChange, count, plugins,
                 endedReceived, events, exceeded, timedOut>>

\* ~TASession: a context with a count of one is released.  Also on the way out
\* of an exception.
Destroy ==
  /\ \/ Goto("main", "destroy", "exit")
     \/ Goto("main", "failed", "exit")
  /\ count' = [c \in Contexts |-> IF count[c] = 1 THEN 0 ELSE count[c]]
  /\ plugins' = FALSE
  /\ UNCHANGED <<vars, status, mx, mxStatusChange, endedReceived, events,
                 mainVars>>

\* What the main thread does when no symbol takes too long.
MainThread ==
  \/ (StartOp \/ CancelOp) /\ UNCHANGED mainVars
  \/ SymbolsCountTest \/ SymbolsCountUse
  \/ LoopCancel \/ LoopEnds
  \/ SaveResults \/ Destroy

ProcessAlive == pc["main"] # "exit"

WorkerThread(t) == ProcessAlive /\ Worker(t) /\ UNCHANGED <<sessVars, mainVars>>

SessionThread == ProcessAlive /\ SchedThread /\ UNCHANGED mainVars

RunSystemNext ==
  \/ MainThread \/ LoopTimeout
  \/ SessionThread
  \/ \E t \in Threads : WorkerThread(t)
  \/ ProcessAlive /\ BarsExceeded

RunSystemSpec == RunSystemInit /\ [][RunSystemNext]_allVars

\* The operating system runs the threads; user code terminates on each symbol.
\* No symbol needs to time out.
RunSystemFairSpec ==
  /\ RunSystemSpec
  /\ WF_allVars(MainThread)
  /\ WF_allVars(SessionThread)
  /\ \A t \in Threads : WF_allVars(WorkerThread(t))

-----------------------------------------------------------------------------
(* Properties *)

\* While a worker is inside a runnable, the data source, the symbols source and
\* the runnable's plugin are loaded and the list holds it.
PluginsOutliveWorkers ==
  ProcessAlive /\ (\E t \in Threads : InHand(t)) =>
    /\ \A c \in Contexts : count[c] = 1
    /\ plugins
    /\ \A t \in Threads : InHand(t) => cur[t] \in 1 .. list

\* Results are complete when they are written: without a timeout, the run has
\* ended, and the plugins have processed it (position sizing, statistics).
SavedResultsAreFinal ==
  saved /\ ~timedOut =>
    /\ events["sessionEnded"] > 0
    /\ \A t \in Threads : wpc[t] = "none"

\* Every plugin that was told sessionStarted and runStarted is told runEnded and
\* sessionEnded, before the results are written, unless the session timed out.
\* Only a session that is canceled may tell sessionEnded twice, or write the
\* results before runEnded.
EventsNest ==
  /\ events["runEnded"] <= events["runStarted"]
  /\ events["runStarted"] <= events["sessionStarted"]
  /\ ~exceeded => events["sessionEnded"] <= events["runEnded"]
  /\ saved /\ ~timedOut /\ ~exceeded => events["sessionEnded"] = 1

\* A session that is not running has returned every plugin it took, unless it
\* was canceled.
ReadyMeansReleased ==
  status = "READY" /\ events["sessionStarted"] > 0 /\ ~exceeded
    => ~plugins /\ \A c \in Contexts : count[c] = 0

\* Plugins are there for as long as a worker uses them, and no longer than the
\* session runs.
PluginsLiveWithRun == PluginsOutliveWorkers /\ ReadyMeansReleased

\* Once started, the session ends and the results are written, unless the limit
\* of bars is exceeded, which cancels it.
SessionCompletes == pc["main"] = "loop" ~> saved \/ exceeded

-----------------------------------------------------------------------------
(* What comments and assertions of the code say *)

\* assert(_count >= 0) in release().
CountNeverNegative == \A c \in Contexts : count[c] >= 0

\* "cancel session than continue the loop waiting for the session to end".
CanceledSessionEnds == pc["main"] = "cancel" ~> saved
=============================================================================
