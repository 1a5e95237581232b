------------------------------ MODULE TASession ------------------------------
(***************************************************************************)
(* TASession of src/tradery/session.h on top of the scheduler.             *)
(*                                                                         *)
(* Two threads are inside the session: "main", which calls start() and     *)
(* cancel(), and "sched", the thread of the asynchronous run, which calls  *)
(* runStarted() and runEnded() back.  The operations are given as steps    *)
(* between labels of pc; a client module supplies what main does between   *)
(* the calls.  A session object is started once, so the scheduler makes    *)
(* one run (MaxRuns = 1).                                                  *)
(***************************************************************************)
EXTENDS Integers, Scheduler

CONSTANTS
  NSystems,           \* Document::runnablesCount()
  OneSystemInMultipleThreads,  \* ThreadAlgorithm, bit 0
  HasSignalHandler,   \* Document::hasDefaultSignalHandler()
  MayFailToStart      \* whether plugins may fail while start() runs

Procs    == {"main", "sched"}
NoOne    == "none"
Contexts == {"dataSource", "symbolsSource"}
              \cup (IF HasSignalHandler THEN {"signalHandler"} ELSE {})
Events   == {"sessionStarted", "runStarted", "runCanceled", "sessionCanceled",
             "runEnded", "sessionEnded"}

\* createRunnables: every system once, or as many instances as there are
\* threads, the instances of a system sharing its data iterator.
RunnablesCreated ==
  IF OneSystemInMultipleThreads /\ NSystems < Cardinality(Threads)
  THEN Cardinality(Threads) ELSE NSystems

ASSUME SessionAssumption ==
  /\ NSystems \in Nat \ {0}
  /\ OneSystemInMultipleThreads \in BOOLEAN
  /\ HasSignalHandler \in BOOLEAN
  /\ MayFailToStart \in BOOLEAN
  /\ MaxRuns = 1
  /\ NRunnables = RunnablesCreated
  /\ Iterators = 1 .. NSystems
  /\ IteratorOf = [r \in Runnables |-> ((r - 1) % NSystems) + 1]

VARIABLES
  status,         \* _status
  mx,             \* the thread that holds _mx
  mxStatusChange, \* the thread that holds _mxStatusChange
  count,          \* _count of the plugin contexts
  plugins,        \* whether _runnablePluginInstances holds the plugins
  endedReceived,  \* _sessionEndedReceived
  pc,             \* where main and sched are
  events          \* history: how often the plugins were sent each event

sessVars == <<status, mx, mxStatusChange, count, plugins, endedReceived, pc,
              events>>

Goto(p, from, to) ==
  /\ pc[p] = from
  /\ pc' = [pc EXCEPT ![p] = to]

Notify(es) == events' = [e \in Events |-> IF e \in es THEN events[e] + 1 ELSE events[e]]

SessionInit ==
  /\ Init
  /\ status = "READY"
  /\ mx = NoOne
  /\ mxStatusChange = NoOne
  /\ count = [c \in Contexts |-> 0]
  /\ plugins = FALSE
  /\ endedReceived = FALSE
  /\ pc = [p \in Procs |-> IF p = "main" THEN "start" ELSE "off"]
  /\ events = [e \in Events |-> 0]

-----------------------------------------------------------------------------
(* The two mutexes.  std::mutex is not recursive. *)

LockMx(p, from, to) ==
  /\ Goto(p, from, to)
  /\ mx = NoOne
  /\ mx' = p
  /\ UNCHANGED <<vars, status, mxStatusChange, count, plugins, endedReceived,
                 events>>

LockStatusChange(p, from, to) ==
  /\ Goto(p, from, to)
  /\ mxStatusChange = NoOne
  /\ mxStatusChange' = p
  /\ UNCHANGED <<vars, status, mx, count, plugins, endedReceived, events>>

\* MUTANT: the signal handler's context is forgotten.
ReleasePluginsPartly ==
  /\ list' = 0
  /\ plugins' = FALSE
  /\ count' = [c \in Contexts |-> IF c = "signalHandler" THEN count[c] ELSE count[c] - 1]
  /\ UNCHANGED <<crt, pos, running, cancelState, runPc, caller, canceler, wpc,
                 go, cur, sym, histVars>>

\* releasePlugins(): the runnables (also off the scheduler's list), their
\* plugins and the contexts go.
ReleasePlugins ==
  /\ list' = 0
  /\ plugins' = FALSE
  /\ count' = [c \in Contexts |-> count[c] - 1]
  /\ UNCHANGED <<crt, pos, running, cancelState, runPc, caller, canceler, wpc,
                 go, cur, sym, histVars>>

-----------------------------------------------------------------------------
(* start() *)

\* MUTANT: the session is not marked as running.
StartCreateUnmarked ==
  /\ Goto("main", "locked", "created")
  /\ status = "READY"
  /\ count' = [c \in Contexts |-> count[c] + 1]
  /\ plugins' = TRUE
  /\ list' = RunnablesCreated
  /\ Notify({"sessionStarted"})
  /\ endedReceived' = FALSE
  /\ UNCHANGED <<status, crt, pos, running, cancelState, runPc, caller, canceler,
                 wpc, go, cur, sym, histVars, mx, mxStatusChange>>

\* The contexts are created, the runnables are created and handed to the
\* scheduler, the plugins are told.
StartCreate ==
  /\ Goto("main", "locked", "created")
  /\ status = "READY"
  /\ count' = [c \in Contexts |-> count[c] + 1]
  /\ plugins' = TRUE
  /\ list' = RunnablesCreated
  /\ status' = "RUNNING"
  /\ Notify({"sessionStarted"})
  /\ endedReceived' = FALSE
  /\ UNCHANGED <<crt, pos, running, cancelState, runPc, caller, canceler, wpc,
                 go, cur, sym, histVars, mx, mxStatusChange>>

\* A plugin is missing or throws after some of the contexts were created: the
\* exception leaves start(), the lock is released, the contexts stay created.
StartFails ==
  /\ MayFailToStart
  /\ Goto("main", "locked", "failed")
  /\ \E S \in SUBSET Contexts :
       /\ "symbolsSource" \in S => "dataSource" \in S
       /\ "signalHandler" \in S => "symbolsSource" \in S
       /\ count' = [c \in Contexts |-> IF c \in S THEN count[c] + 1 ELSE count[c]]
       /\ plugins' \in (IF S = Contexts THEN BOOLEAN ELSE {plugins})
  /\ mx' = NoOne
  /\ UNCHANGED <<vars, status, mxStatusChange, endedReceived, events>>

\* Everything was created and a plugin's sessionStarted throws: the status is
\* set back for the two plugin exceptions, for any other one it is not.
StartNotifyFails ==
  /\ MayFailToStart
  /\ Goto("main", "locked", "failed")
  /\ count' = [c \in Contexts |-> count[c] + 1]
  /\ plugins' = TRUE
  /\ list' = RunnablesCreated
  /\ status' \in {"READY", "RUNNING"}
  /\ endedReceived' = FALSE
  /\ mx' = NoOne
  /\ UNCHANGED <<crt, pos, running, cancelState, runPc, caller, canceler, wpc,
                 go, cur, sym, histVars, mxStatusChange, events>>

\* _session.run(true, ...): the thread is created; start() returns.
StartRunCall ==
  /\ Goto("main", "created", "symbols")
  /\ RunCall(TRUE)
  /\ mx' = NoOne
  /\ UNCHANGED <<status, mxStatusChange, count, plugins, endedReceived, events>>

\* The new thread is in SchedulerImpl::run, before the runStarted event.
ThreadFunc ==
  /\ Goto("sched", "off", "runStarted")
  /\ runPc[1] = "start"
  /\ UNCHANGED <<vars, status, mx, mxStatusChange, count, plugins,
                 endedReceived, events>>

-----------------------------------------------------------------------------
(* runStarted(), the run, runEnded(): thread "sched" *)

RunStartedLockMx == LockMx("sched", "runStarted", "rs1")
RunStartedLockStatus == LockStatusChange("sched", "rs1", "rs2")

\* MUTANT: runStarted() leaves the second mutex locked.
RunStartedKeepsLock ==
  /\ Goto("sched", "rs2", "run")
  /\ Notify({"runStarted"})
  /\ mx' = NoOne
  /\ UNCHANGED <<vars, status, mxStatusChange, count, plugins, endedReceived>>

RunStarted ==
  /\ Goto("sched", "rs2", "run")
  /\ Notify({"runStarted"})
  /\ mx' = NoOne
  /\ mxStatusChange' = NoOne
  /\ UNCHANGED <<vars, status, count, plugins, endedReceived>>

\* The body of SchedulerImpl::run up to the runEnded event.
SchedulerRun ==
  /\ pc["sched"] = "run"
  /\ StartRun(1) \/ JoinAll(1) \/ ClearCancel(1)
  /\ UNCHANGED sessVars

RunEndedCall ==
  /\ Goto("sched", "run", "runEnded")
  /\ runPc[1] = "notify"
  /\ UNCHANGED <<vars, status, mx, mxStatusChange, count, plugins,
                 endedReceived, events>>

RunEndedLockMx == LockMx("sched", "runEnded", "re1")
\* MUTANT: the status becomes READY before the plugins are told.
RunEndedReadyFirst ==
  /\ Goto("sched", "re1", "re2")
  /\ mxStatusChange = NoOne
  /\ mxStatusChange' = "sched"
  /\ status' = "READY"
  /\ UNCHANGED <<vars, mx, count, plugins, endedReceived, events>>

RunEndedLockStatus == LockStatusChange("sched", "re1", "re2")

\* notifyRunEnded(), notifySessionEnded()
RunEndedNotify ==
  /\ Goto("sched", "re2", "re3")
  /\ endedReceived' = TRUE
  /\ Notify({"runEnded", "sessionEnded"})
  /\ UNCHANGED <<vars, status, mx, mxStatusChange, count, plugins>>

RunEndedRelease ==
  /\ Goto("sched", "re3", "re4")
  /\ ReleasePlugins
  /\ UNCHANGED <<status, mx, mxStatusChange, endedReceived, events>>

RunEndedReady ==
  /\ Goto("sched", "re4", "re5")
  /\ status' = "READY"
  /\ mxStatusChange' = NoOne
  /\ UNCHANGED <<vars, mx, count, plugins, endedReceived, events>>

\* releaseRunnables(), the unlock of _mx, the end of the thread.
RunEndedReturn ==
  /\ Goto("sched", "re5", "off")
  /\ list' = 0
  /\ mx' = NoOne
  /\ runPc' = [runPc EXCEPT ![1] = "done"]
  /\ UNCHANGED <<crt, pos, running, cancelState, caller, canceler, wpc, go, cur,
                 sym, histVars, status, mxStatusChange, count, plugins,
                 endedReceived, events>>

-----------------------------------------------------------------------------
(* cancel(): thread "main" *)

CancelLockMx == LockMx("main", "cancel", "ca1")
CancelLockStatus == LockStatusChange("main", "ca1", "ca2")

CancelNotify ==
  /\ Goto("main", "ca2", "ca3")
  /\ status' = "CANCELING"
  /\ Notify({"sessionCanceled"})
  /\ UNCHANGED <<vars, mx, mxStatusChange, count, plugins, endedReceived>>

\* if (_session.isRunning()) _session.cancelAsync(): the flag is set ...
CancelRunning ==
  /\ Goto("main", "ca3", IF running THEN "cancelAsync" ELSE "ca5")
  /\ UNCHANGED <<vars, status, mx, mxStatusChange, count, plugins,
                 endedReceived, events>>

CancelSetFlag ==
  /\ Goto("main", "cancelAsync", "relock")
  /\ CancelAsync
  /\ UNCHANGED <<status, mx, mxStatusChange, count, plugins, endedReceived,
                 events>>

\* ... and runCanceled() locks _mx, which this thread holds.  That is undefined:
\* the thread blocks for ever ...
RelockBlocks ==
  /\ Goto("main", "relock", "blocked")
  /\ UNCHANGED <<vars, status, mx, mxStatusChange, count, plugins,
                 endedReceived, events>>

\* ... or lock() throws std::system_error, which leaves cancel().
RelockThrows ==
  /\ Goto("main", "relock", "failed")
  /\ mx' = NoOne
  /\ mxStatusChange' = NoOne
  /\ UNCHANGED <<vars, status, count, plugins, endedReceived, events>>

\* else: notifySessionEnded(), setStatusReady()
CancelNotRunning ==
  /\ Goto("main", "ca5", "ca6")
  /\ endedReceived' = TRUE
  /\ Notify({"sessionEnded"})
  /\ status' = "READY"
  /\ mxStatusChange' = NoOne
  /\ UNCHANGED <<vars, mx, count, plugins>>

CancelRelease ==
  /\ Goto("main", "ca6", "loop")
  /\ ReleasePlugins
  /\ mx' = NoOne
  /\ UNCHANGED <<status, mxStatusChange, endedReceived, events>>

-----------------------------------------------------------------------------
SchedThread ==
  \/ ThreadFunc
  \/ RunStartedLockMx \/ RunStartedLockStatus \/ RunStarted
  \/ SchedulerRun
  \/ RunEndedCall \/ RunEndedLockMx \/ RunEndedLockStatus \/ RunEndedNotify
  \/ RunEndedRelease \/ RunEndedReady \/ RunEndedReturn

CancelOp ==
  \/ CancelLockMx \/ CancelLockStatus \/ CancelNotify
  \/ CancelRunning \/ CancelSetFlag \/ RelockBlocks \/ RelockThrows
  \/ CancelNotRunning \/ CancelRelease

StartOp ==
  \/ LockMx("main", "start", "locked")
  \/ StartCreate \/ StartFails \/ StartNotifyFails \/ StartRunCall
=============================================================================
