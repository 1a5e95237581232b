------------------------------ MODULE Launcher ------------------------------
(***************************************************************************)
(* One call of tradery::run: the main thread, the processing thread that   *)
(* has the systems built by nmake and runs them, the build process, and    *)
(* the client, which talks to the processing thread through files.         *)
(*                                                                         *)
(* The client writes the heartbeat file to say that it is still there, may *)
(* write the cancel file, and waits for the end file.  The processing      *)
(* thread writes the reverse heartbeat file.  The files matter while the   *)
(* build process runs; the run of the systems itself is RunSystem.         *)
(***************************************************************************)
EXTENDS Naturals

CONSTANTS Timeout,  \* heartBeatTimeout(), in ticks
          Period,   \* reverseHeartBeatPeriod(), in ticks
          MaxBeats  \* bound: heartbeats of the client

ASSUME TimeoutAssumption == Timeout \in Nat
ASSUME PeriodAssumption == Period \in Nat
ASSUME MaxBeatsAssumption == MaxBeats \in Nat

VARIABLES async,    \* asyncRun()
          main,     \* where the main thread is
          core,     \* between tradery::init and tradery::uninit
          running,  \* ThreadBase::_running of the processing thread
          th,       \* where the processing thread is
          threw,    \* it left run() by an exception
          child,    \* the build process
          exitCode, \* its exit code
          status,   \* what timeoutHandler returned
          hb,       \* the heartbeat file exists
          rhb,      \* the reverse heartbeat file exists
          cancel,   \* the cancel file exists
          endFile,  \* what is written to the end file
          hbTime,   \* the heartbeat timer
          rhbTime,  \* the reverse heartbeat timer
          quiet,    \* the time since the client last wrote the heartbeat file
          beats     \* how often it did

mainVars == <<async, main, core>>
childVars == <<child, exitCode>>
timers == <<hbTime, rhbTime>>
clientVars == <<cancel, beats>>
callVars == <<mainVars, running, th, threw, childVars, status, hb, rhb, endFile,
          timers, quiet, clientVars>>

StillActive == 259
Long == Timeout + Period + 1   \* where the clocks stop

CallInit ==
  /\ async \in BOOLEAN /\ main = "init" /\ core = FALSE
  /\ running = FALSE /\ th = "none" /\ threw = FALSE
  /\ child = "none" /\ exitCode = 0 /\ status = "none"
  /\ hb = FALSE /\ rhb = FALSE /\ cancel = FALSE /\ endFile = "none"
  /\ hbTime = 0 /\ rhbTime = 0 /\ quiet = 0 /\ beats = 0

-----------------------------------------------------------------------------
(* The main thread: tradery::run, ProcessingThreads::run, ThreadBase::startx *)

InitCore ==
  /\ main = "init"
  /\ core' = TRUE /\ main' = "start"
  /\ UNCHANGED <<async, running, th, threw, childVars, status, hb, rhb,
                 endFile, timers, quiet, clientVars>>

\* start() of a fresh thread object: _running is set before the thread exists.
Start ==
  /\ main = "start"
  /\ running' = TRUE /\ th' = "build"
  /\ main' = IF async THEN "started" ELSE "wait"
  /\ UNCHANGED <<async, core, threw, childVars, status, hb, rhb, endFile,
                 timers, quiet, clientVars>>

\* no thread: nothing is reported, and _running stays set
StartFails ==
  /\ main = "start"
  /\ running' = TRUE
  /\ main' = "started"
  /\ UNCHANGED <<async, core, th, threw, childVars, status, hb, rhb, endFile,
                 timers, quiet, clientVars>>

\* startSync: WaitForSingleObject on the handle of the thread
WaitForThread ==
  /\ main = "wait" /\ th = "ended"
  /\ main' = "started"
  /\ UNCHANGED <<async, core, running, th, threw, childVars, status, hb, rhb,
                 endFile, timers, quiet, clientVars>>

UninitCore ==
  /\ main = "started"
  /\ core' = FALSE /\ main' = "exit"
  /\ UNCHANGED <<async, running, th, threw, childVars, status, hb, rhb,
                 endFile, timers, quiet, clientVars>>

\* main returns, and the process ends with the threads it has left
Exit ==
  /\ main = "exit"
  /\ main' = "done" /\ th' = "ended"
  /\ UNCHANGED <<async, core, running, threw, childVars, status, hb, rhb,
                 endFile, timers, quiet, clientVars>>

-----------------------------------------------------------------------------
(* The processing thread: RunnablePluginBuilder and process() *)

Leave == th' = "ended" /\ running' = FALSE

\* the source is generated and nmake is started
Build ==
  /\ th = "build"
  /\ child' = "active" /\ th' = "check"
  /\ hbTime' = 0 /\ rhbTime' = 0 /\ quiet' = 0
  /\ UNCHANGED <<mainVars, running, threw, exitCode, status, hb, rhb, endFile,
                 clientVars>>

\* The source cannot be written, nmake cannot be started, or the errors file
\* cannot be written: run() catches the exception and is done.
BuildThrows ==
  /\ th \in {"build", "built"}
  /\ threw' = TRUE /\ Leave
  /\ UNCHANGED <<mainVars, childVars, status, hb, rhb, endFile, timers, quiet,
                 clientVars>>

\* timeoutHandler: if (!sessionController.isActive()) break
CheckActive ==
  /\ th = "check"
  /\ IF child = "active" THEN th' = "beat" /\ UNCHANGED status
     ELSE th' = "built" /\ status' = "normal"
  /\ UNCHANGED <<mainVars, running, threw, childVars, hb, rhb, endFile, timers,
                 quiet, clientVars>>

\* MUTANT: the file is deleted, but the timer runs on.
CheckHeartBeatNoRestart ==
  /\ th = "beat"
  /\ hb' = FALSE
  /\ th' = IF hb THEN "cancel" ELSE "elapsed"
  /\ UNCHANGED <<mainVars, running, threw, childVars, status, rhb, endFile,
                 timers, quiet, clientVars>>

\* a heartbeat file is deleted and restarts the timer
CheckHeartBeat ==
  /\ th = "beat"
  /\ hb' = FALSE
  /\ IF hb THEN th' = "cancel" /\ hbTime' = 0
     ELSE th' = "elapsed" /\ UNCHANGED hbTime
  /\ UNCHANGED <<mainVars, running, threw, childVars, status, rhb, endFile,
                 rhbTime, quiet, clientVars>>

\* TerminateProcess(_hProcess, 0) does not wait for the end of the process:
\* the exit code that is read next is 0, or that of a process still active.
Terminate(s) ==
  /\ status' = s /\ th' = "built"
  /\ child' = "exited"
  /\ exitCode' \in IF child = "active" THEN {0, StillActive} ELSE {exitCode}

\* no heartbeat: the time is looked at after the file
CheckElapsed ==
  /\ th = "elapsed"
  /\ \/ hbTime > Timeout /\ Terminate("timeout")
     \/ hbTime <= Timeout /\ th' = "cancel" /\ UNCHANGED <<childVars, status>>
  /\ UNCHANGED <<mainVars, running, threw, hb, rhb, endFile, timers, quiet,
                 clientVars>>

CheckCancel ==
  /\ th = "cancel"
  /\ \/ cancel /\ Terminate("cancel")
     \/ ~cancel /\ th' = "reverse" /\ UNCHANGED <<childVars, status>>
  /\ UNCHANGED <<mainVars, running, threw, hb, rhb, endFile, timers, quiet,
                 clientVars>>

\* the reverse heartbeat, when the client has taken the last one
ReverseHeartBeat ==
  /\ th = "reverse"
  /\ th' = "check"
  /\ IF rhbTime > Period /\ ~rhb THEN rhb' = TRUE /\ rhbTime' = 0
     ELSE UNCHANGED <<rhb, rhbTime>>
  /\ UNCHANGED <<mainVars, running, threw, childVars, status, hb, endFile,
                 hbTime, quiet, clientVars>>

\* builder.success() is exitCode == 0; the status is not looked at
Built ==
  /\ th = "built"
  /\ th' = IF exitCode = 0 THEN "run" ELSE "failed"
  /\ UNCHANGED <<mainVars, running, threw, childVars, status, hb, rhb, endFile,
                 timers, quiet, clientVars>>

\* the systems are run, and a RunSystemException is only logged
RunSystem ==
  /\ th = "run"
  /\ th' = "normal"
  /\ UNCHANGED <<mainVars, running, threw, childVars, status, hb, rhb, endFile,
                 timers, quiet, clientVars>>

\* the end file, and the end of ThreadBase::threadProc
SignalEnd ==
  /\ th \in {"normal", "failed"}
  /\ endFile' = th
  /\ Leave
  /\ UNCHANGED <<mainVars, threw, childVars, status, hb, rhb, timers, quiet,
                 clientVars>>

-----------------------------------------------------------------------------
(* The build process, the client and time *)

BuildEnds ==
  /\ child = "active"
  /\ child' = "exited" /\ exitCode' \in {0, 1}
  /\ UNCHANGED <<mainVars, running, th, threw, status, hb, rhb, endFile,
                 timers, quiet, clientVars>>

Beat ==
  /\ beats < MaxBeats /\ main # "done"
  /\ beats' = beats + 1
  /\ hb' = TRUE
  /\ quiet' = IF th = "elapsed" \/ status # "none" THEN quiet ELSE 0
  /\ UNCHANGED <<mainVars, running, th, threw, childVars, status, rhb, endFile,
                 timers, cancel>>

Cancel ==
  /\ ~cancel /\ main # "done"
  /\ cancel' = TRUE
  /\ UNCHANGED <<mainVars, running, th, threw, childVars, status, hb, rhb,
                 endFile, timers, quiet, beats>>

\* the client has seen the reverse heartbeat
TakeReverseHeartBeat ==
  /\ rhb
  /\ rhb' = FALSE
  /\ UNCHANGED <<mainVars, running, th, threw, childVars, status, hb, endFile,
                 timers, quiet, clientVars>>

Advance(t) == IF t < Long THEN t + 1 ELSE t

Tick ==
  /\ child = "active" /\ main # "done"
  /\ hbTime' = Advance(hbTime) /\ rhbTime' = Advance(rhbTime)
  /\ quiet' = Advance(quiet)
  /\ <<hbTime', rhbTime', quiet'>> # <<hbTime, rhbTime, quiet>>
  /\ UNCHANGED <<mainVars, running, th, threw, childVars, status, hb, rhb,
                 endFile, clientVars>>

MainThread == InitCore \/ Start \/ StartFails \/ WaitForThread \/ UninitCore \/ Exit
Processing == Build \/ BuildThrows \/ CheckActive \/ CheckHeartBeat
              \/ CheckElapsed \/ CheckCancel \/ ReverseHeartBeat \/ Built
              \/ RunSystem \/ SignalEnd
Client == Beat \/ Cancel \/ TakeReverseHeartBeat
CallNext == MainThread \/ (main # "done" /\ Processing) \/ BuildEnds \/ Client \/ Tick

CallSpec == CallInit /\ [][CallNext]_callVars /\ WF_callVars(MainThread)
        /\ WF_callVars(main # "done" /\ Processing) /\ WF_callVars(Tick)

-----------------------------------------------------------------------------
(* Properties *)

CallTypeOK ==
  /\ async \in BOOLEAN /\ core \in BOOLEAN /\ running \in BOOLEAN
  /\ main \in {"init", "start", "wait", "started", "exit", "done"}
  /\ th \in {"none", "build", "check", "beat", "elapsed", "cancel", "reverse",
             "built", "run", "normal", "failed", "ended"}
  /\ threw \in BOOLEAN
  /\ child \in {"none", "active", "exited"}
  /\ exitCode \in {0, 1, StillActive}
  /\ status \in {"none", "normal", "cancel", "timeout"}
  /\ hb \in BOOLEAN /\ rhb \in BOOLEAN /\ cancel \in BOOLEAN
  /\ endFile \in {"none", "normal", "failed"}
  /\ {hbTime, rhbTime, quiet} \subseteq 0 .. Long
  /\ beats \in 0 .. MaxBeats

\* The build is given up for want of a heartbeat only when the client has been
\* silent for longer than the timeout.  A heartbeat that comes after the thread
\* has looked for the file and before it looks at the time comes too late.
TimeoutMeansSilence == status = "timeout" => quiet > Timeout

\* Whatever the client and the build process do, the call ends: a build that
\* hangs is given up when the client falls silent.
CallEnds == <>(main = "done")

\* "no heartbeat within the heartbeat time out, cancel run"
\* (ProcessingThread.cpp:95): the systems of such a build are not run.
TimeoutCancelsRun == status = "timeout" => th # "run"

=============================================================================
