--------------------------- MODULE ProgramsProofs ---------------------------
(***************************************************************************)
(* Proofs about the programs around a run of the systems: the launcher     *)
(* (Launcher), the sessions of remote clients (ClientSession) and the      *)
(* optimizer (Optimizer), each for every value of its constants, and of    *)
(* MCPrograms, in which one of them runs.                                  *)
(***************************************************************************)
EXTENDS MCPrograms, FiniteSetTheorems, TLAPS

-----------------------------------------------------------------------------
(* The launcher *)

\* The flags of the call, and the other variables: together CallTypeOK
CallFlags ==
  /\ async \in BOOLEAN /\ core \in BOOLEAN /\ running \in BOOLEAN /\ threw \in BOOLEAN
  /\ hb \in BOOLEAN /\ rhb \in BOOLEAN /\ cancel \in BOOLEAN

CallTypes ==
  /\ main \in {"init", "start", "wait", "started", "exit", "done"}
  /\ th \in {"none", "build", "check", "beat", "elapsed", "cancel", "reverse",
             "built", "run", "normal", "failed", "ended"}
  /\ child \in {"none", "active", "exited"}
  /\ exitCode \in {0, 1, StillActive}
  /\ status \in {"none", "normal", "cancel", "timeout"}
  /\ endFile \in {"none", "normal", "failed"}
  /\ hbTime \in 0 .. Long /\ rhbTime \in 0 .. Long /\ quiet \in 0 .. Long
  /\ beats \in 0 .. MaxBeats

\* While the build is watched there is no outcome yet, and before the thread is started it
\* is not there.
Watching == th \in {"none", "build", "check", "beat", "elapsed", "cancel", "reverse"}

\* The heartbeat timer is no later than the silence of the client, unless there is a
\* heartbeat that the thread has not looked at.
SilenceInv ==
  /\ main \in {"init", "start"} => th = "none"
  /\ Watching => status = "none"
  /\ status = "none" /\ (~hb \/ th = "elapsed") => hbTime <= quiet
  /\ status = "timeout" => quiet > Timeout

CallInv == CallFlags /\ CallTypes /\ SilenceInv

LEMMA CallFlagsStep == CallFlags /\ CallNext => CallFlags'
BY Zenon DEF
  CallFlags, CallNext, MainThread, Processing, Client, Leave, mainVars, clientVars,
  InitCore, Start, StartFails, WaitForThread, UninitCore, Exit, Build, BuildThrows,
  CheckActive, CheckHeartBeat, CheckElapsed, CheckCancel, ReverseHeartBeat, Built,
  RunSystem, SignalEnd, BuildEnds, Beat, Cancel, TakeReverseHeartBeat, Tick

LEMMA CallTypesStep == CallTypes /\ CallNext => CallTypes'
<1> USE TimeoutAssumption, PeriodAssumption, MaxBeatsAssumption
<1> SUFFICES ASSUME CallTypes, CallNext PROVE CallTypes'
  OBVIOUS
<1> USE DEF CallTypes, Long, StillActive, mainVars, childVars,
            timers, clientVars
<1>1. CASE InitCore
  BY <1>1 DEF InitCore
<1>2. CASE Start
  BY <1>2 DEF Start
<1>3. CASE StartFails
  BY <1>3 DEF StartFails
<1>4. CASE WaitForThread
  BY <1>4 DEF WaitForThread
<1>5. CASE UninitCore
  BY <1>5 DEF UninitCore
<1>6. CASE Exit
  BY <1>6 DEF Exit
<1>7. CASE Build
  BY <1>7 DEF Build
<1>8. CASE BuildThrows
  BY <1>8 DEF BuildThrows, Leave
<1>9. CASE CheckActive
  BY <1>9 DEF CheckActive
<1>10. CASE CheckHeartBeat
  BY <1>10 DEF CheckHeartBeat
<1>11. CASE CheckElapsed
  BY <1>11 DEF CheckElapsed, Terminate
<1>12. CASE CheckCancel
  BY <1>12 DEF CheckCancel, Terminate
<1>13. CASE ReverseHeartBeat
  BY <1>13 DEF ReverseHeartBeat
<1>14. CASE Built
  BY <1>14 DEF Built
<1>15. CASE RunSystem
  BY <1>15 DEF RunSystem
<1>16. CASE SignalEnd
  BY <1>16 DEF SignalEnd, Leave
<1>17. CASE BuildEnds
  BY <1>17 DEF BuildEnds
<1>18. CASE Beat
  BY <1>18 DEF Beat
<1>19. CASE Cancel
  BY <1>19 DEF Cancel
<1>20. CASE TakeReverseHeartBeat
  BY <1>20 DEF TakeReverseHeartBeat
<1>21. CASE Tick
  BY <1>21 DEF Tick, Advance
<1>22. QED
  BY <1>1, <1>2, <1>3, <1>4, <1>5, <1>6, <1>7, <1>8, <1>9, <1>10, <1>11, <1>12, <1>13,
     <1>14, <1>15, <1>16, <1>17, <1>18, <1>19, <1>20, <1>21
     DEF CallNext, MainThread, Processing, Client

LEMMA SilenceInvStep == CallInv /\ CallNext => SilenceInv'
<1> USE TimeoutAssumption, PeriodAssumption, MaxBeatsAssumption
<1> SUFFICES ASSUME CallInv, CallNext PROVE SilenceInv'
  OBVIOUS
<1> USE DEF CallInv, CallFlags, CallTypes, SilenceInv, Watching, Long,
            mainVars, childVars, timers, clientVars
<1>1. CASE InitCore
  BY <1>1 DEF InitCore
<1>2. CASE Start
  BY <1>2 DEF Start
<1>3. CASE StartFails
  BY <1>3 DEF StartFails
<1>4. CASE WaitForThread
  BY <1>4 DEF WaitForThread
<1>5. CASE UninitCore
  BY <1>5 DEF UninitCore
<1>6. CASE Exit
  BY <1>6 DEF Exit
<1>7. CASE Build
  BY <1>7 DEF Build
<1>8. CASE BuildThrows
  BY <1>8 DEF BuildThrows, Leave
<1>9. CASE CheckActive
  BY <1>9 DEF CheckActive
<1>10. CASE CheckHeartBeat
  BY <1>10 DEF CheckHeartBeat
<1>11. CASE CheckElapsed
  BY <1>11 DEF CheckElapsed, Terminate
<1>12. CASE CheckCancel
  BY <1>12 DEF CheckCancel, Terminate
<1>13. CASE ReverseHeartBeat
  BY <1>13 DEF ReverseHeartBeat
<1>14. CASE Built
  BY <1>14 DEF Built
<1>15. CASE RunSystem
  BY <1>15 DEF RunSystem
<1>16. CASE SignalEnd
  BY <1>16 DEF SignalEnd, Leave
<1>17. CASE BuildEnds
  BY <1>17 DEF BuildEnds
<1>18. CASE Beat
  BY <1>18 DEF Beat
<1>19. CASE Cancel
  BY <1>19 DEF Cancel
<1>20. CASE TakeReverseHeartBeat
  BY <1>20 DEF TakeReverseHeartBeat
<1>21. CASE Tick
  BY <1>21 DEF Tick, Advance
<1>22. QED
  BY <1>1, <1>2, <1>3, <1>4, <1>5, <1>6, <1>7, <1>8, <1>9, <1>10, <1>11, <1>12, <1>13,
     <1>14, <1>15, <1>16, <1>17, <1>18, <1>19, <1>20, <1>21
     DEF CallNext, MainThread, Processing, Client

LEMMA CallInvStep == CallInv /\ CallNext => CallInv'
BY CallFlagsStep, CallTypesStep, SilenceInvStep DEF CallInv

LEMMA CallInvStutters == CallInv /\ UNCHANGED callVars => CallInv'
BY DEF CallInv, CallFlags, CallTypes, SilenceInv, Watching, callVars, mainVars, childVars, timers,
       clientVars

LEMMA CallInvInit == CallInit \/ NoCall => CallInv
<1> SUFFICES ASSUME CallInit \/ NoCall PROVE CallInv
  OBVIOUS
<1>1. CallFlags
  BY Zenon DEF CallFlags, CallInit, NoCall
<1>2. CallTypes /\ SilenceInv
  BY TimeoutAssumption, PeriodAssumption, MaxBeatsAssumption
     DEF CallInit, NoCall, CallTypes, SilenceInv, Watching, Long, StillActive
<1>3. QED
  BY <1>1, <1>2 DEF CallInv

\* The inductive invariant of one call of tradery::run holds, for any timeout, any
\* period of the test of the heartbeat and any number of heartbeats: the clock of the
\* call never runs ahead of the client's silence.
THEOREM CallInvariance == CallSpec => []CallInv
<1>1. CallInit => CallInv
  BY CallInvInit
<1>2. CallInv /\ [CallNext]_callVars => CallInv'
  BY CallInvStep, CallInvStutters
<1>3. QED
  BY <1>1, <1>2, PTL DEF CallSpec

\* The variables of a call keep their types.
THEOREM CallTypeCorrect == CallSpec => []CallTypeOK
<1>1. CallInv => CallTypeOK
  BY DEF CallInv, CallFlags, CallTypes, CallTypeOK
<1>2. QED
  BY <1>1, CallInvariance, PTL

\* A build is given up for want of a heartbeat only when the client has been silent for
\* longer than the timeout, for every timeout, period and number of heartbeats
\* (timeoutHandler).
THEOREM TimeoutIsSilence == CallSpec => []TimeoutMeansSilence
<1>1. CallInv => TimeoutMeansSilence
  BY DEF CallInv, SilenceInv, TimeoutMeansSilence
<1>2. QED
  BY <1>1, CallInvariance, PTL

-----------------------------------------------------------------------------
(* The sessions of remote clients *)

SessionPc == {"idle", "begin", "lock", "refresh", "post", "loop", "perf", "done"}

\* SessionTypeOK, variable by variable
SessionFlags ==
  /\ token \in [Clients -> BOOLEAN] /\ canceling \in [Clients -> BOOLEAN]
  /\ success \in [Clients -> BOOLEAN] /\ ended \in [Clients -> BOOLEAN]
  /\ failed \in [Clients -> BOOLEAN]

SessionTypes ==
  /\ spc \in [Clients -> SessionPc]
  /\ api \in [Clients -> {"none", "start", "stats", "heartbeat", "cancel", "perf"}]
  /\ again \in [Clients -> 0 .. 1]
  /\ polls \in [Clients -> 0 .. Polls]
  /\ okBeats \in [Clients -> 0 .. MaxOkBeats]
  /\ attempts \in [Clients -> 0 .. MaxRetries]
  /\ mutex \in SUBSET Clients

\* The caller's outcome is what the listeners were told, they are told at the end and only
\* then, and of one outcome.
OutcomeInv == \A c \in Clients :
  /\ success[c] <=> ended[c]
  /\ ended[c] \/ failed[c] <=> spc[c] = "done"
  /\ ~(ended[c] /\ failed[c])

\* Who is in request() holds the mutex, which one client holds at most.
MutexInv ==
  /\ RequestsSerialized
  /\ \A c, d \in mutex : c = d

\* A statistics request is made only when the heartbeat is not due.
PollInv == \A c \in Clients :
  api[c] = "stats" /\ spc[c] \in {"lock", "refresh", "post"} => polls[c] < Polls

SessionsInv == SessionFlags /\ SessionTypes /\ OutcomeInv /\ MutexInv /\ PollInv

SessionAction(c) == StartSession(c) \/ CancelSession(c) \/ SessionStep(c)

LEMMA SessionFlagsStep ==
  ASSUME NEW c \in Clients, SessionFlags, SessionAction(c)
  PROVE  SessionFlags'
<1> USE MaxRetriesAssumption, MaxOkBeatsAssumption, PollsAssumption
<1> USE DEF SessionFlags, RequestThrows, SessionThrows, Fails, Answers, Goes
<1>1. CASE StartSession(c)
  BY <1>1 DEF StartSession
<1>2. CASE CancelSession(c)
  BY <1>2 DEF CancelSession
<1>3. CASE BeginAttempt(c)
  BY <1>3 DEF BeginAttempt, Call
<1>4. CASE RequestLocks(c)
  BY <1>4 DEF RequestLocks
<1>5. CASE Refresh(c)
  BY <1>5 DEF Refresh
<1>6. CASE PostInvalidId(c)
  BY <1>6 DEF PostInvalidId
<1>7. CASE PostFails(c)
  BY <1>7 DEF PostFails
<1>8. CASE Started(c)
  BY <1>8 DEF Started
<1>9. CASE Loop(c)
  BY <1>9 DEF Loop, Call
<1>10. CASE StatsAnswered(c)
  BY <1>10 DEF StatsAnswered
<1>11. CASE HeartBeatAnswered(c)
  BY <1>11 DEF HeartBeatAnswered
<1>12. CASE CancelAnswered(c)
  BY <1>12 DEF CancelAnswered
<1>13. CASE GetStats(c)
  BY <1>13 DEF GetStats, Call
<1>14. CASE PerformanceAnswered(c)
  BY <1>14 DEF PerformanceAnswered
<1>15. QED
  BY <1>1, <1>2, <1>3, <1>4, <1>5, <1>6, <1>7, <1>8, <1>9,
     <1>10, <1>11, <1>12, <1>13, <1>14
     DEF SessionAction, SessionStep

LEMMA SessionTypesStep ==
  ASSUME NEW c \in Clients, SessionTypes, PollInv, SessionAction(c)
  PROVE  SessionTypes'
<1> USE MaxRetriesAssumption, MaxOkBeatsAssumption, PollsAssumption
<1> USE DEF SessionTypes, PollInv, SessionPc,
            RequestThrows, SessionThrows, Fails, Answers, Goes
<1>1. CASE StartSession(c)
  BY <1>1 DEF StartSession
<1>2. CASE CancelSession(c)
  BY <1>2 DEF CancelSession
<1>3. CASE BeginAttempt(c)
  BY <1>3 DEF BeginAttempt, Call
<1>4. CASE RequestLocks(c)
  BY <1>4 DEF RequestLocks
<1>5. CASE Refresh(c)
  BY <1>5 DEF Refresh
<1>6. CASE PostInvalidId(c)
  BY <1>6 DEF PostInvalidId
<1>7. CASE PostFails(c)
  BY <1>7 DEF PostFails
<1>8. CASE Started(c)
  BY <1>8 DEF Started
<1>9. CASE Loop(c)
  BY <1>9 DEF Loop, Call
<1>10. CASE StatsAnswered(c)
  BY <1>10 DEF StatsAnswered
<1>11. CASE HeartBeatAnswered(c)
  BY <1>11 DEF HeartBeatAnswered
<1>12. CASE CancelAnswered(c)
  BY <1>12 DEF CancelAnswered
<1>13. CASE GetStats(c)
  BY <1>13 DEF GetStats, Call
<1>14. CASE PerformanceAnswered(c)
  BY <1>14 DEF PerformanceAnswered
<1>15. QED
  BY <1>1, <1>2, <1>3, <1>4, <1>5, <1>6, <1>7, <1>8, <1>9,
     <1>10, <1>11, <1>12, <1>13, <1>14
     DEF SessionAction, SessionStep

LEMMA OutcomeInvStep ==
  ASSUME NEW c \in Clients, SessionFlags, SessionTypes, OutcomeInv, SessionAction(c)
  PROVE  OutcomeInv'
<1> USE MaxRetriesAssumption, MaxOkBeatsAssumption, PollsAssumption
<1> USE DEF SessionFlags, SessionTypes, OutcomeInv, SessionPc,
            RequestThrows, SessionThrows, Fails, Answers, Goes
<1>1. CASE StartSession(c)
  BY <1>1 DEF StartSession
<1>2. CASE CancelSession(c)
  BY <1>2 DEF CancelSession
<1>3. CASE BeginAttempt(c)
  BY <1>3 DEF BeginAttempt, Call
<1>4. CASE RequestLocks(c)
  BY <1>4 DEF RequestLocks
<1>5. CASE Refresh(c)
  BY <1>5 DEF Refresh
<1>6. CASE PostInvalidId(c)
  BY <1>6 DEF PostInvalidId
<1>7. CASE PostFails(c)
  BY <1>7 DEF PostFails
<1>8. CASE Started(c)
  BY <1>8 DEF Started
<1>9. CASE Loop(c)
  BY <1>9 DEF Loop, Call
<1>10. CASE StatsAnswered(c)
  BY <1>10 DEF StatsAnswered
<1>11. CASE HeartBeatAnswered(c)
  BY <1>11 DEF HeartBeatAnswered
<1>12. CASE CancelAnswered(c)
  BY <1>12 DEF CancelAnswered
<1>13. CASE GetStats(c)
  BY <1>13 DEF GetStats, Call
<1>14. CASE PerformanceAnswered(c)
  BY <1>14 DEF PerformanceAnswered
<1>15. QED
  BY <1>1, <1>2, <1>3, <1>4, <1>5, <1>6, <1>7, <1>8, <1>9,
     <1>10, <1>11, <1>12, <1>13, <1>14
     DEF SessionAction, SessionStep

LEMMA MutexInvStep ==
  ASSUME NEW c \in Clients, SessionTypes, MutexInv, SessionAction(c)
  PROVE  MutexInv'
<1> USE MaxRetriesAssumption, MaxOkBeatsAssumption, PollsAssumption
<1> USE DEF SessionTypes, MutexInv, RequestsSerialized, SessionPc,
            RequestThrows, SessionThrows, Fails, Answers, Goes
<1>1. CASE StartSession(c)
  BY <1>1 DEF StartSession
<1>2. CASE CancelSession(c)
  BY <1>2 DEF CancelSession
<1>3. CASE BeginAttempt(c)
  BY <1>3 DEF BeginAttempt, Call
<1>4. CASE RequestLocks(c)
  BY <1>4 DEF RequestLocks
<1>5. CASE Refresh(c)
  BY <1>5 DEF Refresh
<1>6. CASE PostInvalidId(c)
  BY <1>6 DEF PostInvalidId
<1>7. CASE PostFails(c)
  BY <1>7 DEF PostFails
<1>8. CASE Started(c)
  BY <1>8 DEF Started
<1>9. CASE Loop(c)
  BY <1>9 DEF Loop, Call
<1>10. CASE StatsAnswered(c)
  BY <1>10 DEF StatsAnswered
<1>11. CASE HeartBeatAnswered(c)
  BY <1>11 DEF HeartBeatAnswered
<1>12. CASE CancelAnswered(c)
  BY <1>12 DEF CancelAnswered
<1>13. CASE GetStats(c)
  BY <1>13 DEF GetStats, Call
<1>14. CASE PerformanceAnswered(c)
  BY <1>14 DEF PerformanceAnswered
<1>15. QED
  BY <1>1, <1>2, <1>3, <1>4, <1>5, <1>6, <1>7, <1>8, <1>9,
     <1>10, <1>11, <1>12, <1>13, <1>14
     DEF SessionAction, SessionStep

LEMMA PollInvStep ==
  ASSUME NEW c \in Clients, SessionTypes, PollInv, SessionAction(c)
  PROVE  PollInv'
<1> USE MaxRetriesAssumption, MaxOkBeatsAssumption, PollsAssumption
<1> USE DEF SessionTypes, PollInv, SessionPc,
            RequestThrows, SessionThrows, Fails, Answers, Goes
<1>1. CASE StartSession(c)
  BY <1>1 DEF StartSession
<1>2. CASE CancelSession(c)
  BY <1>2 DEF CancelSession
<1>3. CASE BeginAttempt(c)
  BY <1>3 DEF BeginAttempt, Call
<1>4. CASE RequestLocks(c)
  BY <1>4 DEF RequestLocks
<1>5. CASE Refresh(c)
  BY <1>5 DEF Refresh
<1>6. CASE PostInvalidId(c)
  BY <1>6 DEF PostInvalidId
<1>7. CASE PostFails(c)
  BY <1>7 DEF PostFails
<1>8. CASE Started(c)
  BY <1>8 DEF Started
<1>9. CASE Loop(c)
  BY <1>9 DEF Loop, Call
<1>10. CASE StatsAnswered(c)
  BY <1>10 DEF StatsAnswered
<1>11. CASE HeartBeatAnswered(c)
  BY <1>11 DEF HeartBeatAnswered
<1>12. CASE CancelAnswered(c)
  BY <1>12 DEF CancelAnswered
<1>13. CASE GetStats(c)
  BY <1>13 DEF GetStats, Call
<1>14. CASE PerformanceAnswered(c)
  BY <1>14 DEF PerformanceAnswered
<1>15. QED
  BY <1>1, <1>2, <1>3, <1>4, <1>5, <1>6, <1>7, <1>8, <1>9,
     <1>10, <1>11, <1>12, <1>13, <1>14
     DEF SessionAction, SessionStep

LEMMA SessionsInvStep == SessionsInv /\ SessionNext => SessionsInv'
<1> SUFFICES ASSUME SessionsInv, NEW c \in Clients, SessionAction(c) PROVE SessionsInv'
  BY DEF SessionNext, SessionAction
<1>1. QED
  BY SessionFlagsStep, SessionTypesStep, OutcomeInvStep, MutexInvStep, PollInvStep
     DEF SessionsInv

LEMMA SessionsInvStutters == SessionsInv /\ UNCHANGED sessionVars => SessionsInv'
BY DEF SessionsInv, SessionFlags, SessionTypes, OutcomeInv, MutexInv, RequestsSerialized,
       PollInv, sessionVars

LEMMA SessionsInvInit == SessionInit => SessionsInv
BY MaxRetriesAssumption, MaxOkBeatsAssumption, PollsAssumption
   DEF SessionInit, SessionsInv, SessionFlags, SessionTypes, SessionPc, OutcomeInv, MutexInv,
       RequestsSerialized, PollInv

\* The inductive invariant of the remote sessions holds, for any number of sessions on
\* one connection, any number of retries and any answers of the server: what a session
\* has told its handler follows from where its thread is.
THEOREM SessionsInvariance == SessionSpec => []SessionsInv
<1>1. SessionsInv /\ [SessionNext]_sessionVars => SessionsInv'
  BY SessionsInvStep, SessionsInvStutters
<1>2. QED
  BY <1>1, SessionsInvInit, PTL DEF SessionSpec

\* The listeners of a session are told once how it ended, and the caller sees the same
\* outcome, whatever the server answers to any number of clients and however often an
\* attempt is made again (TraderySession::run, OptimizerTraderySession).
THEOREM OutcomeIsReportedOnce == SessionSpec => []OutcomeReportedOnce
<1>1. SessionsInv => OutcomeReportedOnce
  BY MaxRetriesAssumption
     DEF SessionsInv, SessionFlags, SessionTypes, OutcomeInv, OutcomeReportedOnce
<1>2. QED
  BY <1>1, SessionsInvariance, PTL

\* A client in request() holds the mutex of all connections, no other client does, and who
\* has left request(), by an exception too, holds it no more.
THEOREM RequestsAreSerialized ==
  SessionSpec => [](RequestsSerialized /\ \A c, d \in mutex : c = d)
<1>1. SessionsInv => RequestsSerialized /\ \A c, d \in mutex : c = d
  BY DEF SessionsInv, MutexInv
<1>2. QED
  BY <1>1, SessionsInvariance, PTL

-----------------------------------------------------------------------------
(* The optimizer: the lemmas about its operators *)

\* A finite set of results that is not empty has a greatest one: BestResult is defined.
LEMMA MaxIsMember ==
  ASSUME NEW S \in SUBSET Int, IsFiniteSet(S), S # {}
  PROVE  Max(S) \in S /\ \A y \in S : Max(S) >= y
<1> DEFINE Above(x) == {y \in S : y > x}
<1>1. FiniteSubsetsOf(S) = SUBSET S
  BY FS_FiniteSubsetsOfFinite
<1>2. IsWellFoundedOn(StrictSubsetOrdering(S), SUBSET S)
  BY <1>1, FS_StrictSubsetOrderingWellFounded
<1> DEFINE T == {Above(x) : x \in S}
<1>3. T \subseteq SUBSET S /\ T # {}
  OBVIOUS
<1> HIDE DEF T
<1>4. PICK A \in T : \A B \in T : <<B, A>> \notin StrictSubsetOrdering(S)
  BY <1>2, <1>3, WFMin
<1>5. PICK x \in S : A = Above(x)
  BY DEF T
<1>6. ASSUME NEW y \in S, ~(x >= y) PROVE FALSE
  <2>0. x \in Int /\ y \in Int /\ y > x /\ \A z \in S : z \in Int
    BY <1>6
  <2>1. Above(y) \subseteq Above(x) /\ y \in Above(x) /\ y \notin Above(y)
    <3>1. ASSUME NEW z \in S, z > y PROVE z > x
      BY <2>0, <3>1
    <3>2. y > x /\ ~(y > y)
      BY <2>0
    <3>3. QED
      BY <3>1, <3>2
  <2>2. Above(y) \in T
    BY DEF T
  <2>3. <<Above(y), A>> \in StrictSubsetOrdering(S)
    BY <2>1, <1>5 DEF StrictSubsetOrdering
  <2>4. QED
    BY <2>2, <2>3, <1>4
<1>7. \A y \in S : x >= y
  BY <1>6
<1>8. QED
  BY <1>7 DEF Max

\* How often r is in a queue.
Times(q, r) == {i \in DOMAIN q : q[i] = r}

LEMMA TimesFinite ==
  ASSUME NEW R, NEW q \in Seq(R), NEW r
  PROVE  IsFiniteSet(Times(q, r)) /\ Cardinality(Times(q, r)) \in Nat
<1>1. IsFiniteSet(1 .. Len(q)) /\ Times(q, r) \in SUBSET (1 .. Len(q))
  BY FS_Interval DEF Times
<1>2. QED
  BY <1>1, FS_Subset, FS_CardinalityType

\* pop takes one of what it returns, and none of anything else.
LEMMA TimesOfTail ==
  ASSUME NEW R, NEW q \in Seq(R), q # <<>>, NEW r
  PROVE  Cardinality(Times(q, r))
           = Cardinality(Times(Tail(q), r)) + (IF Head(q) = r THEN 1 ELSE 0)
<1> DEFINE S == Times(q, r) \ {1}
<1> DEFINE T == Times(Tail(q), r)
<1> DEFINE f == [i \in T |-> i + 1]
<1>1. /\ Tail(q) \in Seq(R) /\ Len(Tail(q)) = Len(q) - 1 /\ Len(q) \in Nat \ {0}
      /\ \A i \in 1 .. Len(q) - 1 : Tail(q)[i] = q[i + 1]
  OBVIOUS
<1>2. T = {i \in 1 .. Len(q) - 1 : q[i + 1] = r}
  BY <1>1 DEF Times
<1>3. S = {i \in 2 .. Len(q) : q[i] = r}
  BY <1>1 DEF Times
<1>4. f \in [T -> S] /\ \A i, j \in T : f[i] = f[j] => i = j
  BY <1>1, <1>2, <1>3
<1>5. \A j \in S : j - 1 \in T /\ f[j - 1] = j
  BY <1>1, <1>2, <1>3
<1>6. ExistsBijection(T, S)
  <2>1. DOMAIN f = T /\ \A j \in S : \E i \in T : f[i] = j
    BY <1>5
  <2> HIDE DEF f, S, T
  <2>2. f \in Bijection(T, S)
    BY <1>4, <2>1 DEF Bijection, Injection, IsInjective, Surjection
  <2>3. QED
    BY <2>2 DEF ExistsBijection
<1>7. IsFiniteSet(T) /\ IsFiniteSet(Times(q, r)) /\ Cardinality(Times(q, r)) \in Nat
  BY <1>1, TimesFinite
<1>8. Cardinality(S) = Cardinality(T)
  BY <1>6, <1>7, FS_Bijection
<1>9. Cardinality(S) = IF 1 \in Times(q, r) THEN Cardinality(Times(q, r)) - 1
                       ELSE Cardinality(Times(q, r))
  BY <1>7, FS_RemoveElement
<1>10. 1 \in Times(q, r) <=> Head(q) = r
  BY <1>1 DEF Times
<1>11. QED
  BY <1>7, <1>8, <1>9, <1>10

\* The tasks that are pushed for a new region are as many as it has.
LEMMA TimesOfNew ==
  ASSUME NEW R, NEW q \in Seq(R), NEW n \in Nat, NEW r, r \notin R
  PROVE  Cardinality(Times(q \o [i \in 1 .. n |-> r], r)) = n
<1>1. Times(q \o [i \in 1 .. n |-> r], r) = (Len(q) + 1) .. (Len(q) + n)
  BY DEF Times
<1>2. Len(q) \in Nat
  OBVIOUS
<1>3. QED
  BY <1>1, <1>2, FS_Interval

-----------------------------------------------------------------------------
(* The optimizer: its invariant *)

\* SearchTypeOK, variable by variable; the regions are those made so far.
SearchFlags == stop \in BOOLEAN /\ crashed \in BOOLEAN

SearchTypes ==
  /\ queue \in Seq(1 .. region)
  /\ ppc \in [Processors -> {"empty", "pop", "run", "report", "failed", "stopped"}]
  /\ task \in [Processors -> 0 .. region]
  /\ value \in [Processors -> Values \cup {NoValue}]
  /\ mpc \in {"loop", "wait", "candidate", "analyze", "add", "waitAll", "stop", "join",
              "done"}
  /\ total \in Nat /\ region \in Nat
  /\ toDo \in [Regions -> Int]
  /\ better \in [Regions -> SUBSET Values]
  /\ done \in [Regions -> Seq(Values)]
  /\ result \in Values \cup {NoValue}

\* A thread has a task in hand from pop to setResult, and a value when it reports.
ProcInv == \A p \in Processors :
  /\ task[p] = 0 <=> ppc[p] \in {"empty", "pop", "stopped"}
  /\ ppc[p] = "report" => value[p] \in Values

\* A turn of the loop makes two regions at most, and counts one task at least.
RegionInv ==
  /\ region <= 2 * MaxTasks
  /\ mpc = "loop" => region <= 2 * total
  /\ mpc \in {"wait", "candidate", "analyze"} =>
       region >= 1 /\ region < 2 * MaxTasks /\ region <= 2 * total + 1
  /\ mpc \in {"add", "waitAll"} => region >= 2 /\ region <= 2 * total + 2

\* The better results of a region are finitely many, and where the best of them is asked
\* for there is one.
BetterInv ==
  /\ \A r \in Regions : IsFiniteSet(better[r])
  /\ mpc = "analyze" => better[region] # {}
  /\ mpc = "add" => better[region - 1] # {}

AccountInv == mpc \in {"wait", "add", "waitAll"} =>
  toDo[region] = Cardinality(Times(queue, region)) + Cardinality(Held(region))

SearchInv ==
  SearchFlags /\ SearchTypes /\ ProcInv /\ RegionInv /\ BetterInv /\ AccountInv

SearchAction(p) == (p \in Processors /\ Processor(p)) \/ Search

LEMMA RegionsMade ==
  ASSUME SearchTypes, RegionInv
  PROVE  /\ \A r \in 1 .. region : r \in Regions
         /\ mpc \in {"loop", "wait", "candidate", "analyze"} /\ (mpc = "loop" => total < MaxTasks)
              => region + 1 \in Regions
         /\ mpc \in {"wait", "candidate", "analyze", "add", "waitAll"} => region \in Regions
         /\ mpc \in {"add", "waitAll"} => region - 1 \in Regions
BY CountsAssumption DEF SearchTypes, RegionInv, Regions

LEMMA SeqOfMore ==
  ASSUME NEW S, NEW T, S \subseteq T, NEW q \in Seq(S)
  PROVE  q \in Seq(T)
OBVIOUS

LEMMA CountType == Count \in Nat
BY ProcessorsAssumption, FS_CardinalityType DEF Count

LEMMA BestResultIsValue ==
  ASSUME SearchTypes, BetterInv, NEW r \in Regions, better[r] # {}
  PROVE  BestResult(r) \in Values
<1>1. better[r] \in SUBSET Int /\ better[r] \subseteq Values /\ IsFiniteSet(better[r])
  BY ValuesAssumption DEF SearchTypes, BetterInv
<1>2. QED
  BY <1>1, MaxIsMember DEF BestResult

LEMMA SearchFlagsStep ==
  ASSUME NEW p, SearchFlags, SearchAction(p)
  PROVE  SearchFlags'
<1> USE CountsAssumption
<1> USE DEF SearchFlags, procVars, searchVars
<1>1. CASE p \in Processors /\ CheckQueue(p)
  BY <1>1 DEF CheckQueue
<1>2. CASE p \in Processors /\ Pop(p)
  BY <1>2 DEF Pop
<1>3. CASE p \in Processors /\ RunTask(p)
  BY <1>3 DEF RunTask
<1>4. CASE p \in Processors /\ Report(p)
  BY <1>4 DEF Report
<1>5. CASE NewRegion
  BY <1>5 DEF NewRegion, Generate
<1>6. CASE GiveUp
  BY <1>6 DEF GiveUp
<1>7. CASE WaitForBetter
  BY <1>7 DEF WaitForBetter
<1>8. CASE Candidate
  BY <1>8 DEF Candidate
<1>9. CASE Analyze
  BY <1>9 DEF Analyze, Generate
<1>10. CASE AddBest
  BY <1>10 DEF AddBest
<1>11. CASE WaitForAll
  BY <1>11 DEF WaitForAll
<1>12. CASE StopProcessors
  BY <1>12 DEF StopProcessors
<1>13. CASE Join
  BY <1>13 DEF Join
<1>14. QED
  BY <1>1, <1>2, <1>3, <1>4, <1>5, <1>6, <1>7, <1>8,
     <1>9, <1>10, <1>11, <1>12, <1>13
     DEF SearchAction, Processor, Search

LEMMA SearchTypesStep ==
  ASSUME NEW p, SearchTypes, ProcInv, RegionInv, BetterInv, SearchAction(p)
  PROVE  SearchTypes'
<1> USE CountType, CountsAssumption, RegionsMade, SeqOfMore
<1> USE DEF SearchTypes, ProcInv, procVars, searchVars
<1>1. CASE p \in Processors /\ CheckQueue(p)
  BY <1>1 DEF CheckQueue
<1>2. CASE p \in Processors /\ Pop(p)
  <2>1. CASE queue # <<>>
    <3>1. Head(queue) \in 1 .. region /\ Tail(queue) \in Seq(1 .. region)
      BY <2>1
    <3>2. task' = [task EXCEPT ![p] = Head(queue)] /\ queue' = Tail(queue) /\ region' = region
      BY <2>1, <1>2 DEF Pop
    <3>3. task' \in [Processors -> 0 .. region'] /\ queue' \in Seq(1 .. region')
      BY <3>1, <3>2, <1>2
    <3>4. ppc' \in [Processors -> {"empty", "pop", "run", "report", "failed", "stopped"}]
      BY <1>2 DEF Pop
    <3>5. QED
      BY <3>3, <3>4, <1>2 DEF Pop
  <2>2. CASE queue = <<>>
    BY <2>2, <1>2 DEF Pop
  <2>3. QED
    BY <2>1, <2>2
<1>3. CASE p \in Processors /\ RunTask(p)
  BY <1>3 DEF RunTask
<1>4. CASE p \in Processors /\ Report(p)
  <2>1. ppc[p] = "report"
    BY <1>4 DEF Report
  <2>2. /\ task[p] \in 0 .. region /\ task[p] # 0 /\ value[p] \in Values
        /\ region \in Nat
    BY <2>1, <1>4
  <2>3. task[p] \in 1 .. region
    BY <2>2
  <2>4. task[p] \in Regions /\ value[p] \in Values
    BY <2>2, <2>3
  <2>5. done' \in [Regions -> Seq(Values)] /\ toDo' \in [Regions -> Int]
        /\ better' \in [Regions -> SUBSET Values]
    BY <2>4, <1>4 DEF Report
  <2>6. task' \in [Processors -> 0 .. region] /\ region' = region
    BY <1>4 DEF Report
  <2>7. QED
    BY <2>5, <2>6, <1>4 DEF Report
<1>5. CASE NewRegion
  BY <1>5 DEF NewRegion, Generate
<1>6. CASE GiveUp
  BY <1>6 DEF GiveUp
<1>7. CASE WaitForBetter
  BY <1>7 DEF WaitForBetter
<1>8. CASE Candidate
  BY <1>8 DEF Candidate
<1>9. CASE Analyze
  <2>1. region + 1 \in Regions /\ region \in Nat
    BY <1>9 DEF Analyze
  <2>2. toDo' \in [Regions -> Int] /\ mpc' = "add" /\ region' = region + 1
    BY <2>1, <1>9 DEF Analyze, Generate
  <2>3. queue' \in Seq(1 .. region') /\ task' \in [Processors -> 0 .. region']
    <3>1. 1 .. region \subseteq 1 .. region' /\ region' \in 1 .. region'
      BY <2>1, <2>2
    <3>2. queue \in Seq(1 .. region') /\ [i \in 1 .. RegionTasks |-> region'] \in Seq(1 .. region')
      BY <3>1
    <3>3. queue' = queue \o [i \in 1 .. RegionTasks |-> region'] /\ task' = task
      BY <2>2, <1>9 DEF Analyze, Generate
    <3>4. QED
      BY <2>1, <2>2, <3>2, <3>3
  <2>4. QED
    BY <2>2, <2>3, <1>9 DEF Analyze
<1>10. CASE AddBest
  <2>1. region \in Regions /\ region - 1 \in Regions /\ better[region - 1] # {}
    BY <1>10 DEF AddBest, BetterInv
  <2>2. BestResult(region - 1) \in Values
    BY <2>1, BestResultIsValue
  <2>3. done' \in [Regions -> Seq(Values)]
    BY <2>1, <2>2, <1>10 DEF AddBest
  <2>4. QED
    BY <2>3, <1>10 DEF AddBest
<1>11. CASE WaitForAll
  <2>1. region \in Regions
    BY <1>11 DEF WaitForAll
  <2>2. better[region] # {} => BestResult(region) \in Values
    BY <2>1, BestResultIsValue
  <2>3. result' \in Values \cup {NoValue} /\ mpc' \in {"stop", "loop"} /\ total' \in Nat
    BY <2>2, <1>11 DEF WaitForAll
  <2>4. QED
    BY <2>3, <1>11 DEF WaitForAll
<1>12. CASE StopProcessors
  BY <1>12 DEF StopProcessors
<1>13. CASE Join
  BY <1>13 DEF Join
<1>14. QED
  BY <1>1, <1>2, <1>3, <1>4, <1>5, <1>6, <1>7, <1>8,
     <1>9, <1>10, <1>11, <1>12, <1>13
     DEF SearchAction, Processor, Search

LEMMA ProcInvStep ==
  ASSUME NEW p, SearchTypes, ProcInv, SearchAction(p)
  PROVE  ProcInv'
<1> USE CountsAssumption
<1> USE DEF SearchTypes, ProcInv, procVars, searchVars
<1>1. CASE p \in Processors /\ CheckQueue(p)
  BY <1>1 DEF CheckQueue
<1>2. CASE p \in Processors /\ Pop(p)
  BY <1>2 DEF Pop
<1>3. CASE p \in Processors /\ RunTask(p)
  BY <1>3 DEF RunTask
<1>4. CASE p \in Processors /\ Report(p)
  BY <1>4 DEF Report
<1>5. CASE NewRegion
  BY <1>5 DEF NewRegion, Generate
<1>6. CASE GiveUp
  BY <1>6 DEF GiveUp
<1>7. CASE WaitForBetter
  BY <1>7 DEF WaitForBetter
<1>8. CASE Candidate
  BY <1>8 DEF Candidate
<1>9. CASE Analyze
  BY <1>9 DEF Analyze, Generate
<1>10. CASE AddBest
  BY <1>10 DEF AddBest
<1>11. CASE WaitForAll
  BY <1>11 DEF WaitForAll
<1>12. CASE StopProcessors
  BY <1>12 DEF StopProcessors
<1>13. CASE Join
  BY <1>13 DEF Join
<1>14. QED
  BY <1>1, <1>2, <1>3, <1>4, <1>5, <1>6, <1>7, <1>8,
     <1>9, <1>10, <1>11, <1>12, <1>13
     DEF SearchAction, Processor, Search

LEMMA RegionInvStep ==
  ASSUME NEW p, SearchTypes, RegionInv, SearchAction(p)
  PROVE  RegionInv'
<1> USE CountType, CountsAssumption
<1> USE DEF SearchTypes, RegionInv, procVars, searchVars
<1>1. CASE p \in Processors /\ CheckQueue(p)
  BY <1>1 DEF CheckQueue
<1>2. CASE p \in Processors /\ Pop(p)
  BY <1>2 DEF Pop
<1>3. CASE p \in Processors /\ RunTask(p)
  BY <1>3 DEF RunTask
<1>4. CASE p \in Processors /\ Report(p)
  BY <1>4 DEF Report
<1>5. CASE NewRegion
  BY <1>5 DEF NewRegion, Generate
<1>6. CASE GiveUp
  BY <1>6 DEF GiveUp
<1>7. CASE WaitForBetter
  BY <1>7 DEF WaitForBetter
<1>8. CASE Candidate
  BY <1>8 DEF Candidate
<1>9. CASE Analyze
  BY <1>9 DEF Analyze, Generate
<1>10. CASE AddBest
  BY <1>10 DEF AddBest
<1>11. CASE WaitForAll
  <2>1. /\ mpc' = "stop" \/ (mpc' = "loop" /\ total' = total + 1)
        /\ region' = region /\ mpc = "waitAll"
    BY <1>11 DEF WaitForAll
  <2>2. QED
    BY <2>1
<1>12. CASE StopProcessors
  BY <1>12 DEF StopProcessors
<1>13. CASE Join
  BY <1>13 DEF Join
<1>14. QED
  BY <1>1, <1>2, <1>3, <1>4, <1>5, <1>6, <1>7, <1>8,
     <1>9, <1>10, <1>11, <1>12, <1>13
     DEF SearchAction, Processor, Search

LEMMA BetterInvStep ==
  ASSUME NEW p, SearchTypes, ProcInv, RegionInv, BetterInv, SearchAction(p)
  PROVE  BetterInv'
<1> USE RegionsMade, FS_AddElement
<1> USE DEF SearchTypes, ProcInv, BetterInv, procVars, searchVars
<1>1. CASE p \in Processors /\ CheckQueue(p)
  BY <1>1 DEF CheckQueue
<1>2. CASE p \in Processors /\ Pop(p)
  BY <1>2 DEF Pop
<1>3. CASE p \in Processors /\ RunTask(p)
  BY <1>3 DEF RunTask
<1>4. CASE p \in Processors /\ Report(p)
  BY <1>4 DEF Report
<1>5. CASE NewRegion
  BY <1>5 DEF NewRegion, Generate
<1>6. CASE GiveUp
  BY <1>6 DEF GiveUp
<1>7. CASE WaitForBetter
  BY <1>7 DEF WaitForBetter
<1>8. CASE Candidate
  BY <1>8 DEF Candidate
<1>9. CASE Analyze
  BY <1>9 DEF Analyze, Generate
<1>10. CASE AddBest
  BY <1>10 DEF AddBest
<1>11. CASE WaitForAll
  <2>1. mpc' \in {"stop", "loop"} /\ better' = better
    BY <1>11 DEF WaitForAll
  <2>2. QED
    BY <2>1
<1>12. CASE StopProcessors
  BY <1>12 DEF StopProcessors
<1>13. CASE Join
  BY <1>13 DEF Join
<1>14. QED
  BY <1>1, <1>2, <1>3, <1>4, <1>5, <1>6, <1>7, <1>8,
     <1>9, <1>10, <1>11, <1>12, <1>13
     DEF SearchAction, Processor, Search

LEMMA HeldFinite ==
  ASSUME NEW r
  PROVE  IsFiniteSet(Held(r)) /\ Cardinality(Held(r)) \in Nat
BY ProcessorsAssumption, FS_Subset, FS_CardinalityType DEF Held

LEMMA AccountInvStep ==
  ASSUME NEW p, SearchTypes, ProcInv, RegionInv, AccountInv, SearchAction(p)
  PROVE  AccountInv'
<1> USE CountType, CountsAssumption, RegionsMade, HeldFinite, TimesFinite
<1> USE DEF procVars, searchVars
<1>1. CASE p \in Processors /\ CheckQueue(p)
  BY <1>1 DEF CheckQueue, AccountInv, Held
<1>2. CASE p \in Processors /\ Pop(p)
  <2> SUFFICES ASSUME mpc \in {"wait", "add", "waitAll"}
               PROVE  (toDo[region] = Cardinality(Times(queue, region))
                                       + Cardinality(Held(region)))'
    BY <1>2 DEF Pop, AccountInv
  <2>1. toDo' = toDo /\ region' = region /\ ppc[p] = "pop" /\ region # 0
    BY <1>2 DEF Pop, RegionInv
  <2>2. CASE queue # <<>>
    <3>1. queue' = Tail(queue) /\ task' = [task EXCEPT ![p] = Head(queue)] /\ task[p] = 0
      BY <2>1, <2>2, <1>2 DEF Pop, ProcInv
    <3>2. Cardinality(Times(queue, region))
            = Cardinality(Times(Tail(queue), region)) + (IF Head(queue) = region THEN 1 ELSE 0)
      BY <2>2, TimesOfTail DEF SearchTypes
    <3>3. Held(region)' = IF Head(queue) = region THEN Held(region) \cup {p} ELSE Held(region)
      BY <2>1, <3>1, <1>2 DEF Held, SearchTypes
    <3>4. p \notin Held(region)
      BY <2>1, <3>1 DEF Held
    <3>5. Cardinality(Held(region)')
            = Cardinality(Held(region)) + (IF Head(queue) = region THEN 1 ELSE 0)
      <4>1. Cardinality(Held(region) \cup {p}) = Cardinality(Held(region)) + 1
        BY <3>4, HeldFinite, FS_AddElement
      <4>2. QED
        BY <3>3, <4>1, HeldFinite
    <3>6. Tail(queue) \in Seq(1 .. region)
      BY <2>2 DEF SearchTypes
    <3>7. Cardinality(Times(Tail(queue), region)) \in Nat
      BY <3>6, TimesFinite
    <3>8. QED
      BY <2>1, <3>1, <3>2, <3>5, <3>7 DEF AccountInv
  <2>3. CASE queue = <<>>
    BY <2>1, <2>3, <1>2 DEF Pop, AccountInv, Held
  <2>4. QED
    BY <2>2, <2>3
<1>3. CASE p \in Processors /\ RunTask(p)
  BY <1>3 DEF RunTask, AccountInv, Held
<1>4. CASE p \in Processors /\ Report(p)
  <2> SUFFICES ASSUME mpc \in {"wait", "add", "waitAll"}
               PROVE  (toDo[region] = Cardinality(Times(queue, region))
                                       + Cardinality(Held(region)))'
    BY <1>4 DEF Report, AccountInv
  <2>1. /\ region' = region /\ region \in Regions /\ region # 0 /\ queue' = queue
        /\ task' = [task EXCEPT ![p] = 0]
        /\ toDo' = [toDo EXCEPT ![task[p]] = toDo[task[p]] - 1]
    BY <1>4 DEF Report, RegionInv
  <2>2. toDo'[region] = toDo[region] - (IF task[p] = region THEN 1 ELSE 0)
        /\ toDo[region] \in Int
    BY <2>1 DEF SearchTypes
  <2>3. Held(region)' = Held(region) \ {p} /\ (p \in Held(region) <=> task[p] = region)
    BY <2>1, <1>4 DEF Held, SearchTypes
  <2>4. Cardinality(Held(region)')
          = Cardinality(Held(region)) - (IF task[p] = region THEN 1 ELSE 0)
    <3>1. Cardinality(Held(region) \ {p})
            = IF p \in Held(region) THEN Cardinality(Held(region)) - 1
              ELSE Cardinality(Held(region))
      BY HeldFinite, FS_RemoveElement
    <3>2. QED
      BY <2>3, <3>1, HeldFinite
  <2>5. Cardinality(Times(queue, region)) \in Nat
    BY TimesFinite DEF SearchTypes
  <2>6. QED
    BY <2>1, <2>2, <2>4, <2>5 DEF AccountInv
<1>5. CASE NewRegion
  <2>1. /\ region \in Nat /\ region + 1 \in Regions /\ region' = region + 1
        /\ toDo' = [toDo EXCEPT ![region + 1] = Count]
        /\ queue' = queue \o [i \in 1 .. Count |-> region + 1]
        /\ task' = task
    BY <1>5 DEF NewRegion, Generate, SearchTypes
  <2>2. toDo'[region'] = Count
    BY <2>1 DEF SearchTypes
  <2>3. Cardinality(Times(queue, region))' = Count
    <3>1. region + 1 \notin 1 .. region /\ queue \in Seq(1 .. region) /\ Count \in Nat
      BY <2>1 DEF SearchTypes
    <3>2. Cardinality(Times(queue \o [i \in 1 .. Count |-> region + 1], region + 1)) = Count
      BY <3>1, TimesOfNew
    <3>3. QED
      BY <2>1, <3>2
  <2>4. Held(region)' = {}
    BY <2>1 DEF Held, SearchTypes
  <2>5. QED
    BY <2>2, <2>3, <2>4, FS_EmptySet DEF AccountInv
<1>6. CASE GiveUp
  BY <1>6 DEF GiveUp, AccountInv
<1>7. CASE WaitForBetter
  BY <1>7 DEF WaitForBetter, AccountInv
<1>8. CASE Candidate
  BY <1>8 DEF Candidate, AccountInv
<1>9. CASE Analyze
  <2>1. /\ region \in Nat /\ region + 1 \in Regions /\ region' = region + 1
        /\ toDo' = [toDo EXCEPT ![region + 1] = RegionTasks]
        /\ queue' = queue \o [i \in 1 .. RegionTasks |-> region + 1]
        /\ task' = task
    BY <1>9 DEF Analyze, Generate, SearchTypes
  <2>2. toDo'[region'] = RegionTasks
    BY <2>1 DEF SearchTypes
  <2>3. Cardinality(Times(queue, region))' = RegionTasks
    <3>1. region + 1 \notin 1 .. region /\ queue \in Seq(1 .. region) /\ RegionTasks \in Nat
      BY <2>1 DEF SearchTypes
    <3>2. Cardinality(Times(queue \o [i \in 1 .. RegionTasks |-> region + 1], region + 1)) = RegionTasks
      BY <3>1, TimesOfNew
    <3>3. QED
      BY <2>1, <3>2
  <2>4. Held(region)' = {}
    BY <2>1 DEF Held, SearchTypes
  <2>5. QED
    BY <2>2, <2>3, <2>4, FS_EmptySet DEF AccountInv
<1>10. CASE AddBest
  BY <1>10 DEF AddBest, AccountInv, Held
<1>11. CASE WaitForAll
  <2>1. mpc' = "stop" \/ mpc' = "loop"
    BY <1>11 DEF WaitForAll
  <2>2. QED
    BY <2>1 DEF AccountInv
<1>12. CASE StopProcessors
  BY <1>12 DEF StopProcessors, AccountInv
<1>13. CASE Join
  BY <1>13 DEF Join, AccountInv
<1>14. QED
  BY <1>1, <1>2, <1>3, <1>4, <1>5, <1>6, <1>7, <1>8,
     <1>9, <1>10, <1>11, <1>12, <1>13
     DEF SearchAction, Processor, Search

LEMMA SearchInvStep == SearchInv /\ SearchNext => SearchInv'
<1> SUFFICES ASSUME SearchInv, NEW p, SearchAction(p) PROVE SearchInv'
  BY DEF SearchNext, SearchAction
<1>1. QED
  BY SearchFlagsStep, SearchTypesStep, ProcInvStep, RegionInvStep, BetterInvStep,
     AccountInvStep DEF SearchInv

LEMMA SearchInvStutters == SearchInv /\ UNCHANGED optimizerVars => SearchInv'
BY DEF SearchInv, SearchFlags, SearchTypes, ProcInv, RegionInv, BetterInv, AccountInv, Held,
       Times, optimizerVars, procVars, searchVars

LEMMA SearchInvInit == SearchInit => SearchInv
<1> SUFFICES ASSUME SearchInit PROVE SearchInv
  OBVIOUS
<1>1. SearchFlags
  BY Zenon DEF SearchInit, SearchFlags
<1>2. SearchTypes /\ RegionInv /\ AccountInv
  BY CountsAssumption DEF SearchInit, SearchTypes, RegionInv, AccountInv
<1>3. ProcInv /\ BetterInv
  BY FS_EmptySet DEF SearchInit, ProcInv, BetterInv
<1>4. QED
  BY <1>1, <1>2, <1>3 DEF SearchInv

\* The inductive invariant of the search holds, for any number of regions, tasks and
\* threads: every task is in the queue, with one thread, or in the counts.
THEOREM SearchInvariance == SearchSpec => []SearchInv
<1>1. SearchInv /\ [SearchNext]_optimizerVars => SearchInv'
  BY SearchInvStep, SearchInvStutters
<1>2. QED
  BY <1>1, SearchInvInit, PTL DEF SearchSpec

\* The variables of the optimizer keep their types; so a result is asked for only of a
\* region that has one (BestResult), and no region is made that there is no room for.
THEOREM SearchTypeCorrect == SearchSpec => []SearchTypeOK
<1>1. SearchInv => SearchTypeOK
  <2> SUFFICES ASSUME SearchInv PROVE SearchTypeOK
    OBVIOUS
  <2>1. \A r \in 0 .. region : r \in Regions \cup {0}
    BY CountsAssumption DEF SearchInv, SearchTypes, RegionInv, Regions
  <2>2. queue \in Seq(Regions) /\ task \in [Processors -> Regions \cup {0}]
    BY <2>1, RegionsMade, SeqOfMore DEF SearchInv, SearchTypes
  <2>3. region \in Regions \cup {0}
    BY <2>1 DEF SearchInv, SearchTypes
  <2>4. QED
    BY <2>2, <2>3 DEF SearchInv, SearchFlags, SearchTypes, SearchTypeOK
<1>2. QED
  BY <1>1, SearchInvariance, PTL

\* The tasks of the region that is waited for are counted right, for any number of threads
\* and tasks: those still to do are in the queue or in the hand of a thread (task.h,
\* TasksRegion).
THEOREM TasksAreAccounted == SearchSpec => []TasksAccounted
<1>1. SearchInv => TasksAccounted
  BY DEF SearchInv, AccountInv, TasksAccounted, Times, Queued
<1>2. QED
  BY <1>1, SearchInvariance, PTL

-----------------------------------------------------------------------------
(* The three programs, of which one runs *)

ProgramsInv == CallInv /\ SessionsInv /\ SearchInv

\* What each program promises holds of all three, whichever runs: the other two, a call
\* that is over among them, stay as they are.
THEOREM ProgramsKeepPromises ==
  Spec => [](TimeoutMeansSilence /\ OutcomeReportedOnce /\ TasksAccounted)
<1>1. Init => ProgramsInv
  BY CallInvInit, SessionsInvInit, SearchInvInit DEF Init, ProgramsInv
<1>2. ProgramsInv /\ [Next]_vars => ProgramsInv'
  BY CallInvStep, SessionsInvStep, SearchInvStep, CallInvStutters, SessionsInvStutters,
     SearchInvStutters
     DEF ProgramsInv, Next, vars, OnlyCall, OnlySessions, OnlySearch
<1>3. ProgramsInv => TimeoutMeansSilence
  BY DEF ProgramsInv, CallInv, SilenceInv, TimeoutMeansSilence
<1>4. ProgramsInv => OutcomeReportedOnce
  BY MaxRetriesAssumption
     DEF ProgramsInv, SessionsInv, SessionFlags, SessionTypes, OutcomeInv, OutcomeReportedOnce
<1>5. ProgramsInv => TasksAccounted
  BY DEF ProgramsInv, SearchInv, AccountInv, TasksAccounted, Times, Queued
<1>6. QED
  BY <1>1, <1>2, <1>3, <1>4, <1>5, PTL DEF Spec
=============================================================================
