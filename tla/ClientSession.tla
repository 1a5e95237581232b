--------------------------- MODULE ClientSession ---------------------------
(***************************************************************************)
(* The sessions that a client of the tradery server runs remotely: a       *)
(* TraderySession thread (traderyapi/TraderySession.cpp, with the run of   *)
(* OptimizerTraderySession.h), and the TraderyConnection through which it  *)
(* sends its requests.  There is one session for each client; their        *)
(* requests share one mutex.  The server is the environment: every answer  *)
(* it could give is possible.                                              *)
(***************************************************************************)
EXTENDS Naturals

CONSTANTS Clients,
          MaxRetries,   \* MAX_RETRIES, 4 in the code
          MaxOkBeats,     \* bound: heartbeats a server answers with "ok"
          Polls         \* statistics requests between two heartbeats, 5

ASSUME MaxRetriesAssumption == MaxRetries \in Nat
ASSUME MaxOkBeatsAssumption == MaxOkBeats \in Nat
ASSUME PollsAssumption == Polls \in Nat \ {0}

VARIABLES spc,       \* where the thread of each session is
          api,       \* the request it makes
          again,     \* the retries left of that request
          token,     \* the session id of its connection is set
          polls,     \* the statistics requests since the last heartbeat
          okBeats,   \* the heartbeats answered with "ok"
          attempts,  \* the attempts to run the session that failed
          canceling, \* m_canceling
          success,   \* m_result
          ended,     \* endOfsession was sent to the listeners
          failed,    \* sessionFailed was sent to the listeners
          mutex      \* who is in TraderyConnection::request, {} or one client

sessionVars == <<spc, api, again, token, polls, okBeats, attempts, canceling,
                 success, ended, failed, mutex>>

SessionInit ==
  /\ spc = [c \in Clients |-> "idle"]
  /\ api = [c \in Clients |-> "none"]
  /\ again = [c \in Clients |-> 0]
  /\ token = [c \in Clients |-> FALSE]
  /\ polls = [c \in Clients |-> 0]
  /\ okBeats = [c \in Clients |-> 0]
  /\ attempts = [c \in Clients |-> 0]
  /\ canceling = [c \in Clients |-> FALSE]
  /\ success = [c \in Clients |-> FALSE]
  /\ ended = [c \in Clients |-> FALSE]
  /\ failed = [c \in Clients |-> FALSE]
  /\ mutex = {}

\* A new session object, and TraderySession::start
StartSession(c) ==
  /\ spc[c] = "idle"
  /\ spc' = [spc EXCEPT ![c] = "begin"]
  /\ canceling' = [canceling EXCEPT ![c] = FALSE]
  /\ UNCHANGED <<api, again, token, polls, okBeats, attempts, success, ended,
                 failed, mutex>>

\* TraderySession::stop: the thread sees it before its next statistics request
CancelSession(c) ==
  /\ spc[c] \notin {"idle", "done"} /\ ~canceling[c]
  /\ canceling' = [canceling EXCEPT ![c] = TRUE]
  /\ UNCHANGED <<spc, api, again, token, polls, okBeats, attempts, success,
                 ended, failed, mutex>>

Call(c, a) ==
  /\ spc' = [spc EXCEPT ![c] = "lock"]
  /\ api' = [api EXCEPT ![c] = a]
  /\ again' = [again EXCEPT ![c] = 1]

\* one attempt: a connection is made and asks the server to start the systems
BeginAttempt(c) ==
  /\ spc[c] = "begin"
  /\ Call(c, "start")
  /\ polls' = [polls EXCEPT ![c] = 0]
  /\ UNCHANGED <<token, okBeats, attempts, canceling, success, ended, failed,
                 mutex>>

-----------------------------------------------------------------------------
(* TraderyConnection::request *)

\* the mutex of all connections
RequestLocks(c) ==
  /\ spc[c] = "lock" /\ mutex = {}
  /\ mutex' = {c}
  /\ spc' = [spc EXCEPT ![c] = IF token[c] THEN "post" ELSE "refresh"]
  /\ UNCHANGED <<api, again, token, polls, okBeats, attempts, canceling,
                 success, ended, failed>>

\* What run() does with an exception: one that a session threw is retried, one
\* that the start request threw is not.
Fails(c) ==
  /\ spc' = [spc EXCEPT ![c] = "done"]
  /\ success' = [success EXCEPT ![c] = FALSE]
  /\ failed' = [failed EXCEPT ![c] = TRUE]
  /\ UNCHANGED <<attempts, ended>>

SessionThrows(c) ==
  IF attempts[c] < MaxRetries
  THEN /\ attempts' = [attempts EXCEPT ![c] = @ + 1]
       /\ spc' = [spc EXCEPT ![c] = "begin"]
       /\ UNCHANGED <<success, failed, ended>>
  ELSE Fails(c)

RequestThrows(c) == IF api[c] = "start" THEN Fails(c) ELSE SessionThrows(c)

\* TraderyConnectionId::refresh: authentication gives a session id, or fails
Refresh(c) ==
  /\ spc[c] = "refresh"
  /\ \/ /\ token' = [token EXCEPT ![c] = TRUE]
        /\ spc' = [spc EXCEPT ![c] = "post"]
        /\ UNCHANGED <<mutex, attempts, success, ended, failed>>
     \/ /\ mutex' = {}
        /\ RequestThrows(c)
        /\ UNCHANGED token
  /\ UNCHANGED <<api, again, polls, okBeats, canceling>>

\* MUTANT: the retries are not counted down.
PostInvalidIdForEver(c) ==
  /\ spc[c] = "post"
  /\ token' = [token EXCEPT ![c] = FALSE]
  /\ spc' = [spc EXCEPT ![c] = "refresh"]
  /\ UNCHANGED <<api, again, polls, okBeats, attempts, canceling, success,
                 ended, failed, mutex>>

\* The server does not know the session id: it is dropped, and the request made
\* again with a new one, once.
PostInvalidId(c) ==
  /\ spc[c] = "post"
  /\ token' = [token EXCEPT ![c] = FALSE]
  /\ \/ /\ again[c] > 0
        /\ again' = [again EXCEPT ![c] = @ - 1]
        /\ spc' = [spc EXCEPT ![c] = "refresh"]
        /\ UNCHANGED <<mutex, attempts, success, ended, failed>>
     \/ /\ again[c] = 0
        /\ mutex' = {}
        /\ RequestThrows(c)
        /\ UNCHANGED again
  /\ UNCHANGED <<api, polls, okBeats, canceling>>

\* any other error, of the network or of the server
PostFails(c) ==
  /\ spc[c] = "post"
  /\ mutex' = {}
  /\ RequestThrows(c)
  /\ UNCHANGED <<api, again, token, polls, okBeats, canceling>>

-----------------------------------------------------------------------------
(* The answers: runy, maintainRun, getRuntimeStats, heartBeat, getStats *)

Answers(c, a) == spc[c] = "post" /\ api[c] = a /\ mutex' = {}
Goes(c, pc) == spc' = [spc EXCEPT ![c] = pc]

\* the server has started the systems, or says it has not, or says nothing
Started(c) ==
  /\ Answers(c, "start")
  /\ \/ Goes(c, "loop") /\ UNCHANGED <<success, failed, ended, attempts>>
     \/ Fails(c)
  /\ UNCHANGED <<api, again, token, polls, okBeats, canceling>>

\* maintainRun: a cancel is seen before each statistics request
Loop(c) ==
  /\ spc[c] = "loop"
  /\ Call(c, IF polls[c] = Polls THEN "heartbeat"
             ELSE IF canceling[c] THEN "cancel" ELSE "stats")
  /\ UNCHANGED <<token, polls, okBeats, attempts, canceling, success, ended,
                 failed, mutex>>

StatsAnswered(c) ==
  /\ Answers(c, "stats")
  /\ \/ /\ Goes(c, "loop")
        /\ polls' = [polls EXCEPT ![c] = @ + 1]
        /\ UNCHANGED <<success, failed, ended, attempts>>
     \/ SessionThrows(c) /\ UNCHANGED polls
  /\ UNCHANGED <<api, again, token, okBeats, canceling>>

\* "ok", "finished", or anything else
HeartBeatAnswered(c) ==
  /\ Answers(c, "heartbeat")
  /\ \/ /\ okBeats[c] < MaxOkBeats
        /\ okBeats' = [okBeats EXCEPT ![c] = @ + 1]
        /\ polls' = [polls EXCEPT ![c] = 0]
        /\ Goes(c, "loop")
        /\ UNCHANGED <<success, failed, ended, attempts>>
     \/ Goes(c, "perf") /\ UNCHANGED <<okBeats, polls, success, failed, ended,
                                       attempts>>
     \/ SessionThrows(c) /\ UNCHANGED <<okBeats, polls>>
  /\ UNCHANGED <<api, again, token, canceling>>

\* The answer to a cancel is not looked at.  m_result becomes false, and
\* maintainRun returns as if the session were finished.
CancelAnswered(c) ==
  /\ Answers(c, "cancel")
  /\ success' = [success EXCEPT ![c] = FALSE]
  /\ Goes(c, "perf")
  /\ UNCHANGED <<api, again, token, polls, okBeats, attempts, canceling, ended,
                 failed>>

\* MUTANT: the listeners are told before the statistics are there.
GetStatsTellsFirst(c) ==
  /\ spc[c] = "perf"
  /\ Call(c, "perf")
  /\ ended' = [ended EXCEPT ![c] = TRUE]
  /\ UNCHANGED <<token, polls, okBeats, attempts, canceling, success, failed,
                 mutex>>

\* the last request of a session
GetStats(c) ==
  /\ spc[c] = "perf"
  /\ Call(c, "perf")
  /\ UNCHANGED <<token, polls, okBeats, attempts, canceling, success, ended,
                 failed, mutex>>

\* the performance statistics end the session
PerformanceAnswered(c) ==
  /\ Answers(c, "perf")
  /\ \/ /\ Goes(c, "done")
        /\ success' = [success EXCEPT ![c] = TRUE]
        /\ ended' = [ended EXCEPT ![c] = TRUE]
        /\ UNCHANGED <<failed, attempts>>
     \/ SessionThrows(c)
  /\ UNCHANGED <<api, again, token, polls, okBeats, canceling>>

SessionStep(c) ==
  BeginAttempt(c) \/ RequestLocks(c) \/ Refresh(c) \/ PostInvalidId(c)
  \/ PostFails(c) \/ Started(c) \/ Loop(c) \/ StatsAnswered(c)
  \/ HeartBeatAnswered(c) \/ CancelAnswered(c) \/ GetStats(c)
  \/ PerformanceAnswered(c)

SessionNext == \E c \in Clients :
  StartSession(c) \/ CancelSession(c) \/ SessionStep(c)

SessionSpec == SessionInit /\ [][SessionNext]_sessionVars
               /\ \A c \in Clients : WF_sessionVars(SessionStep(c))

-----------------------------------------------------------------------------
(* Properties *)

SessionTypeOK ==
  /\ spc \in [Clients -> {"idle", "begin", "lock", "refresh", "post", "loop",
                          "perf", "done"}]
  /\ api \in [Clients -> {"none", "start", "stats", "heartbeat", "cancel",
                          "perf"}]
  /\ again \in [Clients -> 0 .. 1]
  /\ {token, canceling, success, ended, failed} \subseteq [Clients -> BOOLEAN]
  /\ polls \in [Clients -> 0 .. Polls]
  /\ okBeats \in [Clients -> 0 .. MaxOkBeats]
  /\ attempts \in [Clients -> 0 .. MaxRetries]
  /\ mutex \in SUBSET Clients

\* The listeners of a session are told once how it ended, the caller sees the
\* same outcome, and no session is attempted more often than MAX_RETRIES allows.
OutcomeReportedOnce == \A c \in Clients :
  /\ ~(ended[c] /\ failed[c])
  /\ spc[c] = "done" => (ended[c] \/ failed[c]) /\ success[c] = ended[c]
  /\ attempts[c] <= MaxRetries

\* The requests of all sessions are serialized by one mutex, and who has left
\* request() has released it, in whatever way it left.
RequestsSerialized ==
  \A c \in Clients : spc[c] \in {"refresh", "post"} <=> c \in mutex

\* A session that was started ends, whatever the server answers, as long as the
\* server does not call it running for ever.
SessionEnds == \A c \in Clients : (spc[c] = "begin") ~> (spc[c] = "done")

=============================================================================
