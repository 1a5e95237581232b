----------------------------- MODULE MCPrograms -----------------------------
(***************************************************************************)
(* The programs around a run of the systems, for TLC: a call of            *)
(* tradery::run, the sessions of remote clients, and the optimizer.  They  *)
(* are programs of their own that share no state: a behaviour is one of    *)
(* one program, and the others stay as they are.                           *)
(***************************************************************************)
EXTENDS Launcher, ClientSession, Optimizer

VARIABLE program   \* the one that runs

vars == <<program, callVars, sessionVars, optimizerVars>>

NoCall ==
  /\ async = FALSE /\ main = "done" /\ core = FALSE
  /\ running = FALSE /\ th = "none" /\ threw = FALSE
  /\ child = "none" /\ exitCode = 0 /\ status = "none"
  /\ hb = FALSE /\ rhb = FALSE /\ cancel = FALSE /\ endFile = "none"
  /\ hbTime = 0 /\ rhbTime = 0 /\ quiet = 0 /\ beats = 0

Init ==
  \/ program = "call" /\ CallInit /\ SessionInit /\ SearchInit
  \/ program = "sessions" /\ NoCall /\ SessionInit /\ SearchInit
  \/ program = "optimizer" /\ NoCall /\ SessionInit /\ SearchInit

OnlyCall == program = "call" /\ UNCHANGED <<program, sessionVars, optimizerVars>>
OnlySessions == program = "sessions" /\ UNCHANGED <<program, callVars, optimizerVars>>
OnlySearch == program = "optimizer" /\ UNCHANGED <<program, callVars, sessionVars>>

MainStep == MainThread /\ OnlyCall
ProcessingStep == main # "done" /\ Processing /\ OnlyCall
ClockStep == Tick /\ OnlyCall
ClientStep(c) == SessionStep(c) /\ OnlySessions
SearchStep == ~crashed /\ Search /\ OnlySearch
ProcessorStep(p) == ~crashed /\ Processor(p) /\ OnlySearch

Next ==
  \/ CallNext /\ OnlyCall
  \/ SessionNext /\ OnlySessions
  \/ SearchNext /\ OnlySearch

\* The fairness that each program has of its own.
Spec ==
  /\ Init /\ [][Next]_vars
  /\ WF_vars(MainStep) /\ WF_vars(ProcessingStep) /\ WF_vars(ClockStep)
  /\ \A c \in Clients : WF_vars(ClientStep(c))
  /\ WF_vars(SearchStep)
  /\ \A p \in Processors : WF_vars(ProcessorStep(p))

\* Every program comes to its end: a call of tradery::run for a client that has
\* gone, a session that the server does not call running for ever, a search in
\* which no run fails and no thread meets an empty queue.
ProgramsEnd ==
  /\ program = "call" => CallEnds
  /\ SessionEnds
  /\ program = "optimizer" => OptimizationEnds
=============================================================================
