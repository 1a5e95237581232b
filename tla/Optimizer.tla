----------------------------- MODULE Optimizer -----------------------------
(***************************************************************************)
(* The optimizer: adrian_optimizer::run (optimizer/optimizer1.cpp) looks   *)
(* for a region of the variables in which most runs of the systems do      *)
(* better than a reference, and has the runs done by the threads of        *)
(* optimizer/task.h.                                                       *)
(*                                                                         *)
(* A task stands for one set of variables.  Its run is a whole session     *)
(* (ClientSession), of which only the outcome matters here: a value, or an *)
(* exception.  The mutex of the de library is taken to be recursive, as    *)
(* TaskQueue::clear and TasksRegion::getBestResult need it to be.          *)
(***************************************************************************)
EXTENDS Naturals, Integers, Sequences, FiniteSets, FiniteSetsExt

CONSTANTS Processors,  \* the threads
          Values,      \* the values a run may have
          Ref,         \* the value to be bettered
          Minimize,    \* better is smaller
          MaxTasks,    \* MAX_TASKS, 100
          RegionTasks, \* the tasks of a region that is analyzed, 10
          Ratio,       \* GOOD_BAD_RATIO, 4
          NoValue      \* no value

ASSUME ProcessorsAssumption == IsFiniteSet(Processors)
ASSUME ValuesAssumption == Values \subseteq Int /\ Ref \in Int /\ NoValue \notin Values
ASSUME MinimizeAssumption == Minimize \in BOOLEAN
ASSUME CountsAssumption == MaxTasks \in Nat /\ RegionTasks \in Nat /\ Ratio \in Nat

VARIABLES queue,   \* m_taskQueue: tasks, each the number of its region
          ppc,     \* where each processor is
          task,    \* the task it has in hand, 0: none
          value,   \* the value of the run
          stop,    \* m_stop of the processors
          mpc,     \* where adrian_optimizer::run is
          total,   \* totalTasks
          region,  \* the region that is waited for
          toDo,    \* m_countToProcess of each region
          better,  \* the values in m_betterTasks of each region
          done,    \* the values of the tasks of each region that are set
          result,  \* the value of the result
          crashed  \* a null pointer was dereferenced

procVars == <<ppc, task, value, stop>>
searchVars == <<mpc, total, region, result>>
optimizerVars == <<queue, procVars, searchVars, toDo, better, done, crashed>>

Count == Cardinality(Processors)
\* no more than two regions are made in one turn of the loop
Regions == 1 .. 2 * (MaxTasks + 1)

SearchInit ==
  /\ queue = <<>>
  /\ ppc = [p \in Processors |-> "empty"]
  /\ task = [p \in Processors |-> 0]
  /\ value = [p \in Processors |-> NoValue]
  /\ stop = FALSE
  /\ mpc = "loop" /\ total = 0 /\ region = 0
  /\ toDo = [r \in Regions |-> 0]
  /\ better = [r \in Regions |-> {}]
  /\ done = [r \in Regions |-> <<>>]
  /\ result = NoValue /\ crashed = FALSE

-----------------------------------------------------------------------------
(* The threads: Processor::operator() *)

\* while (!isStop()) if (!m_queue->empty())
CheckQueue(p) ==
  /\ ppc[p] = "empty"
  /\ \/ stop /\ ppc' = [ppc EXCEPT ![p] = "stopped"]
     \/ ~stop /\ queue # <<>> /\ ppc' = [ppc EXCEPT ![p] = "pop"]
  /\ UNCHANGED <<queue, task, value, stop, searchVars, toDo, better, done,
                 crashed>>

\* The queue may have become empty since: pop returns a null pointer, which is
\* dereferenced.
Pop(p) ==
  /\ ppc[p] = "pop"
  /\ \/ /\ queue # <<>>
        /\ task' = [task EXCEPT ![p] = Head(queue)]
        /\ queue' = Tail(queue)
        /\ ppc' = [ppc EXCEPT ![p] = "run"]
        /\ UNCHANGED crashed
     \/ /\ queue = <<>>
        /\ crashed' = TRUE
        /\ UNCHANGED <<task, queue, ppc>>
  /\ UNCHANGED <<value, stop, searchVars, toDo, better, done>>

\* The session of the task has a value, or fails: then the thread ends, and its
\* task is never reported.
RunTask(p) ==
  /\ ppc[p] = "run"
  /\ \/ /\ \E v \in Values : value' = [value EXCEPT ![p] = v]
        /\ ppc' = [ppc EXCEPT ![p] = "report"]
     \/ /\ ppc' = [ppc EXCEPT ![p] = "failed"]
        /\ UNCHANGED value
  /\ UNCHANGED <<queue, task, stop, searchVars, toDo, better, done, crashed>>

\* m_minimize && result < m_ref || !m_minimize && result > m_ref
IsBetter(v, ref) == IF Minimize THEN v < ref ELSE v > ref

\* MUTANT: worseResult does not count.
ReportBetterOnly(p) ==
  LET r == task[p]  v == value[p]  good == IsBetter(v, Ref) IN
  /\ ppc[p] = "report"
  /\ done' = [done EXCEPT ![r] = Append(@, v)]
  /\ toDo' = [toDo EXCEPT ![r] = IF good THEN @ - 1 ELSE @]
  /\ better' = [better EXCEPT ![r] = IF good THEN @ \cup {v} ELSE @]
  /\ task' = [task EXCEPT ![p] = 0]
  /\ ppc' = [ppc EXCEPT ![p] = "empty"]
  /\ UNCHANGED <<queue, value, stop, searchVars, crashed>>

\* Task::setResult: the value is set, and then the region told
Report(p) ==
  LET r == task[p]  v == value[p] IN
  /\ ppc[p] = "report"
  /\ done' = [done EXCEPT ![r] = Append(@, v)]
  /\ toDo' = [toDo EXCEPT ![r] = @ - 1]
  /\ better' = [better EXCEPT ![r] = IF IsBetter(v, Ref) THEN @ \cup {v} ELSE @]
  /\ task' = [task EXCEPT ![p] = 0]
  /\ ppc' = [ppc EXCEPT ![p] = "empty"]
  /\ UNCHANGED <<queue, value, stop, searchVars, crashed>>

Processor(p) == CheckQueue(p) \/ Pop(p) \/ RunTask(p) \/ Report(p)

-----------------------------------------------------------------------------
(* The main thread: adrian_optimizer::run *)

\* generate_tasks and push_tasks
Generate(r, n) ==
  /\ region' = r
  /\ toDo' = [toDo EXCEPT ![r] = n]
  /\ queue' = queue \o [i \in 1 .. n |-> r]

\* a region of one random task for each thread
NewRegion ==
  /\ mpc = "loop" /\ total < MaxTasks
  /\ Generate(region + 1, Count)
  /\ total' = total + Count
  /\ mpc' = "wait"
  /\ UNCHANGED <<procVars, result, better, done, crashed>>

GiveUp ==
  /\ mpc = "loop" /\ total >= MaxTasks
  /\ mpc' = "stop"
  /\ UNCHANGED <<queue, procVars, total, region, result, toDo, better,
                 done, crashed>>

\* waitUntilBetterResultOrProcessed, and clearQueue: what is not yet begun is
\* dropped
WaitForBetter ==
  /\ mpc = "wait"
  /\ toDo[region] = 0 \/ better[region] # {}
  /\ queue' = <<>>
  /\ mpc' = "candidate"
  /\ UNCHANGED <<procVars, total, region, result, toDo, better, done,
                 crashed>>

\* rbegin() of a map: the greatest value, when minimizing too
BestResult(r) == Max(better[r])

Candidate ==
  /\ mpc = "candidate"
  /\ IF better[region] = {}
     THEN mpc' = "loop" /\ total' = total + 1
     ELSE mpc' = "analyze" /\ UNCHANGED total
  /\ UNCHANGED <<queue, procVars, region, result, toDo, better, done, crashed>>

\* A second region around the variables of the best task.  The task that is
\* added to it is the best of the first region by then, which may be another.
Analyze ==
  /\ mpc = "analyze"
  /\ Generate(region + 1, RegionTasks)
  /\ mpc' = "add"
  /\ UNCHANGED <<procVars, total, result, better, done, crashed>>

AddBest ==
  /\ mpc = "add"
  /\ done' = [done EXCEPT ![region] = Append(@, BestResult(region - 1))]
  /\ mpc' = "waitAll"
  /\ UNCHANGED <<queue, procVars, total, region, result, toDo, better,
                 crashed>>

Good(r) == {i \in DOMAIN done[r] : IsBetter(done[r][i], Ref)}
SumOf(s) == FoldSet(LAMBDA i, a : s[i] + a, 0, DOMAIN s)

\* TasksRegion::acceptable: the average, and the ratio of good to bad ones,
\* which is infinite when there is no bad one
Acceptable(r) ==
  LET good == Cardinality(Good(r))  bad == Len(done[r]) - good IN
  /\ IsBetter(SumOf(done[r]), Ref * Len(done[r]))
  /\ good > Ratio * bad

\* waitUntilProcessed, and the region is judged
WaitForAll ==
  /\ mpc = "waitAll" /\ toDo[region] = 0
  /\ IF Acceptable(region)
     THEN /\ mpc' = "stop"
          /\ result' = IF better[region] # {} THEN BestResult(region) ELSE NoValue
          /\ UNCHANGED total
     ELSE mpc' = "loop" /\ total' = total + 1 /\ UNCHANGED result
  /\ UNCHANGED <<queue, procVars, region, toDo, better, done, crashed>>

\* stopSync: the threads are told, and joined
StopProcessors ==
  /\ mpc = "stop"
  /\ stop' = TRUE /\ mpc' = "join"
  /\ UNCHANGED <<queue, ppc, task, value, total, region, result, toDo,
                 better, done, crashed>>

Join ==
  /\ mpc = "join"
  /\ \A p \in Processors : ppc[p] \in {"stopped", "failed"}
  /\ mpc' = "done"
  /\ UNCHANGED <<queue, procVars, total, region, result, toDo, better,
                 done, crashed>>

Search == NewRegion \/ GiveUp \/ WaitForBetter \/ Candidate \/ Analyze
        \/ AddBest \/ WaitForAll \/ StopProcessors \/ Join
SearchNext == ~crashed /\ (Search \/ \E p \in Processors : Processor(p))

SearchSpec == SearchInit /\ [][SearchNext]_optimizerVars /\ WF_optimizerVars(~crashed /\ Search)
        /\ \A p \in Processors : WF_optimizerVars(~crashed /\ Processor(p))

-----------------------------------------------------------------------------
(* Properties *)

SearchTypeOK ==
  /\ queue \in Seq(Regions)
  /\ ppc \in [Processors -> {"empty", "pop", "run", "report", "failed",
                             "stopped"}]
  /\ task \in [Processors -> Regions \cup {0}]
  /\ value \in [Processors -> Values \cup {NoValue}]
  /\ stop \in BOOLEAN /\ crashed \in BOOLEAN
  /\ mpc \in {"loop", "wait", "candidate", "analyze", "add", "waitAll", "stop",
              "join", "done"}
  /\ total \in Nat /\ region \in Regions \cup {0}
  /\ toDo \in [Regions -> Int]
  /\ better \in [Regions -> SUBSET Values]
  /\ done \in [Regions -> Seq(Values)]
  /\ result \in Values \cup {NoValue}

Held(r) == {p \in Processors : task[p] = r}
Queued(r) == {i \in DOMAIN queue : queue[i] = r}

\* The tasks of the region that is waited for are counted right: those still to
\* do are those in the queue and those that a thread has in hand, the thread
\* that failed with one included.
TasksAccounted == mpc \in {"wait", "add", "waitAll"} =>
  toDo[region] = Cardinality(Queued(region)) + Cardinality(Held(region))

\* The optimization ends when no run fails and no thread finds the queue empty
\* between its two looks at it.
OptimizationEnds ==
  <>(\/ mpc = "done" \/ crashed \/ \E p \in Processors : ppc[p] = "failed")

\* What is popped off the queue is a task: task->isSet() is asserted of it
\* (task.h:155).
NoNullTask == ~crashed

=============================================================================
