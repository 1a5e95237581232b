--------------------------- MODULE RunSystemProofs ---------------------------
(***************************************************************************)
(* Proofs about Scheduler, for every number of threads, runnables, symbols *)
(* and calls of run(); and about RunSystem: the main thread, the session   *)
(* and the scheduler with its workers, for every number of threads,        *)
(* systems and symbols.                                                    *)
(*                                                                         *)
(* The session makes one run, and what it does with the scheduler are      *)
(* steps of the scheduler, or leave alone all of it but the list of        *)
(* runnables.  So the invariant of the scheduler holds here too, and what  *)
(* is added says where the two threads of the session may be in each state *)
(* of the run, what has been told by then, and what is created.            *)
(***************************************************************************)
EXTENDS RunSystem, TLAPS

-----------------------------------------------------------------------------
(* The scheduler *)

\* The call that is between run() and the reset of _running is unique, it keeps
\* the flag set, and workers exist only while it joins them.
RunInv ==
  /\ \A n \in Runs : runPc[n] # "none" => n <= runs
  /\ \A n \in Runs : runPc[n] \in {"start", "join"} => running
  /\ \A m, n \in Runs :
       runPc[m] \in {"start", "join"} /\ runPc[n] \in {"start", "join"} => m = n
  /\ \A t \in Threads : wpc[t] # "none" => \E n \in Runs : runPc[n] = "join"

\* What a worker has in hand was taken off the list, by it alone.
WorkerInv ==
  /\ \A t \in Threads : InHand(t) => cur[t] \in Runnables /\ cur[t] <= crt
  /\ OneWorkerPerRunnable

IInv == TypeOK /\ RunInv /\ WorkerInv

-----------------------------------------------------------------------------
\* A scheduler that has just been built satisfies the invariant.
LEMMA InitIInv == Init => IInv
  <1> SUFFICES ASSUME Init PROVE IInv
    OBVIOUS
  <1> USE SchedulerAssumption DEF Init, Runs
  <1>1. TypeOK
    <2>1. runPc \in [Runs -> RunPc] /\ wpc \in [Threads -> WorkerPc]
      BY DEF RunPc, WorkerPc
    <2>2. times \in [Iterators -> [Symbols -> Nat]]
      BY Zenon
    <2>3. pos \in [Iterators -> 0 .. NSymbols] /\ passes \in [Runnables -> 0 .. MaxPasses]
      OBVIOUS
    <2>4. /\ go \in [Threads -> BOOLEAN]
          /\ cur \in [Threads -> 0 .. NRunnables]
          /\ sym \in [Threads -> 0 .. NSymbols]
          /\ dropped \in [Threads -> 0 .. NRunnables]
          /\ late \in [Threads -> Nat]
      OBVIOUS
    <2>5. /\ list \in 0 .. NRunnables /\ crt \in 0 .. NRunnables
          /\ caller \in 0 .. MaxRuns /\ runs \in 0 .. MaxRuns
          /\ begun \in SUBSET Runnables /\ cut \in SUBSET Runnables
          /\ canceler \in {"idle", "waiting"}
      OBVIOUS
    <2>6. running \in BOOLEAN /\ cancelState \in BOOLEAN /\ canceled \in BOOLEAN
      OBVIOUS
    <2> HIDE DEF Init
    <2> QED
      BY <2>1, <2>2, <2>3, <2>4, <2>5, <2>6 DEF TypeOK
  <1>2. RunInv
    BY DEF RunInv
  <1>3. WorkerInv
    BY DEF WorkerInv, OneWorkerPerRunnable, InHand
  <1> QED
    BY <1>1, <1>2, <1>3 DEF IInv

\* The threads that call run(), resetRunnables(), addRunnable() and cancel.
LEMMA CallerStep ==
  ASSUME IInv,
         \/ AddRunnable \/ ResetRunnables \/ \E asynch \in BOOLEAN : RunCall(asynch)
         \/ CancelAsync \/ CancelSyncCall \/ CancelSyncReturn
  PROVE  IInv'
  <1> USE SchedulerAssumption DEF IInv, histVars
  <1>1. CASE AddRunnable
    <2>1. TypeOK' BY <1>1 DEF AddRunnable, TypeOK
    <2>2. RunInv' BY <1>1 DEF AddRunnable, RunInv
    <2>3. WorkerInv' BY <1>1 DEF AddRunnable, WorkerInv, OneWorkerPerRunnable, InHand
    <2> QED BY <2>1, <2>2, <2>3
  <1>2. CASE ResetRunnables
    <2>1. TypeOK' BY <1>2 DEF ResetRunnables, TypeOK
    <2>2. RunInv' BY <1>2 DEF ResetRunnables, RunInv
    <2>3. WorkerInv' BY <1>2 DEF ResetRunnables, WorkerInv, OneWorkerPerRunnable, InHand
    <2> QED BY <2>1, <2>2, <2>3
  <1>3. ASSUME NEW asynch \in BOOLEAN, RunCall(asynch) PROVE IInv'
    <2>1. TypeOK'
      BY <1>3 DEF RunCall, TypeOK, Runs, RunPc
    <2>2. RunInv'
      BY <1>3 DEF RunCall, TypeOK, RunInv, Runs
    <2>3. WorkerInv' BY <1>3 DEF RunCall, WorkerInv, OneWorkerPerRunnable, InHand
    <2> QED BY <2>1, <2>2, <2>3
  <1>4. CASE CancelAsync
    <2>1. TypeOK' BY <1>4 DEF CancelAsync, TypeOK
    <2>2. RunInv' BY <1>4 DEF CancelAsync, RunInv
    <2>3. WorkerInv' BY <1>4 DEF CancelAsync, WorkerInv, OneWorkerPerRunnable, InHand
    <2> QED BY <2>1, <2>2, <2>3
  <1>5. CASE CancelSyncCall
    <2>1. TypeOK' BY <1>5 DEF CancelSyncCall, TypeOK
    <2>2. RunInv' BY <1>5 DEF CancelSyncCall, RunInv
    <2>3. WorkerInv' BY <1>5 DEF CancelSyncCall, WorkerInv, OneWorkerPerRunnable, InHand
    <2> QED BY <2>1, <2>2, <2>3
  <1>6. CASE CancelSyncReturn
    <2>1. TypeOK' BY <1>6 DEF CancelSyncReturn, TypeOK
    <2>2. RunInv' BY <1>6 DEF CancelSyncReturn, RunInv
    <2>3. WorkerInv' BY <1>6 DEF CancelSyncReturn, WorkerInv, OneWorkerPerRunnable, InHand
    <2> QED BY <2>1, <2>2, <2>3
  <1> QED
    BY <1>1, <1>2, <1>3, <1>4, <1>5, <1>6

\* The thread of one call of run().
LEMMA RunThreadStep ==
  ASSUME IInv, NEW n \in Runs, RunThread(n)
  PROVE  IInv'
  <1> USE SchedulerAssumption DEF IInv, histVars
  <1>1. CASE StartRun(n)
    <2>1. TypeOK' BY <1>1 DEF StartRun, TypeOK, RunPc, WorkerPc
    <2>2. RunInv' BY <1>1 DEF StartRun, TypeOK, RunInv
    <2>3. WorkerInv' BY <1>1 DEF StartRun, WorkerInv, OneWorkerPerRunnable, InHand
    <2> QED BY <2>1, <2>2, <2>3
  <1>2. CASE JoinAll(n)
    <2>1. TypeOK' BY <1>2 DEF JoinAll, TypeOK, RunPc, WorkerPc
    <2>2. RunInv' BY <1>2 DEF JoinAll, TypeOK, RunInv
    <2>3. WorkerInv' BY <1>2 DEF JoinAll, WorkerInv, OneWorkerPerRunnable, InHand
    <2> QED BY <2>1, <2>2, <2>3
  <1>3. CASE ClearCancel(n)
    <2>1. TypeOK' BY <1>3 DEF ClearCancel, TypeOK, RunPc
    <2>2. RunInv' BY <1>3 DEF ClearCancel, TypeOK, RunInv
    <2>3. WorkerInv' BY <1>3 DEF ClearCancel, WorkerInv, OneWorkerPerRunnable, InHand
    <2> QED BY <2>1, <2>2, <2>3
  <1>4. CASE FinishRun(n)
    <2>1. TypeOK' BY <1>4 DEF FinishRun, TypeOK, RunPc
    <2>2. RunInv' BY <1>4 DEF FinishRun, TypeOK, RunInv
    <2>3. WorkerInv' BY <1>4 DEF FinishRun, WorkerInv, OneWorkerPerRunnable, InHand
    <2> QED BY <2>1, <2>2, <2>3
  <1> QED
    BY <1>1, <1>2, <1>3, <1>4 DEF RunThread

\* A worker's step changes neither the run nor which workers exist.
LEMMA WorkerKeepsRun ==
  ASSUME RunInv, UNCHANGED <<runPc, running, runs>>,
         \A u \in Threads : wpc'[u] # "none" => wpc[u] # "none"
  PROVE  RunInv'
  BY DEF RunInv

\* What Fetch does, by its three cases.
LEMMA FetchCases ==
  ASSUME TypeOK, NEW t \in Threads, Fetch(t)
  PROVE  /\ wpc[t] = "fetch"
         /\ UNCHANGED <<list, pos, running, cancelState, runPc, caller,
                        canceler, go, sym, runs, passes, cut, canceled, times,
                        late>>
         /\ \/ /\ crt < list /\ go[t]
               /\ crt' = crt + 1
               /\ cur' = [cur EXCEPT ![t] = crt + 1]
               /\ begun' = begun \cup {crt + 1}
               /\ wpc' = [wpc EXCEPT ![t] = "begin"]
               /\ dropped' = dropped
            \/ /\ crt < list /\ ~go[t]
               /\ crt' = crt + 1
               /\ dropped' = [dropped EXCEPT ![t] = crt + 1]
               /\ wpc' = [wpc EXCEPT ![t] = "exit"]
               /\ UNCHANGED <<cur, begun>>
            \/ /\ crt >= list
               /\ wpc' = [wpc EXCEPT ![t] = "exit"]
               /\ UNCHANGED <<crt, cur, begun, dropped>>
  BY Zenon DEF Fetch

\* Taking the next runnable from the list keeps the invariant.
LEMMA FetchStep ==
  ASSUME IInv, NEW t \in Threads, Fetch(t)
  PROVE  IInv'
  <1> USE SchedulerAssumption DEF IInv
  <1>0. crt < list => crt + 1 \in Runnables
    BY DEF TypeOK, Runnables
  <1>1. TypeOK'
    <2>0. /\ crt \in 0 .. NRunnables /\ begun \in SUBSET Runnables
          /\ cur \in [Threads -> 0 .. NRunnables]
          /\ dropped \in [Threads -> 0 .. NRunnables]
          /\ list \in 0 .. NRunnables
      BY DEF TypeOK
    <2>1. crt' \in 0 .. NRunnables
      BY <2>0, FetchCases
    <2>a. begun' = begun \/ (crt + 1 \in Runnables /\ begun' = begun \cup {crt + 1})
      BY <1>0, FetchCases
    <2>b. begun' \in SUBSET Runnables
      BY <2>0, <2>a
    <2>c. cur' = cur \/ (crt + 1 \in Runnables /\ cur' = [cur EXCEPT ![t] = crt + 1])
      BY <1>0, FetchCases
    <2>d. \/ dropped' = dropped
          \/ crt + 1 \in Runnables /\ dropped' = [dropped EXCEPT ![t] = crt + 1]
      BY <1>0, FetchCases
    <2>2. /\ cur' \in [Threads -> 0 .. NRunnables]
          /\ dropped' \in [Threads -> 0 .. NRunnables]
      BY <2>0, <2>c, <2>d DEF Runnables
    <2>3. wpc' \in [Threads -> WorkerPc]
      BY FetchCases DEF TypeOK, WorkerPc
    <2> QED BY <2>1, <2>b, <2>2, <2>3, FetchCases DEF TypeOK
  <1>2. RunInv'
    <2>1. \A u \in Threads : wpc'[u] # "none" => wpc[u] # "none"
      BY FetchCases DEF TypeOK
    <2> QED BY <2>1, FetchCases, WorkerKeepsRun
  <1>3. WorkerInv'
    <2>1. \A u \in Threads : u # t => /\ InHand(u)' <=> InHand(u)
                                      /\ cur'[u] = cur[u]
      BY FetchCases DEF TypeOK, InHand
    <2>2. \A u \in Threads : InHand(u) => cur[u] \in Runnables /\ cur[u] <= crt
      BY DEF WorkerInv
    <2>3. crt' \in 0 .. NRunnables /\ crt' >= crt /\ crt \in 0 .. NRunnables
      BY <1>1, FetchCases DEF TypeOK
    <2>4. InHand(t)' => cur'[t] = crt + 1 /\ crt' = crt + 1 /\ crt < list
      BY FetchCases DEF TypeOK, InHand
    <2>5. \A u \in Threads : InHand(u)' => cur'[u] \in Runnables /\ cur'[u] <= crt'
      BY <1>0, <2>1, <2>2, <2>3, <2>4 DEF Runnables
    <2>6. OneWorkerPerRunnable'
      <3> SUFFICES ASSUME NEW u \in Threads, NEW v \in Threads, u # v,
                          InHand(u)', InHand(v)'
                   PROVE  cur'[u] # cur'[v]
        BY DEF OneWorkerPerRunnable, InHand
      <3>1. CASE u # t /\ v # t
        BY <2>1, <3>1 DEF WorkerInv, OneWorkerPerRunnable
      <3>2. CASE u = t \/ v = t
        BY <2>1, <2>2, <2>3, <2>4, <3>2 DEF Runnables
      <3> QED BY <3>1, <3>2
    <2> QED BY <2>5, <2>6 DEF WorkerInv, InHand
  <1> QED
    BY <1>1, <1>2, <1>3

\* The places a worker returns to after its runnable.
LEMMA ReturnTypes ==
  ASSUME TypeOK, NEW t \in Threads, NEW f \in BOOLEAN, ReturnFromRun(t, f)
  PROVE  /\ wpc' \in [Threads -> WorkerPc]
         /\ go' \in [Threads -> BOOLEAN]
         /\ cur' \in [Threads -> 0 .. NRunnables]
  BY SchedulerAssumption DEF ReturnFromRun, TypeOK, WorkerPc

\* Every other step of a worker either keeps the runnable or gives it up.
LEMMA InHandStep ==
  ASSUME IInv, NEW t \in Threads,
         \/ Begin(t) \/ NextSymbol(t) \/ NextSymbolFails(t) \/ RunSymbol(t)
         \/ ExitSymbol(t) \/ CheckCancel(t) \/ Again(t)
  PROVE  IInv'
  <1> USE SchedulerAssumption DEF IInv, histVars
  <1>1. InHand(t) /\ cur[t] \in Runnables /\ IteratorOf[cur[t]] \in Iterators
    BY DEF Begin, NextSymbol, NextSymbolFails, RunSymbol, ExitSymbol,
           CheckCancel, Again, InHand, WorkerInv
  <1>2. TypeOK'
    <2>0. cut \cup {cur[t]} \in SUBSET Runnables
      BY <1>1 DEF TypeOK
    <2>1. CASE Begin(t)
      <3>1. CASE wpc' = [wpc EXCEPT ![t] = "next"] /\ UNCHANGED <<go, cur, cut>>
        <4>1. wpc' \in [Threads -> WorkerPc] BY <3>1 DEF TypeOK, WorkerPc
        <4> QED BY <2>1, <3>1, <4>1 DEF Begin, TypeOK
      <3>2. CASE ReturnFromRun(t, TRUE) /\ cut' = cut \cup {cur[t]}
        <4>1. /\ wpc' \in [Threads -> WorkerPc] /\ go' \in [Threads -> BOOLEAN]
              /\ cur' \in [Threads -> 0 .. NRunnables]
          BY <3>2, ReturnTypes
        <4> QED BY <2>0, <2>1, <3>2, <4>1 DEF Begin, TypeOK
      <3> QED BY <2>1, <3>1, <3>2 DEF Begin
    <2>2. CASE NextSymbol(t)
      <3> DEFINE i == IteratorOf[cur[t]]
      <3>1. CASE pos[i] < NSymbols
        <4>1. /\ pos' = [pos EXCEPT ![i] = @ + 1]
              /\ sym' = [sym EXCEPT ![t] = pos[i] + 1]
              /\ wpc' = [wpc EXCEPT ![t] = "symbol"]
              /\ times' = [times EXCEPT ![i][pos[i] + 1] = @ + 1]
              /\ late' = IF cancelState THEN [late EXCEPT ![t] = @ + 1] ELSE late
          BY <2>2, <3>1 DEF NextSymbol
        <4>2. pos[i] + 1 \in Symbols /\ i \in Iterators
          BY <1>1, <3>1 DEF TypeOK, Symbols
        <4>3. pos' \in [Iterators -> 0 .. NSymbols] /\ sym' \in [Threads -> 0 .. NSymbols]
          BY <4>1, <4>2 DEF TypeOK, Symbols
        <4>4. times' \in [Iterators -> [Symbols -> Nat]]
          BY <4>1, <4>2 DEF TypeOK
        <4>5. late' \in [Threads -> Nat] /\ wpc' \in [Threads -> WorkerPc]
          BY <4>1 DEF TypeOK, WorkerPc
        <4> QED BY <2>2, <4>3, <4>4, <4>5 DEF NextSymbol, TypeOK
      <3>2. CASE ~(pos[i] < NSymbols)
        <4>1. /\ wpc' = [wpc EXCEPT ![t] = "again"]
              /\ UNCHANGED <<pos, sym, times, late>>
          BY <2>2, <3>2 DEF NextSymbol
        <4>2. wpc' \in [Threads -> WorkerPc]
          BY <4>1 DEF TypeOK, WorkerPc
        <4> QED BY <2>2, <4>1, <4>2 DEF NextSymbol, TypeOK
      <3> QED BY <3>1, <3>2
    <2>3. CASE NextSymbolFails(t)
      BY <1>1, <2>3 DEF NextSymbolFails, TypeOK, WorkerPc
    <2>4. CASE RunSymbol(t) BY <2>4 DEF RunSymbol, TypeOK, WorkerPc
    <2>5. CASE ExitSymbol(t)
      <3>1. /\ wpc' \in [Threads -> WorkerPc] /\ go' \in [Threads -> BOOLEAN]
            /\ cur' \in [Threads -> 0 .. NRunnables]
        BY <2>5, ReturnTypes DEF ExitSymbol
      <3>2. sym' \in [Threads -> 0 .. NSymbols]
        BY <2>5 DEF ExitSymbol, TypeOK
      <3> QED BY <2>0, <2>5, <3>1, <3>2 DEF ExitSymbol, TypeOK
    <2>6. CASE CheckCancel(t)
      <3>1. CASE cancelState
        <4>1. /\ wpc' \in [Threads -> WorkerPc] /\ go' \in [Threads -> BOOLEAN]
              /\ cur' \in [Threads -> 0 .. NRunnables]
          BY <2>6, <3>1, ReturnTypes DEF CheckCancel
        <4> QED BY <2>0, <2>6, <3>1, <4>1 DEF CheckCancel, TypeOK
      <3>2. CASE ~cancelState
        <4>1. wpc' \in [Threads -> WorkerPc]
          BY <2>6, <3>2 DEF CheckCancel, TypeOK, WorkerPc
        <4> QED BY <2>6, <3>2, <4>1 DEF CheckCancel, TypeOK
      <3> QED BY <3>1, <3>2
    <2>7. CASE Again(t)
      <3>1. CASE ReturnFromRun(t, TRUE) /\ UNCHANGED passes
        <4>1. /\ wpc' \in [Threads -> WorkerPc] /\ go' \in [Threads -> BOOLEAN]
              /\ cur' \in [Threads -> 0 .. NRunnables]
          BY <3>1, ReturnTypes
        <4> QED BY <2>7, <3>1, <4>1 DEF Again, TypeOK
      <3>2. CASE /\ passes[cur[t]] < MaxPasses
                 /\ passes' = [passes EXCEPT ![cur[t]] = @ + 1]
                 /\ wpc' = [wpc EXCEPT ![t] = "begin"]
                 /\ UNCHANGED <<go, cur>>
        <4>1. wpc' \in [Threads -> WorkerPc] BY <3>2 DEF TypeOK, WorkerPc
        <4>2. passes' \in [Runnables -> 0 .. MaxPasses] BY <1>1, <3>2 DEF TypeOK
        <4> QED BY <2>7, <3>2, <4>1, <4>2 DEF Again, TypeOK
      <3> QED BY <2>7, <3>1, <3>2 DEF Again
    <2> QED BY <2>1, <2>2, <2>3, <2>4, <2>5, <2>6, <2>7
  <1>3. /\ crt' = crt
        /\ \A u \in Threads : u # t => wpc'[u] = wpc[u] /\ cur'[u] = cur[u]
        /\ InHand(t)' => cur'[t] = cur[t]
    BY DEF Begin, NextSymbol, NextSymbolFails, RunSymbol, ExitSymbol,
           CheckCancel, Again, InHand, TypeOK, ReturnFromRun
  <1>4. RunInv'
    <2>1. \A u \in Threads : wpc'[u] # "none" => wpc[u] # "none"
      BY <1>1, <1>3 DEF InHand
    <2>2. UNCHANGED <<runPc, running, runs>>
      BY DEF Begin, NextSymbol, NextSymbolFails, RunSymbol, ExitSymbol,
             CheckCancel, Again
    <2> QED BY <2>1, <2>2, WorkerKeepsRun
  <1>5. WorkerInv'
    BY <1>1, <1>3 DEF WorkerInv, OneWorkerPerRunnable, InHand
  <1> QED
    BY <1>2, <1>4, <1>5

\* The invariant is inductive.
LEMMA IInvStep == IInv /\ [Next]_vars => IInv'
  <1> SUFFICES ASSUME IInv, [Next]_vars PROVE IInv'
    OBVIOUS
  <1>1. CASE \/ AddRunnable \/ ResetRunnables
             \/ \E asynch \in BOOLEAN : RunCall(asynch)
             \/ CancelAsync \/ CancelSyncCall \/ CancelSyncReturn
    BY <1>1, CallerStep
  <1>2. CASE \E n \in Runs : RunThread(n)
    BY <1>2, RunThreadStep
  <1>3. ASSUME NEW t \in Threads, Worker(t) PROVE IInv'
    BY <1>3, FetchStep, InHandStep DEF Worker
  <1>4. CASE UNCHANGED vars
    BY <1>4 DEF vars, schedVars, histVars, IInv, TypeOK, RunInv, WorkerInv,
                OneWorkerPerRunnable, InHand
  <1> QED
    BY <1>1, <1>2, <1>3, <1>4 DEF Next

\* The inductive invariant holds in every reachable state of the scheduler.
THEOREM Invariance == Spec => []IInv
  BY InitIInv, IInvStep, PTL DEF Spec

\* The variables have their types.
THEOREM TypeCorrect == Spec => []TypeOK
  <1>1. IInv => TypeOK
    BY DEF IInv
  <1> QED
    BY <1>1, Invariance, PTL

\* No worker is alive while the scheduler says that it is not running.
THEOREM WorkersWithinRun == Spec => []NoWorkerOutlivesRun
  <1>1. IInv => NoWorkerOutlivesRun
    BY DEF IInv, RunInv, NoWorkerOutlivesRun
  <1> QED
    BY <1>1, Invariance, PTL

\* No two workers are inside the same runnable.
THEOREM ExclusiveRunnables == Spec => []OneWorkerPerRunnable
  <1>1. IInv => OneWorkerPerRunnable
    BY DEF IInv, WorkerInv
  <1> QED
    BY <1>1, Invariance, PTL

-----------------------------------------------------------------------------
(* What a run leaves behind *)

\* A worker that was canceled is on its last symbol, or on its way out.
CancelInv ==
  \A t \in Threads : cancelState /\ late[t] # 0 =>
    /\ late[t] = 1
    /\ \/ wpc[t] \in {"symbol", "check"}
       \/ ~InHand(t) /\ ~go[t]

\* A runnable that ran is in hand, was cut, or has seen the iterator's end.
DrainInv ==
  /\ \A r \in begun \ cut :
       pos[IteratorOf[r]] = NSymbols \/ \E t \in Threads : InHand(t) /\ cur[t] = r
  /\ \A t \in Threads :
       wpc[t] = "again" /\ cur[t] \notin cut => pos[IteratorOf[cur[t]]] = NSymbols

\* Runnables taken off the list were run or dropped; a worker stops at the end
\* of the list or because it was told to.
AccountInv ==
  /\ \A r \in 1 .. crt : r \in begun \/ \E t \in Threads : dropped[t] = r /\ ~go[t]
  /\ \A t \in Threads : dropped[t] # 0 => wpc[t] \in {"exit", "none"}
  /\ \A t \in Threads : wpc[t] = "exit" => ~go[t] \/ crt >= list

\* A symbol that is being run was handed out before.
SymbolInv ==
  /\ SymbolsRunAtMostOnce
  /\ \A t \in Threads :
       wpc[t] = "symbol" => sym[t] >= 1 /\ sym[t] <= pos[IteratorOf[cur[t]]]

-----------------------------------------------------------------------------
\* The count of symbols begun since the cancel order is inductive.
LEMMA CancelInvStep == IInv /\ CancelInv /\ [Next]_vars => CancelInv'
  <1> SUFFICES ASSUME IInv, CancelInv, [Next]_vars PROVE CancelInv'
    OBVIOUS
  <1> USE DEF CancelInv, InHand, histVars
  <1>0. /\ late \in [Threads -> Nat] /\ wpc \in [Threads -> WorkerPc]
        /\ go \in [Threads -> BOOLEAN]
    BY DEF IInv, TypeOK
  <1>1. CASE AddRunnable \/ ResetRunnables \/ CancelSyncReturn
    BY <1>1 DEF AddRunnable, ResetRunnables, CancelSyncReturn
  <1>2. ASSUME NEW asynch \in BOOLEAN, RunCall(asynch) PROVE CancelInv'
    BY <1>2 DEF RunCall
  <1>3. CASE CancelAsync \/ CancelSyncCall
    <2>1. CASE cancelState
      BY <1>3, <2>1 DEF CancelAsync, CancelSyncCall
    <2>2. CASE ~cancelState
      BY <1>3, <2>2 DEF CancelAsync, CancelSyncCall
    <2> QED BY <2>1, <2>2
  <1>4. ASSUME NEW n \in Runs, RunThread(n) PROVE CancelInv'
    <2>1. CASE StartRun(n) BY <2>1 DEF StartRun
    <2>2. CASE JoinAll(n)
      BY <1>0, <2>2 DEF JoinAll
    <2>3. CASE ClearCancel(n) BY <2>3 DEF ClearCancel
    <2>4. CASE FinishRun(n) BY <2>4 DEF FinishRun
    <2> QED BY <1>4, <2>1, <2>2, <2>3, <2>4 DEF RunThread
  <1>5. ASSUME NEW t \in Threads, Worker(t) PROVE CancelInv'
    <2>1. CASE Fetch(t)
      BY <1>0, <2>1, FetchCases DEF IInv
    <2>2. CASE Begin(t) BY <1>0, <2>2 DEF Begin, ReturnFromRun
    <2>3. CASE NextSymbol(t)
      <3>1. wpc[t] = "next" /\ UNCHANGED <<cancelState, go>>
        BY <2>3 DEF NextSymbol
      <3>2. CASE late' = (IF cancelState THEN [late EXCEPT ![t] = @ + 1] ELSE late)
                 /\ wpc' = [wpc EXCEPT ![t] = "symbol"]
        BY <1>0, <3>1, <3>2
      <3>3. CASE late' = late /\ wpc' = [wpc EXCEPT ![t] = "again"]
        BY <1>0, <3>1, <3>3
      <3> QED BY <2>3, <3>2, <3>3 DEF NextSymbol
    <2>4. CASE NextSymbolFails(t) BY <1>0, <2>4 DEF NextSymbolFails
    <2>5. CASE RunSymbol(t) BY <1>0, <2>5 DEF RunSymbol
    <2>6. CASE ExitSymbol(t) BY <1>0, <2>6 DEF ExitSymbol, ReturnFromRun
    <2>7. CASE CheckCancel(t) BY <1>0, <2>7 DEF CheckCancel, ReturnFromRun
    <2>8. CASE Again(t) BY <1>0, <2>8 DEF Again, ReturnFromRun
    <2> QED
      BY <1>5, <2>1, <2>2, <2>3, <2>4, <2>5, <2>6, <2>7, <2>8 DEF Worker
  <1>6. CASE UNCHANGED vars
    BY <1>6 DEF vars, schedVars
  <1> QED
    BY <1>1, <1>2, <1>3, <1>4, <1>5, <1>6 DEF Next

\* After a cancel each worker starts at most one more symbol.
THEOREM CancelStops == Spec => []CancelStopsWorkers
  <1>1. Init => CancelInv
    BY DEF Init, CancelInv
  <1>2. IInv /\ CancelInv => CancelStopsWorkers
    BY DEF CancelInv, CancelStopsWorkers, IInv, TypeOK
  <1> QED
    BY <1>1, <1>2, CancelInvStep, Invariance, PTL DEF Spec

-----------------------------------------------------------------------------
\* What is accounted for, in hand or still in the list is inductive.
LEMMA AccountInvStep == IInv /\ AccountInv /\ [Next]_vars => AccountInv'
  <1> SUFFICES ASSUME IInv, AccountInv, [Next]_vars PROVE AccountInv'
    OBVIOUS
  <1> USE DEF AccountInv, histVars
  <1>0. /\ wpc \in [Threads -> WorkerPc] /\ go \in [Threads -> BOOLEAN]
        /\ dropped \in [Threads -> 0 .. NRunnables]
        /\ crt \in 0 .. NRunnables /\ list \in 0 .. NRunnables
    BY DEF IInv, TypeOK
  <1>a. ~running => \A t \in Threads : wpc[t] = "none"
    BY DEF IInv, RunInv
  <1>1. CASE AddRunnable
    BY <1>a, <1>1 DEF AddRunnable
  <1>2. CASE ResetRunnables
    BY <1>a, <1>2 DEF ResetRunnables
  <1>3. CASE \/ \E asynch \in BOOLEAN : RunCall(asynch)
             \/ CancelAsync \/ CancelSyncCall \/ CancelSyncReturn
    BY <1>3 DEF RunCall, CancelAsync, CancelSyncCall, CancelSyncReturn
  <1>4. ASSUME NEW n \in Runs, RunThread(n) PROVE AccountInv'
    <2>1. CASE StartRun(n) BY <2>1 DEF StartRun
    <2>2. CASE JoinAll(n) BY <1>0, <2>2 DEF JoinAll
    <2>3. CASE ClearCancel(n) BY <2>3 DEF ClearCancel
    <2>4. CASE FinishRun(n) BY <2>4 DEF FinishRun
    <2> QED BY <1>4, <2>1, <2>2, <2>3, <2>4 DEF RunThread
  <1>5. ASSUME NEW t \in Threads, Fetch(t) PROVE AccountInv'
    <2>1. wpc[t] = "fetch" /\ dropped[t] = 0 /\ go' = go /\ list' = list
      BY <1>0, <1>5, FetchCases DEF IInv
    <2>2. CASE /\ crt' = crt + 1
               /\ begun' = begun \cup {crt + 1}
               /\ wpc' = [wpc EXCEPT ![t] = "begin"]
               /\ dropped' = dropped
      BY <1>0, <2>1, <2>2
    <2>3. CASE /\ crt' = crt + 1 /\ ~go[t]
               /\ dropped' = [dropped EXCEPT ![t] = crt + 1]
               /\ wpc' = [wpc EXCEPT ![t] = "exit"]
               /\ begun' = begun
      <3>1. dropped'[t] = crt + 1 /\ \A u \in Threads : u # t => dropped'[u] = dropped[u]
        BY <1>0, <2>3
      <3>2. ASSUME NEW r \in 1 .. crt'
            PROVE  r \in begun' \/ \E u \in Threads : dropped'[u] = r /\ ~go'[u]
        <4>1. CASE r = crt + 1 BY <2>1, <2>3, <3>1, <4>1
        <4>2. CASE r # crt + 1
          <5>1. r \in 1 .. crt BY <1>0, <2>3, <4>2
          <5> QED BY <2>1, <2>3, <3>1, <5>1
        <4> QED BY <4>1, <4>2
      <3>3. \A u \in Threads : dropped'[u] # 0 => wpc'[u] \in {"exit", "none"}
        BY <1>0, <2>3, <3>1
      <3>4. \A u \in Threads : wpc'[u] = "exit" => ~go'[u] \/ crt' >= list'
        BY <1>0, <2>1, <2>3
      <3> QED BY <3>2, <3>3, <3>4
    <2>4. CASE /\ crt >= list
               /\ wpc' = [wpc EXCEPT ![t] = "exit"]
               /\ UNCHANGED <<crt, begun, dropped>>
      BY <1>0, <2>1, <2>4
    <2> QED BY <1>5, <2>2, <2>3, <2>4, FetchCases DEF IInv
  <1>6. ASSUME NEW t \in Threads,
               \/ Begin(t) \/ NextSymbol(t) \/ NextSymbolFails(t) \/ RunSymbol(t)
               \/ ExitSymbol(t) \/ CheckCancel(t) \/ Again(t)
        PROVE  AccountInv'
    <2>1. /\ UNCHANGED <<crt, list, begun, dropped>>
          /\ InHand(t)
      BY <1>6 DEF Begin, NextSymbol, NextSymbolFails, RunSymbol, ExitSymbol,
                  CheckCancel, Again, InHand
    <2>2. /\ wpc'[t] # "exit"
          /\ \A u \in Threads : u # t => wpc'[u] = wpc[u] /\ go'[u] = go[u]
      BY <1>0, <1>6 DEF Begin, NextSymbol, NextSymbolFails, RunSymbol,
                        ExitSymbol, CheckCancel, Again, ReturnFromRun
    <2>3. dropped[t] = 0
      BY <2>1 DEF InHand
    <2> QED BY <1>0, <2>1, <2>2, <2>3
  <1>7. CASE UNCHANGED vars
    BY <1>7 DEF vars, schedVars
  <1> QED
    BY <1>1, <1>2, <1>3, <1>4, <1>5, <1>6, <1>7 DEF Next, Worker

\* At the join no runnable is unaccounted for.
THEOREM RunnablesAccounted == Spec => []EveryRunnableAccountedFor
  <1>1. Init => AccountInv
    BY DEF Init, AccountInv
  <1>2. IInv /\ AccountInv => EveryRunnableAccountedFor
    <2> SUFFICES ASSUME IInv, AccountInv, WorkersDone, NEW r \in 1 .. list,
                        NEW t \in Threads, go[t]
                 PROVE  r \in begun \/ \E u \in Threads : dropped[u] = r /\ ~go[u]
      BY DEF EveryRunnableAccountedFor
    <2>1. crt >= list
      BY DEF AccountInv, WorkersDone
    <2>2. r \in 1 .. crt
      BY <2>1 DEF IInv, TypeOK
    <2> QED BY <2>2 DEF AccountInv
  <1> QED
    BY <1>1, <1>2, AccountInvStep, Invariance, PTL DEF Spec

-----------------------------------------------------------------------------
\* A runnable that has left its loop was cut short or saw the end: inductive.
LEMMA DrainInvStep == IInv /\ DrainInv /\ [Next]_vars => DrainInv'
  <1> SUFFICES ASSUME IInv, DrainInv, [Next]_vars PROVE DrainInv'
    OBVIOUS
  <1> USE SchedulerAssumption DEF histVars
  <1>0. /\ wpc \in [Threads -> WorkerPc] /\ cur \in [Threads -> 0 .. NRunnables]
        /\ pos \in [Iterators -> 0 .. NSymbols]
        /\ begun \in SUBSET Runnables
    BY DEF IInv, TypeOK
  <1>a. \A t \in Threads : InHand(t) => cur[t] \in Runnables
    BY DEF IInv, WorkerInv
  \* What keeps the invariant when worker t moves and nothing is begun.
  <1>b. ASSUME NEW t \in Threads,
               begun' = begun,
               cut \subseteq cut',
               \A i \in Iterators : pos[i] = NSymbols => pos'[i] = NSymbols,
               \A u \in Threads : u # t => wpc'[u] = wpc[u] /\ cur'[u] = cur[u],
               InHand(t) => \/ InHand(t)' /\ cur'[t] = cur[t]
                            \/ cur[t] \in cut'
                            \/ pos'[IteratorOf[cur[t]]] = NSymbols,
               wpc'[t] = "again" => \/ cur'[t] \in cut'
                                    \/ pos'[IteratorOf[cur'[t]]] = NSymbols
        PROVE  DrainInv'
    <2>1. ASSUME NEW r \in begun' \ cut'
          PROVE  \/ pos'[IteratorOf[r]] = NSymbols
                 \/ \E u \in Threads : InHand(u)' /\ cur'[u] = r
      <3>1. r \in begun \ cut /\ IteratorOf[r] \in Iterators
        BY <1>0, <1>b
      <3>2. CASE pos[IteratorOf[r]] = NSymbols
        BY <1>b, <3>1, <3>2
      <3>3. CASE pos[IteratorOf[r]] # NSymbols
        <4>1. PICK u \in Threads : InHand(u) /\ cur[u] = r
          BY <3>1, <3>3 DEF DrainInv
        <4>2. CASE u # t BY <1>b, <4>1, <4>2 DEF InHand
        <4>3. CASE u = t BY <1>b, <4>1, <4>3
        <4> QED BY <4>2, <4>3
      <3> QED BY <3>2, <3>3
    <2>2. ASSUME NEW u \in Threads, wpc'[u] = "again", cur'[u] \notin cut'
          PROVE  pos'[IteratorOf[cur'[u]]] = NSymbols
      <3>1. CASE u = t BY <1>b, <2>2, <3>1
      <3>2. CASE u # t
        <4>1. wpc[u] = "again" /\ cur[u] = cur'[u] /\ cur[u] \notin cut
          BY <1>b, <2>2, <3>2
        <4>2. pos[IteratorOf[cur[u]]] = NSymbols
          BY <4>1 DEF DrainInv
        <4>3. IteratorOf[cur[u]] \in Iterators
          BY <1>a, <4>1 DEF InHand
        <4> QED BY <1>b, <4>1, <4>2, <4>3
      <3> QED BY <3>1, <3>2
    <2> QED BY <2>1, <2>2 DEF DrainInv, InHand
  <1>1. CASE \/ AddRunnable \/ ResetRunnables
             \/ \E asynch \in BOOLEAN : RunCall(asynch)
             \/ CancelAsync \/ CancelSyncCall \/ CancelSyncReturn
    BY <1>1 DEF AddRunnable, ResetRunnables, RunCall, CancelAsync,
                CancelSyncCall, CancelSyncReturn, DrainInv, InHand
  <1>2. ASSUME NEW n \in Runs, RunThread(n) PROVE DrainInv'
    <2>1. CASE StartRun(n) BY <2>1 DEF StartRun, DrainInv
    <2>2. CASE JoinAll(n) BY <2>2 DEF JoinAll, DrainInv, InHand
    <2>3. CASE ClearCancel(n) BY <2>3 DEF ClearCancel, DrainInv, InHand
    <2>4. CASE FinishRun(n) BY <2>4 DEF FinishRun, DrainInv, InHand
    <2> QED BY <1>2, <2>1, <2>2, <2>3, <2>4 DEF RunThread
  <1>3. ASSUME NEW t \in Threads, Fetch(t) PROVE DrainInv'
    <2>1. wpc[t] = "fetch" /\ UNCHANGED <<pos, cut>>
      BY <1>3, FetchCases DEF IInv
    <2>2. CASE begun' = begun /\ cur' = cur /\ wpc' = [wpc EXCEPT ![t] = "exit"]
      BY <1>0, <1>b, <2>1, <2>2 DEF InHand
    <2>3. CASE /\ begun' = begun \cup {crt + 1}
               /\ cur' = [cur EXCEPT ![t] = crt + 1]
               /\ wpc' = [wpc EXCEPT ![t] = "begin"]
      <3>1. InHand(t)' /\ cur'[t] = crt + 1 /\ ~InHand(t)
        BY <1>0, <2>1, <2>3 DEF InHand
      <3>2. \A u \in Threads : u # t => wpc'[u] = wpc[u] /\ cur'[u] = cur[u]
        BY <1>0, <2>3
      <3>3. ASSUME NEW r \in begun' \ cut'
            PROVE  \/ pos'[IteratorOf[r]] = NSymbols
                   \/ \E u \in Threads : InHand(u)' /\ cur'[u] = r
        <4>1. CASE r = crt + 1 BY <3>1, <4>1
        <4>2. CASE r # crt + 1
          <5>1. \/ pos[IteratorOf[r]] = NSymbols
                \/ \E u \in Threads : InHand(u) /\ cur[u] = r
            BY <2>1, <2>3, <3>3, <4>2 DEF DrainInv
          <5> QED BY <2>1, <3>1, <3>2, <5>1 DEF InHand
        <4> QED BY <4>1, <4>2
      <3>4. \A u \in Threads : wpc'[u] = "again" /\ cur'[u] \notin cut'
                                 => pos'[IteratorOf[cur'[u]]] = NSymbols
        BY <1>0, <2>1, <2>3, <3>2 DEF DrainInv
      <3> QED BY <3>3, <3>4 DEF DrainInv, InHand
    <2> QED BY <1>3, <2>2, <2>3, FetchCases DEF IInv
  <1>4. ASSUME NEW t \in Threads, Begin(t) PROVE DrainInv'
    BY <1>0, <1>4, <1>b DEF Begin, ReturnFromRun, InHand
  <1>5. ASSUME NEW t \in Threads, NextSymbol(t) PROVE DrainInv'
    <2>1. IteratorOf[cur[t]] \in Iterators
      BY <1>a, <1>5 DEF NextSymbol, InHand
    <2>2. CASE pos[IteratorOf[cur[t]]] < NSymbols
      BY <1>0, <1>5, <1>b, <2>1, <2>2 DEF NextSymbol, InHand
    <2>3. CASE ~(pos[IteratorOf[cur[t]]] < NSymbols)
      BY <1>0, <1>5, <1>b, <2>1, <2>3 DEF NextSymbol, InHand
    <2> QED BY <2>2, <2>3
  <1>6. ASSUME NEW t \in Threads, NextSymbolFails(t) PROVE DrainInv'
    <2>1. IteratorOf[cur[t]] \in Iterators
      BY <1>a, <1>6 DEF NextSymbolFails, InHand
    <2> QED BY <1>0, <1>6, <1>b, <2>1 DEF NextSymbolFails, InHand
  <1>7. ASSUME NEW t \in Threads, RunSymbol(t) PROVE DrainInv'
    BY <1>0, <1>7, <1>b DEF RunSymbol, InHand
  <1>8. ASSUME NEW t \in Threads, ExitSymbol(t) PROVE DrainInv'
    BY <1>0, <1>8, <1>b DEF ExitSymbol, ReturnFromRun, InHand
  <1>9. ASSUME NEW t \in Threads, CheckCancel(t) PROVE DrainInv'
    BY <1>0, <1>9, <1>b DEF CheckCancel, ReturnFromRun, InHand
  <1>10. ASSUME NEW t \in Threads, Again(t) PROVE DrainInv'
    <2>1. cur[t] \in cut \/ pos[IteratorOf[cur[t]]] = NSymbols
      BY <1>10 DEF Again, DrainInv
    <2>2. wpc[t] = "again" /\ UNCHANGED <<pos, begun, cut>>
      BY <1>10 DEF Again
    <2>3. CASE wpc' = [wpc EXCEPT ![t] = "begin"] /\ UNCHANGED cur
      BY <1>0, <1>b, <2>1, <2>2, <2>3 DEF InHand
    <2>4. CASE ReturnFromRun(t, TRUE)
      BY <1>0, <1>b, <2>1, <2>2, <2>4 DEF ReturnFromRun, InHand
    <2> QED BY <1>10, <2>3, <2>4 DEF Again
  <1>11. CASE UNCHANGED vars
    BY <1>11 DEF vars, schedVars, DrainInv, InHand
  <1> QED
    BY <1>1, <1>2, <1>3, <1>4, <1>5, <1>6, <1>7, <1>8, <1>9, <1>10, <1>11
       DEF Next, Worker

\* A runnable that was not cut short has seen the end of its iterator.
THEOREM IteratorsDrained == Spec => []UncutRunnablesDrainIterator
  <1>1. Init => DrainInv
    BY DEF Init, DrainInv
  <1>2. DrainInv => UncutRunnablesDrainIterator
    BY DEF DrainInv, UncutRunnablesDrainIterator, WorkersDone, InHand
  <1> QED
    BY <1>1, <1>2, DrainInvStep, Invariance, PTL DEF Spec

-----------------------------------------------------------------------------
\* Only symbols before the place of the iterator have been run: inductive.
LEMMA SymbolInvStep == IInv /\ SymbolInv /\ [Next]_vars => SymbolInv'
  <1> SUFFICES ASSUME IInv, SymbolInv, [Next]_vars PROVE SymbolInv'
    OBVIOUS
  <1> USE SchedulerAssumption DEF histVars
  <1>0. /\ wpc \in [Threads -> WorkerPc] /\ cur \in [Threads -> 0 .. NRunnables]
        /\ sym \in [Threads -> 0 .. NSymbols]
        /\ pos \in [Iterators -> 0 .. NSymbols]
        /\ times \in [Iterators -> [Symbols -> Nat]]
    BY DEF IInv, TypeOK
  <1>a. \A t \in Threads : InHand(t) => cur[t] \in Runnables
    BY DEF IInv, WorkerInv
  \* What keeps the invariant when no symbol is handed out to a worker.
  <1>b. ASSUME times' = times,
               pos' \in [Iterators -> 0 .. NSymbols],
               \A i \in Iterators : pos[i] <= pos'[i],
               \A u \in Threads : wpc'[u] = "symbol" =>
                 wpc[u] = "symbol" /\ sym'[u] = sym[u] /\ cur'[u] = cur[u]
        PROVE  SymbolInv'
    <2>1. \A i \in Iterators, k \in Symbols :
            times'[i][k] <= IF k <= pos'[i] THEN 1 ELSE 0
      <3> SUFFICES ASSUME NEW i \in Iterators, NEW k \in Symbols
                   PROVE  times[i][k] <= IF k <= pos'[i] THEN 1 ELSE 0
        BY <1>b
      <3>1. times[i][k] <= IF k <= pos[i] THEN 1 ELSE 0
        BY DEF SymbolInv, SymbolsRunAtMostOnce
      <3>2. pos[i] <= pos'[i] /\ pos[i] \in Nat /\ pos'[i] \in Nat /\ k \in Nat
        BY <1>0, <1>b DEF Symbols
      <3>3. times[i][k] \in Nat
        BY <1>0
      <3> QED BY <3>1, <3>2, <3>3
    <2>2. ASSUME NEW u \in Threads, wpc'[u] = "symbol"
          PROVE  sym'[u] >= 1 /\ sym'[u] <= pos'[IteratorOf[cur'[u]]]
      <3>1. wpc[u] = "symbol" /\ sym'[u] = sym[u] /\ cur'[u] = cur[u]
        BY <1>b, <2>2
      <3>2. IteratorOf[cur[u]] \in Iterators
        BY <1>a, <3>1 DEF InHand
      <3>3. sym[u] >= 1 /\ sym[u] <= pos[IteratorOf[cur[u]]]
        BY <3>1 DEF SymbolInv
      <3> QED BY <1>0, <1>b, <3>1, <3>2, <3>3
    <2>3. \A t, u \in Threads :
            t # u /\ wpc'[t] = "symbol" /\ wpc'[u] = "symbol" /\ sym'[t] = sym'[u]
            => IteratorOf[cur'[t]] # IteratorOf[cur'[u]]
      BY <1>b DEF SymbolInv, SymbolsRunAtMostOnce
    <2> QED BY <2>1, <2>2, <2>3 DEF SymbolInv, SymbolsRunAtMostOnce
  <1>1. CASE \/ AddRunnable \/ ResetRunnables
             \/ \E asynch \in BOOLEAN : RunCall(asynch)
             \/ CancelAsync \/ CancelSyncCall \/ CancelSyncReturn
    BY <1>0, <1>1, <1>b DEF AddRunnable, ResetRunnables, RunCall, CancelAsync,
                            CancelSyncCall, CancelSyncReturn
  <1>2. ASSUME NEW n \in Runs, RunThread(n) PROVE SymbolInv'
    <2>1. /\ UNCHANGED <<times, pos, sym, cur>>
          /\ \A u \in Threads : wpc'[u] = "symbol" => wpc[u] = "symbol"
      BY <1>2 DEF RunThread, StartRun, JoinAll, ClearCancel, FinishRun
    <2> QED BY <1>0, <1>b, <2>1
  <1>3. ASSUME NEW t \in Threads, Fetch(t) PROVE SymbolInv'
    <2>1. /\ UNCHANGED <<times, pos, sym>> /\ wpc'[t] # "symbol"
          /\ \A u \in Threads : u # t => wpc'[u] = wpc[u] /\ cur'[u] = cur[u]
      BY <1>0, <1>3, FetchCases DEF IInv
    <2> QED BY <1>0, <1>b, <2>1
  <1>4. ASSUME NEW t \in Threads,
               \/ Begin(t) \/ NextSymbolFails(t) \/ RunSymbol(t)
               \/ ExitSymbol(t) \/ CheckCancel(t) \/ Again(t)
        PROVE  SymbolInv'
    <2>1. /\ times' = times /\ wpc'[t] # "symbol"
          /\ \A u \in Threads : u # t =>
               wpc'[u] = wpc[u] /\ cur'[u] = cur[u] /\ sym'[u] = sym[u]
      BY <1>0, <1>4 DEF Begin, NextSymbolFails, RunSymbol, ExitSymbol,
                        CheckCancel, Again, ReturnFromRun
    <2>2. CASE pos' = pos
      BY <1>0, <1>b, <2>1, <2>2
    <2>3. CASE NextSymbolFails(t)
      <3>1. IteratorOf[cur[t]] \in Iterators
        BY <1>a, <2>3 DEF NextSymbolFails, InHand
      <3>2. /\ pos' \in [Iterators -> 0 .. NSymbols]
            /\ \A i \in Iterators : pos[i] <= pos'[i]
        BY <1>0, <2>3, <3>1 DEF NextSymbolFails
      <3> QED BY <1>b, <2>1, <3>2
    <2> QED
      BY <1>4, <2>2, <2>3 DEF Begin, RunSymbol, ExitSymbol, CheckCancel, Again
  <1>5. ASSUME NEW t \in Threads, NextSymbol(t) PROVE SymbolInv'
    <2> DEFINE i == IteratorOf[cur[t]]
               k == pos[i] + 1
    <2>1. i \in Iterators /\ UNCHANGED cur
      BY <1>a, <1>5 DEF NextSymbol, InHand
    <2>2. CASE ~(pos[i] < NSymbols)
      <3>1. /\ UNCHANGED <<times, pos, sym>> /\ wpc' = [wpc EXCEPT ![t] = "again"]
        BY <1>5, <2>2 DEF NextSymbol
      <3> QED BY <1>0, <1>b, <2>1, <3>1
    <2>3. CASE pos[i] < NSymbols
      <3>1. /\ pos' = [pos EXCEPT ![i] = @ + 1]
            /\ sym' = [sym EXCEPT ![t] = k]
            /\ wpc' = [wpc EXCEPT ![t] = "symbol"]
            /\ times' = [times EXCEPT ![i][k] = @ + 1]
        BY <1>5, <2>3 DEF NextSymbol
      <3>2. k \in Symbols /\ pos'[i] = k
        BY <1>0, <2>1, <2>3, <3>1 DEF Symbols
      <3>3. \A j \in Iterators : j # i => pos'[j] = pos[j] /\ times'[j] = times[j]
        BY <1>0, <3>1
      <3>4. \A l \in Symbols : l # k => times'[i][l] = times[i][l]
        BY <1>0, <2>1, <3>1
      <3>5. times[i][k] = 0 /\ times'[i][k] = 1
        <4>1. times[i][k] <= 0 /\ times[i][k] \in Nat
          BY <1>0, <2>1, <3>2 DEF SymbolInv, SymbolsRunAtMostOnce
        <4> QED BY <1>0, <2>1, <3>1, <3>2, <4>1
      <3>6. ASSUME NEW j \in Iterators, NEW l \in Symbols
            PROVE  times'[j][l] <= IF l <= pos'[j] THEN 1 ELSE 0
        <4>1. times[j][l] <= IF l <= pos[j] THEN 1 ELSE 0
          BY DEF SymbolInv, SymbolsRunAtMostOnce
        <4>2. CASE j # i BY <3>3, <4>1, <4>2
        <4>3. CASE j = i /\ l = k BY <3>2, <3>5, <4>3 DEF Symbols
        <4>4. CASE j = i /\ l # k
          <5>1. times'[j][l] = times[j][l] /\ times[j][l] \in Nat
            BY <1>0, <2>1, <3>4, <4>4
          <5>2. l <= pos[i] => l <= pos'[i]
            BY <1>0, <2>1, <3>2 DEF Symbols
          <5> QED BY <4>1, <4>4, <5>1, <5>2
        <4> QED BY <4>2, <4>3, <4>4
      <3>7. \A u \in Threads : u # t => wpc'[u] = wpc[u] /\ sym'[u] = sym[u]
        BY <1>0, <3>1
      <3>8. wpc'[t] = "symbol" /\ sym'[t] = k
        BY <1>0, <3>1
      <3>9. ASSUME NEW u \in Threads, wpc'[u] = "symbol"
            PROVE  /\ sym'[u] >= 1 /\ sym'[u] <= pos'[IteratorOf[cur'[u]]]
                   /\ u # t => \/ IteratorOf[cur[u]] # i
                               \/ sym'[u] < k
        <4>1. CASE u = t BY <2>1, <3>2, <3>8, <4>1 DEF Symbols
        <4>2. CASE u # t
          <5>1. wpc[u] = "symbol" /\ IteratorOf[cur[u]] \in Iterators
            BY <1>a, <3>7, <3>9, <4>2 DEF InHand
          <5>2. sym[u] >= 1 /\ sym[u] <= pos[IteratorOf[cur[u]]] /\ sym[u] \in Nat
            BY <1>0, <5>1 DEF SymbolInv
          <5>3. CASE IteratorOf[cur[u]] = i
            BY <1>0, <2>1, <3>2, <3>7, <4>2, <5>2, <5>3
          <5>4. CASE IteratorOf[cur[u]] # i
            BY <2>1, <3>3, <3>7, <4>2, <5>1, <5>2, <5>4
          <5> QED BY <5>3, <5>4
        <4> QED BY <4>1, <4>2
      <3>10. ASSUME NEW u \in Threads, NEW v \in Threads, u # v,
                    wpc'[u] = "symbol", wpc'[v] = "symbol", sym'[u] = sym'[v]
             PROVE  IteratorOf[cur'[u]] # IteratorOf[cur'[v]]
        <4>1. CASE u # t /\ v # t
          BY <2>1, <3>7, <3>10, <4>1 DEF SymbolInv, SymbolsRunAtMostOnce
        <4>2. CASE u = t BY <2>1, <3>2, <3>8, <3>9, <3>10, <4>2 DEF Symbols
        <4>3. CASE v = t BY <2>1, <3>2, <3>8, <3>9, <3>10, <4>3 DEF Symbols
        <4> QED BY <4>1, <4>2, <4>3
      <3> QED BY <3>6, <3>9, <3>10 DEF SymbolInv, SymbolsRunAtMostOnce
    <2> QED BY <2>2, <2>3
  <1>6. CASE UNCHANGED vars
    BY <1>0, <1>6, <1>b DEF vars, schedVars
  <1> QED
    BY <1>1, <1>2, <1>3, <1>4, <1>5, <1>6 DEF Next, Worker

\* Runnables that share an iterator never run the same symbol.
THEOREM SymbolsExclusive == Spec => []SymbolsRunAtMostOnce
  <1>1. Init => SymbolInv
    BY SchedulerAssumption DEF Init, SymbolInv, SymbolsRunAtMostOnce, Symbols
  <1>2. SymbolInv => SymbolsRunAtMostOnce
    BY DEF SymbolInv
  <1> QED
    BY <1>1, <1>2, SymbolInvStep, Invariance, PTL DEF Spec

-----------------------------------------------------------------------------
(* The main thread and the session *)

MainPc == {"start", "locked", "created", "failed", "symbols", "symbolsUse", "loop",
           "cancel", "ca1", "ca2", "ca3", "cancelAsync", "relock", "blocked", "ca5",
           "ca6", "save", "destroy", "exit"}
SchedPc == {"off", "runStarted", "rs1", "rs2", "run", "runEnded", "re1", "re2", "re3",
            "re4", "re5"}

\* Where main is in cancel().
Canceling == {"cancel", "ca1", "ca2", "ca3", "cancelAsync", "relock", "blocked", "ca5",
              "ca6"}

SessionTypeOK ==
  /\ status \in {"READY", "RUNNING", "CANCELING"}
  /\ mx \in Procs \cup {NoOne} /\ mxStatusChange \in Procs \cup {NoOne}
  /\ count \in [Contexts -> Int]
  /\ plugins \in BOOLEAN /\ endedReceived \in BOOLEAN
  /\ pc \in [Procs -> MainPc \cup SchedPc]
  /\ events \in [Events -> Nat]
  /\ exceeded \in BOOLEAN /\ timedOut \in BOOLEAN /\ saved \in BOOLEAN

\* The run has begun for the session when start() has called run(); it is over for the
\* plugins when they have been told so, and released a step later.
HasRun == runPc[1] # "none"
Told == pc["sched"] \in {"run", "runEnded", "re1", "re2", "re3", "re4", "re5"}
        \/ runPc[1] = "done"
Over == pc["sched"] \in {"re3", "re4", "re5"} \/ runPc[1] = "done"
Released == pc["sched"] \in {"re4", "re5"} \/ runPc[1] = "done"
Ready == pc["sched"] = "re5" \/ runPc[1] = "done"

\* Where the threads are in each state of the run.
PlaceInv ==
  /\ pc["main"] \in MainPc /\ pc["sched"] \in SchedPc
  /\ pc["sched"] = "off" => runPc[1] \in {"none", "start", "done"}
  /\ pc["sched"] \in {"runStarted", "rs1", "rs2"} => runPc[1] = "start"
  /\ pc["sched"] = "run" => runPc[1] \in {"start", "join", "clear", "notify"}
  /\ pc["sched"] \in {"runEnded", "re1", "re2", "re3", "re4", "re5"} => runPc[1] = "notify"
  /\ pc["main"] \in {"start", "locked", "created"} => ~HasRun
  /\ pc["main"] \in Canceling \cup {"symbols", "symbolsUse", "loop", "save", "destroy"}
       => HasRun
  /\ running => runPc[1] \in {"start", "join"}
  /\ ~exceeded => pc["main"] \notin Canceling /\ (pc["main"] = "failed" => ~HasRun)

Once(b) == IF b THEN 1 ELSE 0

\* What the plugins have been told.
EventInv ==
  /\ events["runStarted"] = Once(Told)
  /\ events["runEnded"] = Once(Over)
  /\ events["sessionStarted"] = Once(pc["main"] = "created" \/ HasRun)
  /\ events["sessionEnded"] >= events["runEnded"]
  /\ ~exceeded => events["sessionEnded"] = events["runEnded"]

\* When the scheduler has joined its workers and the plugins know of the end.
Ended == ~running /\ events["sessionEnded"] > 0

\* A session is ready, and its results are written, when it has ended.
StatusInv ==
  /\ status = "READY" /\ HasRun => Ended
  /\ ~exceeded /\ HasRun => (status = "READY" <=> Ready)
  /\ pc["main"] = "created" => status = "RUNNING"
  /\ pc["main"] \in {"ca5", "ca6"} => ~running
  /\ pc["main"] \in {"save", "destroy"} /\ ~timedOut => Ended
  /\ saved => HasRun /\ pc["main"] \in {"destroy", "exit"} /\ (~timedOut => Ended)

Created == plugins /\ \A c \in Contexts : count[c] = 1
Gone == ~plugins /\ \A c \in Contexts : count[c] = 0

\* What is there in each state of the run.
ResourceInv ==
  /\ pc["main"] \in {"start", "locked"} => Gone
  /\ pc["main"] = "created" \/ (running /\ pc["main"] # "exit")
       => Created /\ list = NRunnables
  /\ ~exceeded /\ HasRun /\ Released => Gone
  /\ ~exceeded /\ HasRun /\ ~Released /\ pc["main"] # "exit" => Created

SessionInv == SessionTypeOK /\ PlaceInv /\ EventInv /\ StatusInv /\ ResourceInv

RunSystemInv == IInv /\ SessionInv
-----------------------------------------------------------------------------
\* The session makes one run; its list of runnables is what createRunnables makes.
LEMMA OneRun ==
  /\ MaxRuns = 1 /\ Runs = {1} /\ 1 \in Runs
  /\ NRunnables \in Nat /\ RunnablesCreated = NRunnables
  BY SessionAssumption, SchedulerAssumption DEF Runs

\* A session that has just been built satisfies the invariant.
LEMMA InitSession == RunSystemInit => RunSystemInv
  <1> SUFFICES ASSUME RunSystemInit PROVE RunSystemInv
    OBVIOUS
  <1>1. IInv
    BY InitIInv DEF RunSystemInit, SessionInit
  <1> USE OneRun DEF RunSystemInit, SessionInit, Init
  <1>2. SessionTypeOK
    <2>1. count \in [Contexts -> Int] /\ events \in [Events -> Nat]
      OBVIOUS
    <2>2. pc \in [Procs -> MainPc \cup SchedPc]
      BY DEF Procs, MainPc, SchedPc
    <2>3. /\ status \in {"READY", "RUNNING", "CANCELING"}
          /\ mx = NoOne /\ mxStatusChange = NoOne /\ plugins \in BOOLEAN
          /\ endedReceived \in BOOLEAN /\ exceeded \in BOOLEAN
          /\ timedOut \in BOOLEAN /\ saved \in BOOLEAN
      OBVIOUS
    <2> QED
      BY <2>1, <2>2, <2>3, Zenon DEF SessionTypeOK
  <1>3. PlaceInv
    BY DEF PlaceInv, Procs, MainPc, SchedPc, Canceling, HasRun
  <1>4. EventInv
    BY DEF EventInv, Events, Told, Over, HasRun, Once, Procs
  <1>5. StatusInv
    BY DEF StatusInv, HasRun, Procs
  <1>6. ResourceInv
    BY DEF ResourceInv, HasRun, Gone, Procs
  <1> QED
    BY <1>1, <1>2, <1>3, <1>4, <1>5, <1>6 DEF RunSystemInv, SessionInv

\* What the session does with the scheduler is a step of the scheduler, or changes
\* nothing of it but the list of runnables and, at the end, where its thread is.
LEMMA SchedulerStep ==
  ASSUME RunSystemInv, RunSystemNext
  PROVE  IInv'
  <1> USE OneRun DEF RunSystemInv, SessionInv
  <1>1. CASE [Next]_vars
    BY <1>1, IInvStep
  <1>2. ASSUME list' \in 0 .. NRunnables,
               UNCHANGED <<crt, pos, running, cancelState, caller, canceler, wpc, go,
                           cur, sym, histVars>>,
               \/ UNCHANGED runPc
               \/ runPc[1] = "notify" /\ runPc' = [runPc EXCEPT ![1] = "done"]
        PROVE  IInv'
    <2>1. TypeOK'
      BY <1>2 DEF IInv, TypeOK, histVars, RunPc
    <2>2. RunInv'
      BY <1>2 DEF IInv, TypeOK, RunInv, histVars
    <2>3. WorkerInv'
      BY <1>2 DEF IInv, WorkerInv, OneWorkerPerRunnable, InHand, histVars
    <2> QED
      BY <2>1, <2>2, <2>3 DEF IInv
  <1>3. CASE MainThread
    <2>1. CASE StartCreate \/ StartNotifyFails \/ CancelRelease
      BY <1>2, <2>1 DEF StartCreate, StartNotifyFails, CancelRelease, ReleasePlugins
    <2>2. CASE StartRunCall
      BY <1>1, <2>2 DEF StartRunCall, Next
    <2>3. CASE CancelSetFlag
      BY <1>1, <2>3 DEF CancelSetFlag, Next
    <2>4. CASE UNCHANGED vars
      BY <1>1, <2>4
    <2> QED
      BY <1>3, <2>1, <2>2, <2>3, <2>4
         DEF MainThread, StartOp, CancelOp, LockMx, StartFails, CancelLockMx,
             CancelLockStatus, LockStatusChange, CancelNotify, CancelRunning, RelockBlocks,
             RelockThrows, CancelNotRunning, SymbolsCountTest, SymbolsCountUse,
             LoopCancel, LoopEnds, SaveResults, Destroy
  <1>4. CASE SchedThread
    <2>1. CASE SchedulerRun
      BY <1>1, <2>1 DEF SchedulerRun, Next, RunThread
    <2>2. CASE RunEndedRelease
      BY <1>2, <2>2 DEF RunEndedRelease, ReleasePlugins
    <2>3. CASE RunEndedReturn
      BY <1>2, <2>3 DEF RunEndedReturn, PlaceInv, Goto
    <2>4. CASE UNCHANGED vars
      BY <1>1, <2>4
    <2> QED
      BY <1>4, <2>1, <2>2, <2>3, <2>4
         DEF SchedThread, ThreadFunc, RunStartedLockMx, RunStartedLockStatus, LockMx,
             LockStatusChange, RunStarted, RunEndedCall, RunEndedLockMx,
             RunEndedLockStatus, RunEndedNotify, RunEndedReady
  <1>5. CASE \E t \in Threads : WorkerThread(t)
    BY <1>1, <1>5 DEF WorkerThread, Next
  <1>6. CASE LoopTimeout \/ BarsExceeded
    BY <1>1, <1>6 DEF LoopTimeout, BarsExceeded
  <1> QED
    BY <1>3, <1>4, <1>5, <1>6 DEF RunSystemNext, SessionThread
\* The one call of run().
LEMMA FirstCall ==
  ASSUME TypeOK, RunCall(TRUE)
  PROVE  /\ runs = 0 /\ runPc' = [runPc EXCEPT ![1] = "start"]
         /\ running' = TRUE
  <1>1. runs = 0
    BY OneRun DEF TypeOK, RunCall
  <1> QED
    BY <1>1 DEF RunCall

-----------------------------------------------------------------------------
\* What is added to the invariant of the scheduler is kept too, thread by thread.
\* start(), in the main thread.
LEMMA StartStep ==
  ASSUME RunSystemInv, StartOp, UNCHANGED mainVars
  PROVE  SessionInv'
  <1> USE OneRun DEF RunSystemInv, IInv, TypeOK, SessionInv, SessionTypeOK, PlaceInv,
                     EventInv, StatusInv, ResourceInv, Goto, Procs, NoOne, Events, MainPc,
                     SchedPc, Canceling, HasRun, Told, Over, Released, Ready, Once, Ended,
                     Created, Gone, vars, schedVars, histVars, mainVars
  <1>1. CASE LockMx("main", "start", "locked")
    BY <1>1 DEF LockMx
  <1>2. CASE StartCreate
    <2>1. count' \in [Contexts -> Int]
      BY <1>2 DEF StartCreate
    <2>2. /\ events' \in [Events -> Nat]
          /\ events'["sessionStarted"] = 1
          /\ \A e \in Events : e # "sessionStarted" => events'[e] = events[e]
      BY <1>2 DEF StartCreate, Notify, Events
    <2>3. PlaceInv' /\ EventInv'
      BY <1>2, <2>2 DEF StartCreate, Events
    <2>4. StatusInv' /\ ResourceInv'
      BY <1>2 DEF StartCreate
    <2> QED
      BY <1>2, <2>1, <2>2, <2>3, <2>4 DEF StartCreate
  <1>3. CASE StartFails
    BY <1>3 DEF StartFails
  <1>4. CASE StartNotifyFails
    <2>1. count' \in [Contexts -> Int]
      BY <1>4 DEF StartNotifyFails
    <2> QED
      BY <1>4, <2>1 DEF StartNotifyFails
  <1>5. CASE StartRunCall
    <2>1. runPc' = [runPc EXCEPT ![1] = "start"] /\ running' = TRUE
      BY <1>5, FirstCall DEF StartRunCall
    <2>2. runPc'[1] = "start"
      BY <2>1
    <2>3. pc["sched"] = "off" /\ pc'["sched"] = "off" /\ pc'["main"] = "symbols"
      BY <1>5 DEF StartRunCall, HasRun
    <2> QED
      BY <1>5, <2>1, <2>2, <2>3 DEF StartRunCall, RunCall
  <1> QED
    BY <1>1, <1>2, <1>3, <1>4, <1>5 DEF StartOp

\* cancel(), in the main thread.
LEMMA CancelStep ==
  ASSUME RunSystemInv, CancelOp, UNCHANGED mainVars
  PROVE  SessionInv'
  <1> USE OneRun DEF RunSystemInv, IInv, TypeOK, SessionInv, SessionTypeOK, PlaceInv,
                     EventInv, StatusInv, ResourceInv, Goto, Procs, NoOne, Events, MainPc,
                     SchedPc, Canceling, HasRun, Told, Over, Released, Ready, Once, Ended,
                     Created, Gone, vars, schedVars, histVars, mainVars
  <1>1. CASE CancelLockMx
    BY <1>1 DEF CancelLockMx, LockMx
  <1>2. CASE CancelLockStatus
    BY <1>2 DEF CancelLockStatus, LockStatusChange
  <1>3. CASE CancelNotify
    BY <1>3 DEF CancelNotify, Notify
  <1>4. CASE CancelRunning
    BY <1>4 DEF CancelRunning
  <1>5. CASE CancelSetFlag
    BY <1>5 DEF CancelSetFlag, CancelAsync
  <1>6. CASE RelockBlocks
    BY <1>6 DEF RelockBlocks
  <1>7. CASE RelockThrows
    BY <1>7 DEF RelockThrows
  <1>8. CASE CancelNotRunning
    BY <1>8 DEF CancelNotRunning, Notify
  <1>9. CASE CancelRelease
    <2>1. count' \in [Contexts -> Int]
      BY <1>9 DEF CancelRelease, ReleasePlugins
    <2> QED
      BY <1>9, <2>1 DEF CancelRelease, ReleasePlugins
  <1> QED
    BY <1>1, <1>2, <1>3, <1>4, <1>5, <1>6, <1>7, <1>8, <1>9 DEF CancelOp

\* The other steps of the main thread.
LEMMA LoopStep ==
  ASSUME RunSystemInv, \/ SymbolsCountTest \/ SymbolsCountUse \/ LoopTimeout \/ LoopCancel
                       \/ LoopEnds \/ SaveResults \/ Destroy
  PROVE  SessionInv'
  <1> USE OneRun DEF RunSystemInv, IInv, TypeOK, SessionInv, SessionTypeOK, PlaceInv,
                     EventInv, StatusInv, ResourceInv, Goto, Procs, NoOne, Events, MainPc,
                     SchedPc, Canceling, HasRun, Told, Over, Released, Ready, Once, Ended,
                     Created, Gone, vars, schedVars, histVars, mainVars
  <1>1. CASE SymbolsCountTest
    BY <1>1 DEF SymbolsCountTest
  <1>2. CASE SymbolsCountUse
    BY <1>2 DEF SymbolsCountUse
  <1>3. CASE LoopCancel
    BY <1>3 DEF LoopCancel
  <1>4. CASE LoopEnds
    BY <1>4 DEF LoopEnds
  <1>5. CASE LoopTimeout
    BY <1>5 DEF LoopTimeout
  <1>6. CASE SaveResults
    BY <1>6 DEF SaveResults
  <1>7. CASE Destroy
    <2>1. count' \in [Contexts -> Int]
      BY <1>7 DEF Destroy
    <2>2. Gone => Gone'
      BY <1>7 DEF Destroy
    <2>3. Created => Gone'
      BY <1>7 DEF Destroy
    <2>4. /\ pc["main"] \in {"destroy", "failed"} /\ pc' = [pc EXCEPT !["main"] = "exit"]
          /\ plugins' = FALSE
          /\ UNCHANGED <<running, runPc, list, status, mx, mxStatusChange, endedReceived,
                         events, mainVars>>
      BY <1>7 DEF Destroy
    <2> HIDE DEF Gone, Created
    <2>5. SessionTypeOK'
      BY <2>1, <2>4
    <2>6. PlaceInv' /\ EventInv' /\ StatusInv' /\ ResourceInv'
      BY <2>2, <2>3, <2>4
    <2> QED
      BY <2>5, <2>6
  <1> QED
    BY <1>1, <1>2, <1>3, <1>4, <1>5, <1>6, <1>7

\* The thread of the run, which calls the session back.
LEMMA RunStep ==
  ASSUME RunSystemInv, SchedThread, ProcessAlive, UNCHANGED mainVars
  PROVE  SessionInv'
  <1> USE OneRun DEF RunSystemInv, IInv, TypeOK, SessionInv, SessionTypeOK, PlaceInv,
                     EventInv, StatusInv, ResourceInv, Goto, Procs, NoOne, Events, MainPc,
                     SchedPc, Canceling, HasRun, Told, Over, Released, Ready, Once, Ended,
                     Created, Gone, vars, schedVars, histVars, mainVars
  <1>1. CASE ThreadFunc
    BY <1>1 DEF ThreadFunc
  <1>2. CASE RunStartedLockMx
    BY <1>2 DEF RunStartedLockMx, LockMx
  <1>3. CASE RunStartedLockStatus
    BY <1>3 DEF RunStartedLockStatus, LockStatusChange
  <1>4. CASE RunStarted
    BY <1>4 DEF RunStarted, Notify
  <1>5. CASE SchedulerRun
    <2>1. CASE StartRun(1)
      <3>1. /\ runPc[1] = "start" /\ runPc'[1] = "join" /\ running' = TRUE /\ running
            /\ UNCHANGED <<list, sessVars, mainVars>> /\ pc["sched"] = "run"
        BY <1>5, <2>1 DEF SchedulerRun, StartRun, RunInv
      <3> HIDE DEF Gone, Created
      <3> QED
        BY <3>1 DEF sessVars, Gone, Created
    <2>2. CASE JoinAll(1)
      BY <1>5, <2>2 DEF SchedulerRun, JoinAll, sessVars
    <2>3. CASE ClearCancel(1)
      BY <1>5, <2>3 DEF SchedulerRun, ClearCancel, sessVars
    <2> QED
      BY <1>5, <2>1, <2>2, <2>3 DEF SchedulerRun
  <1>6. CASE RunEndedCall
    BY <1>6 DEF RunEndedCall
  <1>7. CASE RunEndedLockMx
    BY <1>7 DEF RunEndedLockMx, LockMx
  <1>8. CASE RunEndedLockStatus
    BY <1>8 DEF RunEndedLockStatus, LockStatusChange
  <1>9. CASE RunEndedNotify
    BY <1>9 DEF RunEndedNotify, Notify
  <1>10. CASE RunEndedRelease
    <2>1. count' \in [Contexts -> Int]
      BY <1>10 DEF RunEndedRelease, ReleasePlugins
    <2>2. Created => Gone'
      BY <1>10 DEF RunEndedRelease, ReleasePlugins
    <2>3. /\ pc["sched"] = "re3" /\ pc["main"] # "exit"
          /\ pc' = [pc EXCEPT !["sched"] = "re4"]
          /\ plugins' = FALSE
          /\ UNCHANGED <<running, runPc, status, mx, mxStatusChange, endedReceived, events,
                         mainVars>>
      BY <1>10 DEF RunEndedRelease, ReleasePlugins, ProcessAlive
    <2> HIDE DEF Gone, Created
    <2>4. SessionTypeOK'
      BY <2>1, <2>3
    <2>5. PlaceInv' /\ EventInv' /\ StatusInv' /\ ResourceInv'
      BY <2>2, <2>3
    <2> QED
      BY <2>4, <2>5
  <1>11. CASE RunEndedReady
    BY <1>11 DEF RunEndedReady
  <1>12. CASE RunEndedReturn
    BY <1>12 DEF RunEndedReturn
  <1> QED
    BY <1>1, <1>2, <1>3, <1>4, <1>5, <1>6, <1>7, <1>8, <1>9, <1>10, <1>11, <1>12 DEF SchedThread

\* A worker, and the limit of bars, change nothing of the session.
LEMMA WorkerStep ==
  ASSUME RunSystemInv, BarsExceeded \/ \E t \in Threads : WorkerThread(t)
  PROVE  SessionInv'
  <1> USE DEF RunSystemInv, SessionInv
  <1>1. /\ UNCHANGED <<sessVars, timedOut, saved, runPc, running, list>>
        /\ exceeded' \in BOOLEAN /\ (exceeded => exceeded')
    BY DEF BarsExceeded, WorkerThread, Worker, Fetch, Begin, NextSymbol, NextSymbolFails,
           RunSymbol, ExitSymbol, CheckCancel, Again, ReturnFromRun, vars, schedVars,
           mainVars, SessionTypeOK
  <1>2. SessionTypeOK'
    BY <1>1 DEF SessionTypeOK, sessVars
  <1>3. PlaceInv'
    BY <1>1 DEF PlaceInv, HasRun, sessVars
  <1>4. EventInv'
    BY <1>1 DEF EventInv, Told, Over, HasRun, sessVars
  <1>5. StatusInv'
    BY <1>1 DEF StatusInv, Ended, Ready, HasRun, sessVars
  <1>6. ResourceInv'
    BY <1>1 DEF ResourceInv, Created, Gone, Released, HasRun, sessVars
  <1> QED
    BY <1>2, <1>3, <1>4, <1>5, <1>6

\* The invariant is inductive.
LEMMA RunSystemInvStep == RunSystemInv /\ [RunSystemNext]_allVars => RunSystemInv'
  <1> SUFFICES ASSUME RunSystemInv, [RunSystemNext]_allVars PROVE RunSystemInv'
    OBVIOUS
  <1>1. CASE RunSystemNext
    <2>1. SessionInv'
      BY <1>1, StartStep, CancelStep, LoopStep, RunStep, WorkerStep
         DEF RunSystemNext, MainThread, SessionThread
    <2> QED
      BY <1>1, <2>1, SchedulerStep DEF RunSystemInv
  <1>2. CASE UNCHANGED allVars
    <2>1. IInv'
      BY <1>2, IInvStep DEF RunSystemInv, allVars
    <2>2. SessionTypeOK' /\ PlaceInv' /\ EventInv'
      BY <1>2 DEF RunSystemInv, SessionInv, SessionTypeOK, PlaceInv, EventInv, Told, Over,
                  HasRun, allVars, vars, schedVars, sessVars, mainVars
    <2>3. StatusInv' /\ ResourceInv'
      BY <1>2 DEF RunSystemInv, SessionInv, StatusInv, Ended, Ready, ResourceInv, Created,
                  Gone, Released, HasRun, allVars, vars, schedVars, sessVars, mainVars
    <2> QED
      BY <2>1, <2>2, <2>3 DEF RunSystemInv, SessionInv
  <1> QED
    BY <1>1, <1>2

-----------------------------------------------------------------------------
\* The invariant of the main thread, the session and the scheduler holds in every
\* reachable state, and with it that of the scheduler.
THEOREM RunSystemInvariance == RunSystemSpec => []RunSystemInv
  BY InitSession, RunSystemInvStep, PTL DEF RunSystemSpec

\* The variables of the session have their types: at most one thread holds a mutex.
THEOREM SessionTypeCorrect == RunSystemSpec => []SessionTypeOK
  <1>1. RunSystemInv => SessionTypeOK
    BY DEF RunSystemInv, SessionInv
  <1> QED
    BY <1>1, RunSystemInvariance, PTL

\* The plugins are told the end of what they were told the beginning of, in the order of
\* notifySessionStarted, runStarted, runEnded and notifySessionEnded, and all of it once
\* before the results are written, unless the session was canceled or timed out.
THEOREM EventsAreNested == RunSystemSpec => []EventsNest
  <1>1. RunSystemInv => EventsNest
    <2> SUFFICES ASSUME RunSystemInv PROVE EventsNest
      OBVIOUS
    <2> USE DEF RunSystemInv, SessionInv, EventInv, Once
    <2>1. events["sessionEnded"] \in Nat
      BY DEF SessionTypeOK, Events
    <2>2. Over => Told /\ HasRun
      BY DEF PlaceInv, Over, Told, HasRun
    <2>3. Told => HasRun
      BY DEF PlaceInv, Told, HasRun
    <2>4. saved /\ ~timedOut => events["sessionEnded"] > 0
      BY DEF StatusInv, Ended
    <2> QED
      BY <2>1, <2>2, <2>3, <2>4 DEF EventsNest
  <1> QED
    BY <1>1, RunSystemInvariance, PTL

\* While a worker is inside a runnable its plugins are loaded, although releasePlugins is
\* called by another thread; and they are returned when the session is ready.
THEOREM PluginsLive == RunSystemSpec => []PluginsLiveWithRun
  <1>1. RunSystemInv => PluginsOutliveWorkers
    <2> SUFFICES ASSUME RunSystemInv, ProcessAlive, NEW u \in Threads, InHand(u)
                 PROVE  /\ \A c \in Contexts : count[c] = 1
                        /\ plugins
                        /\ \A t \in Threads : InHand(t) => cur[t] \in 1 .. list
      BY DEF PluginsOutliveWorkers
    <2>1. running
      BY DEF RunSystemInv, IInv, RunInv, InHand
    <2>2. Created /\ list = NRunnables
      BY <2>1 DEF RunSystemInv, SessionInv, ResourceInv, ProcessAlive
    <2>3. \A t \in Threads : InHand(t) => cur[t] \in 1 .. list
      BY <2>2 DEF RunSystemInv, IInv, WorkerInv, Runnables
    <2> QED
      BY <2>2, <2>3 DEF Created
  <1>2. RunSystemInv => ReadyMeansReleased
    <2> SUFFICES ASSUME RunSystemInv, status = "READY", events["sessionStarted"] > 0,
                        ~exceeded
                 PROVE  Gone
      BY DEF ReadyMeansReleased, Gone
    <2>1. HasRun
      BY DEF RunSystemInv, SessionInv, EventInv, Once, StatusInv
    <2>2. Released
      BY <2>1 DEF RunSystemInv, SessionInv, StatusInv, Ready, Released
    <2> QED
      BY <2>1, <2>2 DEF RunSystemInv, SessionInv, ResourceInv
  <1> QED
    BY <1>1, <1>2, RunSystemInvariance, PTL DEF PluginsLiveWithRun

\* What is written when no symbol timed out is the result of a run that has ended, also
\* of one that was canceled: no worker is left, and the plugins have had sessionEnded.
THEOREM ResultsAreFinal == RunSystemSpec => []SavedResultsAreFinal
  <1>1. RunSystemInv => SavedResultsAreFinal
    BY DEF RunSystemInv, SessionInv, StatusInv, Ended, IInv, RunInv, SavedResultsAreFinal
  <1> QED
    BY <1>1, RunSystemInvariance, PTL

\* The promises of the scheduler hold in the session: no two workers are inside the same
\* runnable, and none is left when the scheduler is not running.
THEOREM SchedulerKeepsPromises ==
  RunSystemSpec => [](OneWorkerPerRunnable /\ NoWorkerOutlivesRun)
  <1>1. RunSystemInv => OneWorkerPerRunnable /\ NoWorkerOutlivesRun
    BY DEF RunSystemInv, IInv, WorkerInv, RunInv, NoWorkerOutlivesRun
  <1> QED
    BY <1>1, RunSystemInvariance, PTL
=============================================================================
