----------------------------- MODULE MCScheduler -----------------------------
(***************************************************************************)
(* Instances of Scheduler for TLC.                                         *)
(***************************************************************************)
EXTENDS Scheduler

\* Every runnable shares the one iterator.
OneIterator == [r \in Runnables |-> "a"]
=============================================================================
