----------------------------- MODULE MCRunSystem -----------------------------
(***************************************************************************)
(* Instances of RunSystem for TLC.                                         *)
(***************************************************************************)
EXTENDS RunSystem

\* createRunnables: one instance per thread, or one per system.
OneIteratorPerSystem == [r \in 1 .. NRunnables |-> ((r - 1) % NSystems) + 1]

Systems == 1 .. NSystems
=============================================================================
