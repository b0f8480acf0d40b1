-------------------------- MODULE MCDispatchRunner --------------------------
(***************************************************************************)
(* Instances of the dispatch runner for TLC.                               *)
(***************************************************************************)
EXTENDS DispatchRunner, TLC

Symmetry == Permutations(Transport) \cup Permutations(Worker) \cup Permutations(Job)
=============================================================================
