---------------------------- MODULE MCProcessor ----------------------------
(***************************************************************************)
(* Processors, tasks and waking threads are interchangeable: safety is     *)
(* checked up to their permutations.                                       *)
(***************************************************************************)
EXTENDS Processor, TLC

Symmetry == Permutations(Procs) \cup Permutations(Tasks) \cup Permutations(Wakers)

=============================================================================
