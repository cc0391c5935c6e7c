-------------------------- MODULE MCExecutionLease --------------------------
(* Finite instances of ExecutionLease, with symmetry for its safety runs. *)
EXTENDS ExecutionLease, TLC

Symmetry == Permutations(Runs) \cup Permutations(Stops)

=============================================================================
