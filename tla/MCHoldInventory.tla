-------------------------- MODULE MCHoldInventory --------------------------
(* HoldInventory for TLC: interchangeable calls and journeys. *)
EXTENDS HoldInventory, TLC

Symmetry == Permutations(Creates) \cup Permutations(Confirms) \cup Permutations(Journeys)

=============================================================================
