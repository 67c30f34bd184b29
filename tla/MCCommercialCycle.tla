-------------------------- MODULE MCCommercialCycle --------------------------
(* Small instances of CommercialCycle for TLC.                             *)
EXTENDS CommercialCycle, TLC

Symmetry == Permutations(Process) \cup Permutations(Operation) \cup Permutations(Owner)

=============================================================================
