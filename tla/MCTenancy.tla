------------------------------ MODULE MCTenancy ------------------------------
(* Instances of Tenancy for TLC. *)
EXTENDS Tenancy, TLC

Symmetry == Permutations(Threads) \cup Permutations(Users)
=============================================================================
