------------------------------ MODULE MCThrottle ------------------------------
(* LoginThrottle for TLC. *)
EXTENDS LoginThrottle, TLC

Symmetry == Permutations(Slots)
=============================================================================
