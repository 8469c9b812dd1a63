------------------------------ MODULE MCSessions ------------------------------
(* Sessions for TLC. *)
EXTENDS Sessions, TLC

Symmetry == Permutations(Threads) \cup Permutations(Tokens)
=============================================================================
