------------------------------- MODULE MCTrust -------------------------------
(* CompanyTrust for TLC. *)
EXTENDS CompanyTrust, TLC

Symmetry == Permutations(Threads) \cup Permutations(Domains) \cup Permutations(Companies)
=============================================================================
