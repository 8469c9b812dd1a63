----------------------------- MODULE MCModeration -----------------------------
(* JobModeration for TLC.                                                    *)
EXTENDS JobModeration, TLC

Symmetry == Permutations(Threads) \cup Permutations(Texts)

=============================================================================
