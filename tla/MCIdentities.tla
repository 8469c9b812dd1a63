----------------------------- MODULE MCIdentities -----------------------------
(* Identities for TLC.                                                       *)
EXTENDS Identities, TLC

Symmetry == Permutations(Accounts) \cup Permutations(Emails) \cup
            Permutations(Ids) \cup Permutations(Threads)

=============================================================================
