------------------------------ MODULE MCProfiles ------------------------------
(* Profiles for TLC.                                                         *)
EXTENDS Profiles, TLC

=============================================================================
