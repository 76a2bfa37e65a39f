---------------------------- MODULE MCTwoFactor ----------------------------
(* TwoFactor for TLC. *)
EXTENDS TwoFactor, TLC

Symmetry == Permutations(Enrolment) \cup Permutations(Backup) \cup Permutations(Request)
=============================================================================
