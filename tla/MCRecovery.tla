----------------------------- MODULE MCRecovery -----------------------------
(* Recovery for TLC. *)
EXTENDS Recovery, TLC

Symmetry ==
  Permutations(Token) \cup Permutations(Request) \cup Permutations(Reset)
=============================================================================
