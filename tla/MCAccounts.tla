----------------------------- MODULE MCAccounts -----------------------------
(* Accounts for TLC. *)
EXTENDS Accounts, TLC

Symmetry == Permutations(User) \cup Permutations(Password) \cup Permutations(Request)
=============================================================================
