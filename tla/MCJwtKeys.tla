----------------------------- MODULE MCJwtKeys -----------------------------
(* SignedTokens, and with it JwtKeys, for TLC. *)
EXTENDS SignedTokens, TLC

Symmetry == Permutations(Process) \cup Permutations(Key)
=============================================================================
