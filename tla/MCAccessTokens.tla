--------------------------- MODULE MCAccessTokens ---------------------------
(* AccessTokens for TLC. *)
EXTENDS AccessTokens, TLC

Symmetry == Permutations(Jti) \cup Permutations(Call)
=============================================================================
