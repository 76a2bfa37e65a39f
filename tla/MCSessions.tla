----------------------------- MODULE MCSessions -----------------------------
(* Sessions for TLC: no state tells two tokens, requests or subjects apart. *)
EXTENDS Sessions, TLC

Symmetry ==
  Permutations(Token) \cup Permutations(Request) \cup Permutations(Subject)
=============================================================================
