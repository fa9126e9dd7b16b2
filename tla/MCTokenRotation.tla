--------------------------- MODULE MCTokenRotation ---------------------------
(* Small instances of TokenRotation. *)
EXTENDS TokenRotation, TLC

RowSymmetry == Permutations(Chains) \union Permutations(Tokens) \union Permutations(Requests)
=============================================================================
