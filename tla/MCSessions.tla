----------------------------- MODULE MCSessions -----------------------------
(***************************************************************************)
(* Sessions for TLC: requests and tokens are each interchangeable.         *)
(***************************************************************************)
EXTENDS Sessions, TLC

Symmetry == Permutations(Requests) \cup Permutations(Tokens)

=============================================================================
