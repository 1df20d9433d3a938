---------------------------- MODULE MCRateLimiter ----------------------------
(***************************************************************************)
(* RateLimiter for TLC: goroutines, clients and limiters are each          *)
(* interchangeable.                                                        *)
(***************************************************************************)
EXTENDS RateLimiter, TLC

Symmetry == Permutations(Handlers) \cup Permutations(Clients) \cup Permutations(Limiters)

=============================================================================
