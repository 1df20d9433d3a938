---------------------------- MODULE MCRequestPath ----------------------------
(***************************************************************************)
(* RequestPath for TLC: every text of up to five characters.               *)
(***************************************************************************)
EXTENDS RequestPath

MCBodies == UNION {[1 .. n -> Characters] : n \in 1 .. 5}
MCAllowedOrigins == {"blog"}

=============================================================================
