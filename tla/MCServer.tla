------------------------------ MODULE MCServer ------------------------------
(***************************************************************************)
(* Server for TLC: one creation with its notification, one other request.  *)
(***************************************************************************)
EXTENDS Server, TLC
=============================================================================
