----------------------------- MODULE MCSubmission ----------------------------
(***************************************************************************)
(* Submission for TLC.  No symmetry: AttemptEnds is a liveness property,   *)
(* and CacheKeyTokenOnly chooses an address.                               *)
(***************************************************************************)
EXTENDS Submission, TLC
=============================================================================
