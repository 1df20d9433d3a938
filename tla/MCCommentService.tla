-------------------------- MODULE MCCommentService --------------------------
(***************************************************************************)
(* CommentService for TLC: the goroutines are interchangeable.             *)
(***************************************************************************)
EXTENDS CommentService, TLC

Symmetry == Permutations(Handlers)

=============================================================================
