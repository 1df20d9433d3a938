----------------------------- MODULE MCAdminPage -----------------------------
(***************************************************************************)
(* AdminPage for TLC.  No symmetry: IDs are ordered by the list.           *)
(***************************************************************************)
EXTENDS AdminPage, TLC
=============================================================================
