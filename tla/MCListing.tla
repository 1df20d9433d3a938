------------------------------ MODULE MCListing ------------------------------
(***************************************************************************)
(* Listing for TLC: three comments, two of them of the same second, are    *)
(* enough for three pages of one, two pages of two, and rows that change   *)
(* places across a page's edge; with an 8-bit int an offset overflows.     *)
(***************************************************************************)
EXTENDS Listing

MCCreatedAt == [c \in Comments |-> IF c = 1 THEN 1 ELSE 2]

=============================================================================
