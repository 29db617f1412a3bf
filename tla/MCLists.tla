------------------------------ MODULE MCLists ------------------------------
(***************************************************************************)
(* Two lists and four items: ends and middles, and two lists to join.      *)
(***************************************************************************)
EXTENDS Lists

CONSTANTS l1, l2, n1, n2, n3, n4
=============================================================================
