--------------------------- MODULE MCLibraryScan ---------------------------
(***************************************************************************)
(* LibraryScan for TLC: two or three paths.                                *)
(***************************************************************************)
EXTENDS LibraryScan

CONSTANTS a, b, c, w1

Order2 == <<a, b>>
Order3 == <<a, b, c>>
=============================================================================
