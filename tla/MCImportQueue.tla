--------------------------- MODULE MCImportQueue ---------------------------
(***************************************************************************)
(* ImportQueue for TLC.  Jobs, clients and files are interchangeable: all  *)
(* files have one content.                                                 *)
(***************************************************************************)
EXTENDS ImportQueue, TLC

CONSTANTS j1, j2, u1, f1, f2, w1, c1, c2

\* Every library file holds the same comic: the case the look-up by content is for.
MCContent == [f \in Files |-> "h"]

Symmetry == Permutations(Jobs) \cup Permutations(Clients) \cup Permutations(Files)
=============================================================================
