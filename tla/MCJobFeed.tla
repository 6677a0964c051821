------------------------------ MODULE MCJobFeed ------------------------------
(***************************************************************************)
(* JobFeed for TLC: a user's job and a later one that the library handed   *)
(* over, a page that is the user's or an admin's, and sets with a place    *)
(* for one job.  Pages do not touch one another, and anybody may clear     *)
(* from elsewhere.                                                         *)
(***************************************************************************)
EXTENDS JobFeed, TLC

CONSTANTS j1, j2, c1, u1, u2, p1, p2

MCOwner == [j \in Jobs |-> IF j = j1 THEN u1 ELSE None]
MCStarted == [j \in Jobs |-> IF j = j1 THEN 1 ELSE 2]

Symmetry == Permutations(Pubs)
=============================================================================
