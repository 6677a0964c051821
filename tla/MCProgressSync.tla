-------------------------- MODULE MCProgressSync --------------------------
(***************************************************************************)
(* ProgressSync for TLC: a device whose clock is fast and one whose clock  *)
(* is right.  Requests are interchangeable.                                *)
(***************************************************************************)
EXTENDS ProgressSync, TLC

CONSTANTS d1, d2, x1, s1, s2, s3

MCSkew == [d \in Devices |-> IF d = d1 THEN 1 ELSE 0]
MCPositions == {[page |-> 0, completed |-> FALSE], [page |-> 1, completed |-> TRUE]}

MCOnePosition == {[page |-> 0, completed |-> FALSE]}

Symmetry == Permutations(Slots)
=============================================================================
