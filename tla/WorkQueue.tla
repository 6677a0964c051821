----------------------------- MODULE WorkQueue -----------------------------
(***************************************************************************)
(* What the import queue promises, whatever becomes of rows, directories   *)
(* and contexts: a job is waiting in line or in the hands of one handler,  *)
(* a worker takes the front of the line, and a handler keeps a job until   *)
(* it puts it in line or is done with it.  ImportQueue implements this.    *)
(***************************************************************************)
EXTENDS Integers, Sequences, SequencesExt

CONSTANTS
  Items,
  Workers,     (* who takes from the line                                  *)
  Callers,     (* who brings items and takes them back                     *)
  Nobody       (* in whose hands an item is that nobody has in hand        *)

VARIABLES
  line,        (* the items in line                                        *)
  holder       (* who has an item in hand                                  *)

vars == <<line, holder>>

Handlers == Workers \cup Callers
InLine(i) == i \in ToSet(line)
InHand(i) == holder[i] # Nobody
Passes(i, h) == holder' = [holder EXCEPT ![i] = h]

\* A caller brings an item and keeps it in hand for now.
Brings(i, h) == ~InLine(i) /\ ~InHand(i) /\ Passes(i, h) /\ UNCHANGED line

\* An item nobody else has goes to the end of the line, from a caller's hand,
\* as it is brought, or as a restart finds it.
Queues(i) ==
  /\ ~InLine(i) /\ holder[i] \in Callers \cup {Nobody}
  /\ line' = Append(line, i) /\ Passes(i, Nobody)

Takes(w) == line # <<>> /\ line' = Tail(line) /\ Passes(Head(line), w)

\* An item is taken out of line, to be ended or forgotten.
TakesBack(h) ==
  \E k \in DOMAIN line : line' = RemoveAt(line, k) /\ Passes(line[k], h)

Ends(i) == InHand(i) /\ Passes(i, Nobody) /\ UNCHANGED line

\* The line is put in another order; nobody leaves it or joins it.
Reorders ==
  /\ line' \in Seq(Items) /\ IsInjective(line') /\ ToSet(line') = ToSet(line)
  /\ UNCHANGED holder

\* The process is gone, and with it the line and all hands.
Stops == line' = <<>> /\ holder' = [i \in Items |-> Nobody]

Init == line = <<>> /\ holder = [i \in Items |-> Nobody]

Next ==
  \/ \E i \in Items : Queues(i) \/ Ends(i) \/ \E c \in Callers : Brings(i, c)
  \/ \E w \in Workers : Takes(w)
  \/ \E h \in Callers \cup {Nobody} : TakesBack(h)
  \/ Reorders \/ Stops

Spec == Init /\ [][Next]_vars

-----------------------------------------------------------------------------

\* The line holds items, and an item's holder is one handler or nobody.
TypeOK == line \in Seq(Items) /\ holder \in [Items -> Handlers \cup {Nobody}]

\* An item has one place in the line, or is in one hand, or is nowhere: no two
\* workers get one job (manager.go's worker pops it under the lock), and one
\* that a caller has taken back is no longer there to be worked on.
OnePlace ==
  /\ \A k, m \in DOMAIN line : line[k] = line[m] => k = m
  /\ \A k \in DOMAIN line : ~InHand(line[k])

=============================================================================
