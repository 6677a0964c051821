-------------------------- MODULE WorkQueueProofs --------------------------
(***************************************************************************)
(* An item of the work queue has one place: in line, in one hand, nowhere. *)
(***************************************************************************)
EXTENDS WorkQueue, SequenceTheorems, TLAPS

Inv == TypeOK /\ OnePlace

\* Taking one element out of a sequence without repetitions: what is left is
\* of the sequence, without repetitions, and no longer has that element.
LEMMA Removing ==
  ASSUME NEW S, NEW s \in Seq(S), NEW k \in DOMAIN s,
         \A a, b \in DOMAIN s : s[a] = s[b] => a = b,
         NEW t, t = RemoveAt(s, k)
  PROVE  /\ t \in Seq(S)
         /\ \A a \in DOMAIN t : t[a] # s[k] /\ \E b \in DOMAIN s : t[a] = s[b]
         /\ \A a, b \in DOMAIN t : t[a] = t[b] => a = b
<1>1. k \in 1..Len(s) /\ Len(s) \in Nat
  OBVIOUS
<1> DEFINE p == SubSeq(s, 1, k - 1)  q == SubSeq(s, k + 1, Len(s))
<1>2. /\ p \in Seq(S) /\ Len(p) = k - 1
      /\ \A a \in 1..(k - 1) : p[a] = s[a]
  BY <1>1
<1>3. /\ q \in Seq(S) /\ Len(q) = Len(s) - k
      /\ \A a \in 1..(Len(s) - k) : q[a] = s[a + k]
  BY <1>1
<1> HIDE DEF p, q
<1>4. t = p \o q
  BY DEF RemoveAt, p, q
<1>5. t \in Seq(S) /\ Len(t) = Len(s) - 1
  BY <1>1, <1>2, <1>3, <1>4
<1>6. ASSUME NEW a \in 1..(Len(s) - 1)
      PROVE  /\ a < k => a \in 1..Len(s) /\ t[a] = s[a]
             /\ ~(a < k) => a + 1 \in 1..Len(s) /\ t[a] = s[a + 1]
  <2>1. t[a] = IF a <= Len(p) THEN p[a] ELSE q[a - Len(p)]
    <3>1. \A i \in 1..(Len(p) + Len(q)) :
            (p \o q)[i] = IF i <= Len(p) THEN p[i] ELSE q[i - Len(p)]
      BY <1>2, <1>3, ConcatProperties
    <3>2. Len(p) + Len(q) = Len(s) - 1
      BY <1>1, <1>2, <1>3
    <3> QED BY <1>4, <3>1, <3>2
  <2>2. CASE a < k
    BY <2>1, <2>2, <1>1, <1>2
  <2>3. CASE ~(a < k)
    <3>1. a - Len(p) \in 1..(Len(s) - k) /\ (a - Len(p)) + k = a + 1
      BY <2>3, <1>1, <1>2
    <3>2. q[a - Len(p)] = s[(a - Len(p)) + k]
      BY <3>1, <1>3
    <3>3. ~(a <= Len(p)) /\ a + 1 \in 1..Len(s)
      BY <2>3, <1>1, <1>2
    <3>4. t[a] = s[a + 1]
      BY <2>1, <3>1, <3>2, <3>3
    <3> QED BY <2>3, <3>3, <3>4
  <2> QED BY <2>2, <2>3
<1>7. DOMAIN t = 1..(Len(s) - 1) /\ DOMAIN s = 1..Len(s)
  BY <1>5
<1>8. ASSUME NEW a \in DOMAIN t
      PROVE  \E b \in DOMAIN s : b # k /\ t[a] = s[b] /\ b = IF a < k THEN a ELSE a + 1
  <2>1. CASE a < k
    BY <2>1, <1>1, <1>6, <1>7
  <2>2. CASE ~(a < k)
    <3>1. a + 1 \in DOMAIN s /\ a + 1 # k /\ t[a] = s[a + 1]
      BY <2>2, <1>1, <1>6, <1>7
    <3> QED BY <3>1, <2>2
  <2> QED BY <2>1, <2>2
<1>9. ASSUME NEW a \in DOMAIN t, NEW b \in DOMAIN t, t[a] = t[b] PROVE a = b
  BY <1>1, <1>7, <1>8, <1>9
<1> QED
  BY <1>5, <1>8, <1>9

\* Every step keeps the item where it is once.
LEMMA Stepping == ASSUME Nobody \notin Handlers, Inv, [Next]_vars PROVE Inv'
<1> USE DEF Inv
<1>1. ASSUME NEW i \in Items, Queues(i) PROVE Inv'
  <2>1. line' = Append(line, i) /\ holder' = [holder EXCEPT ![i] = Nobody]
    BY <1>1 DEF Queues, Passes
  <2>2. TypeOK'
    BY <2>1 DEF TypeOK
  <2>3. \A k \in DOMAIN line : line[k] # i
    BY <1>1 DEF Queues, InLine, ToSet
  <2>4. /\ Len(line) \in Nat /\ DOMAIN line = 1..Len(line)
        /\ DOMAIN line' = 1..(Len(line) + 1)
        /\ \A k \in 1..Len(line) : line'[k] = line[k]
        /\ line'[Len(line) + 1] = i
    BY <2>1 DEF TypeOK
  <2>5. \A k, m \in DOMAIN line' : line'[k] = line'[m] => k = m
    BY <2>3, <2>4 DEF OnePlace
  <2>6. \A k \in DOMAIN line' : ~InHand(line[k])'
    <3> SUFFICES ASSUME NEW k \in DOMAIN line' PROVE holder'[line'[k]] = Nobody
      BY DEF InHand
    <3>1. CASE k = Len(line) + 1
      BY <3>1, <2>1, <2>4 DEF TypeOK
    <3>2. CASE k \in 1..Len(line)
      BY <3>2, <2>1, <2>4 DEF OnePlace, InHand, TypeOK
    <3> QED BY <3>1, <3>2, <2>4
  <2> QED BY <2>2, <2>5, <2>6 DEF OnePlace
<1>2. ASSUME NEW i \in Items, Ends(i) PROVE Inv'
  <2>1. line' = line /\ holder' = [holder EXCEPT ![i] = Nobody]
    BY <1>2 DEF Ends, Passes
  <2> QED BY <2>1 DEF TypeOK, OnePlace, InHand
<1>3. ASSUME NEW i \in Items, NEW c \in Callers, Brings(i, c) PROVE Inv'
  <2>1. line' = line /\ holder' = [holder EXCEPT ![i] = c]
    BY <1>3 DEF Brings, Passes
  <2>2. \A k \in DOMAIN line : line[k] # i
    BY <1>3 DEF Brings, InLine, ToSet
  <2> QED BY <2>1, <2>2 DEF TypeOK, OnePlace, InHand, Handlers
<1>4. ASSUME NEW w \in Workers, Takes(w) PROVE Inv'
  <2>1. line # <<>> /\ line' = Tail(line) /\ holder' = [holder EXCEPT ![line[1]] = w]
    BY <1>4 DEF Takes, Passes
  <2>2. /\ Len(line) \in Nat \ {0} /\ DOMAIN line = 1..Len(line)
        /\ DOMAIN line' = 1..(Len(line) - 1) /\ line' \in Seq(Items)
        /\ \A k \in 1..(Len(line) - 1) : line'[k] = line[k + 1]
    BY <2>1 DEF TypeOK
  <2>3. TypeOK'
    BY <2>1, <2>2 DEF TypeOK, Handlers
  <2> QED BY <2>1, <2>2, <2>3 DEF OnePlace, InHand, TypeOK
<1>5. ASSUME NEW h \in Callers \cup {Nobody}, TakesBack(h) PROVE Inv'
  <2>1. PICK k \in DOMAIN line :
          line' = RemoveAt(line, k) /\ holder' = [holder EXCEPT ![line[k]] = h]
    BY <1>5 DEF TakesBack, Passes
  <2>2. line \in Seq(Items) /\ \A a, b \in DOMAIN line : line[a] = line[b] => a = b
    BY DEF TypeOK, OnePlace
  <2>3. /\ line' \in Seq(Items)
        /\ \A a \in DOMAIN line' : line'[a] # line[k] /\ \E b \in DOMAIN line : line'[a] = line[b]
        /\ \A a, b \in DOMAIN line' : line'[a] = line'[b] => a = b
    BY <2>1, <2>2, Removing
  <2>4. TypeOK'
    BY <2>1, <2>2, <2>3 DEF TypeOK, Handlers
  <2> QED BY <2>1, <2>3, <2>4 DEF OnePlace, InHand, TypeOK
<1>6. CASE Reorders
  <2>1. /\ line' \in Seq(Items) /\ holder' = holder
        /\ \A k, m \in DOMAIN line' : line'[k] = line'[m] => k = m
        /\ \A k \in DOMAIN line' : \E m \in DOMAIN line : line'[k] = line[m]
    BY <1>6 DEF Reorders, ToSet, IsInjective
  <2> QED BY <2>1 DEF TypeOK, OnePlace, InHand
<1>7. CASE Stops
  BY <1>7 DEF Stops, TypeOK, OnePlace, InHand
<1>8. CASE UNCHANGED vars
  BY <1>8 DEF vars, TypeOK, OnePlace, InHand
<1> QED
  BY <1>1, <1>2, <1>3, <1>4, <1>5, <1>6, <1>7, <1>8 DEF Next

\* An item has one place, whatever the numbers of items, workers and callers:
\* of the queue of manager.go, that a job is worked on by one worker and is
\* not in line meanwhile.
THEOREM OneItemOnePlace == ASSUME Nobody \notin Handlers PROVE Spec => [](TypeOK /\ OnePlace)
<1>1. Init => Inv
  BY DEF Init, Inv, TypeOK, OnePlace, InHand
<1>2. Inv /\ [Next]_vars => Inv'
  BY Stepping
<1> QED
  BY <1>1, <1>2, PTL DEF Spec, Inv

=============================================================================
