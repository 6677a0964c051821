------------------------------ MODULE MCGrants ------------------------------
(***************************************************************************)
(* Grants for TLC: two admins, one with a second device and an agent; a    *)
(* pending invite that two browsers have opened.                           *)
(***************************************************************************)
EXTENDS Grants, TLC

CONSTANTS u1, u2, u3, u4, i1, i2, k1, k2, k3, k4, s1, s2, s3, s4, m1, m2, l1, l2, r1, r2

Enrolment(u) == [user |-> u, invite |-> i1, admin |-> FALSE, new |-> TRUE]
MCFirst ==
  [users |-> [u \in Users |-> IF u \in {u1, u2} THEN "admin" ELSE None],
   invites |-> [i \in Invites |-> IF i = i1
      THEN [admin |-> FALSE, for |-> None, used |-> FALSE, live |-> TRUE] ELSE None],
   keys |-> [k \in Keys |-> IF k = k1 THEN [user |-> u1, by |-> None]
                            ELSE IF k = k2 THEN [user |-> u2, by |-> None] ELSE None],
   sessions |-> [s \in Sessions |-> IF s = s1 THEN [user |-> u1, key |-> k1]
      ELSE IF s \in {s2, s3} THEN [user |-> u2, key |-> k2] ELSE None],
   lines |-> [l \in Lines |-> IF l = l1
      THEN [user |-> u2, code |-> FALSE, access |-> TRUE, refresh |-> 1] ELSE None],
   ceremonies |-> [m \in Ceremonies |-> IF m = m1 THEN Enrolment(u3) ELSE Enrolment(u4)]]

Asked(op) == [Idle EXCEPT !.op = op]
As(op, s) == [Asked(op) EXCEPT !.session = s]
MCAsks ==
  {Asked("loginBegin"), [Asked("registerBegin") EXCEPT !.invite = i1]}
  \cup {[Asked("registerFinish") EXCEPT !.cid = m] : m \in Ceremonies}
  \cup {[Asked("registerBegin") EXCEPT !.invite = i2]}
  \cup {[Asked("loginFinish") EXCEPT !.cid = m1, !.key = k2]}
  \cup {As("addBegin", s2), [As("addFinish", s2) EXCEPT !.cid = m1]}
  \cup {As("logout", s3), As("logoutOthers", s2), As("consent", s2)}
  \cup {[As("deleteKey", s2) EXCEPT !.key = k2]}
  \cup {As("createInvite", s1), [As("revokeInvite", s1) EXCEPT !.invite = i1]}
  \cup {[As("reset", s1) EXCEPT !.who = u2]}
  \cup {[As("deleteUser", s1) EXCEPT !.who = u2], [As("deleteUser", s2) EXCEPT !.who = u1]}
  \cup {[Asked("exchange") EXCEPT !.line = l2, !.flag = b] : b \in BOOLEAN}
  \cup {[Asked("renew") EXCEPT !.line = l1, !.flag = b] : b \in BOOLEAN}

Symmetry == Permutations(Requests)
=============================================================================
