---------------------------- MODULE JobFeedProofs ----------------------------
(***************************************************************************)
(* A quiet page is true, for every set of jobs, pages, users and           *)
(* publications, every buffer and every bound.                             *)
(*                                                                         *)
(* The invariant (FeedInv) is about one topic at a time.  Of the manager   *)
(* it says what memory, row and publications of a topic have to do with    *)
(* each other (Kept), how far the numbers said of it reach (Said), and     *)
(* that the newest change was told or is about to be (Telling).  Of a      *)
(* frame on its way, a publication's or a snapshot's, it says that what it *)
(* tells of a topic it has a place for is how things are, unless a         *)
(* publication that has yet to be sent out tells of it again, or one sent  *)
(* out since the frame was made has told it (Fresh, in Framed and Snapped; *)
(* AsRows while only the rows have been read).  Of a page it says that     *)
(* what its buffer will have it show is how things are, unless more is on  *)
(* its way to it (Right), and that it holds nothing its account may not    *)
(* see (Private).                                                          *)
(*                                                                         *)
(* The steps are sorted by what they do to a topic (TopicSteps), to a      *)
(* publication (PubSteps), to its frame (FrameSteps) and to a socket       *)
(* (ClientSteps); each part of the invariant is kept kind by kind.         *)
(***************************************************************************)
EXTENDS JobFeed, TLAPS

-----------------------------------------------------------------------------
(* Frames.                                                                 *)

LEMMA Naturals == Values \subseteq Nat /\ 0 \in Values
BY FeedAssumption DEF Values

LEMMA BlankIs == Blank \in [Topics -> Values]
BY Naturals DEF Blank

LEMMA AllIs ==
  ASSUME NEW f \in [Topics -> Values], NEW cut \in SUBSET Jobs
  PROVE  /\ All(f, cut) \in Frame /\ All(f, cut).set /\ All(f, cut).of = f
         /\ All(f, cut).cut = cut /\ All(f, cut).old = {}
BY DEF All, Frame

LEMMA UnmadeIs ==
  /\ Unmade \in Frame /\ Unmade.set /\ Unmade.of = Blank /\ Unmade.cut = {}
  /\ \A t \in Topics : Unmade.of[t] = 0 /\ Blank[t] = 0
BY BlankIs, AllIs DEF Unmade, Blank

LEMMA OneIs ==
  ASSUME NEW t \in Topics, NEW v \in Values
  PROVE  /\ One(t, v) \in Frame /\ ~One(t, v).set /\ One(t, v).cut = {}
         /\ One(t, v).of[t] = v /\ t \in One(t, v).old
         /\ \A s \in Topics \ {t} : One(t, v).of[s] = 0
BY Naturals DEF One, Blank, Frame

LEMMA AgesIs ==
  ASSUME NEW m \in Frame, NEW new
  PROVE  /\ Ages(m, new) \in Frame
         /\ Ages(m, new).set = m.set /\ Ages(m, new).of = m.of /\ Ages(m, new).cut = m.cut
         /\ m.old \subseteq Ages(m, new).old
         /\ \A t \in Topics : Mentions(m, t) /\ Mentions(new, t) => t \in Ages(m, new).old
<1>1. Ages(m, new).old = m.old \cup {t \in Topics : Mentions(m, t) /\ Mentions(new, t)}
  BY DEF Ages, Frame
<1> QED
  BY <1>1 DEF Ages, Frame

-----------------------------------------------------------------------------
(* Publications.                                                           *)

Stages == {"none", "save", "leave", "owner", "admins", "all", "send", "rows", "overlay", "user"}
Publication ==
  [topic : Topics \cup {None}, frame : Frame, at : Stages, next : {"none", "admins"},
   to : SUBSET Clients, user : Users \cup {None}]

LEMMA NoPubIs ==
  /\ NoPub \in Publication /\ NoPub.frame = Unmade /\ NoPub.topic = None
  /\ NoPub.at = "none" /\ NoPub.next = "none"
BY BlankIs, UnmadeIs DEF NoPub, Publication, Stages

\* What is said of a single topic, and a list for an account.
Single(q) ==
  /\ q.topic \in Topics /\ ~q.frame.set /\ q.frame.of[q.topic] > 0 /\ q.topic \in q.frame.old
  /\ \A s \in Topics \ {q.topic} : q.frame.of[s] = 0
  /\ IF q.topic = Queue THEN q.at \in {"save", "all", "send"} /\ q.next = "none"
     ELSE q.at \in {"save", "leave", "owner", "admins", "send"}
Listing(q) ==
  /\ q.topic = None /\ q.frame.set /\ q.frame.of[Queue] = 0
  /\ q.user \in Users /\ q.next = "none"
  /\ q.at \in {"rows", "overlay", "user", "send"}
Formed(q) == q = NoPub \/ Single(q) \/ Listing(q)

LEMMA Stage ==
  ASSUME NEW q, Formed(q)
  PROVE  /\ q.at = "none" <=> q = NoPub
         /\ q.at \in {"save", "leave", "owner", "admins", "all"} => Single(q)
         /\ q.at \in {"rows", "overlay", "user"} => Listing(q)
         /\ q.at = "send" => Single(q) \/ Listing(q)
         /\ q.at = "all" => q.topic = Queue
         /\ q.at \in {"leave", "owner", "admins"} => q.topic \in Jobs
         /\ q.topic \in Topics <=> Single(q)
BY NoPubIs, FeedAssumption DEF Formed, Single, Listing, Topics

\* What each operation does to the publications.
LEMMA StartsPub ==
  ASSUME pub \in [Pubs -> Publication], NEW p \in Pubs, NEW t \in Topics, NEW v \in Values,
         NEW at \in Stages, Starts(p, t, v, at)
  PROVE  /\ pub[p] = NoPub /\ pub' \in [Pubs -> Publication]
         /\ pub'[p].topic = t /\ pub'[p].frame = One(t, v) /\ pub'[p].at = at
         /\ pub'[p].next = "none"
         /\ \A q \in Pubs \ {p} : pub'[q] = pub[q]
<1> DEFINE n == [NoPub EXCEPT !.topic = t, !.frame = One(t, v), !.at = at]
<1>1. n \in Publication /\ n.topic = t /\ n.frame = One(t, v) /\ n.at = at /\ n.next = "none"
  BY NoPubIs, OneIs DEF Publication
<1>2. pub' = [pub EXCEPT ![p] = n] /\ pub[p] = NoPub
  BY DEF Starts
<1> HIDE DEF n
<1> QED
  BY <1>1, <1>2

LEMMA MovesPub ==
  ASSUME pub \in [Pubs -> Publication], NEW p \in Pubs, NEW at \in Stages, Moves(p, at)
  PROVE  /\ pub' \in [Pubs -> Publication]
         /\ pub'[p].topic = pub[p].topic /\ pub'[p].frame = pub[p].frame /\ pub'[p].at = at
         /\ pub'[p].next = pub[p].next /\ pub'[p].to = pub[p].to /\ pub'[p].user = pub[p].user
         /\ \A q \in Pubs \ {p} : pub'[q] = pub[q]
<1> DEFINE n == [pub[p] EXCEPT !.at = at]
<1>1. /\ n \in Publication /\ n.topic = pub[p].topic /\ n.frame = pub[p].frame /\ n.at = at
      /\ n.next = pub[p].next /\ n.to = pub[p].to /\ n.user = pub[p].user
  BY DEF Publication
<1>2. pub' = [pub EXCEPT ![p] = n]
  BY DEF Moves
<1> HIDE DEF n
<1> QED
  BY <1>1, <1>2

LEMMA ListedPub ==
  ASSUME pub \in [Pubs -> Publication], NEW p \in Pubs, NEW next \in {"none", "admins"},
         NEW to \in SUBSET Clients, Listed(p, next, to)
  PROVE  /\ pub' \in [Pubs -> Publication]
         /\ pub'[p].topic = pub[p].topic /\ pub'[p].frame = pub[p].frame /\ pub'[p].at = "send"
         /\ pub'[p].next = next /\ pub'[p].to = to /\ pub'[p].user = pub[p].user
         /\ \A q \in Pubs \ {p} :
              /\ pub[q] = NoPub => pub'[q] = NoPub
              /\ pub'[q].topic = pub[q].topic /\ pub'[q].at = pub[q].at
              /\ pub'[q].next = pub[q].next /\ pub'[q].to = pub[q].to
              /\ pub'[q].user = pub[q].user
              /\ pub'[q].frame.set = pub[q].frame.set /\ pub'[q].frame.of = pub[q].frame.of
              /\ pub'[q].frame.cut = pub[q].frame.cut
              /\ pub[q].frame.old \subseteq pub'[q].frame.old
              /\ pub[q] # NoPub => \A t \in Topics :
                   Mentions(pub[q].frame, t) /\ Mentions(pub[p].frame, t) => t \in pub'[q].frame.old
<1>1. pub'[p] = [pub[p] EXCEPT !.at = "send", !.next = next, !.to = to]
  BY DEF Listed
<1>2. pub'[p] \in Publication
  BY <1>1 DEF Publication, Stages
<1>3. ASSUME NEW q \in Pubs \ {p}, pub[q] = NoPub
      PROVE  pub'[q] = pub[q]
  BY <1>3 DEF Listed
<1>4. ASSUME NEW q \in Pubs \ {p}, pub[q] # NoPub
      PROVE  /\ pub'[q] \in Publication
             /\ pub'[q].topic = pub[q].topic /\ pub'[q].at = pub[q].at
             /\ pub'[q].next = pub[q].next /\ pub'[q].to = pub[q].to
             /\ pub'[q].user = pub[q].user
             /\ pub'[q].frame.set = pub[q].frame.set /\ pub'[q].frame.of = pub[q].frame.of
             /\ pub'[q].frame.cut = pub[q].frame.cut
             /\ pub[q].frame.old \subseteq pub'[q].frame.old
             /\ \A t \in Topics :
                  Mentions(pub[q].frame, t) /\ Mentions(pub[p].frame, t) => t \in pub'[q].frame.old
  <2> DEFINE m == Ages(pub[q].frame, pub[p].frame)
  <2>1. pub[q] \in Publication /\ pub[q].frame \in Frame
    BY DEF Publication
  <2>2. /\ m \in Frame /\ m.set = pub[q].frame.set /\ m.of = pub[q].frame.of
        /\ m.cut = pub[q].frame.cut
        /\ pub[q].frame.old \subseteq m.old
        /\ \A t \in Topics : Mentions(pub[q].frame, t) /\ Mentions(pub[p].frame, t) => t \in m.old
    BY <2>1, AgesIs
  <2>3. pub'[q] = [pub[q] EXCEPT !.frame = m]
    BY <1>4 DEF Listed
  <2> HIDE DEF m
  <2>4. /\ pub'[q] \in Publication /\ pub'[q].frame = m
        /\ pub'[q].topic = pub[q].topic /\ pub'[q].at = pub[q].at
        /\ pub'[q].next = pub[q].next /\ pub'[q].to = pub[q].to /\ pub'[q].user = pub[q].user
    BY <2>1, <2>2, <2>3 DEF Publication
  <2> QED
    BY <2>2, <2>4
<1>5. DOMAIN pub' = Pubs /\ pub' = [q \in Pubs |-> pub'[q]]
  BY DEF Listed
<1>6. pub' \in [Pubs -> Publication]
  BY <1>2, <1>3, <1>4, <1>5
<1>7. /\ pub'[p].topic = pub[p].topic /\ pub'[p].frame = pub[p].frame /\ pub'[p].at = "send"
      /\ pub'[p].next = next /\ pub'[p].to = to /\ pub'[p].user = pub[p].user
  BY <1>1 DEF Publication
<1> QED
  BY <1>3, <1>4, <1>6, <1>7

LEMMA SendsOnPub ==
  ASSUME pub \in [Pubs -> Publication], NEW p \in Pubs, NEW c \in Clients, SendsOn(p, c)
  PROVE  /\ pub' \in [Pubs -> Publication]
         /\ pub[p].at = "send" /\ pub'[p].at = "send"
         /\ pub'[p].topic = pub[p].topic /\ pub'[p].frame = pub[p].frame
         /\ pub'[p].next = pub[p].next /\ pub'[p].user = pub[p].user
         /\ pub'[p].to = pub[p].to \ {c}
         /\ \A q \in Pubs \ {p} : pub'[q] = pub[q]
<1> DEFINE n == [pub[p] EXCEPT !.to = @ \ {c}]
<1>1. /\ n \in Publication /\ n.topic = pub[p].topic /\ n.frame = pub[p].frame
      /\ n.at = pub[p].at /\ n.next = pub[p].next /\ n.to = pub[p].to \ {c}
      /\ n.user = pub[p].user
  BY DEF Publication
<1>2. pub' = [pub EXCEPT ![p] = n] /\ pub[p].at = "send"
  BY DEF SendsOn
<1> HIDE DEF n
<1> QED
  BY <1>1, <1>2

LEMMA SentPub ==
  ASSUME pub \in [Pubs -> Publication], NEW p \in Pubs, Sent(p)
  PROVE  /\ pub' \in [Pubs -> Publication]
         /\ pub[p].at = "send" /\ pub[p].to = {}
         /\ pub[p].next = "none" => pub'[p] = NoPub
         /\ pub[p].next # "none" =>
              /\ pub[p].next = "admins" /\ pub'[p].at = "admins"
              /\ pub'[p].topic = pub[p].topic /\ pub'[p].frame = pub[p].frame
              /\ pub'[p].next = pub[p].next /\ pub'[p].user = pub[p].user
         /\ \A q \in Pubs \ {p} : pub'[q] = pub[q]
<1>1. pub[p] \in Publication /\ pub[p].next \in {"none", "admins"} /\ "admins" \in Stages
  BY DEF Publication, Stages
<1>2. CASE pub[p].next = "none"
  BY <1>2, NoPubIs DEF Sent
<1>3. CASE pub[p].next # "none"
  <2>1. pub[p].next = "admins" /\ Moves(p, "admins")
    BY <1>1, <1>3 DEF Sent
  <2> QED
    BY <2>1, <1>1, <1>3, MovesPub DEF Sent
<1> QED
  BY <1>2, <1>3

LEMMA ClearsPub ==
  ASSUME pub \in [Pubs -> Publication], NEW p \in Pubs, NEW u \in Users, Clears(p, u)
  PROVE  /\ pub' \in [Pubs -> Publication]
         /\ pub[p] = NoPub /\ pub'[p].topic = None /\ pub'[p].at = "rows"
         /\ pub'[p].user = u /\ pub'[p].frame = Unmade /\ pub'[p].next = "none"
         /\ \A q \in Pubs \ {p} : pub'[q] = pub[q]
<1> DEFINE n == [NoPub EXCEPT !.at = "rows", !.user = u]
<1>1. /\ n \in Publication /\ n.topic = None /\ n.frame = Unmade
      /\ n.at = "rows" /\ n.next = "none" /\ n.user = u
  BY NoPubIs DEF Publication, Stages
<1>2. pub' = [pub EXCEPT ![p] = n] /\ pub[p] = NoPub
  BY DEF Clears
<1> HIDE DEF n
<1> QED
  BY <1>1, <1>2

\* What a set lists is among the rows the account may see, and it leaves the
\* others out for its size.
LEMMA RowsForIs ==
  ASSUME row \in [Topics -> Values], NEW u, NEW S \in Listings(u)
  PROVE  /\ RowsFor(u, S) \in Frame /\ RowsFor(u, S).set
         /\ \A t \in Topics :
              /\ RowsFor(u, S).of[t] \in {0, row[t]}
              /\ RowsFor(u, S).of[t] # 0 => t \in Jobs /\ MaySee(u, t)
              /\ t \in RowsFor(u, S).cut => RowsFor(u, S).of[t] = 0
              /\ t \in Jobs /\ MaySee(u, t) /\ t \notin RowsFor(u, S).cut =>
                   RowsFor(u, S).of[t] = row[t]
<1> DEFINE f == [t \in Topics |-> IF t \in S THEN row[t] ELSE 0]
           cut == Rowed(u) \ S
<1>1. S \subseteq Rowed(u) /\ Rowed(u) \subseteq Jobs
  BY DEF Listings, Rowed
<1>2. f \in [Topics -> Values] /\ cut \in SUBSET Jobs
  BY <1>1, Naturals
<1>3. RowsFor(u, S) = All(f, cut)
  BY DEF RowsFor
<1>4. /\ RowsFor(u, S) \in Frame /\ RowsFor(u, S).set
      /\ RowsFor(u, S).of = f /\ RowsFor(u, S).cut = cut
  <2> HIDE DEF f, cut
  <2> QED
    BY <1>2, <1>3, AllIs
<1> SUFFICES ASSUME NEW t \in Topics
             PROVE  /\ f[t] \in {0, row[t]}
                    /\ f[t] # 0 => t \in Jobs /\ MaySee(u, t)
                    /\ t \in cut => f[t] = 0
                    /\ t \in Jobs /\ MaySee(u, t) /\ t \notin cut => f[t] = row[t]
  BY <1>4
<1>5. row[t] \in Nat
  BY Naturals
<1>6. f[t] = IF t \in S THEN row[t] ELSE 0
  OBVIOUS
<1>7. t \in Rowed(u) <=> t \in Jobs /\ MaySee(u, t) /\ row[t] # 0
  BY <1>5 DEF Rowed
<1> QED
  BY <1>1, <1>6, <1>7

LEMMA OverlaidIs ==
  ASSUME live \in [Topics -> Values], NEW m \in Frame
  PROVE  /\ Overlaid(m) \in Frame /\ Overlaid(m).set = m.set /\ Overlaid(m).old = m.old
         /\ Overlaid(m).cut = m.cut
         /\ \A t \in Topics :
              Overlaid(m).of[t] = IF m.of[t] # 0 /\ live[t] # 0 THEN live[t] ELSE m.of[t]
<1> DEFINE f == [t \in Topics |-> IF m.of[t] # 0 /\ live[t] # 0 THEN live[t] ELSE m.of[t]]
<1>1. f \in [Topics -> Values]
  BY DEF Frame
<1>2. Overlaid(m) = [m EXCEPT !.of = f]
  BY DEF Overlaid
<1> HIDE DEF f
<1>3. /\ Overlaid(m) \in Frame /\ Overlaid(m).set = m.set /\ Overlaid(m).old = m.old
      /\ Overlaid(m).cut = m.cut /\ Overlaid(m).of = f
  BY <1>1, <1>2 DEF Frame
<1> QED
  BY <1>3 DEF f

LEMMA MakesSetPub ==
  ASSUME pub \in [Pubs -> Publication], NEW p \in Pubs, MakesSet(p),
         row \in [Topics -> Values], live \in [Topics -> Values]
  PROVE  /\ pub' \in [Pubs -> Publication]
         /\ pub'[p].topic = pub[p].topic /\ pub'[p].next = pub[p].next
         /\ pub'[p].user = pub[p].user
         /\ \/ /\ pub[p].at = "rows" /\ pub'[p].at = "overlay"
               /\ \E S \in Listings(pub[p].user) : pub'[p].frame = RowsFor(pub[p].user, S)
            \/ /\ pub[p].at = "overlay" /\ pub'[p].at = "user"
               /\ pub'[p].frame = Overlaid(pub[p].frame)
         /\ \A q \in Pubs \ {p} : pub'[q] = pub[q]
<1>1. ASSUME NEW at \in Stages, NEW m \in Frame,
             pub' = [pub EXCEPT ![p] = [@ EXCEPT !.at = at, !.frame = m]]
      PROVE  /\ pub' \in [Pubs -> Publication]
             /\ pub'[p].topic = pub[p].topic /\ pub'[p].next = pub[p].next
             /\ pub'[p].user = pub[p].user /\ pub'[p].at = at /\ pub'[p].frame = m
             /\ \A q \in Pubs \ {p} : pub'[q] = pub[q]
  <2> DEFINE n == [pub[p] EXCEPT !.at = at, !.frame = m]
  <2>1. pub' = [pub EXCEPT ![p] = n]
    BY <1>1
  <2>2. /\ n \in Publication /\ n.topic = pub[p].topic /\ n.frame = m
        /\ n.at = at /\ n.next = pub[p].next /\ n.user = pub[p].user
    BY DEF Publication
  <2> HIDE DEF n
  <2> QED
    BY <2>1, <2>2
<1>2. CASE pub[p].at = "rows"
  <2>0. pub[p].at # "overlay"
    BY <1>2
  <2>1. PICK S \in Listings(pub[p].user) :
          pub' = [pub EXCEPT ![p] = [@ EXCEPT !.at = "overlay", !.frame = RowsFor(pub[p].user, S)]]
    BY <1>2, <2>0, Zenon DEF MakesSet
  <2>2. RowsFor(pub[p].user, S) \in Frame /\ "overlay" \in Stages
    BY RowsForIs DEF Stages
  <2> QED
    BY <1>1, <1>2, <2>1, <2>2
<1>3. CASE pub[p].at = "overlay"
  <2>0. pub[p].at # "rows"
    BY <1>3
  <2>1. Overlaid(pub[p].frame) \in Frame /\ "user" \in Stages
    BY OverlaidIs DEF Stages, Publication
  <2>2. pub' = [pub EXCEPT ![p] = [@ EXCEPT !.at = "user", !.frame = Overlaid(pub[p].frame)]]
    BY <1>3, <2>0, Zenon DEF MakesSet
  <2> QED
    BY <1>1, <1>3, <2>1, <2>2
<1> QED
  BY <1>2, <1>3 DEF MakesSet

-----------------------------------------------------------------------------
(* Types, how far the counts have come, and how publications are formed.   *)

Counted ==
  /\ \A t \in Topics : live[t] <= changes + 1 /\ row[t] <= changes + 1
  /\ \A p \in Pubs, t \in Topics : pub[p].frame.of[t] <= changes + 1
Typed == TypeOK /\ Counted /\ \A p \in Pubs : Formed(pub[p])

\* TypeOK, with the publications and the unchanged tuples taken apart.
LEMMA TypedIs ==
  TypeOK <=>
    /\ account \in [Clients -> Users]
    /\ live \in [Topics -> Values] /\ row \in [Topics -> Values]
    /\ over \subseteq Jobs /\ imported \subseteq over /\ loose \subseteq Topics /\ last \in Values
    /\ dials \in 0..MaxDials /\ changes \in 0..MaxChanges
    /\ pub \in [Pubs -> Publication]
    /\ conn \in [Clients -> {"off", "kept", "joined", "rows", "overlay", "jobs", "paused", "on"}]
    /\ snap \in [Clients -> Frame]
    /\ buf \in [Clients -> Seq(Frame)] /\ \A c \in Clients : Len(buf[c]) <= Buffer
    /\ shows \in [Clients -> [Topics -> Values]]
    /\ told \in [Topics -> Values]
    /\ wrong \in [Clients -> SUBSET Topics] /\ beyond \in [Clients -> SUBSET Jobs]
BY DEF TypeOK, Publication, Stages

LEMMA Numbers ==
  ASSUME TypeOK
  PROVE  /\ \A q \in Pubs, s \in Topics : pub[q].frame.of[s] \in Nat
         /\ \A c \in Clients, s \in Topics : snap[c].of[s] \in Nat
         /\ \A s \in Topics : live[s] \in Nat /\ row[s] \in Nat /\ told[s] \in Nat
<1>1. pub \in [Pubs -> Publication]
  BY TypedIs
<1>2. \A q \in Pubs : pub[q].frame \in Frame
  BY <1>1 DEF Publication
<1>3. \A c \in Clients : snap[c] \in Frame
  BY TypedIs
<1>4. \A m \in Frame, s \in Topics : m.of[s] \in Nat
  BY Naturals DEF Frame
<1> QED
  BY <1>2, <1>3, <1>4, Naturals, TypedIs

LEMMA TypedNext ==
  ASSUME /\ account' \in [Clients -> Users]
         /\ live' \in [Topics -> Values] /\ row' \in [Topics -> Values]
         /\ over' \subseteq Jobs /\ imported' \subseteq over' /\ loose' \subseteq Topics /\ last' \in Values,
         dials' \in 0..MaxDials, changes' \in 0..MaxChanges,
         /\ pub' \in [Pubs -> Publication]
         /\ conn' \in [Clients -> {"off", "kept", "joined", "rows", "overlay", "jobs", "paused", "on"}]
         /\ snap' \in [Clients -> Frame]
         /\ buf' \in [Clients -> Seq(Frame)] /\ \A c \in Clients : Len(buf'[c]) <= Buffer
         /\ shows' \in [Clients -> [Topics -> Values]]
         /\ told' \in [Topics -> Values]
         /\ wrong' \in [Clients -> SUBSET Topics] /\ beyond' \in [Clients -> SUBSET Jobs],
         \A t \in Topics : live'[t] <= changes' + 1 /\ row'[t] <= changes' + 1,
         \A q \in Pubs, s \in Topics : pub'[q].frame.of[s] <= changes' + 1,
         \A q \in Pubs : Formed(pub'[q])
  PROVE  Typed'
BY DEF Typed, TypeOK, Counted, Publication, Stages

LEMMA FormedKeeps ==
  ASSUME NEW q, NEW r, Formed(q), q # NoPub,
         r.topic = q.topic, r.at = q.at, r.next = q.next, r.user = q.user,
         r.frame.set = q.frame.set, r.frame.of = q.frame.of, q.frame.old \subseteq r.frame.old
  PROVE  Formed(r)
BY DEF Formed, Single, Listing

LEMMA ChangeStep ==
  ASSUME TypeOK, Counted, Change
  PROVE  /\ changes \in Nat /\ changes' = changes + 1 /\ changes' \in 0..MaxChanges
         /\ \A t \in Topics : live[t] + 1 \in Values /\ row[t] + 1 \in Values
BY FeedAssumption DEF TypeOK, Counted, Change, Values

\* A publication begins: its topic's number is the next.
LEMMA StartsTyped ==
  ASSUME Typed, NEW p \in Pubs, NEW t \in Topics, NEW v \in Values, NEW at \in Stages,
         Starts(p, t, v, at), v > 0, v <= changes' + 1,
         changes \in Nat, changes' = changes + 1,
         IF t = Queue THEN at = "save" ELSE at \in {"save", "owner"}
  PROVE  /\ pub' \in [Pubs -> Publication]
         /\ \A q \in Pubs, s \in Topics : pub'[q].frame.of[s] <= changes' + 1
         /\ \A q \in Pubs : Formed(pub'[q])
<1> USE DEF Typed
<1>1. pub \in [Pubs -> Publication]
  BY TypedIs
<1>2. /\ pub[p] = NoPub /\ pub' \in [Pubs -> Publication]
      /\ pub'[p].topic = t /\ pub'[p].frame = One(t, v) /\ pub'[p].at = at
      /\ pub'[p].next = "none"
      /\ \A q \in Pubs \ {p} : pub'[q] = pub[q]
  BY <1>1, StartsPub
<1>3. /\ One(t, v) \in Frame /\ ~One(t, v).set
      /\ One(t, v).of[t] = v /\ t \in One(t, v).old
      /\ \A s \in Topics \ {t} : One(t, v).of[s] = 0
  BY OneIs
<1>4. \A q \in Pubs, s \in Topics : pub[q].frame.of[s] \in Nat
  BY <1>1, Naturals DEF Publication, Frame
<1>5. \A q \in Pubs, s \in Topics : pub'[q].frame.of[s] <= changes' + 1
  BY <1>2, <1>3, <1>4 DEF Counted
<1>6. Single(pub'[p])
  BY <1>2, <1>3 DEF Single
<1> QED
  BY <1>2, <1>5, <1>6 DEF Formed

\* A publication goes on to a later stage.
LEMMA LaterTyped ==
  ASSUME Typed, NEW p \in Pubs, pub' \in [Pubs -> Publication], changes' = changes,
         pub'[p].topic = pub[p].topic, pub'[p].frame = pub[p].frame, Single(pub'[p]),
         \A q \in Pubs \ {p} : pub'[q] = pub[q]
  PROVE  /\ \A q \in Pubs, s \in Topics : pub'[q].frame.of[s] <= changes' + 1
         /\ \A q \in Pubs : Formed(pub'[q])
BY DEF Typed, Counted, Formed

LEMMA ChangesTyped ==
  ASSUME Typed, NEW p \in Pubs,
         (\E j \in Jobs : Appears(p, j) \/ Steps(p, j) \/ Finishes(p, j))
         \/ Pauses(p) \/ FlagSaveFails(p)
  PROVE  Typed'
<1> USE DEF Typed
<1>0. /\ Queue \in Topics /\ Jobs \subseteq Topics /\ Queue \notin Jobs
      /\ {"save", "owner"} \subseteq Stages
  BY FeedAssumption DEF Topics, Stages
<1>1. ASSUME NEW j \in Jobs, Appears(p, j) PROVE Typed'
  <2>1. /\ changes \in Nat /\ changes' = changes + 1 /\ changes' \in 0..MaxChanges
        /\ row[j] + 1 \in Values /\ row[j] <= changes + 1 /\ row[j] \in Nat
    BY <1>0, <1>1, ChangeStep, Naturals DEF Appears, Counted, TypeOK
  <2>2. /\ pub' \in [Pubs -> Publication]
        /\ \A q \in Pubs, s \in Topics : pub'[q].frame.of[s] <= changes' + 1
        /\ \A q \in Pubs : Formed(pub'[q])
    BY <1>0, <1>1, <2>1, StartsTyped DEF Appears
  <2>3. live' \in [Topics -> Values] /\ over' \subseteq Jobs /\ over \subseteq over'
        /\ \A t \in Topics : live'[t] <= changes' + 1 /\ row'[t] <= changes' + 1
    <3>1. \A t \in Topics : live[t] \in Nat /\ row[t] \in Nat
      BY Naturals, TypedIs
    <3>2. CASE live' = [live EXCEPT ![j] = row[j] + 1] /\ over' = over
      BY <1>0, <1>1, <2>1, <3>1, <3>2, TypedIs DEF Appears, Counted
    <3>3. CASE over' = over \cup {j} /\ live' = live
      BY <1>0, <1>1, <2>1, <3>1, <3>3, TypedIs DEF Appears, Counted
    <3> QED
      BY <1>1, <3>2, <3>3 DEF Appears
  <2> QED
    BY <1>1, <2>1, <2>2, <2>3, TypedIs, TypedNext DEF Appears, sockets
<1>2. ASSUME NEW j \in Jobs, Steps(p, j) PROVE Typed'
  <2>1. /\ changes \in Nat /\ changes' = changes + 1 /\ changes' \in 0..MaxChanges
        /\ live[j] + 1 \in Values /\ live[j] <= changes + 1 /\ live[j] \in Nat
    BY <1>0, <1>2, ChangeStep, Naturals DEF Steps, Counted, TypeOK
  <2>2. /\ pub' \in [Pubs -> Publication]
        /\ \A q \in Pubs, s \in Topics : pub'[q].frame.of[s] <= changes' + 1
        /\ \A q \in Pubs : Formed(pub'[q])
    <3>1. CASE \E at \in {"save", "owner"} : Starts(p, j, live[j] + 1, at)
      BY <1>0, <2>1, <3>1, StartsTyped
    <3>2. CASE pub' = pub
      <4>1. \A q \in Pubs, s \in Topics : pub[q].frame.of[s] \in Nat
        BY Numbers
      <4> QED
        BY <2>1, <3>2, <4>1, TypedIs DEF Counted
    <3> QED
      BY <1>2, <3>1, <3>2 DEF Steps
  <2>3. live' \in [Topics -> Values] /\ loose' \subseteq Topics
        /\ \A t \in Topics : live'[t] <= changes' + 1 /\ row'[t] <= changes' + 1
    BY <1>0, <1>2, <2>1, Naturals DEF Steps, TypeOK, Counted, Values
  <2> QED
    BY <1>2, <2>1, <2>2, <2>3, TypedIs, TypedNext DEF Steps, sockets
<1>3. ASSUME NEW j \in Jobs, Finishes(p, j) PROVE Typed'
  <2>1. /\ changes \in Nat /\ changes' = changes + 1 /\ changes' \in 0..MaxChanges
        /\ live[j] + 1 \in Values /\ live[j] <= changes + 1 /\ live[j] \in Nat
    BY <1>0, <1>3, ChangeStep, Naturals DEF Finishes, Counted, TypeOK
  <2>2. /\ pub' \in [Pubs -> Publication]
        /\ \A q \in Pubs, s \in Topics : pub'[q].frame.of[s] <= changes' + 1
        /\ \A q \in Pubs : Formed(pub'[q])
    BY <1>0, <1>3, <2>1, StartsTyped DEF Finishes
  <2>3. live' \in [Topics -> Values] /\ loose' \subseteq Topics /\ over' \subseteq Jobs
        /\ imported' \subseteq over'
        /\ \A t \in Topics : live'[t] <= changes' + 1 /\ row'[t] <= changes' + 1
    BY <1>0, <1>3, <2>1, Naturals DEF Finishes, TypeOK, Counted, Values
  <2> QED
    BY <1>3, <2>1, <2>2, <2>3, TypedIs, TypedNext DEF Finishes, sockets
<1>4. ASSUME Pauses(p) PROVE Typed'
  <2>1. /\ changes \in Nat /\ changes' = changes + 1 /\ changes' \in 0..MaxChanges
        /\ live[Queue] + 1 \in Values /\ live[Queue] <= changes + 1 /\ live[Queue] \in Nat
    BY <1>0, <1>4, ChangeStep, Naturals DEF Pauses, Counted, TypeOK
  <2>2. /\ pub' \in [Pubs -> Publication]
        /\ \A q \in Pubs, s \in Topics : pub'[q].frame.of[s] <= changes' + 1
        /\ \A q \in Pubs : Formed(pub'[q])
    BY <1>0, <1>4, <2>1, StartsTyped DEF Pauses
  <2>3. live' \in [Topics -> Values] /\ loose' \subseteq Topics
        /\ \A t \in Topics : live'[t] <= changes' + 1 /\ row'[t] <= changes' + 1
    BY <1>0, <1>4, <2>1, Naturals DEF Pauses, TypeOK, Counted, Values
  <2> QED
    BY <1>4, <2>1, <2>2, <2>3, TypedIs, TypedNext DEF Pauses, sockets
<1>5. ASSUME FlagSaveFails(p) PROVE Typed'
  <2>1. pub' = [pub EXCEPT ![p] = NoPub] /\ loose' = loose \cup {Queue}
        /\ UNCHANGED <<live, row, over, imported, sockets, shows, rest>>
    BY <1>5 DEF FlagSaveFails
  <2>2. changes \in Nat /\ pub \in [Pubs -> Publication]
    BY TypedIs, FeedAssumption
  <2>3. /\ pub' \in [Pubs -> Publication]
        /\ \A q \in Pubs, s \in Topics : pub'[q].frame.of[s] <= changes' + 1
        /\ \A q \in Pubs : Formed(pub'[q])
    BY <2>1, <2>2, NoPubIs, UnmadeIs DEF Formed, Counted, rest
  <2> QED
    BY <1>0, <2>1, <2>3, TypedIs, TypedNext DEF Counted, sockets, rest
<1> QED
  BY <1>1, <1>2, <1>3, <1>4, <1>5

LEMMA SavesTyped ==
  ASSUME Typed, NEW p \in Pubs, Saves(p) \/ Leaves(p)
  PROVE  Typed'
<1> USE DEF Typed
<1>0. pub \in [Pubs -> Publication] /\ Formed(pub[p])
      /\ {"save", "leave", "owner", "all"} \subseteq Stages
  BY TypedIs DEF Stages
<1>1. CASE Saves(p)
  <2> DEFINE t == pub[p].topic
             at == IF t = Queue THEN "all"
                   ELSE IF t \in over /\ live[t] = pub[p].frame.of[t] THEN "leave" ELSE "owner"
  <2>1. Single(pub[p]) /\ t \in Topics /\ pub[p].frame.of[t] \in Values
        /\ pub[p].frame.of[t] <= changes + 1
    BY <1>0, <1>1, Stage DEF Saves, Single, Publication, Frame, Counted
  <2>2. /\ pub' \in [Pubs -> Publication]
        /\ pub'[p].topic = pub[p].topic /\ pub'[p].frame = pub[p].frame /\ pub'[p].at = at
        /\ pub'[p].next = pub[p].next
        /\ \A q \in Pubs \ {p} : pub'[q] = pub[q]
    BY <1>0, <1>1, MovesPub DEF Saves
  <2>3. Single(pub'[p])
    BY <1>1, <2>1, <2>2 DEF Single, Saves
  <2>4. /\ \A q \in Pubs, s \in Topics : pub'[q].frame.of[s] <= changes' + 1
        /\ \A q \in Pubs : Formed(pub'[q])
    BY <1>1, <2>2, <2>3, LaterTyped DEF Saves, rest
  <2>5. row' \in [Topics -> Values] /\ loose' \subseteq Topics
    BY <1>1, <2>1, TypedIs DEF Saves
  <2>6. \A s \in Topics : live'[s] <= changes' + 1 /\ row'[s] <= changes' + 1
    BY <1>1, <2>1, TypedIs DEF Saves, Counted, rest
  <2> QED
    BY <1>1, <2>2, <2>4, <2>5, <2>6, TypedIs, TypedNext DEF Saves, sockets, rest
<1>2. CASE Leaves(p)
  <2>1. Single(pub[p]) /\ pub[p].topic \in Jobs
    BY <1>0, <1>2, Stage DEF Leaves
  <2>2. /\ pub' \in [Pubs -> Publication]
        /\ pub'[p].topic = pub[p].topic /\ pub'[p].frame = pub[p].frame /\ pub'[p].at = "owner"
        /\ pub'[p].next = pub[p].next
        /\ \A q \in Pubs \ {p} : pub'[q] = pub[q]
    BY <1>0, <1>2, MovesPub DEF Leaves
  <2>3. Single(pub'[p])
    BY <2>1, <2>2, FeedAssumption DEF Single
  <2>4. /\ \A q \in Pubs, s \in Topics : pub'[q].frame.of[s] <= changes' + 1
        /\ \A q \in Pubs : Formed(pub'[q])
    BY <1>2, <2>2, <2>3, LaterTyped DEF Leaves, rest
  <2>5. live' \in [Topics -> Values]
    BY <1>2, Naturals, TypedIs DEF Leaves
  <2>6. \A s \in Topics : live'[s] <= changes' + 1 /\ row'[s] <= changes' + 1
    <3>1. changes \in Nat
      BY TypedIs, FeedAssumption
    <3> QED
      BY <1>2, <3>1, TypedIs DEF Leaves, Counted, rest
  <2> QED
    BY <1>2, <2>2, <2>4, <2>5, <2>6, TypedIs, TypedNext DEF Leaves, sockets, rest
<1> QED
  BY <1>1, <1>2

LEMMA NewestIs ==
  ASSUME NEW f \in [Topics -> Values], NEW m \in Frame
  PROVE  Newest(f, m) \in [Topics -> Values]
BY DEF Newest, Frame

\* A publication from one of the stages that list sockets.
LEMMA ListsPub ==
  ASSUME Typed, NEW p \in Pubs, Lists(p)
  PROVE  \E next \in {"none", "admins"}, to \in SUBSET Clients :
           /\ Listed(p, next, to)
           /\ pub[p].at \in {"all", "owner", "admins", "user"}
           /\ next = "admins" <=> pub[p].at = "owner"
BY DEF Lists, Of, ToAdmins, Joined

LEMMA ListsTyped ==
  ASSUME Typed, NEW p \in Pubs, Lists(p)
  PROVE  Typed'
<1> USE DEF Typed
<1>0. pub \in [Pubs -> Publication] /\ \A q \in Pubs : Formed(pub[q])
  BY TypedIs
<1>1. PICK next \in {"none", "admins"}, to \in SUBSET Clients :
        /\ Listed(p, next, to)
        /\ pub[p].at \in {"all", "owner", "admins", "user"}
        /\ next = "admins" <=> pub[p].at = "owner"
  BY ListsPub
<1>2. /\ pub' \in [Pubs -> Publication]
      /\ pub'[p].topic = pub[p].topic /\ pub'[p].frame = pub[p].frame /\ pub'[p].at = "send"
      /\ pub'[p].next = next /\ pub'[p].user = pub[p].user
      /\ \A q \in Pubs \ {p} :
           /\ pub[q] = NoPub => pub'[q] = NoPub
           /\ pub'[q].topic = pub[q].topic /\ pub'[q].at = pub[q].at
           /\ pub'[q].next = pub[q].next /\ pub'[q].user = pub[q].user
           /\ pub'[q].frame.set = pub[q].frame.set /\ pub'[q].frame.of = pub[q].frame.of
           /\ pub[q].frame.old \subseteq pub'[q].frame.old
  BY <1>0, <1>1, ListedPub
<1>3. Formed(pub'[p])
  BY <1>0, <1>1, <1>2, Stage DEF Formed, Single, Listing
<1>4. \A q \in Pubs \ {p} : Formed(pub'[q])
  BY <1>0, <1>2, FormedKeeps DEF Formed
<1>5. pub[p].frame \in Frame
  BY <1>0 DEF Publication
<1>6. told' \in [Topics -> Values]
  BY <1>5, NewestIs, TypedIs DEF Lists
<1>7. snap' \in [Clients -> Frame]
  BY <1>5, AgesIs, TypedIs DEF Lists
<1>8. last' \in Values
  BY <1>5, TypedIs DEF Lists, Frame, Topics
<1>9. \A q \in Pubs, s \in Topics : pub'[q].frame.of[s] <= changes' + 1
  BY <1>2 DEF Lists, rest, Counted
<1>10. /\ UNCHANGED <<account, live, row, over, imported, loose, dials, changes>>
      /\ UNCHANGED <<conn, buf, shows, wrong, beyond>>
  BY DEF Lists, manager, rest
<1> QED
  BY <1>2, <1>3, <1>4, <1>6, <1>7, <1>8, <1>9, <1>10, TypedIs, TypedNext DEF Counted

\* What a socket's buffer holds after a frame is sent to it.
LEMMA BareIs ==
  ASSUME NEW m \in Frame
  PROVE  /\ Bare(m) \in Frame /\ Bare(m).set = m.set /\ Bare(m).of = m.of
         /\ \A t \in Topics : Mentions(Bare(m), t) <=> Mentions(m, t)
BY DEF Bare, Frame, Mentions

LEMMA SendsIs ==
  ASSUME TypeOK, NEW c \in Clients, NEW m \in Frame, Sends(c, m)
  PROVE  /\ buf' \in [Clients -> Seq(Frame)] /\ \A d \in Clients : Len(buf'[d]) <= Buffer
         /\ buf'[c] = IF HasRoom(buf[c]) THEN Append(buf[c], Bare(m)) ELSE buf[c]
         /\ wrong' \in [Clients -> SUBSET Topics]
         /\ wrong'[c] = {t \in wrong[c] : ~Mentions(m, t)} \cup Behind(buf[c], m)
         /\ beyond' \in [Clients -> SUBSET Jobs]
         /\ beyond'[c] = {t \in beyond[c] : ~Mentions(m, t)} \cup m.cut
         /\ \A d \in Clients \ {c} :
              buf'[d] = buf[d] /\ wrong'[d] = wrong[d] /\ beyond'[d] = beyond[d]
<1>0. beyond \in [Clients -> SUBSET Jobs] /\ m.cut \in SUBSET Jobs
  BY TypedIs DEF Frame
<1>1. Bare(m) \in Frame
  BY BareIs
<1>2. /\ buf \in [Clients -> Seq(Frame)] /\ wrong \in [Clients -> SUBSET Topics]
      /\ \A d \in Clients : Len(buf[d]) <= Buffer
  BY TypedIs
<1>3. Behind(buf[c], m) \subseteq Topics
  BY DEF Behind
<1>4. wrong' = [wrong EXCEPT ![c] = {t \in wrong[c] : ~Mentions(m, t)} \cup Behind(buf[c], m)]
  BY DEF Sends
<1>5. /\ wrong' \in [Clients -> SUBSET Topics]
      /\ wrong'[c] = {t \in wrong[c] : ~Mentions(m, t)} \cup Behind(buf[c], m)
      /\ \A d \in Clients \ {c} : wrong'[d] = wrong[d]
  BY <1>2, <1>3, <1>4
<1>6. buf' = IF HasRoom(buf[c]) THEN [buf EXCEPT ![c] = Append(buf[c], Bare(m))] ELSE buf
  BY DEF Sends
<1>7. /\ beyond' \in [Clients -> SUBSET Jobs]
      /\ beyond'[c] = {t \in beyond[c] : ~Mentions(m, t)} \cup m.cut
      /\ \A d \in Clients \ {c} : beyond'[d] = beyond[d]
  <2>1. beyond' = [beyond EXCEPT ![c] = {t \in beyond[c] : ~Mentions(m, t)} \cup m.cut]
    BY DEF Sends
  <2> QED
    BY <1>0, <2>1
<1>8. CASE HasRoom(buf[c])
  <2> DEFINE b == Append(buf[c], Bare(m))
  <2>1. b \in Seq(Frame) /\ Len(b) <= Buffer
    BY <1>1, <1>2, <1>8, FeedAssumption DEF HasRoom
  <2>2. buf' = [buf EXCEPT ![c] = b]
    BY <1>6, <1>8
  <2> HIDE DEF b
  <2>3. buf' \in [Clients -> Seq(Frame)] /\ buf'[c] = b /\ \A d \in Clients \ {c} : buf'[d] = buf[d]
    BY <1>2, <2>1, <2>2
  <2> QED
    BY <1>2, <1>5, <1>8, <1>7, <2>1, <2>3 DEF b
<1>9. CASE ~HasRoom(buf[c])
  BY <1>2, <1>5, <1>6, <1>9, <1>7
<1> QED
  BY <1>8, <1>9

LEMMA SendsOnTyped ==
  ASSUME Typed, NEW p \in Pubs, NEW c \in Clients, SendsOn(p, c)
  PROVE  Typed'
<1> USE DEF Typed
<1>0. pub \in [Pubs -> Publication] /\ \A q \in Pubs : Formed(pub[q])
  BY TypedIs
<1>1. /\ pub' \in [Pubs -> Publication] /\ pub[p].at = "send"
      /\ pub'[p].at = "send"
      /\ pub'[p].topic = pub[p].topic /\ pub'[p].frame = pub[p].frame
      /\ pub'[p].next = pub[p].next /\ pub'[p].user = pub[p].user
      /\ \A q \in Pubs \ {p} : pub'[q] = pub[q]
  BY <1>0, SendsOnPub
<1>2. Formed(pub'[p])
  BY <1>0, <1>1, Stage DEF Formed, Single, Listing
<1>3. pub[p].frame \in Frame
  BY <1>0 DEF Publication
<1>4. buf' \in [Clients -> Seq(Frame)] /\ (\A d \in Clients : Len(buf'[d]) <= Buffer)
      /\ wrong' \in [Clients -> SUBSET Topics] /\ beyond' \in [Clients -> SUBSET Jobs]
  BY <1>3, SendsIs, TypedIs DEF SendsOn
<1>5. UNCHANGED <<account, live, row, over, imported, loose, dials, changes, last, conn, snap, shows, told>>
  BY DEF SendsOn, manager, rest
<1>6. /\ \A q \in Pubs, s \in Topics : pub'[q].frame.of[s] <= changes' + 1
      /\ \A q \in Pubs : Formed(pub'[q])
  BY <1>1, <1>2, <1>5 DEF Counted
<1> QED
  BY <1>1, <1>4, <1>5, <1>6, TypedIs, TypedNext DEF Counted

LEMMA SentTyped ==
  ASSUME Typed, NEW p \in Pubs, Sent(p)
  PROVE  Typed'
<1> USE DEF Typed
<1>0. pub \in [Pubs -> Publication] /\ \A q \in Pubs : Formed(pub[q])
  BY TypedIs
<1>1. /\ pub' \in [Pubs -> Publication] /\ pub[p].at = "send"
      /\ pub[p].next = "none" => pub'[p] = NoPub
      /\ pub[p].next # "none" =>
           /\ pub[p].next = "admins" /\ pub'[p].at = "admins"
           /\ pub'[p].topic = pub[p].topic /\ pub'[p].frame = pub[p].frame
           /\ pub'[p].next = pub[p].next /\ pub'[p].user = pub[p].user
      /\ \A q \in Pubs \ {p} : pub'[q] = pub[q]
  BY <1>0, SentPub
<1>2. Formed(pub'[p])
  BY <1>0, <1>1, Stage DEF Formed, Single, Listing
<1>3. \A s \in Topics : NoPub.frame.of[s] = 0
  BY NoPubIs, UnmadeIs, BlankIs DEF Blank
<1>4. changes \in Nat
  BY TypedIs, FeedAssumption
<1>5. UNCHANGED <<manager, sockets, shows, rest>>
  BY DEF Sent
<1>6. /\ \A q \in Pubs, s \in Topics : pub'[q].frame.of[s] <= changes' + 1
      /\ \A q \in Pubs : Formed(pub'[q])
  BY <1>1, <1>2, <1>3, <1>4, <1>5 DEF Counted, rest
<1> QED
  BY <1>1, <1>5, <1>6, TypedIs, TypedNext DEF Counted, manager, sockets, rest

LEMMA ClearsTyped ==
  ASSUME Typed, NEW p \in Pubs, NEW u \in Users, Clears(p, u)
  PROVE  Typed'
<1> USE DEF Typed
<1>0. pub \in [Pubs -> Publication] /\ \A q \in Pubs : Formed(pub[q])
  BY TypedIs
<1>1. /\ pub' \in [Pubs -> Publication]
      /\ pub[p] = NoPub /\ pub'[p].topic = None /\ pub'[p].at = "rows"
      /\ pub'[p].user = u /\ pub'[p].frame = Unmade /\ pub'[p].next = "none"
      /\ \A q \in Pubs \ {p} : pub'[q] = pub[q]
  BY <1>0, ClearsPub
<1>2. Unmade.set /\ \A s \in Topics : Unmade.of[s] = 0
  BY UnmadeIs, BlankIs DEF Blank
<1>3. Formed(pub'[p])
  BY <1>1, <1>2 DEF Formed, Listing, Topics
<1>4. changes \in Nat
  BY TypedIs, FeedAssumption
<1>5. UNCHANGED <<account, live, over, imported, loose, last, dials, changes, conn, snap, buf, shows, beyond>>
  BY DEF Clears, rest
<1>6. /\ \A q \in Pubs, s \in Topics : pub'[q].frame.of[s] <= changes' + 1
      /\ \A q \in Pubs : Formed(pub'[q])
  BY <1>1, <1>2, <1>3, <1>4, <1>5 DEF Counted
<1>7. Finished(u) \subseteq Topics
  BY TypedIs DEF Finished, Topics
<1>8. /\ row' = [t \in Topics |-> IF t \in Finished(u) THEN 0 ELSE row[t]]
      /\ told' = [t \in Topics |-> IF t \in Finished(u) THEN 0 ELSE told[t]]
      /\ wrong' = [c \in Clients |-> IF account[c] = u \/ conn[c] = "off" THEN wrong[c]
                                   ELSE wrong[c] \cup Finished(u)]
  BY DEF Clears
<1>9. row' \in [Topics -> Values] /\ told' \in [Topics -> Values]
      /\ wrong' \in [Clients -> SUBSET Topics]
  BY <1>7, <1>8, Naturals, TypedIs
<1>10. \A t \in Topics : live'[t] <= changes' + 1 /\ row'[t] <= changes' + 1
  BY <1>4, <1>5, <1>8 DEF Counted
<1> QED
  BY <1>1, <1>5, <1>6, <1>9, <1>10, TypedIs, TypedNext

LEMMA MakesSetTyped ==
  ASSUME Typed, NEW p \in Pubs, MakesSet(p)
  PROVE  Typed'
<1> USE DEF Typed
<1>0. pub \in [Pubs -> Publication] /\ \A q \in Pubs : Formed(pub[q])
  BY TypedIs
<1>1. /\ pub' \in [Pubs -> Publication]
      /\ pub'[p].topic = pub[p].topic /\ pub'[p].next = pub[p].next
      /\ pub'[p].user = pub[p].user
      /\ \/ /\ pub[p].at = "rows" /\ pub'[p].at = "overlay"
            /\ \E S \in Listings(pub[p].user) : pub'[p].frame = RowsFor(pub[p].user, S)
         \/ /\ pub[p].at = "overlay" /\ pub'[p].at = "user"
            /\ pub'[p].frame = Overlaid(pub[p].frame)
      /\ \A q \in Pubs \ {p} : pub'[q] = pub[q]
  BY <1>0, MakesSetPub, TypedIs
<1>2. Listing(pub[p])
  BY <1>0, <1>1, Stage
<1>3. changes \in Nat /\ Queue \in Topics /\ Queue \notin Jobs
  BY TypedIs, FeedAssumption DEF Topics
<1>4. UNCHANGED <<manager, sockets, shows, rest>>
  BY DEF MakesSet
<1>5. Listing(pub'[p]) /\ \A s \in Topics : pub'[p].frame.of[s] <= changes' + 1
  <2>1. CASE pub[p].at = "rows"
    <3>1. PICK S \in Listings(pub[p].user) :
            pub'[p].at = "overlay" /\ pub'[p].frame = RowsFor(pub[p].user, S)
      BY <1>1, <2>1
    <3>2. /\ RowsFor(pub[p].user, S).set
          /\ \A t \in Topics :
               /\ RowsFor(pub[p].user, S).of[t] \in {0, row[t]}
               /\ RowsFor(pub[p].user, S).of[t] # 0 => t \in Jobs
      BY RowsForIs, TypedIs
    <3> QED
      BY <1>1, <1>2, <1>3, <1>4, <3>1, <3>2 DEF Listing, rest, Counted
  <2>2. CASE pub[p].at = "overlay"
    <3>1. pub'[p].at = "user" /\ pub'[p].frame = Overlaid(pub[p].frame)
      BY <1>1, <2>2
    <3>2. /\ Overlaid(pub[p].frame).set = pub[p].frame.set
          /\ \A t \in Topics : Overlaid(pub[p].frame).of[t] =
               IF pub[p].frame.of[t] # 0 /\ live[t] # 0 THEN live[t] ELSE pub[p].frame.of[t]
      BY <1>0, OverlaidIs, TypedIs DEF Publication
    <3> QED
      BY <1>1, <1>2, <1>3, <1>4, <3>1, <3>2 DEF Listing, rest, Counted
  <2> QED
    BY <1>1, <2>1, <2>2
<1>6. /\ \A q \in Pubs, s \in Topics : pub'[q].frame.of[s] <= changes' + 1
      /\ \A q \in Pubs : Formed(pub'[q])
  BY <1>1, <1>4, <1>5 DEF Counted, Formed, rest
<1> QED
  BY <1>1, <1>4, <1>6, TypedIs, TypedNext DEF Counted, manager, sockets, rest

ActsOn(c) == Joins(c) \/ Snaps(c) \/ Replays(c) \/ Delivers(c) \/ Loses(c)

\* What a socket's action leaves alone.
LEMMA SocketLeaves ==
  ASSUME NEW c \in Clients, ActsOn(c)
  PROVE  UNCHANGED <<account, live, row, over, imported, loose, changes, last, pub, told>>
BY DEF ActsOn, Joins, Snaps, Replays, Delivers, Loses, manager, rest

\* The snapshot a socket makes.
LEMMA SnapsIs ==
  ASSUME TypeOK, NEW c \in Clients, Snaps(c)
  PROVE  /\ snap' \in [Clients -> Frame]
         /\ conn' \in [Clients -> {"off", "kept", "joined", "rows", "overlay", "jobs", "paused", "on"}]
         /\ \A d \in Clients \ {c} : snap'[d] = snap[d] /\ conn'[d] = conn[d]
         /\ UNCHANGED <<buf, wrong, beyond, shows, dials>>
         /\ \/ /\ conn[c] = "joined" /\ conn'[c] = "rows"
               /\ \E S \in Listings(account[c]) : snap'[c] = RowsFor(account[c], S)
            \/ /\ conn[c] = "rows" /\ conn'[c] = "overlay"
               /\ snap'[c] = Overlaid(snap[c])
            \/ /\ conn[c] = "jobs" /\ conn'[c] = "paused"
               /\ snap'[c] = One(Queue, live[Queue])
<1>1. /\ snap \in [Clients -> Frame]
      /\ conn \in [Clients -> {"off", "kept", "joined", "rows", "overlay", "jobs", "paused", "on"}]
      /\ row \in [Topics -> Values] /\ live \in [Topics -> Values]
      /\ Queue \in Topics /\ live[Queue] \in Values
  BY TypedIs DEF Topics
<1>2. /\ \A S \in Listings(account[c]) : RowsFor(account[c], S) \in Frame
      /\ Overlaid(snap[c]) \in Frame
      /\ One(Queue, live[Queue]) \in Frame
  BY <1>1, RowsForIs, OverlaidIs, OneIs
<1>3. UNCHANGED <<buf, wrong, beyond, shows, dials>>
  BY DEF Snaps, rest
<1>4. ASSUME NEW m \in Frame, snap' = [snap EXCEPT ![c] = m],
             NEW to \in {"rows", "overlay", "paused"}, conn' = [conn EXCEPT ![c] = to]
      PROVE  /\ snap' \in [Clients -> Frame] /\ snap'[c] = m /\ conn'[c] = to
             /\ conn' \in [Clients -> {"off", "kept", "joined", "rows", "overlay", "jobs", "paused", "on"}]
             /\ \A d \in Clients \ {c} : snap'[d] = snap[d] /\ conn'[d] = conn[d]
  BY <1>1, <1>4
<1>5. \/ /\ conn[c] = "joined" /\ conn' = [conn EXCEPT ![c] = "rows"]
         /\ \E S \in Listings(account[c]) : snap' = [snap EXCEPT ![c] = RowsFor(account[c], S)]
      \/ /\ conn[c] = "rows" /\ conn' = [conn EXCEPT ![c] = "overlay"]
         /\ snap' = [snap EXCEPT ![c] = Overlaid(snap[c])]
      \/ /\ conn[c] = "jobs" /\ conn' = [conn EXCEPT ![c] = "paused"]
         /\ snap' = [snap EXCEPT ![c] = One(Queue, live[Queue])]
  BY Zenon DEF Snaps
<1>6. CASE /\ conn[c] = "joined" /\ conn' = [conn EXCEPT ![c] = "rows"]
           /\ \E S \in Listings(account[c]) : snap' = [snap EXCEPT ![c] = RowsFor(account[c], S)]
  <2>1. PICK S \in Listings(account[c]) : snap' = [snap EXCEPT ![c] = RowsFor(account[c], S)]
    BY <1>6
  <2> QED
    BY <1>2, <1>3, <1>4, <1>6, <2>1
<1>7. CASE /\ conn[c] = "rows" /\ conn' = [conn EXCEPT ![c] = "overlay"]
           /\ snap' = [snap EXCEPT ![c] = Overlaid(snap[c])]
  BY <1>2, <1>3, <1>4, <1>7
<1>8. CASE /\ conn[c] = "jobs" /\ conn' = [conn EXCEPT ![c] = "paused"]
           /\ snap' = [snap EXCEPT ![c] = One(Queue, live[Queue])]
  BY <1>2, <1>3, <1>4, <1>8
<1> QED
  BY <1>5, <1>6, <1>7, <1>8

LEMMA ReplaysIs ==
  ASSUME TypeOK, NEW c \in Clients, Replays(c)
  PROVE  /\ snap' \in [Clients -> Frame] /\ snap'[c] = Unmade
         /\ conn' \in [Clients -> {"off", "kept", "joined", "rows", "overlay", "jobs", "paused", "on"}]
         /\ \A d \in Clients \ {c} : snap'[d] = snap[d] /\ conn'[d] = conn[d]
         /\ UNCHANGED <<shows, dials>> /\ Sends(c, snap[c])
         /\ \/ conn[c] = "kept" /\ conn'[c] = "joined"
            \/ conn[c] = "overlay" /\ conn'[c] = "jobs"
            \/ conn[c] = "paused" /\ conn'[c] = "on"
BY BlankIs, UnmadeIs, TypedIs DEF Replays, rest

LEMMA MergedIs ==
  ASSUME NEW f \in [Topics -> Values], NEW m \in Frame
  PROVE  Merged(f, m) \in [Topics -> Values]
BY DEF Merged, Frame

LEMMA DeliversIs ==
  ASSUME TypeOK, NEW c \in Clients, Delivers(c)
  PROVE  /\ conn[c] = "on" /\ buf[c] # <<>> /\ Head(buf[c]) \in Frame
         /\ buf' \in [Clients -> Seq(Frame)] /\ \A d \in Clients : Len(buf'[d]) <= Buffer
         /\ shows' \in [Clients -> [Topics -> Values]]
         /\ buf'[c] = Tail(buf[c]) /\ shows'[c] = Merged(shows[c], Head(buf[c]))
         /\ \A d \in Clients \ {c} : buf'[d] = buf[d] /\ shows'[d] = shows[d]
         /\ UNCHANGED <<conn, snap, wrong, beyond, dials>>
<1>1. /\ buf \in [Clients -> Seq(Frame)] /\ shows \in [Clients -> [Topics -> Values]]
      /\ \A d \in Clients : Len(buf[d]) <= Buffer
  BY TypedIs
<1>2. buf[c] # <<>> /\ conn[c] = "on"
  BY DEF Delivers
<1>3. Head(buf[c]) \in Frame /\ Tail(buf[c]) \in Seq(Frame) /\ Len(Tail(buf[c])) <= Buffer
  BY <1>1, <1>2, FeedAssumption
<1>4. buf' = [buf EXCEPT ![c] = Tail(buf[c])]
      /\ shows' = [shows EXCEPT ![c] = Merged(shows[c], Head(buf[c]))]
  BY DEF Delivers
<1>5. Merged(shows[c], Head(buf[c])) \in [Topics -> Values]
  BY <1>1, <1>3, MergedIs
<1>6. UNCHANGED <<conn, snap, wrong, beyond, dials>>
  BY DEF Delivers, rest
<1> QED
  BY <1>1, <1>2, <1>3, <1>4, <1>5, <1>6

LEMMA LosesIs ==
  ASSUME TypeOK, NEW c \in Clients, Loses(c)
  PROVE  /\ snap' \in [Clients -> Frame] /\ snap'[c] = Unmade
         /\ conn' \in [Clients -> {"off", "kept", "joined", "rows", "overlay", "jobs", "paused", "on"}]
         /\ conn'[c] = "off"
         /\ buf' \in [Clients -> Seq(Frame)] /\ buf'[c] = <<>>
         /\ \A d \in Clients : Len(buf'[d]) <= Buffer
         /\ wrong' \in [Clients -> SUBSET Topics] /\ wrong'[c] = {}
         /\ beyond' \in [Clients -> SUBSET Jobs]
         /\ \A d \in Clients \ {c} :
              /\ snap'[d] = snap[d] /\ conn'[d] = conn[d] /\ buf'[d] = buf[d]
              /\ wrong'[d] = wrong[d] /\ beyond'[d] = beyond[d]
         /\ UNCHANGED <<shows, dials>>
BY BlankIs, UnmadeIs, TypedIs, FeedAssumption DEF Loses, Drop, rest

LEMMA JoinsIs ==
  ASSUME TypeOK, NEW c \in Clients, Joins(c)
  PROVE  /\ conn' \in [Clients -> {"off", "kept", "joined", "rows", "overlay", "jobs", "paused", "on"}]
         /\ conn[c] = "off"
         /\ snap' \in [Clients -> Frame]
         /\ IF last = 0 THEN conn'[c] = "joined" /\ snap'[c] = Unmade
            ELSE conn'[c] = "kept" /\ snap'[c] = One(Queue, last)
         /\ buf' \in [Clients -> Seq(Frame)] /\ buf'[c] = <<>>
         /\ \A d \in Clients : Len(buf'[d]) <= Buffer
         /\ wrong' \in [Clients -> SUBSET Topics] /\ wrong'[c] = {}
         /\ beyond' \in [Clients -> SUBSET Jobs]
         /\ \A d \in Clients \ {c} :
              /\ conn'[d] = conn[d] /\ snap'[d] = snap[d] /\ buf'[d] = buf[d]
              /\ wrong'[d] = wrong[d] /\ beyond'[d] = beyond[d]
         /\ UNCHANGED shows /\ dials' \in 0..MaxDials
<1>1. /\ buf \in [Clients -> Seq(Frame)] /\ \A d \in Clients : Len(buf[d]) <= Buffer
      /\ wrong \in [Clients -> SUBSET Topics] /\ beyond \in [Clients -> SUBSET Jobs]
      /\ dials \in 0..MaxDials /\ snap \in [Clients -> Frame]
      /\ conn \in [Clients -> {"off", "kept", "joined", "rows", "overlay", "jobs", "paused", "on"}]
      /\ last \in Values /\ Queue \in Topics
  BY TypedIs DEF Topics
<1> DEFINE m == IF last = 0 THEN Unmade ELSE One(Queue, last)
<1>2. m \in Frame
  BY <1>1, OneIs, UnmadeIs
<1>3. snap' = [snap EXCEPT ![c] = m]
  BY DEF Joins
<1> HIDE DEF m
<1>4. snap' \in [Clients -> Frame] /\ snap'[c] = m /\ \A d \in Clients \ {c} : snap'[d] = snap[d]
  BY <1>1, <1>2, <1>3
<1>5. /\ buf' \in [Clients -> Seq(Frame)] /\ buf'[c] = <<>>
      /\ (\A d \in Clients : Len(buf'[d]) <= Buffer) /\ \A d \in Clients \ {c} : buf'[d] = buf[d]
  BY <1>1, FeedAssumption DEF Joins
<1>6. dials' \in 0..MaxDials
  BY <1>1, FeedAssumption DEF Joins
<1>7. /\ wrong' \in [Clients -> SUBSET Topics] /\ wrong'[c] = {}
      /\ beyond' \in [Clients -> SUBSET Jobs]
      /\ \A d \in Clients \ {c} : wrong'[d] = wrong[d] /\ beyond'[d] = beyond[d]
  BY <1>1 DEF Joins
<1>8. /\ conn' \in [Clients -> {"off", "kept", "joined", "rows", "overlay", "jobs", "paused", "on"}]
      /\ conn[c] = "off" /\ conn'[c] = (IF last = 0 THEN "joined" ELSE "kept")
      /\ \A d \in Clients \ {c} : conn'[d] = conn[d]
  BY <1>1 DEF Joins
<1> QED
  BY <1>4, <1>5, <1>6, <1>7, <1>8 DEF Joins, m

LEMMA SocketTyped ==
  ASSUME Typed, NEW c \in Clients, ActsOn(c)
  PROVE  Typed'
<1> USE DEF Typed
<1>1. UNCHANGED <<account, live, row, over, imported, loose, changes, last, pub, told>>
  BY SocketLeaves
<1>2. /\ conn' \in [Clients -> {"off", "kept", "joined", "rows", "overlay", "jobs", "paused", "on"}]
      /\ snap' \in [Clients -> Frame]
      /\ buf' \in [Clients -> Seq(Frame)] /\ \A d \in Clients : Len(buf'[d]) <= Buffer
      /\ shows' \in [Clients -> [Topics -> Values]]
      /\ wrong' \in [Clients -> SUBSET Topics] /\ dials' \in 0..MaxDials
      /\ beyond' \in [Clients -> SUBSET Jobs]
  <2>0. snap[c] \in Frame
    BY TypedIs
  <2>1. CASE Joins(c)
    BY <2>1, JoinsIs, TypedIs
  <2>2. CASE Snaps(c)
    BY <2>2, SnapsIs, TypedIs
  <2>3. CASE Replays(c)
    BY <2>0, <2>3, ReplaysIs, SendsIs, TypedIs
  <2>4. CASE Delivers(c)
    BY <2>4, DeliversIs, TypedIs
  <2>5. CASE Loses(c)
    BY <2>5, LosesIs, TypedIs
  <2> QED
    BY <2>1, <2>2, <2>3, <2>4, <2>5 DEF ActsOn
<1> QED
  BY <1>1, <1>2, TypedIs, TypedNext DEF Counted

LEMMA RestartsTyped ==
  ASSUME Typed, Restarts
  PROVE  Typed'
<1> USE DEF Typed
<1>0. Queue \in Topics /\ Topics = Jobs \cup {Queue} /\ changes \in Nat
  BY TypedIs, FeedAssumption DEF Topics
<1>1. live' \in [Topics -> Values] /\ \A t \in Topics : live'[t] <= changes' + 1
  BY <1>0, Naturals, TypedIs DEF Restarts, Counted
<1>2. pub' \in [Pubs -> Publication] /\ (\A q \in Pubs : Formed(pub'[q]))
      /\ \A q \in Pubs, s \in Topics : pub'[q].frame.of[s] <= changes' + 1
  <2>1. \A s \in Topics : NoPub.frame.of[s] = 0
    BY NoPubIs, UnmadeIs, BlankIs DEF Blank
  <2>2. pub' = [q \in Pubs |-> NoPub] /\ changes' = changes
    BY DEF Restarts
  <2> QED
    BY <1>0, <2>1, <2>2, NoPubIs DEF Formed
<1>3. /\ buf' \in [Clients -> Seq(Frame)] /\ (\A d \in Clients : Len(buf'[d]) <= Buffer)
      /\ snap' \in [Clients -> Frame] /\ wrong' \in [Clients -> SUBSET Topics]
      /\ beyond' \in [Clients -> SUBSET Jobs]
      /\ conn' \in [Clients -> {"off", "kept", "joined", "rows", "overlay", "jobs", "paused", "on"}]
  BY UnmadeIs, BlankIs, FeedAssumption DEF Restarts
<1>4. /\ over' \subseteq Jobs /\ imported' \subseteq over' /\ loose' \subseteq Topics /\ last' \in Values
      /\ told' \in [Topics -> Values] /\ dials' \in 0..MaxDials
  BY Naturals, BlankIs, FeedAssumption, TypedIs DEF Restarts
<1>5. UNCHANGED <<row, shows, account, changes>>
  BY DEF Restarts
<1> QED
  BY <1>1, <1>2, <1>3, <1>4, <1>5, TypedIs, TypedNext DEF Counted

LEMMA InitTyped == Init => Typed
<1> SUFFICES ASSUME Init PROVE Typed
  OBVIOUS
<1>0. Queue \in Topics /\ 0 \in Values /\ 1 \in Values /\ Blank \in [Topics -> Values]
  BY BlankIs, FeedAssumption DEF Topics, Values
<1>1. /\ \A q \in Pubs : Formed(pub[q])
      /\ \A q \in Pubs, s \in Topics : pub[q].frame.of[s] <= changes + 1
  BY NoPubIs, UnmadeIs, BlankIs DEF Init, Formed, Blank
<1>2. Counted
  BY <1>1 DEF Init, Counted
<1>3. /\ live \in [Topics -> Values] /\ row \in [Topics -> Values]
      /\ over \subseteq Jobs /\ imported \subseteq over /\ loose \subseteq Topics /\ last \in Values
      /\ dials \in 0..MaxDials /\ changes \in 0..MaxChanges
  BY <1>0, FeedAssumption DEF Init
<1>4. /\ pub \in [Pubs -> Publication] /\ snap \in [Clients -> Frame]
      /\ buf \in [Clients -> Seq(Frame)] /\ \A c \in Clients : Len(buf[c]) <= Buffer
  BY NoPubIs, UnmadeIs, BlankIs, FeedAssumption DEF Init
<1>5. TypeOK
  BY <1>0, <1>3, <1>4, TypedIs DEF Init
<1> QED
  BY <1>1, <1>2, <1>5 DEF Typed

LEMMA StepTyped == Typed /\ [Next]_vars => Typed'
<1> SUFFICES ASSUME Typed, [Next]_vars PROVE Typed'
  OBVIOUS
<1>1. CASE UNCHANGED vars
  BY <1>1 DEF Typed, TypeOK, Counted, vars, manager, sockets, rest
<1>2. ASSUME NEW p \in Pubs, Publishes(p) PROVE Typed'
  BY <1>2, ChangesTyped, SavesTyped, ListsTyped, SendsOnTyped, SentTyped, ClearsTyped,
     MakesSetTyped DEF Publishes
<1>3. ASSUME NEW c \in Clients, ActsOn(c) PROVE Typed'
  BY <1>3, SocketTyped
<1> QED
  BY <1>1, <1>2, <1>3, RestartsTyped DEF Next, ActsOn

\* What the manager's goroutines publish, what the hub keeps of it, the
\* snapshots handleWS makes and what the pages show have the types the model
\* gives them; a socket's buffer (wsClient.send) never holds more than it may.
THEOREM FeedTypes == Spec => []TypeOK
<1>1. Typed => TypeOK
  BY DEF Typed
<1> QED
  BY <1>1, InitTyped, StepTyped, PTL DEF Spec

-----------------------------------------------------------------------------
(* What a step does to one topic.  Early publications are those whose      *)
(* sockets are not listed yet: what they say may still be news.            *)

Early == {"save", "leave", "owner", "all"}
On(q, t) == pub[q].topic = t
At(q, t, at) == pub[q].topic = t /\ pub[q].at = at
Val(q, t) == pub[q].frame.of[t]

Still(t) ==
  /\ live'[t] = live[t] /\ row'[t] = row[t]
  /\ t \in over' <=> t \in over
  /\ t \in loose' <=> t \in loose
Alike(q, t) ==
  /\ On(q, t)' => On(q, t) /\ Val(q, t)' = Val(q, t)
  /\ \A at \in Early : At(q, t, at)' <=> At(q, t, at)
Others(p, t) == \A q \in Pubs \ {p} : Alike(q, t)
Calm(t) == Still(t) /\ \A q \in Pubs : Alike(q, t)

\* A job comes, or comes back; a topic changes, and the change is told, or
\* not; the row is saved; the job leaves; the sockets are listed; the row is
\* cleared.
Came(p, t) ==
  /\ t \in Jobs /\ live[t] = 0 /\ t \notin over /\ ~On(p, t)
  /\ At(p, t, "save")' /\ Val(p, t)' = row[t] + 1
  /\ \/ live'[t] = row[t] + 1 /\ t \notin over'
     \/ row[t] > 0 /\ live'[t] = 0 /\ t \in over'
  /\ row'[t] = row[t] /\ (t \in loose' <=> t \in loose) /\ Others(p, t)
Changed(p, t) ==
  /\ live[t] > 0 /\ t \notin over /\ ~On(p, t)
  /\ \/ At(p, t, "save")'
     \/ At(p, t, "owner")' /\ t \notin over'
  /\ Val(p, t)' = live[t] + 1 /\ live'[t] = live[t] + 1
  /\ row'[t] = row[t] /\ t \notin loose' /\ Others(p, t)
Hurried(t) ==
  /\ live[t] > 0 /\ t \notin over /\ live'[t] = live[t] + 1
  /\ row'[t] = row[t] /\ t \notin over' /\ t \in loose' /\ \A q \in Pubs : Alike(q, t)
Saved(p, t) ==
  /\ At(p, t, "save") /\ row'[t] = Val(p, t) /\ Val(p, t)' = Val(p, t) /\ On(p, t)'
  /\ pub'[p].at = IF t = Queue THEN "all"
                  ELSE IF t \in over /\ live[t] = Val(p, t) THEN "leave" ELSE "owner"
  /\ t \in loose' <=> t \in loose \/ (t \in Jobs /\ Val(p, t) < row[t])
  /\ live'[t] = live[t] /\ (t \in over' <=> t \in over) /\ Others(p, t)
Left(p, t) ==
  /\ At(p, t, "leave") /\ At(p, t, "owner")' /\ Val(p, t)' = Val(p, t) /\ live'[t] = 0
  /\ row'[t] = row[t] /\ (t \in over' <=> t \in over) /\ (t \in loose' <=> t \in loose)
  /\ Others(p, t)
Out(p, t) ==
  /\ Lists(p) /\ (At(p, t, "all") \/ At(p, t, "owner"))
  /\ At(p, t, "send")' /\ Val(p, t)' = Val(p, t) /\ Still(t) /\ Others(p, t)
Cleared(t) ==
  /\ t \in Jobs /\ row[t] > 0 /\ t \in over /\ \A q \in Pubs : ~At(q, t, "save")
  /\ row'[t] = 0 /\ live'[t] = live[t] /\ t \in over' /\ (t \in loose' <=> t \in loose)
  /\ told'[t] = 0
  /\ \A q \in Pubs : Alike(q, t)
\* The flag's save fails, and its publication is over.
Dropped(p, t) ==
  /\ t = Queue /\ At(p, t, "save") /\ ~On(p, t)' /\ t \in loose'
  /\ live'[t] = live[t] /\ row'[t] = row[t] /\ (t \in over' <=> t \in over)
  /\ told'[t] = told[t] /\ Others(p, t)
Told(p, t) == Came(p, t) \/ Changed(p, t) \/ Saved(p, t) \/ Left(p, t) \/ Out(p, t)

\* Publications that stay, or that speak of nothing in particular.
LEMMA AlikeIf ==
  ASSUME NEW t \in Topics, NEW q
  PROVE  /\ pub'[q] = pub[q] => Alike(q, t)
         /\ pub'[q].topic = pub[q].topic /\ pub'[q].at = pub[q].at
              /\ pub'[q].frame.of = pub[q].frame.of => Alike(q, t)
         /\ pub'[q].topic # t /\ pub[q].topic # t => Alike(q, t)
BY DEF Alike, On, At, Val

LEMMA NoneIs == \A t \in Topics : t # None /\ NoPub.topic # t
BY NoPubIs, FeedAssumption

\* The paused flag is always there, in memory and in its row.
FlagIs == live[Queue] > 0 /\ row[Queue] > 0
LEMMA InitFlag == Init => FlagIs
BY FeedAssumption DEF Init, FlagIs, Topics

LEMMA StepFlag == Typed /\ FlagIs /\ [Next]_vars => FlagIs'
<1> SUFFICES ASSUME Typed, FlagIs, [Next]_vars PROVE FlagIs'
  OBVIOUS
<1>0. /\ live \in [Topics -> Values] /\ row \in [Topics -> Values]
      /\ live[Queue] \in Nat /\ row[Queue] \in Nat /\ Queue \in Topics
      /\ Queue \notin Jobs
  BY TypedIs, Numbers, FeedAssumption DEF Typed, Topics
<1>1. UNCHANGED <<live, row>> => FlagIs'
  BY DEF FlagIs
<1>2. ASSUME NEW p \in Pubs, Publishes(p) PROVE FlagIs'
  <2>1. ASSUME NEW j \in Jobs, Appears(p, j) \/ Steps(p, j) \/ Finishes(p, j) PROVE FlagIs'
    BY <1>0, <2>1 DEF FlagIs, Appears, Steps, Finishes
  <2>2. CASE Pauses(p) \/ FlagSaveFails(p)
    BY <1>0, <2>2 DEF FlagIs, Pauses, FlagSaveFails
  <2>3. CASE Saves(p)
    <3>1. Single(pub[p])
      BY <2>3, Stage DEF Typed, Saves
    <3> QED
      BY <1>0, <2>3, <3>1 DEF FlagIs, Saves, Single
  <2>4. CASE Leaves(p)
    <3>1. pub[p].topic \in Jobs
      BY <2>4, Stage DEF Typed, Leaves
    <3> QED
      BY <1>0, <2>4, <3>1 DEF FlagIs, Leaves
  <2>5. ASSUME NEW u \in Users, Clears(p, u) PROVE FlagIs'
    BY <1>0, <2>5, TypedIs DEF FlagIs, Clears, Finished, Typed
  <2>6. CASE Lists(p) \/ Sent(p) \/ MakesSet(p) \/ \E c \in Clients : SendsOn(p, c)
    BY <1>1, <2>6 DEF Lists, Sent, MakesSet, SendsOn, manager
  <2> QED
    BY <1>2, <2>1, <2>2, <2>3, <2>4, <2>5, <2>6 DEF Publishes
<1>3. ASSUME NEW c \in Clients, ActsOn(c) PROVE FlagIs'
  BY <1>1, <1>3, SocketLeaves
<1>4. CASE Restarts
  BY <1>0, <1>4 DEF FlagIs, Restarts
<1>5. CASE UNCHANGED vars
  BY <1>1, <1>5 DEF vars, manager
<1> QED
  BY <1>2, <1>3, <1>4, <1>5 DEF Next, ActsOn

LEMMA ChangesOf ==
  ASSUME Typed, FlagIs, NEW t \in Topics, NEW p \in Pubs,
         (\E j \in Jobs : Appears(p, j) \/ Steps(p, j) \/ Finishes(p, j))
         \/ Pauses(p) \/ FlagSaveFails(p)
  PROVE  Calm(t) \/ Hurried(t) \/ Dropped(p, t) \/ Told(p, t)
<1>0. /\ pub \in [Pubs -> Publication] /\ live \in [Topics -> Values] /\ row \in [Topics -> Values]
      /\ over \subseteq Jobs /\ loose \subseteq Topics
      /\ live[t] \in Nat /\ row[t] \in Nat /\ Queue \in Topics /\ Jobs \subseteq Topics
      /\ Queue \notin Jobs
  BY TypedIs, Numbers, FeedAssumption DEF Typed, Topics
<1>1. ASSUME NEW s \in Topics, NEW v \in Values, NEW at \in {"save", "owner"}, Starts(p, s, v, at)
      PROVE  /\ ~On(p, s) /\ At(p, s, at)' /\ Val(p, s)' = v /\ Others(p, s)
             /\ s # t => \A q \in Pubs : Alike(q, t)
  <2>1. /\ pub[p] = NoPub /\ pub'[p].topic = s /\ pub'[p].frame = One(s, v) /\ pub'[p].at = at
        /\ \A q \in Pubs \ {p} : pub'[q] = pub[q]
    BY <1>0, <1>1, StartsPub DEF Stages
  <2>2. One(s, v).of[s] = v
    BY OneIs
  <2>3. s # t => Alike(p, t)
    BY <2>1, AlikeIf, NoneIs
  <2> QED
    BY <2>1, <2>2, <2>3, AlikeIf, NoneIs DEF On, At, Val, Others
<1>2. ASSUME NEW j \in Jobs, Appears(p, j)
      PROVE  Calm(t) \/ Came(p, t)
  <2>1. row[j] + 1 \in Values
    BY <1>0, <1>2, ChangeStep DEF Appears, Typed
  <2>2. /\ ~On(p, j) /\ At(p, j, "save")' /\ Val(p, j)' = row[j] + 1 /\ Others(p, j)
        /\ j # t => \A q \in Pubs : Alike(q, t)
    BY <1>0, <1>1, <1>2, <2>1 DEF Appears
  <2>3. j # t => Still(t)
    BY <1>0, <1>2 DEF Appears, Still
  <2>4. j = t => Came(p, t)
    BY <1>0, <1>2, <2>2 DEF Appears, Came
  <2> QED
    BY <2>2, <2>3, <2>4 DEF Calm
<1>3. ASSUME NEW j \in Jobs, Steps(p, j)
      PROVE  Calm(t) \/ Changed(p, t) \/ Hurried(t)
  <2>1. live[j] + 1 \in Values
    BY <1>0, <1>3, ChangeStep DEF Steps, Typed
  <2>2. j # t => Still(t)
    BY <1>0, <1>3 DEF Steps, Still
  <2>3. CASE pub' = pub /\ loose' = loose \cup {j}
    <3>1. \A q \in Pubs : Alike(q, t)
      BY <2>3, AlikeIf
    <3> QED
      BY <1>0, <1>3, <2>2, <2>3, <3>1 DEF Steps, Hurried, Calm
  <2>4. CASE (\E at \in {"save", "owner"} : Starts(p, j, live[j] + 1, at)) /\ loose' = loose \ {j}
    <3>1. PICK at \in {"save", "owner"} : Starts(p, j, live[j] + 1, at)
      BY <2>4
    <3>2. /\ ~On(p, j) /\ At(p, j, at)' /\ Val(p, j)' = live[j] + 1 /\ Others(p, j)
          /\ j # t => \A q \in Pubs : Alike(q, t)
      BY <1>0, <1>1, <2>1, <3>1
    <3>3. j = t => Changed(p, t)
      BY <1>0, <1>3, <2>4, <3>2 DEF Steps, Changed
    <3> QED
      BY <2>2, <3>2, <3>3 DEF Calm
  <2> QED
    BY <1>3, <2>3, <2>4 DEF Steps
<1>4. ASSUME NEW j \in Jobs, Finishes(p, j)
      PROVE  Calm(t) \/ Changed(p, t)
  <2>1. live[j] + 1 \in Values
    BY <1>0, <1>4, ChangeStep DEF Finishes, Typed
  <2>2. /\ ~On(p, j) /\ At(p, j, "save")' /\ Val(p, j)' = live[j] + 1 /\ Others(p, j)
        /\ j # t => \A q \in Pubs : Alike(q, t)
    BY <1>0, <1>1, <1>4, <2>1 DEF Finishes
  <2>3. j # t => Still(t)
    BY <1>0, <1>4 DEF Finishes, Still
  <2>4. j = t => Changed(p, t)
    BY <1>0, <1>4, <2>2 DEF Finishes, Changed
  <2> QED
    BY <2>2, <2>3, <2>4 DEF Calm
<1>5. ASSUME Pauses(p)
      PROVE  Calm(t) \/ Changed(p, t)
  <2>1. live[Queue] + 1 \in Values
    BY <1>0, <1>5, ChangeStep DEF Pauses, Typed
  <2>2. /\ ~On(p, Queue) /\ At(p, Queue, "save")' /\ Val(p, Queue)' = live[Queue] + 1
        /\ Others(p, Queue)
        /\ Queue # t => \A q \in Pubs : Alike(q, t)
    BY <1>0, <1>1, <1>5, <2>1 DEF Pauses
  <2>3. Queue # t => Still(t)
    BY <1>0, <1>5 DEF Pauses, Still
  <2>4. Queue = t => Changed(p, t)
    BY <1>0, <1>5, <2>2 DEF Pauses, Changed, FlagIs
  <2> QED
    BY <2>2, <2>3, <2>4 DEF Calm
<1>6. ASSUME FlagSaveFails(p)
      PROVE  Calm(t) \/ Dropped(p, t)
  <2>1. /\ pub[p].at = "save" /\ pub[p].topic = Queue /\ pub' = [pub EXCEPT ![p] = NoPub]
        /\ loose' = loose \cup {Queue} /\ UNCHANGED <<live, row, over, told>>
    BY <1>6 DEF FlagSaveFails, sockets
  <2>2. pub'[p] = NoPub /\ \A q \in Pubs \ {p} : pub'[q] = pub[q]
    BY <1>0, <2>1
  <2>3. Others(p, t) /\ ~On(p, t)'
    BY <2>2, AlikeIf, NoneIs DEF Others, On
  <2>4. CASE t = Queue
    BY <2>1, <2>3, <2>4 DEF Dropped, At
  <2>5. CASE t # Queue
    <3>1. Alike(p, t)
      BY <2>1, <2>2, <2>5, AlikeIf, NoneIs
    <3> QED
      BY <2>1, <2>3, <2>5, <3>1 DEF Calm, Still, Others
  <2> QED
    BY <2>4, <2>5
<1> QED
  BY <1>2, <1>3, <1>4, <1>5, <1>6 DEF Told

LEMMA SavesOf ==
  ASSUME Typed, NEW t \in Topics, NEW p \in Pubs, Saves(p) \/ Leaves(p)
  PROVE  Calm(t) \/ Told(p, t)
<1>0. /\ pub \in [Pubs -> Publication] /\ live \in [Topics -> Values] /\ row \in [Topics -> Values]
      /\ Queue \in Topics /\ Jobs \subseteq Topics /\ Queue \notin Jobs
      /\ {"all", "leave", "owner"} \subseteq Stages
      /\ Formed(pub[p])
  BY TypedIs, FeedAssumption DEF Typed, Topics, Stages
<1>1. CASE Saves(p)
  <2> DEFINE s == pub[p].topic
             at == IF s = Queue THEN "all"
                   ELSE IF s \in over /\ live[s] = pub[p].frame.of[s] THEN "leave" ELSE "owner"
  <2>1. s \in Topics
    BY <1>0, <1>1, Stage DEF Saves, Single
  <2>2. /\ pub'[p].topic = pub[p].topic /\ pub'[p].frame = pub[p].frame /\ pub'[p].at = at
        /\ \A q \in Pubs \ {p} : pub'[q] = pub[q]
    BY <1>0, <1>1, MovesPub DEF Saves
  <2>3. CASE s = t
    BY <1>0, <1>1, <2>1, <2>2, <2>3, AlikeIf DEF Saves, Saved, Told, On, At, Val, Others
  <2>4. CASE s # t
    BY <1>0, <1>1, <2>1, <2>2, <2>4, AlikeIf DEF Saves, Calm, Still
  <2> QED
    BY <2>3, <2>4
<1>2. CASE Leaves(p)
  <2>1. pub[p].topic \in Jobs
    BY <1>0, <1>2, Stage DEF Leaves
  <2>2. /\ pub'[p].topic = pub[p].topic /\ pub'[p].frame = pub[p].frame /\ pub'[p].at = "owner"
        /\ \A q \in Pubs \ {p} : pub'[q] = pub[q]
    BY <1>0, <1>2, MovesPub DEF Leaves
  <2>3. CASE pub[p].topic = t
    BY <1>0, <1>2, <2>1, <2>2, <2>3, AlikeIf DEF Leaves, Left, Told, On, At, Val, Others
  <2>4. CASE pub[p].topic # t
    BY <1>0, <1>2, <2>1, <2>2, <2>4, AlikeIf DEF Leaves, Calm, Still
  <2> QED
    BY <2>3, <2>4
<1> QED
  BY <1>1, <1>2

LEMMA ListsOf ==
  ASSUME Typed, NEW t \in Topics, NEW p \in Pubs, Lists(p)
  PROVE  Calm(t) \/ Told(p, t)
<1>0. pub \in [Pubs -> Publication] /\ \A q \in Pubs : Formed(pub[q])
  BY TypedIs DEF Typed
<1>1. PICK next \in {"none", "admins"}, to \in SUBSET Clients :
        /\ Listed(p, next, to)
        /\ pub[p].at \in {"all", "owner", "admins", "user"}
        /\ next = "admins" <=> pub[p].at = "owner"
  BY ListsPub
<1>2. /\ pub'[p].topic = pub[p].topic /\ pub'[p].frame = pub[p].frame /\ pub'[p].at = "send"
      /\ \A q \in Pubs \ {p} :
           /\ pub[q] = NoPub => pub'[q] = NoPub
           /\ pub'[q].topic = pub[q].topic /\ pub'[q].at = pub[q].at
           /\ pub'[q].frame.of = pub[q].frame.of
  BY <1>0, <1>1, ListedPub
<1>3. Still(t)
  BY DEF Lists, manager, Still
<1>4. Others(p, t)
  BY <1>2, AlikeIf DEF Others
<1>5. CASE At(p, t, "all") \/ At(p, t, "owner")
  BY <1>2, <1>3, <1>4, <1>5 DEF Out, Told, At, Val
<1>6. CASE ~At(p, t, "all") /\ ~At(p, t, "owner")
  <2>1. Alike(p, t)
    BY <1>1, <1>2, <1>6 DEF Alike, On, At, Val, Early
  <2> QED
    BY <1>3, <1>4, <2>1 DEF Calm, Others
<1> QED
  BY <1>5, <1>6

LEMMA RestOf ==
  ASSUME Typed, NEW t \in Topics, NEW p \in Pubs,
         \/ Sent(p) \/ MakesSet(p)
         \/ \E c \in Clients : SendsOn(p, c)
         \/ \E u \in Users : Clears(p, u)
  PROVE  Calm(t) \/ Cleared(t)
<1>0. pub \in [Pubs -> Publication] /\ Formed(pub[p])
      /\ live \in [Topics -> Values] /\ row \in [Topics -> Values] /\ over \subseteq Jobs
  BY TypedIs DEF Typed
<1>1. CASE Sent(p)
  <2>1. \A q \in Pubs \ {p} : pub'[q] = pub[q]
    BY <1>0, <1>1, SentPub
  <2>2. Alike(p, t)
    <3>1. CASE pub[p].next = "none"
      <4>1. pub'[p] = NoPub /\ pub[p].at = "send"
        BY <1>0, <1>1, <3>1, SentPub
      <4> QED
        BY <4>1, NoneIs DEF Alike, On, At, Val, Early
    <3>2. CASE pub[p].next # "none"
      <4>1. /\ pub[p].at = "send" /\ pub'[p].at = "admins"
            /\ pub'[p].topic = pub[p].topic /\ pub'[p].frame = pub[p].frame
        BY <1>0, <1>1, <3>2, SentPub
      <4> QED
        BY <4>1 DEF Alike, On, At, Val, Early
    <3> QED
      BY <3>1, <3>2
  <2> QED
    BY <1>1, <2>1, <2>2, AlikeIf DEF Sent, Calm, Still, manager
<1>2. CASE MakesSet(p)
  <2>1. pub'[p].topic = pub[p].topic /\ \A q \in Pubs \ {p} : pub'[q] = pub[q]
    BY <1>0, <1>2, MakesSetPub
  <2>2. pub[p].topic # t
    BY <1>0, <1>2, Stage, NoneIs DEF MakesSet, Listing
  <2> QED
    BY <1>2, <2>1, <2>2, AlikeIf DEF MakesSet, Calm, Still, manager
<1>3. ASSUME NEW c \in Clients, SendsOn(p, c) PROVE Calm(t)
  <2>1. /\ pub'[p].topic = pub[p].topic /\ pub'[p].frame = pub[p].frame /\ pub'[p].at = pub[p].at
        /\ \A q \in Pubs \ {p} : pub'[q] = pub[q]
    BY <1>0, <1>3, SendsOnPub
  <2> QED
    BY <1>3, <2>1, AlikeIf DEF SendsOn, Calm, Still, manager
<1>4. ASSUME NEW u \in Users, Clears(p, u) PROVE Calm(t) \/ Cleared(t)
  <2>1. /\ pub[p] = NoPub /\ pub'[p].topic = None
        /\ \A q \in Pubs \ {p} : pub'[q] = pub[q]
    BY <1>0, <1>4, ClearsPub
  <2>2. \A q \in Pubs : Alike(q, t)
    BY <2>1, AlikeIf, NoneIs
  <2>3. row'[t] = IF t \in Finished(u) THEN 0 ELSE row[t]
    BY <1>4 DEF Clears
  <2>4. CASE t \in Finished(u)
    <3>1. told'[t] = 0
      BY <1>4, <2>4 DEF Clears
    <3> QED
      BY <1>0, <1>4, <3>1, <2>2, <2>3, <2>4 DEF Clears, Finished, Cleared, At
  <2>5. CASE t \notin Finished(u)
    BY <1>4, <2>2, <2>3, <2>5 DEF Clears, Calm, Still
  <2> QED
    BY <2>4, <2>5
<1> QED
  BY <1>1, <1>2, <1>3, <1>4

LEMMA TopicSteps ==
  ASSUME Typed, FlagIs, [Next]_vars, NEW t \in Topics
  PROVE  Calm(t) \/ Hurried(t) \/ Cleared(t) \/ Restarts
         \/ \E p \in Pubs : Told(p, t) \/ Dropped(p, t)
<1>1. UNCHANGED <<live, row, over, loose, pub>> => Calm(t)
  BY AlikeIf DEF Calm, Still
<1>2. ASSUME NEW p \in Pubs, Publishes(p)
      PROVE  Calm(t) \/ Hurried(t) \/ Cleared(t) \/ Told(p, t) \/ Dropped(p, t)
  BY <1>2, ChangesOf, SavesOf, ListsOf, RestOf DEF Publishes
<1>3. ASSUME NEW c \in Clients, ActsOn(c) PROVE Calm(t)
  BY <1>1, <1>3, SocketLeaves
<1>4. CASE UNCHANGED vars
  BY <1>1, <1>4 DEF vars, manager
<1> QED
  BY <1>2, <1>3, <1>4 DEF Next, ActsOn

-----------------------------------------------------------------------------
(* What the manager keeps to, topic by topic.                              *)

\* Of a job that is not in memory and has not ended nothing is under way.
Idle(t) == t \in Jobs /\ live[t] = 0 /\ t \notin over => t \notin loose /\ \A q \in Pubs : ~On(q, t)
\* What is live is the newest there is, and no two publications tell of one
\* change.
Newer(t) ==
  live[t] # 0 => row[t] <= live[t] /\ \A q \in Pubs : On(q, t) => Val(q, t) <= live[t]
Apart(t) == \A p, q \in Pubs : p # q /\ On(p, t) /\ On(q, t) => Val(p, t) # Val(q, t)
\* A job about to leave memory has its last change in the row, unless the row
\* has been cleared or overwritten.
Going(t) ==
  \A q \in Pubs : At(q, t, "leave") =>
    t \in over /\ live[t] = Val(q, t) /\ (row[t] = live[t] \/ row[t] = 0 \/ t \in loose)
\* A job that has ended leaves by the publication of its last change.
Ending(t) ==
  t \in over /\ live[t] # 0 =>
    \E q \in Pubs : (At(q, t, "save") \/ At(q, t, "leave")) /\ Val(q, t) = live[t]
\* A live job without a row is about to have one, or to leave.
Rowless(t) ==
  live[t] # 0 /\ row[t] = 0 => \E q \in Pubs : At(q, t, "save") \/ At(q, t, "leave")
\* A row that has been cleared comes back for nobody.
Away(t) ==
  row[t] = 0 /\ (live[t] = 0 \/ \E q \in Pubs : At(q, t, "leave")) =>
    \A q \in Pubs : ~At(q, t, "save")
Kept(t) ==
  Idle(t) /\ Newer(t) /\ Apart(t) /\ Going(t) /\ Ending(t) /\ Rowless(t) /\ Away(t)

\* The numbers of a topic, and the numbers of what is said of it.
LEMMA TopicNumbers ==
  ASSUME Typed, NEW t \in Topics
  PROVE  /\ live[t] \in Nat /\ row[t] \in Nat /\ told[t] \in Nat
         /\ \A q \in Pubs : Val(q, t) \in Nat
         /\ \A q \in Pubs : On(q, t) => Val(q, t) > 0
         /\ t = Queue <=> t \notin Jobs
         /\ t = Queue => t \notin over
         /\ \A q \in Pubs : At(q, t, "leave") => t \in Jobs
<1>1. \A q \in Pubs : On(q, t) => Val(q, t) > 0
  BY Stage DEF Typed, On, Val, Single
<1>2. \A q \in Pubs : At(q, t, "leave") => t \in Jobs
  BY Stage DEF Typed, At
<1> QED
  BY <1>1, <1>2, Numbers, TypedIs, FeedAssumption DEF Typed, Val, Topics

LEMMA InitKept == Init => \A t \in Topics : Kept(t)
<1> SUFFICES ASSUME Init, NEW t \in Topics PROVE Kept(t)
  OBVIOUS
<1>1. \A q \in Pubs : ~On(q, t) /\ \A at : ~At(q, t, at)
  BY NoneIs DEF Init, On, At
<1>2. IF t = Queue THEN live[t] = 1 /\ row[t] = 1 ELSE live[t] = 0 /\ row[t] = 0
  BY DEF Init
<1>3. over = {} /\ loose = {}
  BY DEF Init
<1> QED
  BY <1>1, <1>2, <1>3 DEF Kept, Idle, Newer, Apart, Going, Ending, Rowless, Away

LEMMA CalmKept ==
  ASSUME Typed, NEW t \in Topics, Kept(t), Calm(t)
  PROVE  Kept(t)'
<1>1. \A q \in Pubs : On(q, t)' => On(q, t) /\ Val(q, t)' = Val(q, t)
  BY DEF Calm, Alike
<1>2. \A q \in Pubs : /\ At(q, t, "save")' <=> At(q, t, "save")
                      /\ At(q, t, "leave")' <=> At(q, t, "leave")
  BY DEF Calm, Alike, Early
<1>3. \A q, at : At(q, t, at)' => On(q, t)'
  BY DEF At, On
<1>4. Still(t)
  BY DEF Calm
<1> USE DEF Still
<1>5. Idle(t)' /\ Newer(t)' /\ Apart(t)'
  BY <1>1, <1>4 DEF Kept, Idle, Newer, Apart
<1>6. Going(t)' /\ Ending(t)'
  BY <1>1, <1>2, <1>3, <1>4 DEF Kept, Going, Ending
<1>7. Rowless(t)' /\ Away(t)'
  BY <1>2, <1>4 DEF Kept, Rowless, Away
<1> QED
  BY <1>5, <1>6, <1>7 DEF Kept

\* What the other publications on the topic have to do with it.
LEMMA OthersIs ==
  ASSUME NEW t \in Topics, NEW p \in Pubs, Others(p, t)
  PROVE  \A q \in Pubs \ {p} :
           /\ On(q, t)' => On(q, t) /\ Val(q, t)' = Val(q, t)
           /\ At(q, t, "save")' <=> At(q, t, "save")
           /\ At(q, t, "leave")' <=> At(q, t, "leave")
           /\ At(q, t, "save") => On(q, t)'
           /\ At(q, t, "leave") => On(q, t)'
BY DEF Others, Alike, Early, On, At

LEMMA StepKept ==
  ASSUME Typed, Typed', FlagIs, [Next]_vars, NEW t \in Topics, Kept(t)
  PROVE  Kept(t)'
<1>0. /\ live[t] \in Nat /\ row[t] \in Nat
      /\ \A q \in Pubs : Val(q, t) \in Nat
      /\ \A q \in Pubs : On(q, t) => Val(q, t) > 0
      /\ t = Queue <=> t \notin Jobs
      /\ t = Queue => t \notin over
      /\ \A q \in Pubs : At(q, t, "leave") => t \in Jobs
  BY TopicNumbers
<1>1. \A q, at : At(q, t, at) => On(q, t)
  BY DEF At, On
<1>2. ASSUME NEW p \in Pubs, Came(p, t) PROVE Kept(t)'
  <2>1. \A q \in Pubs \ {p} :
           /\ On(q, t)' => On(q, t) /\ Val(q, t)' = Val(q, t)
           /\ At(q, t, "save")' <=> At(q, t, "save")
           /\ At(q, t, "leave")' <=> At(q, t, "leave")
    BY <1>2, OthersIs DEF Came
  <2>2. \A q \in Pubs : ~On(q, t)
    BY <1>2 DEF Came, Kept, Idle
  <2>3. \A q \in Pubs \ {p} : ~On(q, t)' /\ ~At(q, t, "save")' /\ ~At(q, t, "leave")'
    BY <1>1, <2>1, <2>2
  <2>4. On(p, t)' /\ At(p, t, "save")' /\ ~At(p, t, "leave")' /\ Val(p, t)' = row[t] + 1
    BY <1>2 DEF Came, On, At
  <2>5. Idle(t)' /\ Newer(t)' /\ Apart(t)'
    BY <1>0, <1>2, <2>3, <2>4 DEF Came, Idle, Newer, Apart
  <2>6. Going(t)' /\ Ending(t)' /\ Rowless(t)' /\ Away(t)'
    BY <1>0, <1>2, <2>3, <2>4 DEF Came, Going, Ending, Rowless, Away
  <2> QED
    BY <2>5, <2>6 DEF Kept
<1>3. ASSUME NEW p \in Pubs, Changed(p, t) PROVE Kept(t)'
  <2>1. \A q \in Pubs \ {p} :
           /\ On(q, t)' => On(q, t) /\ Val(q, t)' = Val(q, t)
           /\ At(q, t, "save")' <=> At(q, t, "save")
           /\ At(q, t, "leave")' <=> At(q, t, "leave")
           /\ At(q, t, "save") => On(q, t)'
    BY <1>3, OthersIs DEF Changed
  <2>2. \A q \in Pubs : ~At(q, t, "leave")
    BY <1>3 DEF Changed, Kept, Going
  <2>3. On(p, t)' /\ ~At(p, t, "leave")' /\ Val(p, t)' = live[t] + 1
        /\ (t \in over' => At(p, t, "save")')
    BY <1>3 DEF Changed, On, At
  <2>4. \A q \in Pubs \ {p} : On(q, t)' => Val(q, t)' <= live[t]
    BY <1>3, <2>1 DEF Changed, Kept, Newer
  <2>5. \A q \in Pubs : ~At(q, t, "leave")'
    BY <2>1, <2>2, <2>3
  <2>6. Idle(t)' /\ Newer(t)' /\ Apart(t)'
    BY <1>0, <1>3, <2>1, <2>3, <2>4 DEF Changed, Idle, Newer, Apart, Kept
  <2>7. Going(t)' /\ Ending(t)' /\ Away(t)'
    BY <1>0, <1>3, <2>3, <2>5 DEF Changed, Going, Ending, Away
  <2>8. Rowless(t)'
    <3>1. row[t] = 0 => \E q \in Pubs \ {p} : At(q, t, "save")
      BY <1>1, <1>3, <2>2 DEF Changed, Kept, Rowless
    <3> QED
      BY <1>3, <2>1, <3>1 DEF Changed, Rowless
  <2> QED
    BY <2>6, <2>7, <2>8 DEF Kept
<1>4. ASSUME Hurried(t) PROVE Kept(t)'
  <2>1. \A q \in Pubs :
           /\ On(q, t)' => On(q, t) /\ Val(q, t)' = Val(q, t)
           /\ At(q, t, "save")' <=> At(q, t, "save")
           /\ At(q, t, "leave")' <=> At(q, t, "leave")
    BY <1>4 DEF Hurried, Alike, Early
  <2>2. \A q \in Pubs : ~At(q, t, "leave")
    BY <1>4 DEF Hurried, Kept, Going
  <2>3. Idle(t)' /\ Newer(t)' /\ Apart(t)'
    BY <1>0, <1>4, <2>1 DEF Hurried, Idle, Newer, Apart, Kept
  <2>4. Going(t)' /\ Ending(t)' /\ Away(t)' /\ Rowless(t)'
    BY <1>0, <1>4, <2>1, <2>2 DEF Hurried, Going, Ending, Away, Rowless, Kept
  <2> QED
    BY <2>3, <2>4 DEF Kept
<1>5. ASSUME NEW p \in Pubs, Saved(p, t) PROVE Kept(t)'
  <2>1. \A q \in Pubs \ {p} :
           /\ On(q, t)' => On(q, t) /\ Val(q, t)' = Val(q, t)
           /\ At(q, t, "save")' <=> At(q, t, "save")
           /\ At(q, t, "leave")' <=> At(q, t, "leave")
           /\ At(q, t, "save") => On(q, t)'
           /\ At(q, t, "leave") => On(q, t)'
    BY <1>5, OthersIs DEF Saved
  <2>2. /\ At(p, t, "save") /\ On(p, t) /\ On(p, t)' /\ ~At(p, t, "save")' /\ ~At(p, t, "leave")
        /\ Val(p, t)' = Val(p, t) /\ row'[t] = Val(p, t) /\ Val(p, t) > 0
        /\ live'[t] = live[t] /\ (t \in over' <=> t \in over)
        /\ t \in loose' <=> t \in loose \/ (t \in Jobs /\ Val(p, t) < row[t])
        /\ At(p, t, "leave")' <=> t \in over /\ live[t] = Val(p, t)
    BY <1>0, <1>5 DEF Saved, On, At
  <2>3. Idle(t)' /\ Newer(t)' /\ Apart(t)'
    BY <1>0, <2>1, <2>2 DEF Idle, Newer, Apart, Kept
  <2>4. Rowless(t)' /\ Away(t)'
    BY <1>0, <2>2 DEF Rowless, Away
  <2>5. Ending(t)'
    <3> SUFFICES ASSUME t \in over, live[t] # 0
                 PROVE  \E q \in Pubs : (At(q, t, "save") \/ At(q, t, "leave"))' /\ Val(q, t)' = live[t]
      BY <2>2 DEF Ending
    <3>1. PICK q \in Pubs : (At(q, t, "save") \/ At(q, t, "leave")) /\ Val(q, t) = live[t]
      BY DEF Kept, Ending
    <3> QED
      BY <2>1, <2>2, <3>1
  <2>6. Going(t)'
    <3> SUFFICES ASSUME NEW q \in Pubs, At(q, t, "leave")'
                 PROVE  /\ t \in over' /\ live'[t] = Val(q, t)'
                        /\ row'[t] = live'[t] \/ row'[t] = 0 \/ t \in loose'
      BY DEF Going
    <3>1. CASE q = p
      BY <2>2, <3>1
    <3>2. CASE q # p
      <4>1. At(q, t, "leave") /\ On(q, t) /\ Val(q, t)' = Val(q, t)
        BY <1>1, <2>1, <3>2
      <4>2. t \in over /\ live[t] = Val(q, t) /\ (row[t] = live[t] \/ row[t] = 0 \/ t \in loose)
        BY <4>1 DEF Kept, Going
      <4>3. row[t] # 0
        BY <2>2, <4>1 DEF Kept, Away
      <4>4. Val(p, t) # Val(q, t) /\ Val(p, t) <= live[t]
        BY <1>0, <2>2, <3>2, <4>1, <4>2 DEF Kept, Apart, Newer
      <4> QED
        BY <1>0, <2>2, <4>1, <4>2, <4>3, <4>4
    <3> QED
      BY <3>1, <3>2
  <2> QED
    BY <2>3, <2>4, <2>5, <2>6 DEF Kept
<1>6. ASSUME NEW p \in Pubs, Left(p, t) PROVE Kept(t)'
  <2>1. \A q \in Pubs \ {p} :
           /\ On(q, t)' => On(q, t) /\ Val(q, t)' = Val(q, t)
           /\ At(q, t, "save")' <=> At(q, t, "save")
           /\ At(q, t, "leave")' <=> At(q, t, "leave")
    BY <1>6, OthersIs DEF Left
  <2>2. /\ At(p, t, "leave") /\ On(p, t) /\ On(p, t)' /\ ~At(p, t, "save")' /\ ~At(p, t, "leave")'
        /\ Val(p, t)' = Val(p, t) /\ live[t] = Val(p, t) /\ t \in over /\ t \in over'
    BY <1>6 DEF Left, On, At, Kept, Going
  <2>3. \A q \in Pubs \ {p} : ~At(q, t, "leave")
    BY <1>1, <2>2 DEF Kept, Going, Apart
  <2>4. Idle(t)' /\ Newer(t)' /\ Apart(t)'
    BY <1>0, <1>6, <2>1, <2>2 DEF Left, Idle, Newer, Apart, Kept
  <2>5. Going(t)' /\ Ending(t)' /\ Rowless(t)'
    BY <1>6, <2>1, <2>2, <2>3 DEF Left, Going, Ending, Rowless
  <2>6. Away(t)'
    BY <1>6, <2>1, <2>2 DEF Left, Away, Kept
  <2> QED
    BY <2>4, <2>5, <2>6 DEF Kept
<1>7. ASSUME NEW p \in Pubs, Out(p, t) PROVE Kept(t)'
  <2>1. \A q \in Pubs \ {p} : Alike(q, t)
    BY <1>7 DEF Out, Others
  <2>2. /\ On(p, t) /\ ~At(p, t, "save") /\ ~At(p, t, "leave") /\ Val(p, t)' = Val(p, t)
        /\ ~At(p, t, "save")' /\ ~At(p, t, "leave")'
    BY <1>7 DEF Out, On, At
  <2>3. \A q \in Pubs :
           /\ On(q, t)' => On(q, t) /\ Val(q, t)' = Val(q, t)
           /\ At(q, t, "save")' <=> At(q, t, "save")
           /\ At(q, t, "leave")' <=> At(q, t, "leave")
    BY <2>1, <2>2 DEF Alike, Early
  <2>4. Still(t)
    BY <1>7 DEF Out
  <2>5. Idle(t)' /\ Newer(t)' /\ Apart(t)'
    BY <2>3, <2>4 DEF Still, Kept, Idle, Newer, Apart
  <2>6. Going(t)' /\ Rowless(t)' /\ Away(t)'
    BY <1>1, <2>3, <2>4 DEF Still, Kept, Going, Rowless, Away, At, On
  <2>7. Ending(t)'
    BY <1>1, <2>1, <2>2, <2>3, <2>4, OthersIs DEF Still, Kept, Ending, Others
  <2> QED
    BY <2>5, <2>6, <2>7 DEF Kept
<1>8. ASSUME Cleared(t) PROVE Kept(t)'
  <2>1. \A q \in Pubs :
           /\ On(q, t)' => On(q, t) /\ Val(q, t)' = Val(q, t)
           /\ At(q, t, "save")' <=> At(q, t, "save")
           /\ At(q, t, "leave")' <=> At(q, t, "leave")
           /\ At(q, t, "leave") => On(q, t)'
    BY <1>8 DEF Cleared, Alike, Early, At, On
  <2>2. \A q \in Pubs : ~At(q, t, "save")
    BY <1>8 DEF Cleared
  <2>3. Idle(t)' /\ Newer(t)' /\ Apart(t)'
    BY <1>0, <1>8, <2>1 DEF Cleared, Idle, Newer, Apart, Kept
  <2>4. Going(t)' /\ Away(t)'
    BY <1>1, <1>8, <2>1, <2>2 DEF Cleared, Going, Away, Kept
  <2>5. Ending(t)' /\ Rowless(t)'
    BY <1>8, <2>1, <2>2 DEF Cleared, Ending, Rowless, Kept
  <2> QED
    BY <2>3, <2>4, <2>5 DEF Kept
<1>9. ASSUME NEW p \in Pubs, Dropped(p, t) PROVE Kept(t)'
  <2>1. \A q \in Pubs \ {p} :
           /\ On(q, t)' => On(q, t) /\ Val(q, t)' = Val(q, t)
           /\ At(q, t, "save")' <=> At(q, t, "save")
           /\ At(q, t, "leave")' <=> At(q, t, "leave")
    BY <1>9, OthersIs DEF Dropped
  <2>2. ~On(p, t)' /\ ~At(p, t, "save")' /\ ~At(p, t, "leave")'
    BY <1>9 DEF Dropped, On, At
  <2>3. t \notin Jobs /\ t \notin over' /\ live[t] > 0 /\ row[t] > 0
        /\ \A q \in Pubs : ~At(q, t, "leave")
    BY <1>0, <1>9 DEF Dropped, FlagIs
  <2>4. Idle(t)' /\ Newer(t)' /\ Apart(t)'
    BY <1>9, <2>1, <2>2, <2>3 DEF Dropped, Idle, Newer, Apart, Kept
  <2>5. Going(t)' /\ Ending(t)' /\ Rowless(t)' /\ Away(t)'
    BY <1>0, <1>9, <2>1, <2>2, <2>3 DEF Dropped, Going, Ending, Rowless, Away
  <2> QED
    BY <2>4, <2>5 DEF Kept
<1>10. CASE Restarts
  <2>1. \A q \in Pubs : ~On(q, t)' /\ ~At(q, t, "save")' /\ ~At(q, t, "leave")'
    BY <1>10, NoneIs DEF Restarts, On, At
  <2>2. /\ live'[t] = (IF t = Queue THEN row[t] ELSE 0)
        /\ loose' = {} /\ row' = row /\ over' \subseteq over
    BY <1>10 DEF Restarts
  <2>3. t = Queue => row[t] > 0
    BY DEF FlagIs
  <2> QED
    BY <1>0, <2>1, <2>2, <2>3 DEF Kept, Idle, Newer, Apart, Going, Ending, Rowless, Away
<1> QED
  BY <1>2, <1>3, <1>4, <1>5, <1>6, <1>7, <1>8, <1>10, <1>9, CalmKept, TopicSteps DEF Told

-----------------------------------------------------------------------------
(* Nothing that is said of a topic is ahead of it.                         *)

Within(x, t) ==
  /\ live[t] # 0 => x <= live[t]
  /\ t \in Jobs /\ live[t] = 0 /\ t \notin over => x <= row[t]
  /\ live[t] = 0 /\ row[t] # 0 /\ t \notin loose =>
       x <= row[t] \/ \E q \in Pubs : At(q, t, "save") /\ x <= Val(q, t)
Said ==
  /\ \A t \in Topics :
       /\ \A q \in Pubs : Within(Val(q, t), t)
       /\ \A c \in Clients : Within(snap[c].of[t], t)
       /\ Within(told[t], t)
  /\ Within(last, Queue)

LEMMA WithinNow ==
  ASSUME Typed, NEW t \in Topics, Kept(t)
  PROVE  Within(0, t) /\ Within(row[t], t) /\ Within(live[t], t)
BY TopicNumbers DEF Within, Kept, Newer

LEMMA WithinStays ==
  ASSUME Typed, FlagIs, [Next]_vars, ~Restarts, NEW t \in Topics, Kept(t),
         NEW x \in Nat, Within(x, t)
  PROVE  Within(x, t)'
<1>0. /\ live[t] \in Nat /\ row[t] \in Nat
      /\ \A q \in Pubs : Val(q, t) \in Nat
      /\ \A q \in Pubs : On(q, t) => Val(q, t) > 0
      /\ t = Queue <=> t \notin Jobs
      /\ t = Queue => t \notin over
  BY TopicNumbers
<1>1. \A q, at : At(q, t, at) => On(q, t)
  BY DEF At, On
<1>2. ASSUME Still(t),
             \A q \in Pubs : At(q, t, "save") => At(q, t, "save")' /\ Val(q, t)' = Val(q, t)
      PROVE  Within(x, t)'
  BY <1>2 DEF Still, Within
<1>3. ASSUME NEW q \in Pubs, Alike(q, t), At(q, t, "save")
      PROVE  At(q, t, "save")' /\ Val(q, t)' = Val(q, t)
  BY <1>3 DEF Alike, Early, At, On
<1>4. CASE Calm(t)
  BY <1>2, <1>3, <1>4 DEF Calm
<1>5. ASSUME NEW p \in Pubs, Out(p, t) PROVE Within(x, t)'
  <2>1. ~At(p, t, "save")
    BY <1>5 DEF Out, At
  <2> QED
    BY <1>2, <1>3, <1>5, <2>1 DEF Out, Others
<1>6. ASSUME NEW p \in Pubs, Came(p, t) PROVE Within(x, t)'
  BY <1>0, <1>6 DEF Came, Within
<1>7. CASE Hurried(t)
  BY <1>0, <1>7 DEF Hurried, Within
<1>8. ASSUME NEW p \in Pubs, Changed(p, t) PROVE Within(x, t)'
  BY <1>0, <1>8 DEF Changed, Within
<1>9. ASSUME NEW p \in Pubs, Saved(p, t) PROVE Within(x, t)'
  <2>1. /\ At(p, t, "save") /\ On(p, t) /\ row'[t] = Val(p, t)
        /\ live'[t] = live[t] /\ (t \in over' <=> t \in over)
        /\ t \in loose' <=> t \in loose \/ (t \in Jobs /\ Val(p, t) < row[t])
    BY <1>9 DEF Saved, At, On
  <2>2. t \in Jobs /\ live[t] = 0 => t \in over
    BY <2>1 DEF Kept, Idle
  <2>3. live[t] = 0 => row[t] # 0 /\ t \in Jobs
    BY <1>0, <2>1 DEF Kept, Away, FlagIs
  <2>4. ASSUME live[t] = 0, t \notin loose'
        PROVE  x <= row'[t] \/ \E q \in Pubs : At(q, t, "save")' /\ x <= Val(q, t)'
    <3>1. t \notin loose /\ row[t] <= Val(p, t)
      BY <1>0, <2>1, <2>3, <2>4
    <3>2. CASE x <= row[t]
      BY <1>0, <2>1, <3>1, <3>2
    <3>3. ASSUME NEW q \in Pubs, At(q, t, "save"), x <= Val(q, t)
          PROVE  x <= row'[t] \/ (At(q, t, "save")' /\ x <= Val(q, t)')
      <4>1. CASE q = p
        BY <2>1, <3>3, <4>1
      <4>2. CASE q # p
        <5>1. Alike(q, t)
          BY <1>9, <4>2 DEF Saved, Others
        <5> QED
          BY <1>3, <3>3, <5>1
      <4> QED
        BY <4>1, <4>2
    <3> QED
      BY <2>3, <2>4, <3>1, <3>2, <3>3 DEF Within
  <2> QED
    BY <2>1, <2>2, <2>4 DEF Within
<1>10. ASSUME NEW p \in Pubs, Left(p, t) PROVE Within(x, t)'
  <2>1. /\ t \in over /\ (row[t] = live[t] \/ row[t] = 0 \/ t \in loose) /\ live[t] # 0
    BY <1>0, <1>1, <1>10 DEF Left, Kept, Going
  <2> QED
    BY <1>10, <2>1 DEF Left, Within
<1>11. CASE Cleared(t)
  BY <1>11 DEF Cleared, Within
<1>12. ASSUME NEW p \in Pubs, Dropped(p, t) PROVE Within(x, t)'
  BY <1>0, <1>12 DEF Dropped, Within, FlagIs
<1> QED
  BY <1>4, <1>5, <1>6, <1>7, <1>8, <1>9, <1>10, <1>11, <1>12, TopicSteps DEF Told

\* Where what is said of a topic comes from.

LEMMA ValSteps ==
  ASSUME Typed, FlagIs, NEW p \in Pubs, Publishes(p), NEW t \in Topics, NEW q \in Pubs
  PROVE  \/ Val(q, t)' \in {Val(q, t), 0, row[t], live[t]}
         \/ Came(q, t) \/ Changed(q, t)
<1>0. /\ pub \in [Pubs -> Publication] /\ live \in [Topics -> Values] /\ row \in [Topics -> Values]
      /\ Formed(pub[p]) /\ Queue \in Topics /\ Jobs \subseteq Topics
  BY TypedIs DEF Typed, Topics
<1>1. pub'[q] = pub[q] => Val(q, t)' = Val(q, t)
  BY DEF Val
<1>2. ASSUME NEW s \in Topics, NEW v \in Values, NEW at \in {"save", "owner"}, Starts(p, s, v, at),
             Calm(t) \/ Hurried(t) \/ Dropped(p, t) \/ Told(p, t)
      PROVE  \/ Val(q, t)' \in {Val(q, t), 0} \/ Came(q, t) \/ Changed(q, t)
  <2>1. /\ pub[p] = NoPub /\ pub'[p].topic = s /\ pub'[p].frame = One(s, v)
        /\ \A r \in Pubs \ {p} : pub'[r] = pub[r]
    BY <1>0, <1>2, StartsPub DEF Stages
  <2>2. CASE q # p
    BY <1>1, <2>1, <2>2
  <2>3. CASE q = p /\ s # t
    BY <2>1, <2>3, OneIs DEF Val
  <2>4. CASE q = p /\ s = t
    <3>1. On(p, t)' /\ ~On(p, t)
      BY <2>1, <2>4, NoneIs DEF On
    <3>2. ~Calm(t) /\ ~Hurried(t)
      BY <3>1 DEF Calm, Hurried, Alike
    <3>3. ~Saved(p, t) /\ ~Left(p, t) /\ ~Out(p, t) /\ ~Dropped(p, t)
      BY <3>1 DEF Saved, Left, Out, Dropped, At, On
    <3> QED
      BY <1>2, <2>4, <3>2, <3>3 DEF Told
  <2> QED
    BY <2>2, <2>3, <2>4
<1>3. ASSUME NEW j \in Jobs, Appears(p, j)
      PROVE  Val(q, t)' \in {Val(q, t), 0} \/ Came(q, t) \/ Changed(q, t)
  <2>1. row[j] + 1 \in Values
    BY <1>0, <1>3, ChangeStep DEF Appears, Typed
  <2> QED
    BY <1>0, <1>2, <1>3, <2>1, ChangesOf DEF Appears
<1>4. ASSUME NEW j \in Jobs, Steps(p, j)
      PROVE  Val(q, t)' \in {Val(q, t), 0} \/ Came(q, t) \/ Changed(q, t)
  <2>1. live[j] + 1 \in Values
    BY <1>0, <1>4, ChangeStep DEF Steps, Typed
  <2>2. CASE pub' = pub
    BY <1>1, <2>2
  <2>3. CASE \E at \in {"save", "owner"} : Starts(p, j, live[j] + 1, at)
    BY <1>0, <1>2, <1>4, <2>1, <2>3, ChangesOf
  <2> QED
    BY <1>4, <2>2, <2>3 DEF Steps
<1>5. ASSUME NEW j \in Jobs, Finishes(p, j)
      PROVE  Val(q, t)' \in {Val(q, t), 0} \/ Came(q, t) \/ Changed(q, t)
  <2>1. live[j] + 1 \in Values
    BY <1>0, <1>5, ChangeStep DEF Finishes, Typed
  <2> QED
    BY <1>0, <1>2, <1>5, <2>1, ChangesOf DEF Finishes
<1>6. ASSUME Pauses(p)
      PROVE  Val(q, t)' \in {Val(q, t), 0} \/ Came(q, t) \/ Changed(q, t)
  <2>1. live[Queue] + 1 \in Values
    BY <1>0, <1>6, ChangeStep DEF Pauses, Typed
  <2> QED
    BY <1>0, <1>2, <1>6, <2>1, ChangesOf DEF Pauses
<1>7. ASSUME Saves(p) \/ Leaves(p) \/ \E c \in Clients : SendsOn(p, c)
      PROVE  Val(q, t)' = Val(q, t)
  <2>1. pub'[p].frame = pub[p].frame /\ \A r \in Pubs \ {p} : pub'[r] = pub[r]
    BY <1>0, <1>7, MovesPub, SendsOnPub DEF Saves, Leaves, Stages
  <2> QED
    BY <1>1, <2>1 DEF Val
<1>8. ASSUME Lists(p)
      PROVE  Val(q, t)' = Val(q, t)
  <2>1. PICK next \in {"none", "admins"}, to \in SUBSET Clients : Listed(p, next, to)
    BY <1>8, ListsPub
  <2>2. /\ pub'[p].frame = pub[p].frame
        /\ \A r \in Pubs \ {p} : pub'[r].frame.of = pub[r].frame.of
    BY <1>0, <2>1, ListedPub
  <2> QED
    BY <2>2 DEF Val
<1>9. ASSUME Sent(p)
      PROVE  Val(q, t)' \in {Val(q, t), 0}
  <2>1. (pub'[p] = NoPub \/ pub'[p].frame = pub[p].frame) /\ \A r \in Pubs \ {p} : pub'[r] = pub[r]
    BY <1>0, <1>9, SentPub
  <2>2. NoPub.frame.of[t] = 0
    BY NoPubIs, UnmadeIs, BlankIs DEF Blank
  <2> QED
    BY <1>1, <2>1, <2>2 DEF Val
<1>10. ASSUME NEW u \in Users, Clears(p, u)
       PROVE  Val(q, t)' \in {Val(q, t), 0}
  <2>1. pub'[p].frame = Unmade /\ \A r \in Pubs \ {p} : pub'[r] = pub[r]
    BY <1>0, <1>10, ClearsPub
  <2>2. Unmade.of[t] = 0
    BY UnmadeIs, BlankIs DEF Blank
  <2> QED
    BY <1>1, <2>1, <2>2 DEF Val
<1>11. ASSUME MakesSet(p)
       PROVE  Val(q, t)' \in {Val(q, t), 0, row[t], live[t]}
  <2>1. /\ \/ \E S \in Listings(pub[p].user) : pub'[p].frame = RowsFor(pub[p].user, S)
           \/ pub'[p].frame = Overlaid(pub[p].frame)
        /\ \A r \in Pubs \ {p} : pub'[r] = pub[r]
    BY <1>0, <1>11, MakesSetPub
  <2>2. \A S \in Listings(pub[p].user) : RowsFor(pub[p].user, S).of[t] \in {0, row[t]}
    BY <1>0, RowsForIs
  <2>3. Overlaid(pub[p].frame).of[t] \in {live[t], Val(p, t)}
    BY <1>0, OverlaidIs DEF Publication, Val
  <2>4. CASE q = p
    BY <2>1, <2>2, <2>3, <2>4 DEF Val
  <2> QED
    BY <1>1, <2>1, <2>4
<1>12. ASSUME FlagSaveFails(p)
       PROVE  Val(q, t)' \in {Val(q, t), 0}
  <2>1. pub'[p].frame = Unmade /\ \A r \in Pubs \ {p} : pub'[r] = pub[r]
    BY <1>0, <1>12, NoPubIs DEF FlagSaveFails
  <2>2. Unmade.of[t] = 0
    BY UnmadeIs
  <2> QED
    BY <1>1, <2>1, <2>2 DEF Val
<1> QED
  BY <1>3, <1>4, <1>5, <1>6, <1>7, <1>8, <1>9, <1>10, <1>11, <1>12 DEF Publishes

LEMMA SnapSteps ==
  ASSUME Typed, [Next]_vars, ~Restarts, NEW t \in Topics, NEW c \in Clients
  PROVE  \/ snap'[c].of[t] \in {snap[c].of[t], 0, row[t], live[t]}
         \/ t = Queue /\ snap'[c].of[t] = last
<1>0. /\ pub \in [Pubs -> Publication] /\ live \in [Topics -> Values] /\ row \in [Topics -> Values]
      /\ Queue \in Topics /\ snap[c] \in Frame /\ live[Queue] \in Values /\ TypeOK
      /\ snap \in [Clients -> Frame]
  BY TypedIs DEF Typed, Topics
<1>1. ASSUME NEW p \in Pubs, Publishes(p) PROVE snap'[c].of[t] = snap[c].of[t]
  <2>1. CASE Lists(p)
    BY <1>0, <2>1, AgesIs DEF Lists
  <2>2. CASE ~Lists(p)
    <3>1. snap' = snap
      BY <1>1, <2>2 DEF Publishes, Appears, Steps, Finishes, Pauses, FlagSaveFails,
         Saves, Leaves, Sent, MakesSet,
         SendsOn, Clears, sockets
    <3> QED
      BY <3>1
  <2> QED
    BY <2>1, <2>2
<1>2. ASSUME NEW d \in Clients, ActsOn(d)
      PROVE  \/ snap'[c].of[t] \in {snap[c].of[t], 0, row[t], live[t]}
             \/ t = Queue /\ snap'[c].of[t] = last
  <2>0. Unmade.of[t] = 0
    BY UnmadeIs
  <2>1. CASE Delivers(d)
    BY <1>0, <2>1, DeliversIs
  <2>4. CASE Joins(d)
    <3>1. last \in Values
      BY <1>0, TypedIs
    <3>2. One(Queue, last).of[t] = IF t = Queue THEN last ELSE 0
      BY <1>0, <3>1, OneIs
    <3>3. (\A e \in Clients \ {d} : snap'[e] = snap[e])
          /\ (snap'[d] = Unmade \/ snap'[d] = One(Queue, last))
      BY <1>0, <2>4, JoinsIs
    <3> QED
      BY <2>0, <3>2, <3>3
  <2>2. CASE Snaps(d)
    <3>1. \A S \in Listings(account[d]) : RowsFor(account[d], S).of[t] \in {0, row[t]}
      BY <1>0, RowsForIs
    <3>2. d = c => Overlaid(snap[d]).of[t] \in {live[t], snap[c].of[t]}
      BY <1>0, OverlaidIs
    <3>3. One(Queue, live[Queue]).of[t] \in {0, live[t]}
      BY <1>0, OneIs
    <3>4. d # c => snap'[c] = snap[c]
      BY <1>0, <2>2, SnapsIs
    <3>5. \/ \E S \in Listings(account[d]) : snap'[d] = RowsFor(account[d], S)
          \/ snap'[d] = Overlaid(snap[d]) \/ snap'[d] = One(Queue, live[Queue])
      BY <1>0, <2>2, SnapsIs
    <3> QED
      BY <3>1, <3>2, <3>3, <3>4, <3>5
  <2>3. CASE Replays(d) \/ Loses(d)
    <3>1. snap'[d] = Unmade /\ \A e \in Clients \ {d} : snap'[e] = snap[e]
      BY <1>0, <2>3, ReplaysIs, LosesIs
    <3> QED
      BY <2>0, <3>1
  <2> QED
    BY <1>2, <2>1, <2>2, <2>3, <2>4 DEF ActsOn
<1>3. CASE UNCHANGED vars
  BY <1>3 DEF vars, sockets
<1> QED
  BY <1>1, <1>2, <1>3 DEF Next, ActsOn

LEMMA ToldSteps ==
  ASSUME Typed, [Next]_vars, ~Restarts, NEW t \in Topics
  PROVE  told'[t] \in {told[t], 0} \/ \E q \in Pubs : told'[t] = Val(q, t)
<1>0. told \in [Topics -> Values]
  BY TypedIs DEF Typed
<1>1. ASSUME NEW p \in Pubs, Publishes(p)
      PROVE  told'[t] \in {told[t], 0} \/ \E q \in Pubs : told'[t] = Val(q, t)
  <2>1. CASE Lists(p)
    BY <2>1 DEF Lists, Newest, Val
  <2>2. ASSUME NEW u \in Users, Clears(p, u) PROVE told'[t] \in {told[t], 0}
    BY <2>2 DEF Clears
  <2>3. CASE ~Lists(p) /\ ~\E u \in Users : Clears(p, u)
    <3>1. told' = told
      BY <1>1, <2>3 DEF Publishes, Appears, Steps, Finishes, Pauses, FlagSaveFails,
         Saves, Leaves, Sent, MakesSet,
         SendsOn, sockets
    <3> QED
      BY <3>1
  <2> QED
    BY <2>1, <2>2, <2>3
<1>2. ASSUME NEW d \in Clients, ActsOn(d) PROVE told' = told
  BY <1>2, SocketLeaves
<1>3. CASE UNCHANGED vars
  BY <1>3 DEF vars, sockets
<1> QED
  BY <1>1, <1>2, <1>3 DEF Next, ActsOn

LEMMA LastSteps ==
  ASSUME Typed, [Next]_vars, ~Restarts
  PROVE  last' = last \/ \E q \in Pubs : last' = Val(q, Queue)
<1>1. ASSUME NEW p \in Pubs, Publishes(p)
      PROVE  last' = last \/ \E q \in Pubs : last' = Val(q, Queue)
  <2>1. CASE Lists(p)
    BY <2>1 DEF Lists, Val
  <2>2. CASE ~Lists(p)
    BY <1>1, <2>2 DEF Publishes, Appears, Steps, Finishes, Pauses, FlagSaveFails,
       Saves, Leaves, Sent,
       MakesSet, SendsOn, Clears, sockets
  <2> QED
    BY <2>1, <2>2
<1>2. ASSUME NEW d \in Clients, ActsOn(d) PROVE last' = last
  BY <1>2, SocketLeaves
<1>3. CASE UNCHANGED vars
  BY <1>3 DEF vars, sockets
<1> QED
  BY <1>1, <1>2, <1>3 DEF Next, ActsOn

LEMMA InitSaid == Init => Said
<1> SUFFICES ASSUME Init PROVE Said
  OBVIOUS
<1>1. \A t \in Topics : Unmade.of[t] = 0 /\ Blank[t] = 0
  BY UnmadeIs, BlankIs DEF Blank
<1>2. \A t \in Topics : Within(0, t)
  BY InitTyped, InitKept, WithinNow
<1>3. /\ \A q \in Pubs, t \in Topics : Val(q, t) = 0
      /\ \A c \in Clients, t \in Topics : snap[c].of[t] = 0
      /\ \A t \in Topics : told[t] = 0
      /\ last = 0 /\ Queue \in Topics
  BY <1>1, NoPubIs DEF Init, Val, Topics
<1> QED
  BY <1>2, <1>3 DEF Said

LEMMA StepSaid ==
  ASSUME Typed, Typed', FlagIs, \A t \in Topics : Kept(t), \A t \in Topics : Kept(t)',
         Said, [Next]_vars
  PROVE  Said'
<1>1. CASE Restarts
  <2>1. \A t \in Topics : Unmade.of[t] = 0 /\ Blank[t] = 0
    BY UnmadeIs, BlankIs DEF Blank
  <2>2. \A t \in Topics : Within(0, t)'
    <3> SUFFICES ASSUME NEW t \in Topics PROVE Within(0, t)'
      OBVIOUS
    <3>1. live'[t] \in Nat /\ row'[t] \in Nat
      BY TypedIs, Naturals, Zenon DEF Typed, TypeOK
    <3> QED
      BY <3>1 DEF Within
  <2>3. /\ \A q \in Pubs, t \in Topics : Val(q, t)' = 0
        /\ \A c \in Clients, t \in Topics : snap'[c].of[t] = 0
        /\ \A t \in Topics : told'[t] = 0
        /\ last' = 0 /\ Queue \in Topics
    BY <1>1, <2>1, NoPubIs DEF Restarts, Val, Topics
  <2> QED
    BY <2>2, <2>3 DEF Said
<1>2. CASE ~Restarts
  <2>7. Within(last, Queue)'
    <3>1. Queue \in Topics /\ last \in Nat /\ \A q \in Pubs : Val(q, Queue) \in Nat
      BY TypedIs, TopicNumbers, Naturals DEF Typed, Topics
    <3>2. \A x \in Nat : Within(x, Queue) => Within(x, Queue)'
      BY <1>2, <3>1, WithinStays
    <3>3. Within(last, Queue) /\ \A q \in Pubs : Within(Val(q, Queue), Queue)
      BY <3>1 DEF Said
    <3>4. (\A y : y = last => Within(y, Queue)')
          /\ \A q \in Pubs : \A y : y = Val(q, Queue) => Within(y, Queue)'
      BY <3>1, <3>2, <3>3
    <3> QED
      BY <1>2, <3>4, LastSteps
  <2> SUFFICES ASSUME NEW t \in Topics
               PROVE  /\ \A q \in Pubs : Within(Val(q, t), t)'
                      /\ \A c \in Clients : Within(snap[c].of[t], t)'
                      /\ Within(told[t], t)'
    BY <2>7 DEF Said
  <2>0. /\ live[t] \in Nat /\ row[t] \in Nat /\ told[t] \in Nat
        /\ \A q \in Pubs : Val(q, t) \in Nat
        /\ \A c \in Clients : snap[c].of[t] \in Nat
        /\ last \in Nat
    BY TopicNumbers, Numbers, TypedIs, Naturals DEF Typed
  <2>1. \A x \in Nat : Within(x, t) => Within(x, t)'
    BY <1>2, WithinStays
  <2>2. Within(0, t) /\ Within(row[t], t) /\ Within(live[t], t)
    BY WithinNow
  <2>3. \A x \in {0, row[t], live[t], told[t]} : Within(x, t)'
    BY <2>0, <2>1, <2>2 DEF Said
  <2>4. ASSUME NEW q \in Pubs PROVE Within(Val(q, t), t)'
    <3>1. Within(Val(q, t), t) /\ \A y : y = Val(q, t) => Within(y, t)'
      BY <2>0, <2>1 DEF Said
    <3>2. ASSUME Val(q, t)' \in {Val(q, t), 0, row[t], live[t]} PROVE Within(Val(q, t), t)'
      BY <2>3, <3>1, <3>2
    <3>3. CASE Came(q, t)
      BY <2>0, <3>3 DEF Came, Within
    <3>4. CASE Changed(q, t)
      BY <2>0, <3>4 DEF Changed, Within
    <3>5. pub' = pub => Val(q, t)' = Val(q, t)
      BY DEF Val
    <3>6. ASSUME NEW p \in Pubs, Publishes(p) PROVE Within(Val(q, t), t)'
      BY <3>2, <3>3, <3>4, <3>6, ValSteps
    <3>7. ASSUME NEW d \in Clients, ActsOn(d) PROVE pub' = pub
      BY <3>7, SocketLeaves
    <3>8. UNCHANGED vars => pub' = pub
      BY DEF vars
    <3> QED
      BY <1>2, <3>2, <3>5, <3>6, <3>7, <3>8 DEF Next, ActsOn
  <2>5. ASSUME NEW c \in Clients PROVE Within(snap[c].of[t], t)'
    <3>1. Within(snap[c].of[t], t) /\ \A y : y = snap[c].of[t] => Within(y, t)'
      BY <2>0, <2>1 DEF Said
    <3>2. \/ snap'[c].of[t] \in {snap[c].of[t], 0, row[t], live[t]}
          \/ t = Queue /\ snap'[c].of[t] = last
      BY <1>2, SnapSteps
    <3>3. t = Queue => \A y : y = last => Within(y, t)'
      BY <2>0, <2>1 DEF Said
    <3> QED
      BY <2>3, <3>1, <3>2, <3>3
  <2>6. Within(told[t], t)'
    <3>1. ASSUME NEW q \in Pubs PROVE \A y : y = Val(q, t) => Within(y, t)'
      BY <2>0, <2>1 DEF Said
    <3>2. told'[t] \in {told[t], 0} \/ \E q \in Pubs : told'[t] = Val(q, t)
      BY <1>2, ToldSteps
    <3> QED
      BY <2>3, <3>1, <3>2
  <2> QED
    BY <2>4, <2>5, <2>6
<1> QED
  BY <1>1, <1>2

-----------------------------------------------------------------------------
(* What has been told, and what frames on their way still tell.            *)

State(t) == IF live[t] # 0 THEN live[t] ELSE row[t]
Unlisted(t) == \E q \in Pubs : On(q, t) /\ pub[q].at \in Early
\* The newest change was told, or is about to be; otherwise nobody has been
\* told of the topic, or there is nothing to tell of.
Untouched(t) == told[t] = 0 /\ \A q \in Pubs : ~On(q, t)
Telling(t) ==
  t \notin loose =>
    \/ Untouched(t) \/ NoLonger(t) \/ told[t] = State(t)
    \/ \E q \in Pubs : /\ On(q, t) /\ pub[q].at \in Early
                       /\ Val(q, t) = State(t) \/ (live[t] = 0 /\ pub[q].at = "save")
\* A list that has only the rows so far; and what a frame says once it is
\* made: how things are, unless something else tells it later, or told it
\* since (then the page is behind), or the topic has gone (then too).
AsRows(x, old, t) ==
  Unlisted(t) \/ NoLonger(t) \/ (old /\ told[t] # 0) \/ x = row[t]
Fresh(x, old, t) ==
  \/ t \in loose \/ Unlisted(t) \/ x = State(t)
  \/ old /\ x < told[t]
  \/ x # 0 /\ NoLonger(t)

LEMMA UnlistedStays ==
  ASSUME NEW t \in Topics
  PROVE  /\ Unlisted(t) /\ (\A q \in Pubs : Alike(q, t)) => Unlisted(t)'
         /\ \A p \in Pubs : Came(p, t) \/ Changed(p, t) \/ Saved(p, t) \/ Left(p, t) => Unlisted(t)'
<1>1. \A q \in Pubs : On(q, t) /\ pub[q].at \in Early /\ Alike(q, t) =>
        On(q, t)' /\ pub'[q].at \in Early
  BY DEF On, At, Alike
<1>2. \A p \in Pubs : Came(p, t) \/ Changed(p, t) \/ Saved(p, t) \/ Left(p, t) =>
        On(p, t)' /\ pub'[p].at \in Early
  BY DEF Came, Changed, Saved, Left, On, At, Early
<1> QED
  BY <1>1, <1>2 DEF Unlisted

LEMMA ToldWhy ==
  ASSUME Typed, [Next]_vars, ~Restarts, NEW t \in Topics
  PROVE  \/ told'[t] = told[t] \/ Cleared(t)
         \/ \E p \in Pubs : Lists(p) /\ told'[t] = Val(p, t) /\ Val(p, t) > told[t]
<1>0. told \in [Topics -> Values]
  BY TypedIs DEF Typed
<1>1. ASSUME NEW p \in Pubs, Publishes(p)
      PROVE  \/ told'[t] = told[t] \/ Cleared(t)
             \/ Lists(p) /\ told'[t] = Val(p, t) /\ Val(p, t) > told[t]
  <2>1. CASE Lists(p)
    BY <2>1 DEF Lists, Newest, Val
  <2>2. ASSUME NEW u \in Users, Clears(p, u) PROVE told'[t] = told[t] \/ Cleared(t)
    <3>1. Calm(t) \/ Cleared(t)
      BY <2>2, RestOf
    <3>2. CASE t \in Finished(u)
      <4>1. row'[t] = 0 /\ row[t] > 0
        BY <2>2, <3>2 DEF Clears, Finished
      <4> QED
        BY <3>1, <4>1 DEF Calm, Still
    <3>3. CASE t \notin Finished(u)
      BY <2>2, <3>3 DEF Clears
    <3> QED
      BY <3>2, <3>3
  <2>3. CASE ~Lists(p) /\ ~\E u \in Users : Clears(p, u)
    <3>1. told' = told
      BY <1>1, <2>3 DEF Publishes, Appears, Steps, Finishes, Pauses, FlagSaveFails,
         Saves, Leaves, Sent, MakesSet,
         SendsOn, sockets
    <3> QED
      BY <3>1
  <2> QED
    BY <2>1, <2>2, <2>3
<1>2. ASSUME NEW d \in Clients, ActsOn(d) PROVE told' = told
  BY <1>2, SocketLeaves
<1>3. CASE UNCHANGED vars
  BY <1>3 DEF vars, sockets
<1> QED
  BY <1>1, <1>2, <1>3 DEF Next, ActsOn

\* What has been told grows, until it is cleared.
LEMMA ToldGrows ==
  ASSUME Typed, [Next]_vars, ~Restarts, NEW t \in Topics
  PROVE  /\ told'[t] >= told[t] \/ Cleared(t)
         /\ \A p \in Pubs : Out(p, t) => told'[t] >= Val(p, t) /\ told'[t] >= told[t]
<1>1. told[t] \in Nat /\ \A p \in Pubs : Val(p, t) \in Nat
  BY TopicNumbers
<1>2. told'[t] >= told[t] \/ Cleared(t)
  BY <1>1, ToldWhy
<1>3. ASSUME NEW p \in Pubs, Out(p, t)
      PROVE  told'[t] >= Val(p, t) /\ told'[t] >= told[t]
  <2>1. told' = Newest(told, pub[p].frame)
    BY <1>3 DEF Out, Lists
  <2> QED
    BY <1>1, <2>1 DEF Newest, Val
<1> QED
  BY <1>2, <1>3

LEMMA CalmOrCleared == \A t \in Topics : ~(Cleared(t) /\ Still(t))
BY DEF Cleared, Still

LEMMA AsRowsStays ==
  ASSUME Typed, FlagIs, [Next]_vars, ~Restarts, NEW t \in Jobs, Kept(t),
         NEW x, NEW o \in BOOLEAN, NEW n \in BOOLEAN, o => n, \A p \in Pubs : Out(p, t) => n,
         AsRows(x, o, t)
  PROVE  AsRows(x, n, t)'
<1>0. /\ t \in Topics /\ live[t] \in Nat /\ row[t] \in Nat /\ told[t] \in Nat
      /\ \A q \in Pubs : Val(q, t) \in Nat /\ (On(q, t) => Val(q, t) > 0)
  BY TopicNumbers DEF Topics
<1>1. told'[t] >= told[t] \/ Cleared(t)
  BY <1>0, ToldGrows
<1>2. CASE \E p \in Pubs : Came(p, t) \/ Changed(p, t) \/ Saved(p, t) \/ Left(p, t)
  BY <1>0, <1>2, UnlistedStays DEF AsRows
<1>3. CASE Calm(t)
  <2>1. Unlisted(t) => Unlisted(t)'
    BY <1>0, <1>3, UnlistedStays DEF Calm
  <2>2. told[t] # 0 => told'[t] # 0
    BY <1>0, <1>1, <1>3, CalmOrCleared DEF Calm
  <2>3. Still(t)
    BY <1>3 DEF Calm
  <2> QED
    BY <2>1, <2>2, <2>3 DEF AsRows, Still, NoLonger
<1>4. CASE Hurried(t)
  <2>1. Unlisted(t) => Unlisted(t)'
    BY <1>0, <1>4, UnlistedStays DEF Hurried
  <2>2. told[t] # 0 => told'[t] # 0
    BY <1>0, <1>1, <1>4 DEF Hurried, Cleared
  <2> QED
    BY <1>0, <1>4, <2>1, <2>2 DEF AsRows, Hurried, NoLonger
<1>5. CASE Cleared(t)
  <2>1. CASE live[t] = 0
    BY <1>5, <2>1 DEF Cleared, AsRows, NoLonger
  <2>2. CASE live[t] # 0
    <3>1. Unlisted(t)
      BY <1>5, <2>2 DEF Cleared, Kept, Ending, Unlisted, At, On, Early
    <3> QED
      BY <1>0, <1>5, <3>1, UnlistedStays DEF Cleared, AsRows
  <2> QED
    BY <2>1, <2>2
<1>6. ASSUME NEW p \in Pubs, Out(p, t) PROVE AsRows(x, n, t)'
  <2>1. told'[t] >= Val(p, t) /\ On(p, t)
    BY <1>0, <1>6, ToldGrows DEF Out, At, On
  <2>2. told'[t] # 0
    BY <1>0, <2>1
  <2> QED
    BY <1>6, <2>2 DEF AsRows
<1>7. \A p \in Pubs : ~Dropped(p, t)
  BY FeedAssumption DEF Dropped
<1> QED
  BY <1>0, <1>2, <1>3, <1>4, <1>5, <1>6, <1>7, TopicSteps DEF Told

\* When a publication on the topic is sent out, what every other frame says of
\* the topic is either how things are, or behind.
LEMMA Listens ==
  ASSUME Typed', NEW t \in Topics, NEW x \in Nat, Telling(t)', Within(x, t)',
         NEW p \in Pubs, On(p, t)'
  PROVE  Fresh(x, TRUE, t)'
<1> SUFFICES ASSUME t \notin loose', ~Unlisted(t)', ~NoLonger(t)'
             PROVE  x = State(t)' \/ x < told'[t]
  BY DEF Fresh, NoLonger, State
<1>0. live'[t] \in Nat /\ row'[t] \in Nat /\ told'[t] \in Nat
  <2>1. live' \in [Topics -> Values] /\ row' \in [Topics -> Values] /\ told' \in [Topics -> Values]
    BY DEF Typed, TypeOK
  <2> QED
    BY <2>1, Naturals
<1>1. told'[t] = State(t)'
  BY DEF Telling, Unlisted, Untouched
<1>2. \A q \in Pubs : ~At(q, t, "save")'
  BY DEF Unlisted, At, On, Early
<1>3. CASE live'[t] # 0
  BY <1>0, <1>1, <1>3 DEF State, Within
<1>4. CASE live'[t] = 0
  BY <1>0, <1>1, <1>2, <1>4 DEF State, Within, NoLonger
<1> QED
  BY <1>3, <1>4

LEMMA FreshStays ==
  ASSUME Typed, Typed', FlagIs, [Next]_vars, ~Restarts, NEW t \in Topics, Kept(t), Telling(t)',
         NEW x \in Nat, Within(x, t),
         NEW o \in BOOLEAN, NEW n \in BOOLEAN, o => n, \A p \in Pubs : Out(p, t) => n,
         Fresh(x, o, t)
  PROVE  Fresh(x, n, t)'
<1>0. /\ live[t] \in Nat /\ row[t] \in Nat /\ told[t] \in Nat
      /\ \A q \in Pubs : Val(q, t) \in Nat /\ (On(q, t) => Val(q, t) > 0)
      /\ live'[t] \in Nat /\ row'[t] \in Nat /\ told'[t] \in Nat
  <2>1. live' \in [Topics -> Values] /\ row' \in [Topics -> Values] /\ told' \in [Topics -> Values]
    BY DEF Typed, TypeOK
  <2> QED
    BY <2>1, Naturals, TopicNumbers
<1>1. told'[t] >= told[t] \/ Cleared(t)
  BY <1>0, ToldGrows
<1>2. CASE \E p \in Pubs : Came(p, t) \/ Changed(p, t) \/ Saved(p, t) \/ Left(p, t)
  BY <1>0, <1>2, UnlistedStays DEF Fresh
<1>3. CASE Calm(t)
  <2>1. Unlisted(t) => Unlisted(t)'
    BY <1>0, <1>3, UnlistedStays DEF Calm
  <2>2. told[t] <= told'[t]
    BY <1>0, <1>1, <1>3, CalmOrCleared DEF Calm
  <2>3. Still(t)
    BY <1>3 DEF Calm
  <2> QED
    BY <1>0, <2>1, <2>2, <2>3 DEF Fresh, Still, NoLonger, State
<1>4. CASE Hurried(t)
  BY <1>4 DEF Hurried, Fresh
<1>5. CASE Cleared(t)
  <2>1. CASE live[t] = 0
    BY <1>5, <2>1 DEF Cleared, Fresh, NoLonger, State
  <2>2. CASE live[t] # 0
    <3>1. Unlisted(t)
      BY <1>5, <2>2 DEF Cleared, Kept, Ending, Unlisted, At, On, Early
    <3> QED
      BY <1>0, <1>5, <3>1, UnlistedStays DEF Cleared, Fresh
  <2> QED
    BY <2>1, <2>2
<1>6. ASSUME NEW p \in Pubs, Out(p, t) PROVE Fresh(x, n, t)'
  <2>1. On(p, t)' /\ Within(x, t)'
    BY <1>6, WithinStays DEF Out, At, On
  <2>2. Fresh(x, TRUE, t)'
    BY <2>1, Listens
  <2> QED
    BY <1>6, <2>2
<1>7. ASSUME NEW p \in Pubs, Dropped(p, t) PROVE Fresh(x, n, t)'
  BY <1>7 DEF Dropped, Fresh
<1> QED
  BY <1>0, <1>2, <1>3, <1>4, <1>5, <1>6, <1>7, TopicSteps DEF Told

\* What is live is laid over the rows.
LEMMA OverlayFresh ==
  ASSUME Typed, NEW t \in Topics, Kept(t), Telling(t), NEW x \in Nat, Within(x, t),
         NEW o \in BOOLEAN, AsRows(x, o, t),
         NEW y, y = IF x # 0 /\ live[t] # 0 THEN live[t] ELSE x
  PROVE  Fresh(y, o, t)
<1>0. live[t] \in Nat /\ row[t] \in Nat /\ told[t] \in Nat
  BY TopicNumbers
<1> SUFFICES ASSUME t \notin loose, ~Unlisted(t), ~NoLonger(t)
             PROVE  y = State(t) \/ (o /\ y < told[t])
  BY DEF Fresh, NoLonger, State
<1>1. \A q \in Pubs : ~At(q, t, "save") /\ ~At(q, t, "leave")
  BY DEF Unlisted, At, On, Early
<1>2. CASE x = row[t]
  <2>1. live[t] # 0 => row[t] # 0
    BY <1>1 DEF Kept, Rowless
  <2> QED
    BY <1>2, <2>1 DEF State
<1>3. CASE o /\ told[t] # 0
  <2>1. told[t] = State(t)
    BY <1>3 DEF Telling, Unlisted, Untouched
  <2>2. live[t] = 0 => x <= row[t]
    BY <1>1 DEF Within, NoLonger
  <2> QED
    BY <1>0, <1>3, <2>1, <2>2 DEF State
<1> QED
  BY <1>2, <1>3 DEF AsRows

-----------------------------------------------------------------------------
(* The frames of the publications.                                         *)

Old(q, t) == t \in pub[q].frame.old
\* The jobs a list for an account is to tell of, and has a place for.
Enters(q, t) == t \in Jobs /\ MaySee(pub[q].user, t) /\ t \notin pub[q].frame.cut
Carries(q, t) ==
  \/ pub[q].topic = None /\ pub[q].at \in {"user", "send"} /\ Enters(q, t)
  \/ On(q, t) /\ pub[q].at \in {"admins", "send"}
Reads(q, t) == pub[q].at = "overlay" /\ Enters(q, t)
Framed(q, t) ==
  /\ Carries(q, t) => Fresh(Val(q, t), Old(q, t), t)
  /\ Reads(q, t) => AsRows(Val(q, t), Old(q, t), t)

\* A frame goes on as it was, and is marked as old when its topic is told of.
Goes(q, t) ==
  /\ Val(q, t)' = Val(q, t) /\ (Old(q, t) => Old(q, t)')
  /\ \A p \in Pubs : Out(p, t) => Old(q, t)'
FrameStep(q, t) ==
  /\ Carries(q, t)' =>
       \/ Carries(q, t) /\ Goes(q, t)
       \/ Out(q, t) /\ Old(q, t)'
       \/ /\ Reads(q, t) /\ (Old(q, t)' <=> Old(q, t)) /\ \A p \in Pubs : ~Out(p, t)
          /\ Val(q, t)' = IF Val(q, t) # 0 /\ live[t] # 0 THEN live[t] ELSE Val(q, t)
  /\ Reads(q, t)' =>
       \/ Reads(q, t) /\ Goes(q, t)
       \/ Val(q, t)' = row'[t]

LEMMA NoOut ==
  ASSUME NEW t \in Topics, NEW p \in Pubs, pub[p].at \notin {"all", "owner"},
         \A q \in Pubs \ {p} : pub'[q].at = pub[q].at
  PROVE  \A q \in Pubs : ~Out(q, t)
BY DEF Out, At

LEMMA SameFrame ==
  ASSUME NEW t \in Topics, NEW q \in Pubs, pub'[q] = pub[q], \A p \in Pubs : ~Out(p, t)
  PROVE  FrameStep(q, t)
BY DEF FrameStep, Goes, Carries, Reads, Enters, Val, Old, On

LEMMA SilentStep ==
  ASSUME NEW t \in Topics, pub' = pub, NEW q \in Pubs
  PROVE  FrameStep(q, t)
<1>1. \A p \in Pubs : ~Out(p, t)
  BY DEF Out, At
<1> QED
  BY <1>1, SameFrame

\* Publications that are not at a stage where a frame matters.
LEMMA NoFrame ==
  ASSUME NEW t \in Topics, NEW q, pub'[q].at \in Early \cup {"none", "rows"}
  PROVE  FrameStep(q, t)
BY DEF FrameStep, Carries, Reads, Early

LEMMA FrameSteps ==
  ASSUME Typed, NEW p \in Pubs, Publishes(p), NEW t \in Topics, NEW q \in Pubs
  PROVE  FrameStep(q, t)
<1>0. /\ pub \in [Pubs -> Publication] /\ live \in [Topics -> Values] /\ row \in [Topics -> Values]
      /\ (\A r \in Pubs : Formed(pub[r])) /\ Queue \in Topics /\ Jobs \subseteq Topics
      /\ {"save", "owner", "all", "leave"} \subseteq Stages
  BY TypedIs DEF Typed, Topics, Stages
<1>1. ASSUME pub[p].at \notin {"all", "owner"}, \A r \in Pubs \ {p} : pub'[r] = pub[r],
             pub'[p].at \in Early \cup {"none", "rows"}
      PROVE  FrameStep(q, t)
  BY <1>1, NoOut, NoFrame, SameFrame
<1>2. ASSUME NEW s \in Topics, NEW v \in Values, NEW at \in {"save", "owner"}, Starts(p, s, v, at)
      PROVE  FrameStep(q, t)
  <2>1. pub[p] = NoPub /\ pub'[p].at = at /\ \A r \in Pubs \ {p} : pub'[r] = pub[r]
    BY <1>0, <1>2, StartsPub
  <2> QED
    BY <1>1, <2>1, NoPubIs DEF Early
<1>3. ASSUME NEW j \in Jobs, Appears(p, j) PROVE FrameStep(q, t)
  <2>1. row[j] + 1 \in Values
    BY <1>0, <1>3, ChangeStep DEF Appears, Typed
  <2> QED
    BY <1>0, <1>2, <1>3, <2>1 DEF Appears
<1>4. ASSUME NEW j \in Jobs, Steps(p, j) PROVE FrameStep(q, t)
  <2>1. live[j] + 1 \in Values
    BY <1>0, <1>4, ChangeStep DEF Steps, Typed
  <2> QED
    BY <1>0, <1>2, <1>4, <2>1, SilentStep DEF Steps
<1>5. ASSUME NEW j \in Jobs, Finishes(p, j) PROVE FrameStep(q, t)
  <2>1. live[j] + 1 \in Values
    BY <1>0, <1>5, ChangeStep DEF Finishes, Typed
  <2> QED
    BY <1>0, <1>2, <1>5, <2>1 DEF Finishes
<1>6. ASSUME Pauses(p) PROVE FrameStep(q, t)
  <2>1. live[Queue] + 1 \in Values
    BY <1>0, <1>6, ChangeStep DEF Pauses, Typed
  <2> QED
    BY <1>0, <1>2, <1>6, <2>1 DEF Pauses
<1>7. CASE Saves(p)
  <2>1. pub'[p].at \in {"all", "leave", "owner"} /\ \A r \in Pubs \ {p} : pub'[r] = pub[r]
    BY <1>0, <1>7, MovesPub DEF Saves
  <2> QED
    BY <1>1, <1>7, <2>1 DEF Early, Saves
<1>8. CASE Leaves(p)
  <2>1. pub'[p].at = "owner" /\ \A r \in Pubs \ {p} : pub'[r] = pub[r]
    BY <1>0, <1>8, MovesPub DEF Leaves
  <2> QED
    BY <1>1, <1>8, <2>1 DEF Early, Leaves
<1>9. ASSUME NEW u \in Users, Clears(p, u) PROVE FrameStep(q, t)
  <2>1. pub[p] = NoPub /\ pub'[p].at = "rows" /\ \A r \in Pubs \ {p} : pub'[r] = pub[r]
    BY <1>0, <1>9, ClearsPub
  <2> QED
    BY <1>1, <2>1, NoPubIs
<1>10. CASE Sent(p)
  <2>1. pub[p].at = "send" /\ \A r \in Pubs \ {p} : pub'[r] = pub[r]
    BY <1>0, <1>10, SentPub
  <2>2. CASE pub[p].next = "none"
    <3>1. pub'[p].at = "none"
      BY <1>0, <1>10, <2>2, SentPub, NoPubIs
    <3> QED
      BY <1>1, <2>1, <3>1
  <2>3. CASE pub[p].next # "none"
    <3>1. /\ pub'[p].at = "admins" /\ pub'[p].topic = pub[p].topic
          /\ pub'[p].frame = pub[p].frame
      BY <1>0, <1>10, <2>3, SentPub
    <3>2. pub[p].topic # None
      BY <1>0, <2>1, <2>3, Stage, FeedAssumption DEF Single, Listing
    <3>3. \A r \in Pubs : ~Out(r, t)
      BY <2>1, NoOut
    <3>4. FrameStep(p, t)
      BY <2>1, <3>1, <3>2, <3>3 DEF FrameStep, Carries, Reads, Enters, Goes, Val, Old, On
    <3> QED
      BY <2>1, <3>3, <3>4, SameFrame
  <2> QED
    BY <2>2, <2>3
<1>11. ASSUME NEW c \in Clients, SendsOn(p, c) PROVE FrameStep(q, t)
  <2>1. /\ pub[p].at = "send" /\ pub'[p].at = "send" /\ pub'[p].topic = pub[p].topic
        /\ pub'[p].frame = pub[p].frame /\ pub'[p].user = pub[p].user
        /\ \A r \in Pubs \ {p} : pub'[r] = pub[r]
    BY <1>0, <1>11, SendsOnPub
  <2>2. \A r \in Pubs : ~Out(r, t)
    BY <2>1, NoOut
  <2>3. FrameStep(p, t)
    BY <2>1, <2>2 DEF FrameStep, Carries, Reads, Enters, Goes, Val, Old, On
  <2> QED
    BY <2>1, <2>2, <2>3, SameFrame
<1>12. CASE MakesSet(p)
  <2>1. /\ pub'[p].topic = pub[p].topic /\ pub'[p].user = pub[p].user
        /\ \/ /\ pub[p].at = "rows" /\ pub'[p].at = "overlay"
              /\ \E S \in Listings(pub[p].user) : pub'[p].frame = RowsFor(pub[p].user, S)
           \/ /\ pub[p].at = "overlay" /\ pub'[p].at = "user"
              /\ pub'[p].frame = Overlaid(pub[p].frame)
        /\ \A r \in Pubs \ {p} : pub'[r] = pub[r]
    BY <1>0, <1>12, MakesSetPub
  <2>2. \A r \in Pubs : ~Out(r, t)
    BY <2>1, NoOut
  <2>3. Listing(pub[p]) /\ pub[p].topic # t
    BY <1>0, <2>1, Stage, NoneIs DEF Listing
  <2>4. CASE pub[p].at = "rows"
    <3>1. PICK S \in Listings(pub[p].user) : pub'[p].frame = RowsFor(pub[p].user, S)
      BY <2>1, <2>4
    <3>2. row' = row /\ pub'[p].at = "overlay"
      BY <1>12, <2>1, <2>4 DEF MakesSet, manager
    <3>3. Reads(p, t)' => Val(p, t)' = row'[t]
      BY <1>0, <2>1, <3>1, <3>2, RowsForIs DEF Reads, Enters, Val, MaySee
    <3> QED
      BY <3>2, <3>3, <2>1, <2>2, SameFrame DEF FrameStep, Carries
  <2>5. CASE pub[p].at = "overlay"
    <3>1. /\ pub'[p].at = "user" /\ pub'[p].frame = Overlaid(pub[p].frame)
      BY <2>1, <2>5
    <3>2. /\ Overlaid(pub[p].frame).old = pub[p].frame.old
          /\ Overlaid(pub[p].frame).cut = pub[p].frame.cut
          /\ \A s \in Topics : Overlaid(pub[p].frame).of[s] =
               IF pub[p].frame.of[s] # 0 /\ live[s] # 0 THEN live[s] ELSE pub[p].frame.of[s]
      BY <1>0, OverlaidIs DEF Publication
    <3>3. Carries(p, t)' => Reads(p, t)
      BY <2>1, <2>3, <2>5, <3>1, <3>2 DEF Carries, Reads, Enters, On, MaySee
    <3>4. FrameStep(p, t)
      BY <2>2, <3>1, <3>2, <3>3 DEF FrameStep, Reads, Val, Old
    <3> QED
      BY <2>1, <2>2, <3>4, SameFrame
  <2> QED
    BY <2>1, <2>4, <2>5
<1>13. CASE Lists(p)
  <2>1. PICK next \in {"none", "admins"}, to \in SUBSET Clients :
          /\ Listed(p, next, to)
          /\ pub[p].at \in {"all", "owner", "admins", "user"}
    BY <1>13, ListsPub
  <2>2. /\ pub'[p].topic = pub[p].topic /\ pub'[p].frame = pub[p].frame /\ pub'[p].at = "send"
        /\ pub'[p].user = pub[p].user
        /\ \A r \in Pubs \ {p} :
             /\ pub[r] = NoPub => pub'[r] = NoPub
             /\ pub'[r].topic = pub[r].topic /\ pub'[r].at = pub[r].at
             /\ pub'[r].user = pub[r].user
             /\ pub'[r].frame.set = pub[r].frame.set /\ pub'[r].frame.of = pub[r].frame.of
             /\ pub'[r].frame.cut = pub[r].frame.cut
             /\ pub[r].frame.old \subseteq pub'[r].frame.old
             /\ pub[r] # NoPub => \A s \in Topics :
                  Mentions(pub[r].frame, s) /\ Mentions(pub[p].frame, s) => s \in pub'[r].frame.old
    BY <1>0, <2>1, ListedPub
  <2>3. \A r \in Pubs : Out(r, t) => r = p /\ (At(p, t, "all") \/ At(p, t, "owner"))
    BY <2>2 DEF Out, At
  <2>4. CASE q = p
    <3>1. CASE At(p, t, "all") \/ At(p, t, "owner")
      <4>1. Old(p, t)'
        BY <1>0, <2>2, <3>1, Stage DEF At, Old, Single
      <4>2. Calm(t) \/ Told(p, t)
        BY <1>13, ListsOf
      <4>3. Out(p, t)
        BY <2>2, <3>1, <4>2 DEF Calm, Alike, At, On, Val, Early, Told, Came, Changed, Saved, Left
      <4> QED
        BY <2>2, <2>4, <4>1, <4>3 DEF FrameStep, Reads
    <3>2. CASE ~At(p, t, "all") /\ ~At(p, t, "owner")
      <4>1. Carries(p, t)' => Carries(p, t)
        BY <1>0, <2>1, <2>2, <3>2, Stage, FeedAssumption
           DEF Carries, Enters, On, At, MaySee, Listing, Single
      <4> QED
        BY <2>2, <2>3, <2>4, <3>2, <4>1 DEF FrameStep, Reads, Goes, Val, Old
    <3> QED
      BY <3>1, <3>2
  <2>5. CASE q # p
    <3>1. pub[q] = NoPub => FrameStep(q, t)
      BY <2>2, <2>5, NoFrame, NoPubIs
    <3>2. CASE pub[q] # NoPub
      <4>1. (Carries(q, t)' => Carries(q, t)) /\ (Reads(q, t)' => Reads(q, t))
        BY <2>2, <2>5 DEF Carries, Reads, Enters, On, MaySee
      <4>2. Carries(q, t) \/ Reads(q, t) => Mentions(pub[q].frame, t)
        <5>1. pub[q].at \in {"user", "overlay"} \/ pub[q].topic = None => Listing(pub[q])
          BY <1>0, <3>2, Stage, FeedAssumption DEF Formed, Single
        <5>2. On(q, t) => Single(pub[q])
          BY <1>0, Stage DEF On
        <5> QED
          BY <5>1, <5>2 DEF Carries, Reads, Enters, On, Mentions, Single, Listing
      <4>3. ASSUME NEW r \in Pubs, Out(r, t) PROVE Mentions(pub[p].frame, t)
        <5>1. On(p, t)
          BY <2>3, <4>3 DEF On, At
        <5> QED
          BY <1>0, <5>1, Stage DEF On, Mentions, Single
      <4>4. Carries(q, t) \/ Reads(q, t) => Goes(q, t)
        BY <2>2, <2>5, <3>2, <4>2, <4>3 DEF Goes, Val, Old
      <4> QED
        BY <4>1, <4>4 DEF FrameStep
    <3> QED
      BY <3>1, <3>2
  <2> QED
    BY <2>4, <2>5
<1>14. CASE FlagSaveFails(p)
  <2>1. pub[p].at = "save" /\ pub'[p] = NoPub /\ \A r \in Pubs \ {p} : pub'[r] = pub[r]
    BY <1>0, <1>14 DEF FlagSaveFails
  <2> QED
    BY <1>1, <2>1, NoPubIs
<1> QED
  BY <1>3, <1>4, <1>5, <1>6, <1>7, <1>8, <1>9, <1>10, <1>11, <1>12, <1>13, <1>14 DEF Publishes

\* What an account may not see, or there is no place for, is not in its lists.
Hides(q, t) == pub[q].topic = None /\ t \in Jobs /\ ~Enters(q, t) => Val(q, t) = 0

\* A topic nobody has been told of stays so, whatever lists are sent.
LEMMA UntouchedStays ==
  ASSUME Typed, [Next]_vars, ~Restarts, NEW t \in Topics, Calm(t), Untouched(t), ~NoLonger(t),
         t \notin loose, \A q \in Pubs : Framed(q, t) /\ Hides(q, t)
  PROVE  Untouched(t)' \/ told'[t] = State(t)'
<1>0. /\ live[t] \in Nat /\ row[t] \in Nat /\ told[t] = 0
      /\ \A q \in Pubs : Val(q, t) \in Nat /\ Formed(pub[q])
  BY TopicNumbers DEF Typed, Untouched
<1>1. \A q \in Pubs : ~On(q, t)'
  BY DEF Untouched, Calm, Alike
<1>2. State(t)' = State(t)
  BY DEF Calm, Still, State
<1>3. ASSUME NEW p \in Pubs, Lists(p), told'[t] = Val(p, t), Val(p, t) > told[t]
      PROVE  told'[t] = State(t)
  <2>1. pub[p].topic # t /\ ~Unlisted(t)
    BY DEF Untouched, Unlisted, On
  <2>2. ~Single(pub[p])
    BY <1>0, <1>3, <2>1 DEF Single, Val
  <2>3. Listing(pub[p]) /\ pub[p].at = "user"
    BY <1>0, <1>3, <2>2, ListsPub, Stage DEF Formed
  <2>4. t \in Jobs
    BY <1>0, <1>3, <2>3 DEF Listing, Val, Topics
  <2>5. Carries(p, t)
    BY <1>0, <1>3, <2>3, <2>4 DEF Carries, Hides, Listing
  <2> QED
    BY <1>0, <1>3, <2>1, <2>5 DEF Framed, Fresh
<1> QED
  BY <1>0, <1>1, <1>2, <1>3, ToldWhy, CalmOrCleared DEF Untouched, Calm

LEMMA ToldHolds ==
  ASSUME Typed, Said, [Next]_vars, ~Restarts, NEW t \in Topics, t \notin loose,
         told[t] = State(t), ~NoLonger(t), ~Cleared(t), told'[t] # told[t]
  PROVE  live[t] = 0 /\ \E q \in Pubs : At(q, t, "save")
<1>0. /\ live[t] \in Nat /\ row[t] \in Nat /\ \A q \in Pubs : Val(q, t) \in Nat
  BY TopicNumbers
<1>1. PICK p \in Pubs : told'[t] = Val(p, t) /\ Val(p, t) > told[t]
  BY ToldWhy
<1>2. Within(Val(p, t), t)
  BY DEF Said
<1> QED
  BY <1>0, <1>1, <1>2 DEF Within, State, NoLonger

LEMMA StepTelling ==
  ASSUME Typed, Typed', FlagIs, Said, [Next]_vars, NEW t \in Topics, Kept(t), Telling(t),
         \A q \in Pubs : Framed(q, t) /\ Hides(q, t)
  PROVE  Telling(t)'
<1>0. /\ live[t] \in Nat /\ row[t] \in Nat /\ told[t] \in Nat
      /\ \A q \in Pubs : Val(q, t) \in Nat /\ (On(q, t) => Val(q, t) > 0)
  BY TopicNumbers
<1>1. CASE Restarts
  <2>1. told'[t] = 0 /\ \A q \in Pubs : ~On(q, t)'
    BY <1>1, NoneIs DEF Restarts, On, Blank
  <2> QED
    BY <2>1 DEF Telling, Untouched
<1>2. ASSUME NEW p \in Pubs, Came(p, t) PROVE Telling(t)'
  BY <1>2 DEF Came, Telling, State, On, At, Early
<1>3. ASSUME NEW p \in Pubs, Changed(p, t) PROVE Telling(t)'
  <2>1. On(p, t)' /\ pub'[p].at \in Early /\ Val(p, t)' = State(t)'
    BY <1>0, <1>3 DEF Changed, State, On, At, Early
  <2> QED
    BY <2>1 DEF Telling
<1>4. CASE Hurried(t)
  BY <1>4 DEF Hurried, Telling
<1> SUFFICES ASSUME ~Restarts, t \notin loose' PROVE Telling(t)'
  BY <1>1 DEF Telling
<1> DEFINE Witness(q) == On(q, t) /\ pub[q].at \in Early
                         /\ (Val(q, t) = State(t) \/ (live[t] = 0 /\ pub[q].at = "save"))
<1>5. ASSUME NEW q \in Pubs, Alike(q, t), Still(t), Witness(q) PROVE Telling(t)'
  BY <1>5 DEF Alike, Still, On, At, Early, Telling, State
<1>6. ASSUME NEW q \in Pubs, Witness(q)
      PROVE  On(q, t) /\ pub[q].at \in Early
  BY <1>6
<1>7. t \notin loose => Untouched(t) \/ NoLonger(t) \/ told[t] = State(t) \/ \E q \in Pubs : Witness(q)
  BY DEF Telling
<1>8. ASSUME NEW q \in Pubs, At(q, t, "save"), live[t] = 0 PROVE Witness(q)
  BY <1>8 DEF At, On, Early
<1>9. NoLonger(t) /\ Still(t) => Telling(t)'
  BY DEF Still, NoLonger, Telling
<1>10. told'[t] = State(t)' => Telling(t)'
  BY DEF Telling
<1>11. Still(t) => State(t)' = State(t) /\ t \notin loose
  BY DEF Still, State
<1> HIDE DEF Witness
<1>12. CASE Calm(t)
  <2>1. Still(t) /\ \A q \in Pubs : Alike(q, t)
    BY <1>12 DEF Calm
  <2>2. CASE Untouched(t) /\ ~NoLonger(t)
    BY <1>11, <1>12, <2>1, <2>2, UntouchedStays DEF Telling
  <2>3. CASE told[t] = State(t) /\ ~NoLonger(t)
    <3>1. CASE told'[t] = told[t]
      BY <1>10, <1>11, <2>1, <2>3, <3>1
    <3>2. CASE told'[t] # told[t]
      BY <1>5, <1>8, <1>11, <2>1, <2>3, <3>2, ToldHolds, CalmOrCleared
    <3> QED
      BY <3>1, <3>2
  <2> QED
    BY <1>5, <1>7, <1>9, <1>11, <2>1, <2>2, <2>3
<1>13. ASSUME NEW p \in Pubs, Out(p, t) PROVE Telling(t)'
  <2>1. Still(t) /\ (\A q \in Pubs \ {p} : Alike(q, t)) /\ On(p, t) /\ ~At(p, t, "save")
        /\ Lists(p)
    BY <1>13 DEF Out, Others, At, On
  <2>2. ASSUME NEW q \in Pubs, At(q, t, "save"), live[t] = 0 PROVE Telling(t)'
    BY <1>5, <1>8, <2>1, <2>2
  <2>3. told'[t] = IF Val(p, t) > told[t] THEN Val(p, t) ELSE told[t]
    BY <2>1 DEF Lists, Newest, Val
  <2>4. CASE told[t] = State(t) /\ ~NoLonger(t)
    <3>1. CASE told'[t] = told[t]
      BY <1>10, <1>11, <2>1, <2>4, <3>1
    <3>2. CASE told'[t] # told[t]
      BY <1>11, <2>1, <2>2, <2>4, <3>2, ToldHolds, CalmOrCleared
    <3> QED
      BY <3>1, <3>2
  <2>5. CASE Val(p, t) = State(t)
    <3>1. Within(told[t], t)
      BY DEF Said
    <3>2. \/ told[t] <= State(t)
          \/ live[t] = 0 /\ \E q \in Pubs : At(q, t, "save")
      BY <1>0, <1>11, <2>1, <2>5, <3>1 DEF Within, State
    <3> QED
      BY <1>0, <1>10, <1>11, <2>1, <2>2, <2>3, <2>5, <3>2
  <2>6. ASSUME NEW q \in Pubs, Witness(q) PROVE Telling(t)'
    <3>1. CASE q # p
      BY <1>5, <2>1, <2>6, <3>1
    <3>2. CASE q = p
      <4>1. Val(p, t) = State(t)
        BY <1>13, <2>6, <3>2 DEF Witness, Out, At
      <4> QED
        BY <2>5, <4>1
    <3> QED
      BY <3>1, <3>2
  <2> QED
    BY <1>7, <1>9, <1>11, <2>1, <2>4, <2>6 DEF Untouched
<1>14. ASSUME NEW p \in Pubs, Saved(p, t) PROVE Telling(t)'
  <2>1. /\ At(p, t, "save") /\ On(p, t) /\ On(p, t)' /\ pub'[p].at \in Early
        /\ Val(p, t)' = Val(p, t) /\ row'[t] = Val(p, t) /\ live'[t] = live[t]
        /\ t \notin loose /\ \A q \in Pubs \ {p} : Alike(q, t)
    BY <1>14 DEF Saved, At, On, Early, Others
  <2>2. CASE live[t] = 0
    BY <2>1, <2>2 DEF Telling, State
  <2>3. CASE live[t] # 0
    <3>1. State(t)' = State(t) /\ ~NoLonger(t) /\ ~Untouched(t) /\ ~Cleared(t)
      BY <2>1, <2>3 DEF State, NoLonger, Untouched, Cleared
    <3>2. CASE told[t] = State(t)
      BY <1>10, <2>1, <2>3, <3>1, <3>2, ToldHolds
    <3>3. ASSUME NEW q \in Pubs, Witness(q) PROVE Telling(t)'
      <4>1. On(q, t) /\ pub[q].at \in Early /\ Val(q, t) = State(t)
        BY <2>3, <3>3 DEF Witness
      <4>2. On(q, t)' /\ pub'[q].at \in Early /\ Val(q, t)' = Val(q, t)
        BY <2>1, <4>1 DEF Alike, At, On
      <4> QED
        BY <3>1, <4>1, <4>2 DEF Telling
    <3> QED
      BY <1>7, <2>1, <3>1, <3>2, <3>3
  <2> QED
    BY <2>2, <2>3
<1>15. ASSUME NEW p \in Pubs, Left(p, t) PROVE Telling(t)'
  <2>1. /\ At(p, t, "leave") /\ On(p, t)' /\ pub'[p].at \in Early /\ Val(p, t)' = Val(p, t)
        /\ live'[t] = 0 /\ row'[t] = row[t] /\ t \notin loose
    BY <1>15 DEF Left, At, On, Early
  <2>2. row[t] = Val(p, t) \/ row[t] = 0
    BY <2>1 DEF Kept, Going
  <2> QED
    BY <2>1, <2>2 DEF Telling, State, NoLonger
<1>16. CASE Cleared(t)
  <2>1. CASE live[t] = 0
    BY <1>16, <2>1 DEF Cleared, NoLonger, Telling
  <2>2. CASE live[t] # 0
    <3>1. PICK q \in Pubs : At(q, t, "leave") /\ Val(q, t) = live[t]
      BY <1>16, <2>2 DEF Cleared, Kept, Ending
    <3>2. On(q, t)' /\ pub'[q].at \in Early /\ Val(q, t)' = Val(q, t) /\ live'[t] = live[t]
      BY <1>16, <3>1 DEF Cleared, Alike, At, On, Early
    <3> QED
      BY <2>2, <3>1, <3>2 DEF Telling, State
  <2> QED
    BY <2>1, <2>2
<1>17. \A p \in Pubs : ~Dropped(p, t)
  BY DEF Dropped
<1> QED
  BY <1>2, <1>3, <1>4, <1>12, <1>13, <1>14, <1>15, <1>16, <1>17, TopicSteps DEF Told

LEMMA StepFramed ==
  ASSUME Typed, Typed', FlagIs, Said, Said', [Next]_vars, NEW t \in Topics, Kept(t), Telling(t),
         Telling(t)', NEW q \in Pubs, Framed(q, t)
  PROVE  Framed(q, t)'
<1>0. Val(q, t) \in Nat /\ Within(Val(q, t), t) /\ Old(q, t) \in BOOLEAN /\ (Old(q, t)') \in BOOLEAN
  BY TopicNumbers DEF Said, Old
<1>1. CASE Restarts
  <2>1. pub'[q].at = "none"
    BY <1>1, NoPubIs DEF Restarts
  <2> QED
    BY <2>1 DEF Framed, Carries, Reads
<1>2. CASE ~Restarts
  <2>1. FrameStep(q, t)
    <3>1. UNCHANGED vars \/ (\E d \in Clients : ActsOn(d)) => pub' = pub
      BY SocketLeaves DEF vars
    <3> QED
      BY <1>2, <3>1, SilentStep, FrameSteps DEF Next, ActsOn
  <2>2. ASSUME Carries(q, t)' PROVE Fresh(Val(q, t), Old(q, t), t)'
    <3>1. ASSUME NEW x, x = Val(q, t), NEW o \in BOOLEAN, NEW n \in BOOLEAN, o => n,
                 \A p \in Pubs : Out(p, t) => n, Fresh(x, o, t)
          PROVE  Fresh(x, n, t)'
      BY <1>0, <1>2, <3>1, FreshStays
    <3>2. CASE Carries(q, t) /\ Goes(q, t)
      <4>1. PICK x : x = Val(q, t)
        OBVIOUS
      <4>2. PICK n \in BOOLEAN : n <=> Old(q, t)'
        OBVIOUS
      <4>3. Fresh(x, n, t)'
        BY <1>0, <3>1, <3>2, <4>1, <4>2 DEF Goes, Framed
      <4> QED
        BY <3>2, <4>1, <4>2, <4>3 DEF Goes, Fresh
    <3>3. CASE Out(q, t) /\ Old(q, t)'
      <4>1. PICK x \in Nat : x = Val(q, t)
        BY <1>0
      <4>2. On(q, t)' /\ Val(q, t)' = x /\ Within(x, t)'
        BY <1>0, <1>2, <3>3, <4>1, WithinStays DEF Out, At, On
      <4>3. Fresh(x, TRUE, t)'
        BY <4>2, Listens
      <4> QED
        BY <3>3, <4>2, <4>3 DEF Fresh
    <3>4. CASE /\ Reads(q, t) /\ (Old(q, t)' <=> Old(q, t)) /\ \A p \in Pubs : ~Out(p, t)
               /\ Val(q, t)' = IF Val(q, t) # 0 /\ live[t] # 0 THEN live[t] ELSE Val(q, t)
      <4>0. live[t] \in Nat /\ Within(live[t], t)
        BY TopicNumbers, WithinNow
      <4>1. PICK y : y = IF Val(q, t) # 0 /\ live[t] # 0 THEN live[t] ELSE Val(q, t)
        OBVIOUS
      <4>2. y \in Nat /\ Within(y, t)
        BY <1>0, <4>0, <4>1
      <4>3. PICK o \in BOOLEAN : o <=> Old(q, t)
        OBVIOUS
      <4>4. AsRows(Val(q, t), o, t)
        BY <3>4, <4>3 DEF Framed, AsRows
      <4>5. Fresh(y, o, t)
        BY <1>0, <4>1, <4>4, OverlayFresh
      <4>6. Fresh(y, o, t)'
        BY <1>2, <3>4, <4>2, <4>5, FreshStays
      <4> QED
        BY <3>4, <4>1, <4>3, <4>6 DEF Fresh
    <3> QED
      BY <2>1, <2>2, <3>2, <3>3, <3>4 DEF FrameStep
  <2>3. ASSUME Reads(q, t)' PROVE AsRows(Val(q, t), Old(q, t), t)'
    <3>1. CASE Reads(q, t) /\ Goes(q, t)
      <4>1. PICK x : x = Val(q, t)
        OBVIOUS
      <4>2. PICK o \in BOOLEAN : o <=> Old(q, t)
        OBVIOUS
      <4>3. PICK n \in BOOLEAN : n <=> Old(q, t)'
        OBVIOUS
      <4>4. /\ AsRows(x, o, t) /\ (o => n) /\ (\A p \in Pubs : Out(p, t) => n)
            /\ Val(q, t)' = x /\ t \in Jobs
        BY <3>1, <4>1, <4>2, <4>3 DEF Framed, AsRows, Goes, Reads, Enters
      <4>5. AsRows(x, n, t)'
        BY <1>2, <4>4, AsRowsStays
      <4> QED
        BY <4>3, <4>4, <4>5 DEF AsRows
    <3>2. CASE Val(q, t)' = row'[t]
      BY <3>2 DEF AsRows
    <3> QED
      BY <2>1, <2>3, <3>1, <3>2 DEF FrameStep
  <2> QED
    BY <2>2, <2>3 DEF Framed
<1> QED
  BY <1>1, <1>2

LEMMA InitTelling ==
  Init => \A t \in Topics : Telling(t) /\ \A q \in Pubs : Framed(q, t) /\ Hides(q, t)
<1> SUFFICES ASSUME Init, NEW t \in Topics
             PROVE  Telling(t) /\ \A q \in Pubs : Framed(q, t) /\ Hides(q, t)
  OBVIOUS
<1>1. told[t] = 0 /\ \A q \in Pubs : pub[q] = NoPub
  BY DEF Init, Blank
<1>2. Unmade.of[t] = 0
  BY UnmadeIs, BlankIs DEF Blank
<1> QED
  BY <1>1, <1>2, NoPubIs, NoneIs
     DEF Telling, Untouched, On, Framed, Carries, Reads, Hides, Val

-----------------------------------------------------------------------------
(* Who is sent what: an account gets its own lists, and single frames only *)
(* of jobs it may see.                                                     *)

AsBefore(q) ==
  /\ pub'[q].topic = pub[q].topic /\ pub'[q].at = pub[q].at /\ pub'[q].next = pub[q].next
  /\ pub'[q].to = pub[q].to /\ pub'[q].user = pub[q].user
  /\ pub'[q].frame.set = pub[q].frame.set /\ pub'[q].frame.of = pub[q].frame.of
  /\ pub'[q].frame.cut = pub[q].frame.cut
Begins(q) ==
  /\ pub[q] = NoPub /\ pub'[q].topic \in Topics /\ pub'[q].at \in {"save", "owner"}
  /\ pub'[q].next = "none"
Asks(q) ==
  /\ pub[q] = NoPub /\ pub'[q].topic = None /\ pub'[q].frame = Unmade
  /\ pub'[q].at = "rows" /\ \E u \in Users : Clears(q, u) /\ pub'[q].user = u
Drops(q) == pub[q].at = "save" /\ pub'[q] = NoPub
MovesOn(q) ==
  /\ pub[q].at \in {"save", "leave"} /\ pub'[q].at \in {"all", "leave", "owner"}
  /\ pub'[q].topic = pub[q].topic /\ pub'[q].frame = pub[q].frame
GoesOut(q) ==
  /\ Lists(q) /\ pub[q].at \in {"all", "owner", "admins", "user"} /\ pub'[q].at = "send"
  /\ pub'[q].topic = pub[q].topic /\ pub'[q].frame = pub[q].frame
  /\ pub'[q].user = pub[q].user
  /\ \/ pub[q].at = "all" /\ pub'[q].to = Joined /\ pub'[q].next = "none"
     \/ pub[q].at = "owner" /\ pub'[q].to = Of(Owner[pub[q].topic]) /\ pub'[q].next = "admins"
     \/ pub[q].at = "admins" /\ pub'[q].to = ToAdmins(q) /\ pub'[q].next = "none"
     \/ pub[q].at = "user" /\ pub'[q].to = Of(pub[q].user) /\ pub'[q].next = "none"
SendsTo(q, c) ==
  /\ SendsOn(q, c) /\ pub[q].at = "send" /\ pub'[q].at = "send" /\ c \in pub[q].to
  /\ pub'[q].to = pub[q].to \ {c} /\ pub'[q].topic = pub[q].topic
  /\ pub'[q].frame = pub[q].frame /\ pub'[q].next = pub[q].next
  /\ pub'[q].user = pub[q].user
IsSent(q) ==
  /\ Sent(q) /\ pub[q].at = "send" /\ pub[q].to = {}
  /\ \/ pub[q].next = "none" /\ pub'[q] = NoPub
     \/ /\ pub[q].next = "admins" /\ pub'[q].at = "admins"
        /\ pub'[q].topic = pub[q].topic /\ pub'[q].frame = pub[q].frame
        /\ pub'[q].user = pub[q].user
Makes(q) ==
  /\ MakesSet(q) /\ pub'[q].topic = pub[q].topic /\ pub'[q].user = pub[q].user
  /\ \/ /\ pub[q].at = "rows" /\ pub'[q].at = "overlay"
        /\ \E S \in Listings(pub[q].user) : pub'[q].frame = RowsFor(pub[q].user, S)
     \/ /\ pub[q].at = "overlay" /\ pub'[q].at = "user"
        /\ pub'[q].frame = Overlaid(pub[q].frame)

LEMMA GoesOutIs ==
  ASSUME Typed, NEW p \in Pubs, Lists(p)
  PROVE  GoesOut(p) /\ \A q \in Pubs \ {p} : AsBefore(q)
<1>0. pub \in [Pubs -> Publication] /\ Joined \subseteq Clients
      /\ (\A u : Of(u) \subseteq Clients) /\ ToAdmins(p) \subseteq Clients
  BY TypedIs DEF Typed, Joined, Of, ToAdmins
<1>1. ASSUME NEW next \in {"none", "admins"}, NEW to \in SUBSET Clients, Listed(p, next, to)
      PROVE  /\ pub'[p].topic = pub[p].topic /\ pub'[p].frame = pub[p].frame
             /\ pub'[p].at = "send" /\ pub'[p].user = pub[p].user
             /\ pub'[p].next = next /\ pub'[p].to = to
             /\ \A q \in Pubs \ {p} : AsBefore(q)
  BY <1>0, <1>1, ListedPub DEF AsBefore
<1>2. \/ pub[p].at = "all" /\ Listed(p, "none", Joined)
      \/ pub[p].at = "owner" /\ Listed(p, "admins", Of(Owner[pub[p].topic]))
      \/ pub[p].at = "admins" /\ Listed(p, "none", ToAdmins(p))
      \/ pub[p].at = "user" /\ Listed(p, "none", Of(pub[p].user))
  BY DEF Lists
<1>3. CASE pub[p].at = "all" /\ Listed(p, "none", Joined)
  BY <1>0, <1>1, <1>3 DEF GoesOut
<1>4. CASE pub[p].at = "owner" /\ Listed(p, "admins", Of(Owner[pub[p].topic]))
  BY <1>0, <1>1, <1>4 DEF GoesOut
<1>5. CASE pub[p].at = "admins" /\ Listed(p, "none", ToAdmins(p))
  BY <1>0, <1>1, <1>5 DEF GoesOut
<1>6. CASE pub[p].at = "user" /\ Listed(p, "none", Of(pub[p].user))
  BY <1>0, <1>1, <1>6 DEF GoesOut
<1> QED
  BY <1>2, <1>3, <1>4, <1>5, <1>6

LEMMA PubSteps ==
  ASSUME Typed, [Next]_vars, ~Restarts, NEW q \in Pubs
  PROVE  \/ AsBefore(q) \/ Begins(q) \/ Asks(q) \/ Drops(q) \/ MovesOn(q) \/ GoesOut(q)
         \/ (\E c \in Clients : SendsTo(q, c)) \/ IsSent(q) \/ Makes(q)
<1>0. /\ pub \in [Pubs -> Publication] /\ live \in [Topics -> Values] /\ row \in [Topics -> Values]
      /\ Queue \in Topics /\ Jobs \subseteq Topics
      /\ {"save", "owner", "all", "leave"} \subseteq Stages
  BY TypedIs DEF Typed, Topics, Stages
<1>1. pub'[q] = pub[q] => AsBefore(q)
  BY DEF AsBefore
<1>2. ASSUME NEW p \in Pubs, NEW s \in Topics, NEW v \in Values, NEW at \in {"save", "owner"},
             Starts(p, s, v, at)
      PROVE  AsBefore(q) \/ Begins(q)
  <2>1. /\ pub[p] = NoPub /\ pub'[p].topic = s /\ pub'[p].at = at /\ pub'[p].next = "none"
        /\ \A r \in Pubs \ {p} : pub'[r] = pub[r]
    BY <1>0, <1>2, StartsPub
  <2> QED
    BY <1>1, <2>1 DEF Begins
<1>3. ASSUME NEW p \in Pubs, Publishes(p)
      PROVE  \/ AsBefore(q) \/ Begins(q) \/ Asks(q) \/ Drops(q) \/ MovesOn(q) \/ GoesOut(q)
             \/ (\E c \in Clients : SendsTo(q, c)) \/ IsSent(q) \/ Makes(q)
  <2>1. ASSUME NEW j \in Jobs, Appears(p, j) PROVE AsBefore(q) \/ Begins(q)
    <3>1. row[j] + 1 \in Values
      BY <1>0, <2>1, ChangeStep DEF Appears, Typed
    <3> QED
      BY <1>0, <1>2, <2>1, <3>1 DEF Appears
  <2>2. ASSUME NEW j \in Jobs, Steps(p, j) PROVE AsBefore(q) \/ Begins(q)
    <3>1. live[j] + 1 \in Values
      BY <1>0, <2>2, ChangeStep DEF Steps, Typed
    <3> QED
      BY <1>0, <1>1, <1>2, <2>2, <3>1 DEF Steps
  <2>3. ASSUME NEW j \in Jobs, Finishes(p, j) PROVE AsBefore(q) \/ Begins(q)
    <3>1. live[j] + 1 \in Values
      BY <1>0, <2>3, ChangeStep DEF Finishes, Typed
    <3> QED
      BY <1>0, <1>2, <2>3, <3>1 DEF Finishes
  <2>4. CASE Pauses(p)
    <3>1. live[Queue] + 1 \in Values
      BY <1>0, <2>4, ChangeStep DEF Pauses, Typed
    <3> QED
      BY <1>0, <1>2, <2>4, <3>1 DEF Pauses
  <2>5. CASE Saves(p) \/ Leaves(p)
    <3>1. /\ pub[p].at \in {"save", "leave"} /\ pub'[p].at \in {"all", "leave", "owner"}
          /\ pub'[p].topic = pub[p].topic /\ pub'[p].frame = pub[p].frame
          /\ \A r \in Pubs \ {p} : pub'[r] = pub[r]
      BY <1>0, <2>5, MovesPub DEF Saves, Leaves
    <3> QED
      BY <1>1, <3>1 DEF MovesOn
  <2>6. CASE Lists(p)
    BY <2>6, GoesOutIs
  <2>7. CASE Sent(p)
    BY <1>0, <1>1, <2>7, SentPub DEF IsSent
  <2>8. CASE MakesSet(p)
    BY <1>0, <1>1, <2>8, MakesSetPub DEF Makes
  <2>9. ASSUME NEW c \in Clients, SendsOn(p, c) PROVE AsBefore(q) \/ SendsTo(q, c)
    <3>1. c \in pub[p].to
      BY <2>9 DEF SendsOn
    <3> QED
      BY <1>0, <1>1, <2>9, <3>1, SendsOnPub DEF SendsTo
  <2>10. ASSUME NEW u \in Users, Clears(p, u) PROVE AsBefore(q) \/ Asks(q)
    BY <1>0, <1>1, <2>10, ClearsPub DEF Asks
  <2>11. CASE FlagSaveFails(p)
    BY <1>0, <1>1, <2>11 DEF FlagSaveFails, Drops
  <2> QED
    BY <1>3, <2>1, <2>2, <2>3, <2>4, <2>5, <2>6, <2>7, <2>8, <2>9, <2>10, <2>11 DEF Publishes
<1>4. (\E d \in Clients : ActsOn(d)) \/ UNCHANGED vars => pub' = pub
  BY SocketLeaves DEF vars
<1> QED
  BY <1>1, <1>3, <1>4 DEF Next, ActsOn

\* The sockets a frame is on its way to are those of the account it is for.
SentTo(q) ==
  pub[q].at = "send" => \A c \in pub[q].to :
    /\ pub[q].topic = None => account[c] = pub[q].user
    /\ pub[q].topic \in Jobs => MaySee(account[c], pub[q].topic)

LEMMA StepHides ==
  ASSUME Typed, [Next]_vars, NEW t \in Topics, NEW q \in Pubs, Hides(q, t)
  PROVE  Hides(q, t)'
<1>0. /\ pub \in [Pubs -> Publication] /\ live \in [Topics -> Values] /\ row \in [Topics -> Values]
      /\ Unmade.of[t] = 0 /\ pub[q].frame \in Frame
  <2>1. pub \in [Pubs -> Publication] /\ live \in [Topics -> Values] /\ row \in [Topics -> Values]
    BY TypedIs DEF Typed
  <2> QED
    BY <2>1, UnmadeIs, BlankIs DEF Blank, Publication
<1>1. CASE Restarts
  BY <1>0, <1>1, NoPubIs DEF Restarts, Hides, Val
<1>2. CASE AsBefore(q)
  BY <1>2 DEF AsBefore, Hides, Enters, Val, MaySee
<1>3. CASE Begins(q)
  BY <1>3, NoneIs DEF Begins, Hides
<1>4. CASE Asks(q)
  BY <1>0, <1>4 DEF Asks, Hides, Val
<1>5. CASE MovesOn(q)
  <2>1. Single(pub[q])
    BY <1>5, Stage DEF MovesOn, Typed
  <2> QED
    BY <1>5, <2>1, NoneIs DEF MovesOn, Hides, Single
<1>6. CASE GoesOut(q) \/ \E c \in Clients : SendsTo(q, c)
  BY <1>6 DEF GoesOut, SendsTo, Hides, Enters, Val, MaySee
<1>7. CASE IsSent(q) \/ Drops(q)
  BY <1>0, <1>7, NoPubIs DEF IsSent, Drops, Hides, Enters, Val, MaySee
<1>8. CASE Makes(q)
  <2>1. \A S \in Listings(pub[q].user) :
          /\ RowsFor(pub[q].user, S).of[t] # 0 => t \in Jobs /\ MaySee(pub[q].user, t)
          /\ t \in RowsFor(pub[q].user, S).cut => RowsFor(pub[q].user, S).of[t] = 0
    BY <1>0, RowsForIs
  <2>2. /\ Overlaid(pub[q].frame).cut = pub[q].frame.cut
        /\ pub[q].frame.of[t] = 0 => Overlaid(pub[q].frame).of[t] = 0
    BY <1>0, OverlaidIs
  <2>3. ASSUME NEW S \in Listings(pub[q].user), pub'[q].frame = RowsFor(pub[q].user, S)
        PROVE  Hides(q, t)'
    BY <1>8, <2>1, <2>3 DEF Makes, Hides, Enters, Val, MaySee
  <2>4. CASE pub'[q].frame = Overlaid(pub[q].frame)
    BY <1>8, <2>2, <2>4 DEF Makes, Hides, Enters, Val, MaySee
  <2> QED
    BY <1>8, <2>3, <2>4 DEF Makes
<1> QED
  BY <1>1, <1>2, <1>3, <1>4, <1>5, <1>6, <1>7, <1>8, PubSteps

LEMMA StepSentTo ==
  ASSUME Typed, [Next]_vars, NEW q \in Pubs, SentTo(q)
  PROVE  SentTo(q)'
<1>0. account' = account \/ Restarts
  <2>1. ASSUME NEW p \in Pubs, Publishes(p) PROVE account' = account
    BY <2>1 DEF Publishes, Appears, Steps, Finishes, Pauses, FlagSaveFails,
       Saves, Leaves, Lists, SendsOn, Sent,
       Clears, MakesSet, rest
  <2>2. ASSUME NEW d \in Clients, ActsOn(d) PROVE account' = account
    BY <2>2, SocketLeaves
  <2> QED
    BY <2>1, <2>2 DEF Next, ActsOn, vars, rest
<1>1. CASE pub'[q].at # "send"
  BY <1>1 DEF SentTo
<1>2. CASE Restarts
  BY <1>1, <1>2, NoPubIs DEF Restarts
<1>3. CASE ~Restarts /\ AsBefore(q)
  BY <1>0, <1>3 DEF AsBefore, SentTo, MaySee
<1>4. CASE ~Restarts /\ GoesOut(q)
  <2>1. /\ pub[q].at = "all" => pub[q].topic = Queue
        /\ pub[q].at \in {"owner", "admins"} => pub[q].topic \in Jobs
        /\ pub[q].at = "user" => pub[q].topic = None
        /\ Queue \notin Jobs /\ None \notin Jobs /\ Queue # None
    BY Stage, FeedAssumption DEF Typed, Listing, Topics
  <2> QED
    BY <1>0, <1>4, <2>1 DEF GoesOut, SentTo, MaySee, Of, ToAdmins
<1>5. CASE ~Restarts /\ \E c \in Clients : SendsTo(q, c)
  BY <1>0, <1>5 DEF SendsTo, SentTo, MaySee
<1> QED
  BY <1>1, <1>2, <1>3, <1>4, <1>5, PubSteps, NoPubIs
     DEF Begins, Asks, Drops, MovesOn, IsSent, Makes

-----------------------------------------------------------------------------
(* What a step does to one socket and its page.                            *)

Rests(c) ==
  /\ conn'[c] = conn[c] /\ buf'[c] = buf[c] /\ shows'[c] = shows[c]
  /\ account'[c] = account[c] /\ wrong[c] \subseteq wrong'[c] /\ beyond'[c] = beyond[c]
  /\ snap'[c].set = snap[c].set /\ snap'[c].of = snap[c].of /\ snap'[c].cut = snap[c].cut
  /\ snap[c].old \subseteq snap'[c].old
  /\ conn[c] \in {"rows", "overlay"} =>
       \A p \in Pubs, t \in Topics :
         Out(p, t) /\ Mentions(snap[c], t) => t \in snap'[c].old
Takes(p, c) ==
  /\ SendsTo(p, c) /\ conn[c] # "off" /\ Sends(c, pub[p].frame)
  /\ conn'[c] = conn[c] /\ shows'[c] = shows[c] /\ snap'[c] = snap[c]
  /\ account'[c] = account[c]

LEMMA RestsIf ==
  ASSUME NEW c \in Clients, UNCHANGED <<conn, buf, shows, account, snap, beyond>>,
         wrong[c] \subseteq wrong'[c],
         \A p \in Pubs : ~Lists(p)
  PROVE  Rests(c)
BY DEF Rests, Out

LEMMA ClientSteps ==
  ASSUME Typed, [Next]_vars, ~Restarts, NEW c \in Clients
  PROVE  Rests(c) \/ (\E p \in Pubs : Takes(p, c)) \/ ActsOn(c)
<1>0. /\ TypeOK /\ pub \in [Pubs -> Publication] /\ snap \in [Clients -> Frame]
      /\ \A q \in Pubs : Formed(pub[q])
  BY TypedIs DEF Typed
<1>1. ASSUME NEW p \in Pubs, Lists(p) PROVE Rests(c)
  <2>1. /\ conn' = conn /\ buf' = buf /\ shows' = shows /\ wrong' = wrong
        /\ account' = account /\ beyond' = beyond
    BY <1>1 DEF Lists, rest
  <2>2. /\ conn[c] \in {"rows", "overlay"} => snap'[c] = Ages(snap[c], pub[p].frame)
        /\ conn[c] \notin {"rows", "overlay"} => snap'[c] = snap[c]
    BY <1>1 DEF Lists
  <2>3. \A r \in Pubs : GoesOut(r) => r = p
    <3>1. pub'[p].at = "send" /\ \A r \in Pubs \ {p} : pub'[r].at = pub[r].at
      BY <1>1, GoesOutIs DEF GoesOut, AsBefore
    <3> QED
      BY <3>1 DEF GoesOut
  <2>4. ASSUME NEW r \in Pubs, NEW t \in Topics, Out(r, t) PROVE Mentions(pub[p].frame, t)
    <3>1. r = p /\ On(p, t)
      BY <2>3, <2>4, GoesOutIs DEF Out, At, On
    <3> QED
      BY <1>0, <3>1, Stage DEF On, Mentions, Single
  <2>5. CASE conn[c] \in {"rows", "overlay"}
    <3>1. /\ Ages(snap[c], pub[p].frame).set = snap[c].set
          /\ Ages(snap[c], pub[p].frame).of = snap[c].of
          /\ Ages(snap[c], pub[p].frame).cut = snap[c].cut
          /\ snap[c].old \subseteq Ages(snap[c], pub[p].frame).old
          /\ \A t \in Topics : Mentions(snap[c], t) /\ Mentions(pub[p].frame, t) =>
               t \in Ages(snap[c], pub[p].frame).old
      BY <1>0, AgesIs
    <3> QED
      BY <2>1, <2>2, <2>4, <2>5, <3>1 DEF Rests
  <2>6. CASE conn[c] \notin {"rows", "overlay"}
    BY <2>1, <2>2, <2>6 DEF Rests
  <2> QED
    BY <2>5, <2>6
<1>2. ASSUME NEW p \in Pubs, Publishes(p), \A r \in Pubs : ~Lists(r)
      PROVE  Rests(c) \/ Takes(p, c)
  <2>1. ASSUME NEW d \in Clients, SendsOn(p, d)
        PROVE  Rests(c) \/ Takes(p, c)
    <3>1. UNCHANGED <<conn, shows, account, snap>>
      BY <2>1 DEF SendsOn, rest
    <3>2. CASE conn[d] = "off"
      BY <1>2, <2>1, <3>1, <3>2, RestsIf DEF SendsOn
    <3>3. CASE conn[d] # "off" /\ d # c
      <4>1. Sends(d, pub[p].frame) /\ pub[p].frame \in Frame
        BY <1>0, <2>1, <3>3 DEF SendsOn, Publication
      <4>2. buf'[c] = buf[c] /\ wrong'[c] = wrong[c] /\ beyond'[c] = beyond[c]
        BY <1>0, <3>3, <4>1, SendsIs
      <4> QED
        BY <1>2, <2>1, <3>1, <4>2 DEF Rests, Out
    <3>4. CASE conn[d] # "off" /\ d = c
      <4>1. SendsTo(p, c)
        BY <1>0, <2>1, <3>4, SendsOnPub DEF SendsTo, SendsOn
      <4> QED
        BY <2>1, <3>1, <3>4, <4>1 DEF Takes, SendsOn
    <3> QED
      BY <3>2, <3>3, <3>4
  <2>2. ASSUME NEW u \in Users, Clears(p, u)
        PROVE  Rests(c)
    <3>1. UNCHANGED <<conn, buf, shows, account, snap, beyond>> /\ wrong[c] \subseteq wrong'[c]
      BY <2>2 DEF Clears, rest
    <3> QED
      BY <1>2, <2>2, <3>1, RestsIf
  <2>3. CASE (\A d \in Clients : ~SendsOn(p, d)) /\ \A u \in Users : ~Clears(p, u)
    <3>1. UNCHANGED <<conn, buf, shows, account, snap, wrong, beyond>>
      BY <1>2, <2>3 DEF Publishes, Appears, Steps, Finishes, Pauses, FlagSaveFails,
         Saves, Leaves, Sent, MakesSet,
         sockets, rest
    <3> QED
      BY <1>2, <3>1, RestsIf
  <2> QED
    BY <1>2, <2>1, <2>2, <2>3
<1>3. ASSUME NEW d \in Clients, ActsOn(d), d # c
      PROVE  Rests(c)
  <2>1. UNCHANGED <<account, pub>>
    BY <1>3, SocketLeaves
  <2>2. conn'[c] = conn[c] /\ buf'[c] = buf[c] /\ shows'[c] = shows[c] /\ wrong'[c] = wrong[c]
        /\ snap'[c] = snap[c] /\ beyond'[c] = beyond[c]
    <3>1. snap[d] \in Frame
      BY <1>0
    <3>2. CASE Joins(d)
      BY <1>0, <1>3, <3>2, JoinsIs
    <3>3. CASE Snaps(d)
      BY <1>0, <1>3, <3>3, SnapsIs
    <3>4. CASE Replays(d)
      BY <1>0, <1>3, <3>1, <3>4, ReplaysIs, SendsIs
    <3>5. CASE Delivers(d)
      BY <1>0, <1>3, <3>5, DeliversIs
    <3>6. CASE Loses(d)
      BY <1>0, <1>3, <3>6, LosesIs
    <3> QED
      BY <1>3, <3>2, <3>3, <3>4, <3>5, <3>6 DEF ActsOn
  <2>3. \A p \in Pubs, t \in Topics : ~Out(p, t)
    BY <2>1 DEF Out, At
  <2> QED
    BY <2>1, <2>2, <2>3 DEF Rests
<1>4. CASE UNCHANGED vars
  <2>1. UNCHANGED <<conn, buf, shows, account, snap, wrong, beyond, pub>>
    BY <1>4 DEF vars, sockets, rest
  <2>2. \A p \in Pubs, t \in Topics : ~Out(p, t)
    BY <2>1 DEF Out, At
  <2> QED
    BY <2>1, <2>2 DEF Rests
<1> QED
  BY <1>1, <1>2, <1>3, <1>4 DEF Next, ActsOn

\* The snapshot in the making: first a list of jobs, then the flag.
SnapIs(c) ==
  /\ conn[c] \in {"rows", "overlay"} => snap[c].set /\ snap[c].of[Queue] = 0
  /\ conn[c] = "paused" =>
       /\ ~snap[c].set /\ snap[c].of[Queue] # 0 /\ Queue \in snap[c].old
       /\ \A j \in Jobs : snap[c].of[j] = 0

LEMMA StepSnapIs ==
  ASSUME Typed, FlagIs, [Next]_vars, NEW c \in Clients, SnapIs(c)
  PROVE  SnapIs(c)'
<1>0. /\ TypeOK /\ row \in [Topics -> Values] /\ live \in [Topics -> Values]
      /\ snap[c] \in Frame /\ Queue \in Topics /\ Queue \notin Jobs /\ live[Queue] \in Values
      /\ Jobs \subseteq Topics /\ live[Queue] # 0
  BY TypedIs, FeedAssumption, Numbers DEF Typed, Topics, FlagIs
<1>1. CASE Restarts
  BY <1>1 DEF Restarts, SnapIs
<1>2. CASE Rests(c)
  BY <1>2 DEF Rests, SnapIs
<1>3. ASSUME NEW p \in Pubs, Takes(p, c) PROVE SnapIs(c)'
  BY <1>3 DEF Takes, SnapIs
<1>4. CASE Joins(c) \/ Delivers(c)
  <2>1. conn'[c] \in {"kept", "joined", "on"}
    BY <1>0, <1>4, JoinsIs, DeliversIs
  <2> QED
    BY <2>1 DEF SnapIs
<1>5. CASE Replays(c) \/ Loses(c)
  <2>1. conn'[c] \in {"joined", "jobs", "on", "off"}
    BY <1>0, <1>5, ReplaysIs, LosesIs
  <2> QED
    BY <2>1 DEF SnapIs
<1>6. CASE Snaps(c)
  <2>1. ASSUME NEW S \in Listings(account[c]),
               conn'[c] = "rows", snap'[c] = RowsFor(account[c], S)
        PROVE  SnapIs(c)'
    <3>1. snap'[c].set /\ snap'[c].of[Queue] = 0
      BY <1>0, <2>1, RowsForIs
    <3> QED
      BY <2>1, <3>1 DEF SnapIs
  <2>2. CASE conn[c] = "rows" /\ conn'[c] = "overlay" /\ snap'[c] = Overlaid(snap[c])
    <3>1. snap'[c].set = snap[c].set /\ (snap[c].of[Queue] = 0 => snap'[c].of[Queue] = 0)
      BY <1>0, <2>2, OverlaidIs
    <3> QED
      BY <2>2, <3>1 DEF SnapIs
  <2>3. CASE conn'[c] = "paused" /\ snap'[c] = One(Queue, live[Queue])
    <3>1. /\ ~snap'[c].set /\ snap'[c].of[Queue] = live[Queue] /\ Queue \in snap'[c].old
          /\ \A s \in Topics \ {Queue} : snap'[c].of[s] = 0
      BY <1>0, <2>3, OneIs
    <3> QED
      BY <1>0, <2>3, <3>1 DEF SnapIs
  <2> QED
    BY <1>0, <1>6, <2>1, <2>2, <2>3, SnapsIs
<1> QED
  BY <1>1, <1>2, <1>3, <1>4, <1>5, <1>6, ClientSteps DEF ActsOn

\* A page is not told of a job its account may not see.
Private(c, t) ==
  t \in Jobs /\ ~MaySee(account[c], t) =>
    /\ shows[c][t] = 0 /\ snap[c].of[t] = 0
    /\ \A n \in 1..Len(buf[c]) : buf[c][n].of[t] = 0

LEMMA NobodysFrame ==
  ASSUME Typed, NEW t \in Topics, NEW p \in Pubs, NEW c \in pub[p].to, pub[p].at = "send",
         SentTo(p), Hides(p, t), t \in Jobs, ~MaySee(account[c], t)
  PROVE  Val(p, t) = 0
<1>1. CASE pub[p].topic = None
  BY <1>1 DEF SentTo, Hides, Enters
<1>2. CASE pub[p].topic # None
  <2>1. Single(pub[p]) /\ pub[p].topic # t
    BY <1>2, Stage DEF SentTo, Typed, Listing
  <2> QED
    BY <2>1 DEF Single, Val
<1> QED
  BY <1>1, <1>2

LEMMA StepPrivate ==
  ASSUME Typed, [Next]_vars, NEW c \in Clients, NEW t \in Topics, Private(c, t),
         \A p \in Pubs : SentTo(p) /\ Hides(p, t)
  PROVE  Private(c, t)'
<1>0. /\ TypeOK /\ row \in [Topics -> Values] /\ live \in [Topics -> Values]
      /\ snap[c] \in Frame /\ Queue \in Topics /\ Queue \notin Jobs /\ live[Queue] \in Values
      /\ last \in Values /\ shows \in [Clients -> [Topics -> Values]]
      /\ buf \in [Clients -> Seq(Frame)] /\ pub \in [Pubs -> Publication]
      /\ Unmade.of[t] = 0 /\ Blank[t] = 0
  <2>1. Unmade.of[t] = 0 /\ Blank[t] = 0
    BY UnmadeIs, BlankIs DEF Blank
  <2> QED
    BY <2>1, TypedIs, FeedAssumption DEF Typed, Topics
<1> SUFFICES ASSUME t \in Jobs, ~MaySee(account'[c], t)
             PROVE  /\ shows'[c][t] = 0 /\ snap'[c].of[t] = 0
                    /\ \A n \in 1..Len(buf'[c]) : buf'[c][n].of[t] = 0
  BY DEF Private, MaySee
<1>1. account'[c] = account[c]
  BY ClientSteps, SocketLeaves DEF Rests, Takes, Restarts
<1>2. /\ shows[c][t] = 0 /\ snap[c].of[t] = 0 /\ buf[c] \in Seq(Frame)
      /\ \A n \in 1..Len(buf[c]) : buf[c][n].of[t] = 0
  BY <1>0, <1>1 DEF Private
<1>3. CASE Restarts
  BY <1>0, <1>2, <1>3 DEF Restarts
<1>4. CASE Rests(c)
  BY <1>2, <1>4 DEF Rests
<1>5. ASSUME NEW m \in Frame, m.of[t] = 0, Sends(c, m)
      PROVE  \A n \in 1..Len(buf'[c]) : buf'[c][n].of[t] = 0
  <2>1. Bare(m) \in Frame /\ Bare(m).of[t] = 0
    BY <1>5, BareIs
  <2>2. buf'[c] = Append(buf[c], Bare(m)) \/ buf'[c] = buf[c]
    BY <1>0, <1>5, SendsIs
  <2>3. \A n \in 1..Len(Append(buf[c], Bare(m))) : Append(buf[c], Bare(m))[n].of[t] = 0
    BY <1>2, <2>1
  <2> QED
    BY <1>2, <2>2, <2>3
<1>6. ASSUME NEW p \in Pubs, Takes(p, c)
      PROVE  /\ shows'[c][t] = 0 /\ snap'[c].of[t] = 0
             /\ \A n \in 1..Len(buf'[c]) : buf'[c][n].of[t] = 0
  <2>1. pub[p].frame \in Frame /\ c \in pub[p].to /\ pub[p].at = "send"
    BY <1>0, <1>6 DEF Publication, Takes, SendsTo
  <2>2. pub[p].frame.of[t] = 0
    BY <1>1, <2>1, NobodysFrame DEF Val
  <2> QED
    BY <1>2, <1>5, <1>6, <2>1, <2>2 DEF Takes
<1>7. CASE Joins(c)
  <2>1. One(Queue, last).of[t] = 0
    BY <1>0, OneIs
  <2>2. snap'[c].of[t] = 0
    BY <1>0, <1>7, <2>1, JoinsIs
  <2>3. shows'[c][t] = 0 /\ buf'[c] = <<>>
    BY <1>0, <1>2, <1>7, JoinsIs
  <2> QED
    BY <2>2, <2>3
<1>8. CASE Snaps(c)
  <2>1. \A S \in Listings(account[c]) : RowsFor(account[c], S).of[t] = 0
    <3>1. ~MaySee(account[c], t)
      BY <1>1
    <3> QED
      BY <1>0, <3>1, RowsForIs
  <2>2. Overlaid(snap[c]).of[t] = 0
    BY <1>0, <1>2, OverlaidIs
  <2>3. One(Queue, live[Queue]).of[t] = 0
    BY <1>0, OneIs
  <2>4. snap'[c].of[t] = 0 /\ UNCHANGED <<buf, shows>>
    BY <1>0, <1>8, <2>1, <2>2, <2>3, SnapsIs
  <2> QED
    BY <1>2, <2>4
<1>9. CASE Replays(c)
  BY <1>0, <1>2, <1>5, <1>9, ReplaysIs
<1>10. CASE Delivers(c)
  <2>1. /\ buf[c] # <<>> /\ Head(buf[c]) = buf[c][1] /\ buf'[c] = Tail(buf[c])
        /\ shows'[c] = Merged(shows[c], Head(buf[c])) /\ snap' = snap
    BY <1>0, <1>10, DeliversIs
  <2>2. Len(buf[c]) \in Nat \ {0} /\ Head(buf[c]).of[t] = 0
    BY <1>2, <2>1
  <2>3. shows'[c][t] = 0
    BY <1>2, <2>1, <2>2 DEF Merged
  <2>4. \A n \in 1..Len(Tail(buf[c])) : Tail(buf[c])[n].of[t] = 0
    BY <1>2, <2>1, <2>2
  <2> QED
    BY <1>2, <2>1, <2>3, <2>4
<1>11. CASE Loses(c)
  BY <1>0, <1>2, <1>11, LosesIs
<1> QED
  BY <1>3, <1>4, <1>6, <1>7, <1>8, <1>9, <1>10, <1>11, ClientSteps DEF ActsOn

\* What a snapshot in the making says, as of the frames of publications.
Placed(c, t) == t \in Jobs /\ MaySee(account[c], t) /\ t \notin snap[c].cut
Snapped(c, t) ==
  /\ conn[c] = "rows" /\ Placed(c, t) =>
       AsRows(snap[c].of[t], t \in snap[c].old, t)
  /\ conn[c] = "overlay" /\ Placed(c, t) =>
       Fresh(snap[c].of[t], t \in snap[c].old, t)
  /\ conn[c] = "paused" /\ t = Queue => Fresh(snap[c].of[t], TRUE, t)

LEMMA SnapGoesOn ==
  ASSUME Typed, Typed', FlagIs, Said, [Next]_vars, ~Restarts, NEW t \in Topics, Kept(t),
         Telling(t)', NEW c \in Clients, SnapIs(c), Snapped(c, t), conn'[c] = conn[c],
         account'[c] = account[c],
         snap'[c].of = snap[c].of, snap'[c].cut = snap[c].cut, snap[c].old \subseteq snap'[c].old,
         conn[c] \in {"rows", "overlay"} =>
           \A p \in Pubs : Out(p, t) /\ Mentions(snap[c], t) => t \in snap'[c].old
  PROVE  Snapped(c, t)'
<1>0. snap[c].of[t] \in Nat /\ Within(snap[c].of[t], t)
  BY Numbers DEF Said, Typed
<1>1. PICK x \in Nat : x = snap[c].of[t]
  BY <1>0
<1>2. PICK o \in BOOLEAN : o <=> t \in snap[c].old
  OBVIOUS
<1>3. PICK n \in BOOLEAN : n <=> t \in snap'[c].old
  OBVIOUS
<1>4. /\ o => n
      /\ conn[c] \in {"rows", "overlay"} /\ t \in Jobs => \A p \in Pubs : Out(p, t) => n
  BY <1>2, <1>3 DEF SnapIs, Mentions
<1> USE DEF Placed
<1>5. CASE conn[c] = "rows" /\ Placed(c, t)
  <2>1. AsRows(x, o, t)
    BY <1>1, <1>2, <1>5 DEF Snapped, AsRows
  <2>2. AsRows(x, n, t)'
    BY <1>4, <1>5, <2>1, AsRowsStays
  <2> QED
    BY <1>1, <1>3, <1>5, <2>2 DEF Snapped, AsRows
<1>6. CASE conn[c] = "overlay" /\ Placed(c, t)
  <2>1. Fresh(x, o, t)
    BY <1>1, <1>2, <1>6 DEF Snapped, Fresh
  <2>2. Fresh(x, n, t)'
    BY <1>0, <1>1, <1>4, <1>6, <2>1, FreshStays
  <2> QED
    BY <1>1, <1>3, <1>6, <2>2 DEF Snapped, Fresh
<1>7. CASE conn[c] = "paused" /\ t = Queue
  <2>1. Fresh(x, TRUE, t)
    BY <1>1, <1>7 DEF Snapped
  <2>2. Fresh(x, TRUE, t)'
    BY <1>0, <1>1, <2>1, FreshStays
  <2> QED
    BY <1>1, <1>7, <2>2 DEF Snapped, Fresh
<1>8. CASE /\ ~(conn[c] \in {"rows", "overlay"} /\ Placed(c, t))
           /\ conn[c] # "paused" \/ t # Queue
  BY <1>8 DEF Snapped, MaySee
<1> QED
  BY <1>5, <1>6, <1>7, <1>8

LEMMA StepSnapped ==
  ASSUME Typed, Typed', FlagIs, Said, [Next]_vars, NEW t \in Topics, Kept(t), Telling(t),
         Telling(t)', NEW c \in Clients, SnapIs(c), Snapped(c, t)
  PROVE  Snapped(c, t)'
<1>0. /\ TypeOK /\ row \in [Topics -> Values] /\ live \in [Topics -> Values]
      /\ snap[c] \in Frame /\ Queue \in Topics /\ Queue \notin Jobs /\ live[Queue] \in Values
      /\ Jobs \subseteq Topics /\ live[Queue] # 0
      /\ snap[c].of[t] \in Nat /\ Within(snap[c].of[t], t)
  BY TypedIs, FeedAssumption, Numbers DEF Typed, Topics, FlagIs, Said
<1>1. conn'[c] \notin {"rows", "overlay", "paused"} => Snapped(c, t)'
  BY DEF Snapped
<1>2. CASE Restarts
  BY <1>1, <1>2 DEF Restarts
<1> SUFFICES ASSUME ~Restarts PROVE Snapped(c, t)'
  BY <1>2
<1>3. CASE Rests(c)
  BY <1>3, SnapGoesOn DEF Rests
<1>4. ASSUME NEW p \in Pubs, Takes(p, c) PROVE Snapped(c, t)'
  <2>1. \A r \in Pubs : ~Out(r, t)
    <3>1. pub[p].at = "send" /\ \A r \in Pubs \ {p} : pub'[r].at = pub[r].at
      BY <1>0, <1>4, SendsOnPub, TypedIs DEF Takes, SendsTo
    <3> QED
      BY <3>1, NoOut
  <2> QED
    BY <1>4, <2>1, SnapGoesOn DEF Takes
<1>5. CASE Joins(c) \/ Delivers(c) \/ Replays(c) \/ Loses(c)
  BY <1>0, <1>1, <1>5, JoinsIs, DeliversIs, ReplaysIs, LosesIs
<1>6. CASE Snaps(c)
  <2>0. /\ account' = account /\ row' = row /\ live' = live
        /\ \A p \in Pubs : ~Out(p, t)
    <3>1. UNCHANGED <<account, row, live, pub>>
      BY <1>6, SocketLeaves DEF ActsOn
    <3> QED
      BY <3>1 DEF Out, At
  <2>1. ASSUME NEW S \in Listings(account[c]),
               conn'[c] = "rows", snap'[c] = RowsFor(account[c], S)
        PROVE  Snapped(c, t)'
    <3>1. Placed(c, t)' => snap'[c].of[t] = row'[t]
      BY <1>0, <2>0, <2>1, RowsForIs DEF Placed, MaySee
    <3> QED
      BY <2>1, <3>1 DEF Snapped, AsRows
  <2>2. CASE conn[c] = "rows" /\ conn'[c] = "overlay" /\ snap'[c] = Overlaid(snap[c])
    <3>1. /\ snap'[c].old = snap[c].old /\ snap'[c].cut = snap[c].cut
          /\ snap'[c].of[t] =
               IF snap[c].of[t] # 0 /\ live[t] # 0 THEN live[t] ELSE snap[c].of[t]
      BY <1>0, <2>2, OverlaidIs
    <3>2. PICK y : y = IF snap[c].of[t] # 0 /\ live[t] # 0 THEN live[t] ELSE snap[c].of[t]
      OBVIOUS
    <3>3. live[t] \in Nat /\ Within(live[t], t)
      BY TopicNumbers, WithinNow
    <3>4. y \in Nat /\ Within(y, t)
      BY <1>0, <3>2, <3>3
    <3>5. PICK o \in BOOLEAN : o <=> t \in snap[c].old
      OBVIOUS
    <3>6. CASE Placed(c, t)
      <4>1. AsRows(snap[c].of[t], o, t)
        BY <2>2, <3>5, <3>6 DEF Snapped, AsRows
      <4>2. Fresh(y, o, t)
        BY <1>0, <3>2, <4>1, OverlayFresh
      <4>3. Fresh(y, o, t)'
        BY <2>0, <3>4, <4>2, FreshStays
      <4> QED
        BY <2>2, <3>1, <3>2, <3>5, <4>3 DEF Snapped, Fresh
    <3> QED
      BY <2>0, <2>2, <3>1, <3>6 DEF Snapped, Placed, MaySee
  <2>3. CASE conn'[c] = "paused" /\ snap'[c] = One(Queue, live[Queue])
    <3>1. snap'[c].of[Queue] = live[Queue]
      BY <1>0, <2>3, OneIs
    <3> QED
      BY <1>0, <2>0, <2>3, <3>1 DEF Snapped, Fresh, State
  <2> QED
    BY <1>0, <1>6, <2>1, <2>2, <2>3, SnapsIs
<1> QED
  BY <1>3, <1>4, <1>5, <1>6, ClientSteps DEF ActsOn

-----------------------------------------------------------------------------
(* What a page will show of a topic: what the last frame in its buffer     *)
(* that mentions the topic says, or else what it shows now.                *)

Ends(b, s, t, x) ==
  \/ \E n \in 1..Len(b) : /\ Mentions(b[n], t) /\ b[n].of[t] = x
                          /\ \A m \in n + 1..Len(b) : ~Mentions(b[m], t)
  \/ (\A n \in 1..Len(b) : ~Mentions(b[n], t)) /\ s[t] = x

LEMMA EndsAppend ==
  ASSUME NEW b \in Seq(Frame), NEW m \in Frame, NEW s, NEW t, NEW x
  PROVE  /\ Mentions(m, t) /\ m.of[t] = x => Ends(Append(b, m), s, t, x)
         /\ ~Mentions(m, t) /\ Ends(b, s, t, x) => Ends(Append(b, m), s, t, x)
<1> DEFINE a == Append(b, m)
<1>1. /\ Len(b) \in Nat /\ Len(a) = Len(b) + 1 /\ a[Len(b) + 1] = m
      /\ \A n \in 1..Len(b) : a[n] = b[n]
  OBVIOUS
<1> HIDE DEF a
<1>2. ASSUME Mentions(m, t), m.of[t] = x PROVE Ends(a, s, t, x)
  <2>1. Len(b) + 1 \in 1..Len(a) /\ \A k \in Len(b) + 2..Len(a) : FALSE
    BY <1>1
  <2> QED
    BY <1>1, <1>2, <2>1 DEF Ends
<1>3. ASSUME ~Mentions(m, t), Ends(b, s, t, x) PROVE Ends(a, s, t, x)
  <2>1. ASSUME NEW n \in 1..Len(b), Mentions(b[n], t), b[n].of[t] = x,
               \A k \in n + 1..Len(b) : ~Mentions(b[k], t)
        PROVE  Ends(a, s, t, x)
    <3>1. n \in 1..Len(a) /\ Mentions(a[n], t) /\ a[n].of[t] = x
      BY <1>1, <2>1
    <3>2. ASSUME NEW k \in n + 1..Len(a) PROVE ~Mentions(a[k], t)
      <4>1. k \in n + 1..Len(b) \/ k = Len(b) + 1
        BY <1>1
      <4> QED
        BY <1>1, <1>3, <2>1, <4>1
    <3> QED
      BY <3>1, <3>2 DEF Ends
  <2>2. ASSUME \A n \in 1..Len(b) : ~Mentions(b[n], t), s[t] = x
        PROVE  Ends(a, s, t, x)
    <3>1. ASSUME NEW n \in 1..Len(a) PROVE ~Mentions(a[n], t)
      <4>1. n \in 1..Len(b) \/ n = Len(b) + 1
        BY <1>1
      <4> QED
        BY <1>1, <1>3, <2>2, <4>1
    <3> QED
      BY <2>2, <3>1 DEF Ends
  <2> QED
    BY <1>3, <2>1, <2>2 DEF Ends
<1> QED
  BY <1>2, <1>3 DEF a

LEMMA EndsTail ==
  ASSUME NEW b \in Seq(Frame), b # <<>>, NEW s, NEW t \in Topics, NEW x, Ends(b, s, t, x)
  PROVE  Ends(Tail(b), Merged(s, Head(b)), t, x)
<1> DEFINE a == Tail(b)
           f == Merged(s, Head(b))
<1>1. /\ Len(b) \in Nat \ {0} /\ Len(a) = Len(b) - 1 /\ Head(b) = b[1]
      /\ \A n \in 1..Len(a) : a[n] = b[n + 1]
  OBVIOUS
<1>2. f[t] = IF Mentions(b[1], t) THEN b[1].of[t] ELSE s[t]
  BY <1>1 DEF Merged
<1> HIDE DEF a, f
<1>3. ASSUME NEW n \in 1..Len(b), Mentions(b[n], t), b[n].of[t] = x,
             \A k \in n + 1..Len(b) : ~Mentions(b[k], t)
      PROVE  Ends(a, f, t, x)
  <2>1. CASE n = 1
    <3>1. ASSUME NEW k \in 1..Len(a) PROVE ~Mentions(a[k], t)
      <4>1. k + 1 \in n + 1..Len(b) /\ a[k] = b[k + 1]
        BY <1>1, <2>1
      <4> QED
        BY <1>3, <4>1
    <3> QED
      BY <1>2, <1>3, <2>1, <3>1 DEF Ends
  <2>2. CASE n # 1
    <3>1. n - 1 \in 1..Len(a) /\ a[n - 1] = b[n]
      BY <1>1, <2>2
    <3>2. ASSUME NEW k \in (n - 1) + 1..Len(a) PROVE ~Mentions(a[k], t)
      <4>1. k + 1 \in n + 1..Len(b) /\ a[k] = b[k + 1]
        BY <1>1, <2>2
      <4> QED
        BY <1>3, <4>1
    <3> QED
      BY <1>3, <3>1, <3>2 DEF Ends
  <2> QED
    BY <2>1, <2>2
<1>4. ASSUME \A n \in 1..Len(b) : ~Mentions(b[n], t), s[t] = x
      PROVE  Ends(a, f, t, x)
  <2>1. ~Mentions(b[1], t)
    BY <1>1, <1>4
  <2>2. ASSUME NEW k \in 1..Len(a) PROVE ~Mentions(a[k], t)
    <3>1. k + 1 \in 1..Len(b) /\ a[k] = b[k + 1]
      BY <1>1
    <3> QED
      BY <1>4, <3>1
  <2> QED
    BY <1>2, <1>4, <2>1, <2>2 DEF Ends
<1>5. Ends(a, f, t, x)
  BY <1>3, <1>4 DEF Ends
<1> QED
  BY <1>5 DEF a, f

\* A frame sent to a page: a topic it mentions is behind, or told as it is,
\* or about to be told again; the others stay as they were.
LEMMA SendsEnds ==
  ASSUME Typed, NEW c \in Clients, NEW m \in Frame, Sends(c, m), NEW t \in Topics,
         t \notin wrong'[c], t \notin beyond'[c]
  PROVE  /\ t \notin m.cut
         /\ Mentions(m, t) /\ t \notin loose /\ Fresh(m.of[t], t \in m.old, t) =>
              Unlisted(t) \/ Ends(buf'[c], shows[c], t, State(t))
         /\ ~Mentions(m, t) =>
              /\ t \notin wrong[c] /\ t \notin beyond[c]
              /\ Ends(buf[c], shows[c], t, State(t)) => Ends(buf'[c], shows[c], t, State(t))
<1>0. /\ TypeOK /\ buf[c] \in Seq(Frame) /\ Bare(m) \in Frame /\ Bare(m).of = m.of
      /\ Mentions(Bare(m), t) <=> Mentions(m, t)
  BY TypedIs, BareIs DEF Typed
<1>1. /\ buf'[c] = IF HasRoom(buf[c]) THEN Append(buf[c], Bare(m)) ELSE buf[c]
      /\ t \notin Behind(buf[c], m) /\ ~(t \in wrong[c] /\ ~Mentions(m, t))
      /\ t \notin m.cut /\ ~(t \in beyond[c] /\ ~Mentions(m, t))
  BY <1>0, SendsIs
<1>2. ASSUME Mentions(m, t), t \notin loose, Fresh(m.of[t], t \in m.old, t)
      PROVE  Unlisted(t) \/ Ends(buf'[c], shows[c], t, State(t))
  <2>1. /\ HasRoom(buf[c]) /\ ~(t \in m.old /\ m.of[t] < told[t])
        /\ ~(m.of[t] # 0 /\ NoLonger(t))
    BY <1>1, <1>2 DEF Behind
  <2>2. Unlisted(t) \/ m.of[t] = State(t)
    BY <1>2, <2>1 DEF Fresh
  <2>3. m.of[t] = State(t) => Ends(Append(buf[c], Bare(m)), shows[c], t, State(t))
    BY <1>0, <1>2, EndsAppend
  <2> QED
    BY <1>1, <2>1, <2>2, <2>3
<1>3. ASSUME ~Mentions(m, t)
      PROVE  /\ t \notin wrong[c] /\ t \notin beyond[c]
             /\ Ends(buf[c], shows[c], t, State(t)) => Ends(buf'[c], shows[c], t, State(t))
  BY <1>0, <1>1, <1>3, EndsAppend
<1> QED
  BY <1>1, <1>2, <1>3

-----------------------------------------------------------------------------
(* Every page that has had its snapshot is on the way to how things are.   *)

Settled(c, t) == conn[c] = "on" \/ (t \in Jobs /\ conn[c] \in {"jobs", "paused"})
\* Something about the topic is still to be sent to the page: to its socket,
\* to the admins after the owner, or in a list its account has asked for.
ToSend(p, c, t) == pub[p].at = "send" /\ c \in pub[p].to /\ Mentions(pub[p].frame, t)
ToTellAdmins(p, c, t) ==
  /\ On(p, t) /\ t \in Jobs /\ account[c] \in Admins
  /\ pub[p].at = "admins" \/ (pub[p].at = "send" /\ pub[p].next = "admins")
ToList(p, c, t) ==
  pub[p].at \in {"rows", "overlay", "user"} /\ pub[p].user = account[c] /\ t \in Jobs
Awaits(c, t) ==
  Unlisted(t) \/ \E p \in Pubs : ToSend(p, c, t) \/ ToTellAdmins(p, c, t) \/ ToList(p, c, t)
Right(c, t) ==
  /\ t \notin wrong[c] /\ t \notin beyond[c] /\ t \notin loose /\ Settled(c, t)
  /\ t \in Jobs => MaySee(account[c], t)
  => Awaits(c, t) \/ Ends(buf[c], shows[c], t, State(t))

LEMMA TakesIf ==
  ASSUME Typed, [Next]_vars, ~Restarts, NEW c \in Clients, NEW p \in Pubs, SendsTo(p, c),
         conn[c] # "off"
  PROVE  Takes(p, c)
BY DEF Takes, SendsTo, SendsOn, rest

\* While nothing is done to the topic, what is to be sent stays so, until it
\* is sent.
LEMMA AwaitsStays ==
  ASSUME Typed, [Next]_vars, ~Restarts, NEW c \in Clients, NEW t \in Topics, Calm(t),
         conn[c] # "off", account'[c] = account[c], Awaits(c, t),
         \A p \in Pubs : ~(Takes(p, c) /\ Mentions(pub[p].frame, t))
  PROVE  Awaits(c, t)'
<1>1. CASE Unlisted(t)
  BY <1>1, UnlistedStays DEF Calm, Awaits
<1>2. ASSUME NEW p \in Pubs, ToSend(p, c, t) PROVE Awaits(c, t)'
  <2>1. CASE AsBefore(p)
    BY <1>2, <2>1 DEF AsBefore, ToSend, Mentions, Awaits
  <2>2. ASSUME NEW d \in Clients, SendsTo(p, d) PROVE Awaits(c, t)'
    <3>1. d # c
      BY <1>2, <2>2, TakesIf DEF ToSend
    <3> QED
      BY <1>2, <2>2, <3>1 DEF SendsTo, ToSend, Mentions, Awaits
  <2> QED
    BY <1>2, <2>1, <2>2, PubSteps, NoPubIs
       DEF ToSend, Begins, Asks, Drops, MovesOn, GoesOut, IsSent, Makes
<1>3. ASSUME NEW p \in Pubs, ToTellAdmins(p, c, t) PROVE Awaits(c, t)'
  <2>1. Single(pub[p]) /\ Mentions(pub[p].frame, t)
    <3>1. Single(pub[p])
      BY <1>3, Stage DEF ToTellAdmins, On, Typed
    <3> QED
      BY <1>3, <3>1 DEF ToTellAdmins, On, Single, Mentions
  <2>2. CASE AsBefore(p)
    BY <1>3, <2>2 DEF AsBefore, ToTellAdmins, On, Awaits
  <2>3. CASE GoesOut(p)
    <3>1. pub'[p].at = "send" /\ c \in pub'[p].to /\ pub'[p].frame = pub[p].frame
      BY <1>3, <2>3 DEF GoesOut, ToTellAdmins, ToAdmins, Joined
    <3> QED
      BY <2>1, <3>1 DEF ToSend, Mentions, Awaits
  <2>4. ASSUME NEW d \in Clients, SendsTo(p, d) PROVE Awaits(c, t)'
    BY <1>3, <2>4 DEF SendsTo, ToTellAdmins, On, Awaits
  <2>5. CASE IsSent(p)
    BY <1>3, <2>5 DEF IsSent, ToTellAdmins, On, Awaits
  <2> QED
    BY <1>3, <2>2, <2>3, <2>4, <2>5, PubSteps, NoPubIs
       DEF ToTellAdmins, Begins, Asks, Drops, MovesOn, Makes
<1>4. ASSUME NEW p \in Pubs, ToList(p, c, t) PROVE Awaits(c, t)'
  <2>1. Listing(pub[p])
    BY <1>4, Stage DEF ToList, Typed
  <2>2. CASE AsBefore(p)
    BY <1>4, <2>2 DEF AsBefore, ToList, Awaits
  <2>3. CASE GoesOut(p)
    <3>1. pub'[p].at = "send" /\ c \in pub'[p].to /\ pub'[p].frame = pub[p].frame
      BY <1>4, <2>3 DEF GoesOut, ToList, Of, Joined
    <3> QED
      BY <1>4, <2>1, <3>1 DEF Listing, ToList, ToSend, Mentions, Awaits
  <2>4. CASE Makes(p)
    BY <1>4, <2>4 DEF Makes, ToList, Awaits
  <2> QED
    BY <1>4, <2>2, <2>3, <2>4, PubSteps, NoPubIs
       DEF ToList, Begins, Asks, Drops, MovesOn, SendsTo, IsSent
<1> QED
  BY <1>1, <1>2, <1>3, <1>4 DEF Awaits

\* Only a caller who clears a list takes a row away.
LEMMA ClearedBy ==
  ASSUME Typed, [Next]_vars, ~Restarts, NEW t \in Topics, Cleared(t)
  PROVE  \E p \in Pubs, u \in Users : Clears(p, u) /\ t \in Finished(u)
<1>0. /\ pub \in [Pubs -> Publication] /\ row \in [Topics -> Values]
      /\ row'[t] # row[t]
  BY TypedIs DEF Typed, Cleared
<1>1. row' # row
  BY <1>0
<1>2. PICK p \in Pubs : Publishes(p)
  BY <1>1, SocketLeaves DEF Next, ActsOn, vars, manager
<1>3. ~Saves(p)
  <2>1. Saves(p) => At(p, t, "save")
    <3> SUFFICES ASSUME Saves(p) PROVE pub[p].topic = t
      BY DEF Saves, At
    <3> QED
      BY <1>0 DEF Saves
  <2> QED
    BY <2>1 DEF Cleared
<1>4. PICK u \in Users : Clears(p, u)
  BY <1>1, <1>2, <1>3 DEF Publishes, Appears, Steps, Finishes, Pauses, FlagSaveFails, Leaves,
     Lists, SendsOn, Sent, MakesSet, manager
<1> QED
  BY <1>0, <1>4 DEF Clears

LEMMA SendsRight ==
  ASSUME Typed, NEW t \in Topics, NEW p \in Pubs, NEW c \in Clients, Takes(p, c),
         t \in Jobs => MaySee(account[c], t),
         SentTo(p), Framed(p, t), t \notin loose, t \notin wrong'[c], t \notin beyond'[c],
         Mentions(pub[p].frame, t)
  PROVE  Unlisted(t) \/ Ends(buf'[c], shows[c], t, State(t))
<1>1. pub[p].frame \in Frame /\ Formed(pub[p]) /\ pub[p].at = "send" /\ c \in pub[p].to
      /\ Sends(c, pub[p].frame)
  BY TypedIs DEF Typed, Publication, Takes, SendsTo
<1>2. Carries(p, t)
  <2>0. t \notin pub[p].frame.cut
    BY <1>1, SendsEnds
  <2>1. CASE Single(pub[p])
    BY <1>1, <2>1 DEF Single, Mentions, Carries, On
  <2>2. CASE Listing(pub[p])
    BY <1>1, <2>0, <2>2 DEF Listing, Mentions, SentTo, Carries, Enters
  <2> QED
    BY <1>1, <2>1, <2>2, Stage
<1>3. Fresh(pub[p].frame.of[t], t \in pub[p].frame.old, t)
  BY <1>2 DEF Framed, Val, Old, Fresh
<1> QED
  BY <1>1, <1>3, SendsEnds

LEMMA StepRight ==
  ASSUME Typed, FlagIs, [Next]_vars, NEW t \in Topics, NEW c \in Clients, Kept(t),
         SnapIs(c), Snapped(c, t), Right(c, t), \A p \in Pubs : SentTo(p) /\ Framed(p, t)
  PROVE  Right(c, t)'
<1> SUFFICES ASSUME t \notin wrong'[c], t \notin beyond'[c], t \notin loose', Settled(c, t)',
                    t \in Jobs => MaySee(account'[c], t)
             PROVE  Awaits(c, t)' \/ Ends(buf'[c], shows'[c], t, State(t)')
  BY DEF Right, MaySee
<1>0. /\ TypeOK /\ snap[c] \in Frame /\ buf[c] \in Seq(Frame)
      /\ t = Queue <=> t \notin Jobs
  BY TypedIs, FeedAssumption DEF Typed, Topics
<1>1. ~Restarts
  BY DEF Restarts, Settled
<1>2. account'[c] = account[c]
  BY <1>1, ClientSteps, SocketLeaves DEF Rests, Takes
<1>3. t \in Jobs => MaySee(account[c], t)
  BY <1>2
<1>4. conn[c] # "off" /\ ~Joins(c) /\ ~Loses(c)
  <2>1. ~Joins(c) /\ ~Loses(c)
    BY <1>0, JoinsIs, LosesIs DEF Settled
  <2>2. Rests(c) => conn[c] # "off"
    BY DEF Rests, Settled
  <2>3. Snaps(c) \/ Replays(c) \/ Delivers(c) => conn[c] # "off"
    BY DEF Snaps, Replays, Delivers
  <2> QED
    BY <1>1, <2>1, <2>2, <2>3, ClientSteps DEF Takes, ActsOn
<1>5. ASSUME NEW p \in Pubs, Came(p, t) \/ Changed(p, t) \/ Saved(p, t) \/ Left(p, t)
      PROVE  Awaits(c, t)'
  BY <1>5, UnlistedStays DEF Awaits
<1>6. ~Hurried(t)
  BY DEF Hurried
<1>7. CASE Cleared(t)
  <2>1. PICK p \in Pubs, u \in Users : Clears(p, u) /\ t \in Finished(u)
    BY <1>1, <1>7, ClearedBy
  <2>2. account[c] = u
    BY <1>4, <2>1 DEF Clears
  <2>3. pub'[p].at = "rows" /\ pub'[p].user = u /\ t \in Jobs
    BY <1>0, <2>1, ClearsPub, TypedIs DEF Finished
  <2>4. ToList(p, c, t)'
    BY <1>2, <2>2, <2>3 DEF ToList
  <2> QED
    BY <2>4 DEF Awaits
<1>8. ASSUME NEW p \in Pubs, Out(p, t) PROVE Awaits(c, t)'
  <2>1. /\ Lists(p) /\ GoesOut(p) /\ On(p, t) /\ Single(pub[p])
        /\ At(p, t, "all") \/ At(p, t, "owner")
    BY <1>8, GoesOutIs, Stage DEF Out, At, On, Typed
  <2>2. Mentions(pub'[p].frame, t) /\ On(p, t)' /\ pub'[p].at = "send"
    BY <2>1 DEF GoesOut, On, Single, Mentions
  <2>3. CASE pub[p].at = "all" \/ (pub[p].at = "owner" /\ account[c] = Owner[t])
    <3>1. c \in pub'[p].to
      BY <1>4, <2>1, <2>3 DEF GoesOut, Joined, Of, On
    <3> QED
      BY <2>2, <3>1 DEF ToSend, Awaits
  <2>4. CASE pub[p].at = "owner" /\ account[c] # Owner[t]
    <3>1. t \in Jobs
      BY <2>1, <2>4, Stage DEF Typed, On
    <3>2. account[c] \in Admins
      BY <1>3, <2>4, <3>1 DEF MaySee
    <3>3. pub'[p].next = "admins"
      BY <2>1, <2>4 DEF GoesOut
    <3>4. ToTellAdmins(p, c, t)'
      BY <1>2, <2>2, <3>1, <3>2, <3>3 DEF ToTellAdmins
    <3> QED
      BY <3>4 DEF Awaits
  <2> QED
    BY <2>1, <2>3, <2>4 DEF At
<1>9. CASE Calm(t)
  <2>1. State(t)' = State(t) /\ t \notin loose /\ (Unlisted(t) => Awaits(c, t)')
    BY <1>9, UnlistedStays DEF Calm, Still, State, Awaits
  <2>2. ASSUME NEW p \in Pubs, Takes(p, c), Mentions(pub[p].frame, t)
        PROVE  Awaits(c, t)' \/ Ends(buf'[c], shows'[c], t, State(t)')
    BY <1>3, <2>1, <2>2, SendsRight DEF Takes
  <2>3. CASE \A p \in Pubs : ~(Takes(p, c) /\ Mentions(pub[p].frame, t))
    <3>1. Awaits(c, t) => Awaits(c, t)'
      BY <1>1, <1>2, <1>4, <1>9, <2>3, AwaitsStays
    <3>2. ASSUME t \notin wrong[c], t \notin beyond[c], Settled(c, t)
          PROVE  Awaits(c, t)' \/ Ends(buf[c], shows[c], t, State(t))
      BY <1>3, <2>1, <3>1, <3>2 DEF Right
    <3>3. CASE Rests(c)
      BY <2>1, <3>2, <3>3 DEF Rests, Settled
    <3>4. ASSUME NEW p \in Pubs, Takes(p, c)
          PROVE  Awaits(c, t)' \/ Ends(buf'[c], shows'[c], t, State(t)')
      <4>1. /\ ~Mentions(pub[p].frame, t) /\ pub[p].frame \in Frame /\ Sends(c, pub[p].frame)
            /\ Settled(c, t) /\ shows'[c] = shows[c]
        BY <2>3, <3>4, TypedIs DEF Takes, Typed, Publication, Settled
      <4>2. /\ t \notin wrong[c] /\ t \notin beyond[c]
            /\ Ends(buf[c], shows[c], t, State(t)) => Ends(buf'[c], shows[c], t, State(t))
        BY <4>1, SendsEnds
      <4> QED
        BY <2>1, <3>2, <4>1, <4>2
    <3>5. CASE Snaps(c)
      <4>1. Settled(c, t) /\ UNCHANGED <<buf, shows, wrong, beyond>>
        BY <1>0, <3>5, SnapsIs DEF Settled
      <4> QED
        BY <2>1, <3>2, <4>1
    <3>6. CASE Replays(c)
      <4>0. /\ Sends(c, snap[c]) /\ shows' = shows
            /\ \/ conn[c] = "overlay" /\ conn'[c] = "jobs"
               \/ conn[c] = "paused" /\ conn'[c] = "on"
            /\ t \notin snap[c].cut
        BY <1>0, <3>6, ReplaysIs, SendsEnds DEF Settled
      <4>1. CASE Mentions(snap[c], t)
        <5>1. Fresh(snap[c].of[t], t \in snap[c].old, t)
          BY <1>0, <1>3, <4>0, <4>1 DEF Settled, SnapIs, Snapped, Placed, Mentions, Fresh
        <5> QED
          BY <1>0, <2>1, <4>0, <4>1, <5>1, SendsEnds
      <4>2. CASE ~Mentions(snap[c], t)
        <5>1. Settled(c, t)
          BY <1>0, <4>0, <4>2 DEF Settled, SnapIs, Mentions
        <5>2. /\ t \notin wrong[c] /\ t \notin beyond[c]
              /\ Ends(buf[c], shows[c], t, State(t)) => Ends(buf'[c], shows[c], t, State(t))
          BY <1>0, <4>0, <4>2, SendsEnds
        <5> QED
          BY <2>1, <3>2, <4>0, <5>1, <5>2
      <4> QED
        BY <4>1, <4>2
    <3>7. CASE Delivers(c)
      <4>1. /\ buf[c] # <<>> /\ buf'[c] = Tail(buf[c]) /\ UNCHANGED <<conn, wrong, beyond>>
            /\ shows'[c] = Merged(shows[c], Head(buf[c]))
        BY <1>0, <3>7, DeliversIs
      <4>2. Ends(buf[c], shows[c], t, State(t)) => Ends(buf'[c], shows'[c], t, State(t))
        BY <1>0, <4>1, EndsTail
      <4> QED
        BY <2>1, <3>2, <4>1, <4>2 DEF Settled
    <3> QED
      BY <1>1, <1>4, <3>3, <3>4, <3>5, <3>6, <3>7, ClientSteps DEF ActsOn
  <2> QED
    BY <2>2, <2>3
<1>10. \A p \in Pubs : ~Dropped(p, t)
  BY DEF Dropped
<1> QED
  BY <1>1, <1>5, <1>6, <1>7, <1>8, <1>9, <1>10, TopicSteps DEF Told

-----------------------------------------------------------------------------
(* The inductive invariant, and what follows from it.                      *)

Telltale(t) ==
  Kept(t) /\ Telling(t) /\ \A q \in Pubs : Framed(q, t) /\ Hides(q, t)
Paged(c) ==
  SnapIs(c) /\ \A t \in Topics : Private(c, t) /\ Snapped(c, t) /\ Right(c, t)
FeedInv ==
  /\ Typed /\ FlagIs /\ Said
  /\ \A t \in Topics : Telltale(t)
  /\ \A q \in Pubs : SentTo(q)
  /\ \A c \in Clients : Paged(c)

LEMMA InitFeedInv == Init => FeedInv
<1> SUFFICES ASSUME Init PROVE FeedInv
  OBVIOUS
<1>1. \A q \in Pubs : SentTo(q)
  BY NoPubIs DEF Init, SentTo
<1>2. ASSUME NEW c \in Clients PROVE Paged(c)
  <2>1. conn[c] = "off" /\ shows[c] = Blank /\ snap[c] = Unmade /\ buf[c] = <<>>
    BY DEF Init
  <2>2. ASSUME NEW t \in Topics PROVE Private(c, t)
    <3>1. Blank[t] = 0 /\ Unmade.of[t] = 0
      BY UnmadeIs, BlankIs DEF Blank
    <3> QED
      BY <2>1, <3>1 DEF Private
  <2> QED
    BY <2>1, <2>2 DEF Paged, SnapIs, Snapped, Right, Settled
<1> QED
  BY <1>1, <1>2, InitTyped, InitFlag, InitSaid, InitKept, InitTelling DEF FeedInv, Telltale

LEMMA StepFeedInv == FeedInv /\ [Next]_vars => FeedInv'
<1> SUFFICES ASSUME FeedInv, [Next]_vars PROVE FeedInv'
  OBVIOUS
<1>1. /\ Typed /\ FlagIs /\ Said
      /\ \A t \in Topics : /\ Kept(t) /\ Telling(t)
                           /\ \A q \in Pubs : Framed(q, t) /\ Hides(q, t)
      /\ \A q \in Pubs : SentTo(q)
      /\ \A c \in Clients : /\ SnapIs(c)
                            /\ \A t \in Topics : Private(c, t) /\ Snapped(c, t) /\ Right(c, t)
  BY DEF FeedInv, Telltale, Paged
<1>2. Typed' /\ FlagIs'
  BY <1>1, StepTyped, StepFlag
<1>3. \A t \in Topics : Kept(t)'
  BY <1>1, <1>2, StepKept
<1>4. Said'
  BY <1>1, <1>2, <1>3, StepSaid
<1>5. \A t \in Topics : Telling(t)'
  BY <1>1, <1>2, StepTelling
<1>6. \A t \in Topics : Telltale(t)'
  <2> SUFFICES ASSUME NEW t \in Topics PROVE Telltale(t)'
    OBVIOUS
  <2>1. ASSUME NEW q \in Pubs PROVE Framed(q, t)' /\ Hides(q, t)'
    BY <1>1, <1>2, <1>4, <1>5, StepFramed, StepHides
  <2> QED
    BY <1>3, <1>5, <2>1 DEF Telltale
<1>7. \A q \in Pubs : SentTo(q)'
  BY <1>1, StepSentTo
<1>8. ASSUME NEW c \in Clients PROVE Paged(c)'
  <2>1. SnapIs(c)'
    BY <1>1, StepSnapIs
  <2>2. ASSUME NEW t \in Topics PROVE Private(c, t)' /\ Snapped(c, t)' /\ Right(c, t)'
    <3>1. Private(c, t)'
      BY <1>1, StepPrivate
    <3>2. Snapped(c, t)'
      BY <1>1, <1>2, <1>5, StepSnapped
    <3>3. Right(c, t)'
      BY <1>1, StepRight
    <3> QED
      BY <3>1, <3>2, <3>3
  <2> QED
    BY <2>1, <2>2 DEF Paged
<1> QED
  BY <1>2, <1>4, <1>6, <1>7, <1>8 DEF FeedInv

LEMMA PageIsTrue == FeedInv => QuietPageIsTrue
<1> SUFFICES ASSUME FeedInv, Quiet, NEW c \in Clients, conn[c] = "on", buf[c] = <<>>,
                    NEW t \in Topics, t \notin wrong[c], t \notin beyond[c], t \notin loose
             PROVE  shows[c][t] = Truth(c)[t]
  BY DEF QuietPageIsTrue, UpToDate
<1>1. Truth(c)[t] = IF t \in Jobs /\ ~MaySee(account[c], t) THEN 0 ELSE State(t)
  BY DEF Truth, State
<1>2. CASE t \in Jobs /\ ~MaySee(account[c], t)
  BY <1>1, <1>2 DEF FeedInv, Paged, Private
<1>3. CASE t \in Jobs => MaySee(account[c], t)
  <2>1. ~Awaits(c, t)
    BY NoPubIs
       DEF Quiet, Awaits, Unlisted, ToSend, ToTellAdmins, ToList, Early
  <2>2. Ends(buf[c], shows[c], t, State(t))
    BY <1>3, <2>1 DEF FeedInv, Paged, Right, Settled
  <2>3. shows[c][t] = State(t)
    <3>1. Len(buf[c]) = 0
      OBVIOUS
    <3> QED
      BY <2>2, <3>1 DEF Ends
  <2> QED
    BY <1>1, <1>3, <2>3
<1> QED
  BY <1>2, <1>3

\* Once nothing is under way a connected page shows how things stand: every
\* change was in the snapshot its socket was handed or has been sent to it
\* since (handleWS, replayJobs and JobSnapshot; publish and the broadcasts),
\* but for the topics that wrong, beyond and loose keep the account of; beyond
\* has the older jobs that its last set had no place for.
THEOREM QuietPagesAreTrue == Spec => []QuietPageIsTrue
<1> QED
  BY InitFeedInv, StepFeedInv, PageIsTrue, PTL DEF Spec

\* A page is never told of a job its account may not see: not in its snapshot,
\* not by a broadcast, not from the frame the hub keeps for whoever connects
\* next ("handed verbatim to whoever connects next", ws.go:25-26).
NobodyElsesJobs ==
  \A c \in Clients, j \in Jobs : ~MaySee(account[c], j) =>
    shows[c][j] = 0 /\ \A n \in 1..Len(buf[c]) : buf[c][n].of[j] = 0
THEOREM PagesAreTheirOwn == Spec => []NobodyElsesJobs
<1>1. FeedInv => NobodyElsesJobs
  BY DEF FeedInv, Paged, Private, NobodyElsesJobs, Topics
<1> QED
  BY <1>1, InitFeedInv, StepFeedInv, PTL DEF Spec
=============================================================================
