------------------------- MODULE ProgressSyncProofs -------------------------
(***************************************************************************)
(* Invariants of ProgressSync, for every set of devices, comics and        *)
(* requests, every difference of clocks and every fault: its types, and    *)
(* which position the server ends with.                                    *)
(***************************************************************************)
EXTENDS ProgressSync, TLAPS, SequenceTheorems, FiniteSetTheorems

-----------------------------------------------------------------------------
(* Types.  That a replay which waits has a row in hand needs that no two   *)
(* requests are answers to one replay.                                     *)

ReqOK(r) == r \in ReqType /\ UnderWay(r) /\ Writing(r)
ForReplay(r) == r.heard /\ r.pc # "free" /\ r.from = "replay"

ReplayOK ==
  /\ \A d \in Devices : replay[d].pc = "wait" => replay[d].todo # <<>>
  /\ \A s \in Slots : ForReplay(req[s]) => replay[req[s].dev].pc = "wait"
  /\ \A s, t \in Slots :
       ForReplay(req[s]) /\ ForReplay(req[t]) /\ req[s].dev = req[t].dev => s = t

PInv == TypeOK /\ ReplayOK

\* What one slot becomes.
LEMMA FreeOK == ReqOK(Free) /\ ~ForReplay(Free) /\ Free.pc = "free"
BY DEF ReqOK, ReqType, UnderWay, Writing, Free, PCs, ForReplay

LEMMA SentOK ==
  ASSUME NEW d \in Devices, NEW from \in {"save", "leave", "replay"}, NEW c \in Comics,
         NEW body \in Body
  PROVE  /\ ReqOK(Sent(d, from, c, body))
         /\ Sent(d, from, c, body).pc = "sent" /\ Sent(d, from, c, body).heard
         /\ Sent(d, from, c, body).from = from /\ Sent(d, from, c, body).dev = d
         /\ Sent(d, from, c, body).c = c /\ Sent(d, from, c, body).body = body
<1>1. Sent(d, from, c, body) \in ReqType
  BY DEF Sent, ReqType, PCs
<1>. QED
  BY <1>1 DEF Sent, ReqOK, UnderWay, Writing

LEMMA AnsweredOK ==
  ASSUME TypeOK, NEW s \in Slots, NEW pc \in {"answered", "wrong", "notNow"}, req[s].pc # "free"
  PROVE  /\ ReqOK(Answered(s, pc))
         /\ req[s].heard => Answered(s, pc) = [req[s] EXCEPT !.pc = pc]
         /\ ~req[s].heard => Answered(s, pc) = Free
         /\ ForReplay(Answered(s, pc)) => ForReplay(req[s]) /\ Answered(s, pc).dev = req[s].dev
<1>1. req[s] \in ReqType /\ UnderWay(req[s])
  BY DEF TypeOK
<1>2. CASE req[s].heard
  <2>1. Answered(s, pc) = [req[s] EXCEPT !.pc = pc]
    BY <1>2 DEF Answered
  <2>2. [req[s] EXCEPT !.pc = pc] \in ReqType
    BY <1>1 DEF ReqType, PCs
  <2>. QED
    BY <1>1, <1>2, <2>1, <2>2 DEF ReqOK, ReqType, UnderWay, Writing, ForReplay
<1>3. CASE ~req[s].heard
  BY <1>3, FreeOK DEF Answered
<1>. QED
  BY <1>2, <1>3

LEMMA UnheardOK ==
  ASSUME TypeOK, NEW s \in Slots
  PROVE  ReqOK([req[s] EXCEPT !.heard = FALSE]) /\ ~ForReplay([req[s] EXCEPT !.heard = FALSE])
<1>1. req[s] \in ReqType /\ UnderWay(req[s]) /\ Writing(req[s])
  BY DEF TypeOK
<1>. QED
  BY <1>1 DEF ReqOK, ReqType, UnderWay, Writing, ForReplay

LEMMA SlotTaken ==
  ASSUME TypeOK, NEW s \in Slots, NEW r, ReqOK(r), req' = [req EXCEPT ![s] = r]
  PROVE  req' \in [Slots -> ReqType] /\ \A t \in Slots : UnderWay(req'[t]) /\ Writing(req'[t])
BY DEF TypeOK, ReqOK

\* A step that starts no replay request and moves no replay.
LEMMA ReplayKept ==
  ASSUME ReplayOK, UNCHANGED replay,
         \A s \in Slots : ForReplay(req'[s]) => ForReplay(req[s]) /\ req'[s].dev = req[s].dev
  PROVE  ReplayOK'
<1>1. \A d \in Devices : replay'[d].pc = "wait" => replay'[d].todo # <<>>
  BY DEF ReplayOK
<1>2. \A s \in Slots : ForReplay(req'[s]) => replay'[req'[s].dev].pc = "wait"
  BY DEF ReplayOK
<1>3. \A s, t \in Slots :
        ForReplay(req'[s]) /\ ForReplay(req'[t]) /\ req'[s].dev = req'[t].dev => s = t
  BY DEF ReplayOK
<1>. QED
  BY <1>1, <1>2, <1>3 DEF ReplayOK, ForReplay

\* A step that frees a device's replay request, and moves its replay on.
LEMMA ReplayMoves ==
  ASSUME TypeOK, ReplayOK, NEW s \in Slots, NEW r, ~ForReplay(r), ForReplay(req[s]),
         req' = [req EXCEPT ![s] = r], NEW p, p.pc # "wait",
         replay' = [replay EXCEPT ![req[s].dev] = p]
  PROVE  ReplayOK'
<1>1. req[s].dev \in Devices /\ req'[s] = r /\ \A t \in Slots : t # s => req'[t] = req[t]
  BY DEF TypeOK, UnderWay, ForReplay
<1>2. \A d \in Devices : replay'[d] = IF d = req[s].dev THEN p ELSE replay[d]
  BY DEF TypeOK
<1>3. \A d \in Devices : replay'[d].pc = "wait" => replay'[d].todo # <<>>
  BY <1>2 DEF ReplayOK
<1>4. ASSUME NEW t \in Slots, ForReplay(req'[t])
      PROVE  t # s /\ req'[t] = req[t] /\ replay'[req'[t].dev].pc = "wait"
  <2>1. t # s /\ req'[t] = req[t] /\ ForReplay(req[t])
    BY <1>1, <1>4 DEF ForReplay
  <2>2. req[t].dev \in Devices /\ req[t].dev # req[s].dev
    BY <2>1 DEF TypeOK, UnderWay, ForReplay, ReplayOK
  <2>. QED
    BY <1>2, <2>1, <2>2 DEF ReplayOK
<1>5. \A t, u \in Slots :
        ForReplay(req'[t]) /\ ForReplay(req'[u]) /\ req'[t].dev = req'[u].dev => t = u
  BY <1>4 DEF ReplayOK
<1>. QED
  BY <1>3, <1>4, <1>5 DEF ReplayOK, ForReplay

\* A request of the reader leaves.
LEMMA ReaderSends ==
  ASSUME TypeOK, ReplayOK, UNCHANGED replay, NEW d \in Devices, NEW from \in {"save", "leave"},
         NEW c \in Comics, NEW body \in Body, Send(d, from, c, body)
  PROVE  /\ req' \in [Slots -> ReqType] /\ \A t \in Slots : UnderWay(req'[t]) /\ Writing(req'[t])
         /\ ReplayOK'
<1>1. PICK s \in Slots : req[s].pc = "free" /\ req' = [req EXCEPT ![s] = Sent(d, from, c, body)]
  BY DEF Send
<1>2. ReqOK(Sent(d, from, c, body)) /\ ~ForReplay(Sent(d, from, c, body))
  BY SentOK DEF ForReplay
<1>3. \A t \in Slots : ForReplay(req'[t]) => ForReplay(req[t]) /\ req'[t].dev = req[t].dev
  BY <1>1, <1>2 DEF TypeOK
<1>. QED
  BY <1>1, <1>2, <1>3, SlotTaken, ReplayKept

LEMMA HeldInHand ==
  ASSUME TypeOK, NEW d \in Devices
  PROVE  /\ pending[d] # None => pending[d].c \in Comics /\ pending[d].body \in Body /\ pending[d] \in Held
         /\ \A m \in paused[d] : m.c \in Comics /\ m.body \in Body /\ m \in Held
         /\ \A c \in Comics : queue[d][c] # None => queue[d][c] \in Body
         /\ replay[d].todo \in Seq(Held)
<1>1. pending[d] \in Held \cup {None} /\ paused[d] \subseteq Held /\ queue[d] \in [Comics -> Body \cup {None}]
      /\ replay[d].todo \in Seq(Held)
  BY DEF TypeOK
<1>. QED
  BY <1>1 DEF Held

LEMMA ClockAhead == ASSUME TypeOK, NEW d \in Devices PROVE Clock(d) \in Nat \ {0}
BY ProgressSyncAssumption DEF TypeOK, Clock

LEMMA ReaderTypes ==
  ASSUME PInv, NEW d \in Devices, ReaderStep(d)
  PROVE  PInv'
<1>. TypeOK /\ ReplayOK
  BY DEF PInv
<1>1. ASSUME NEW c \in Comics, NEW p \in Positions, Turn(d, c, p) PROVE PInv'
  <2>1. [c |-> c, body |-> [page |-> p.page, completed |-> p.completed, at |-> Clock(d)]] \in Held
    BY ClockAhead, ProgressSyncAssumption DEF Held, Body
  <2>2. pending' \in [Devices -> Held \cup {None}]
    BY <1>1, <2>1 DEF Turn, TypeOK
  <2>3. newest' \in [Comics -> Nat] /\ excused' \subseteq Comics /\ turns' \in Nat
    BY <1>1, ClockAhead DEF Turn, TypeOK, Later, Earlier
  <2>4. ReplayOK'
    BY <1>1, ReplayKept DEF Turn
  <2>. QED
    BY <1>1, <2>2, <2>3, <2>4 DEF PInv, Turn, TypeOK
<1>2. CASE Flush(d)
  <2>1. pending' \in [Devices -> Held \cup {None}]
    BY <1>2 DEF Flush, TypeOK
  <2>2. CASE d \in online
    <3>1. Send(d, "save", pending[d].c, pending[d].body) /\ UNCHANGED <<paused, replay>>
      BY <1>2, <2>2 DEF Flush
    <3>2. pending[d].c \in Comics /\ pending[d].body \in Body
      BY <1>2, HeldInHand DEF Flush
    <3>. QED
      BY <1>2, <2>1, <3>1, <3>2, ReaderSends DEF PInv, Flush, TypeOK, history
  <2>3. CASE d \notin online
    <3>1. paused' \in [Devices -> SUBSET Held]
      <4>1. pending[d] \in Held /\ paused[d] \subseteq Held /\ paused \in [Devices -> SUBSET Held]
        BY <1>2, HeldInHand DEF Flush, TypeOK
      <4>2. paused[d] \cup {pending[d]} \in SUBSET Held
        BY <4>1
      <4>3. paused' = [paused EXCEPT ![d] = paused[d] \cup {pending[d]}]
        BY <1>2, <2>3 DEF Flush
      <4>. QED
        BY <4>1, <4>2, <4>3
    <3>2. ReplayOK'
      BY <1>2, <2>3, ReplayKept DEF Flush
    <3>. QED
      BY <1>2, <2>1, <2>3, <3>1, <3>2 DEF PInv, Flush, TypeOK, history
  <2>. QED
    BY <2>2, <2>3
<1>3. CASE FlushLeaving(d)
  <2>1. pending' \in [Devices -> Held \cup {None}] /\ UNCHANGED replay
    BY <1>3 DEF FlushLeaving, TypeOK
  <2>2. pending[d].c \in Comics /\ pending[d].body \in Body
    BY <1>3, HeldInHand DEF FlushLeaving
  <2>3. Send(d, "leave", pending[d].c, pending[d].body)
    BY <1>3 DEF FlushLeaving
  <2>. QED
    BY <1>3, <2>1, <2>2, <2>3, ReaderSends DEF PInv, FlushLeaving, TypeOK, history
<1>4. ASSUME NEW m \in paused[d], Resume(d, m) PROVE PInv'
  <2>1. paused' \in [Devices -> SUBSET Held] /\ UNCHANGED replay
    BY <1>4 DEF Resume, TypeOK
  <2>2. m.c \in Comics /\ m.body \in Body
    BY HeldInHand
  <2>3. Send(d, "save", m.c, m.body)
    BY <1>4 DEF Resume
  <2>. QED
    BY <1>4, <2>1, <2>2, <2>3, ReaderSends DEF PInv, Resume, TypeOK, history
<1>. QED
  BY <1>1, <1>2, <1>3, <1>4 DEF ReaderStep

-----------------------------------------------------------------------------
(* The server.                                                             *)

\* A slot changes and no replay moves.
LEMMA SlotBecomes ==
  ASSUME TypeOK, ReplayOK, UNCHANGED replay, NEW s \in Slots, NEW r, ReqOK(r),
         ForReplay(r) => ForReplay(req[s]) /\ r.dev = req[s].dev,
         req' = [req EXCEPT ![s] = r]
  PROVE  /\ req' \in [Slots -> ReqType] /\ \A t \in Slots : UnderWay(req'[t]) /\ Writing(req'[t])
         /\ ReplayOK'
<1>1. \A t \in Slots : ForReplay(req'[t]) => ForReplay(req[t]) /\ req'[t].dev = req[t].dev
  BY DEF TypeOK
<1>. QED
  BY <1>1, SlotTaken, ReplayKept

\* A claim stays within the comic, and is worth now at most.
LEMMA ClaimOK ==
  ASSUME TypeOK, NEW body \in Body
  PROVE  /\ Claim(body) \in Body
         /\ Claim(body).at = Earlier(body.at, now)
         /\ Claim(body).at <= now /\ Claim(body).at <= body.at
<1>1. /\ body.page \in Nat /\ body.completed \in BOOLEAN /\ body.at \in Nat \ {0}
      /\ now \in Nat \ {0} /\ LastPage \in Nat
  BY ProgressSyncAssumption DEF TypeOK, Body
<1>2. /\ Earlier(body.page, LastPage) \in Nat
      /\ ObservedAt(body.at) = Earlier(body.at, now) /\ ObservedAt(body.at) \in Nat \ {0}
      /\ ObservedAt(body.at) <= now /\ ObservedAt(body.at) <= body.at
  BY <1>1 DEF ObservedAt, Earlier
<1>3. Claim(body) =
        [page |-> Earlier(body.page, LastPage),
         completed |-> body.completed \/ Earlier(body.page, LastPage) >= LastPage,
         at |-> ObservedAt(body.at)]
  BY DEF Claim
<1>. QED
  BY <1>2, <1>3 DEF Body

LEMMA CarriedOK ==
  ASSUME NEW cur \in Body, NEW claim
  PROVE  Carried(cur, claim) \in Body /\ Carried(cur, claim).at = cur.at
BY DEF Carried, Body

\* The slot of a request the handler has judged.
LEMMA DecidingOK ==
  ASSUME TypeOK, NEW s \in Slots, req[s].pc = "sent", NEW cur \in Body \cup {None}, NEW row \in Body
  PROVE  /\ ReqOK([req[s] EXCEPT !.pc = "write", !.cur = cur, !.row = row])
         /\ ForReplay([req[s] EXCEPT !.pc = "write", !.cur = cur, !.row = row]) => ForReplay(req[s])
<1>1. req[s] \in ReqType /\ UnderWay(req[s])
  BY DEF TypeOK
<1>. QED
  BY <1>1 DEF ReqOK, ReqType, UnderWay, Writing, ForReplay, PCs

LEMMA ServerTypes ==
  ASSUME PInv, NEW s \in Slots, ServerStep(s) \/ Refuses(s)
  PROVE  PInv'
<1>. TypeOK /\ ReplayOK
  BY DEF PInv
<1>1. ASSUME ServerReads(s) PROVE PInv'
  <2>0. /\ req[s].pc = "sent" /\ req[s].c \in Comics /\ req[s].body \in Body
        /\ req[s].dev \in Devices
    BY <1>1 DEF ServerReads, TypeOK, UnderWay
  <2>. DEFINE cur == stored[req[s].c]
              claim == Claim(req[s].body)
  <2>1. cur \in Body \cup {None} /\ claim \in Body
    BY <2>0, ClaimOK DEF TypeOK
  <2>2. ASSUME NEW r \in Body, req' = [req EXCEPT ![s] = [req[s] EXCEPT !.pc = "write", !.cur = cur, !.row = r]]
        PROVE  PInv'
    <3>1. UNCHANGED <<now, stored, queue, device, history>>
      BY <1>1 DEF ServerReads
    <3>2. [req[s] EXCEPT !.pc = "write", !.cur = cur, !.row = r].dev = req[s].dev
      BY DEF TypeOK, ReqType
    <3>. QED
      BY <2>0, <2>1, <2>2, <3>1, <3>2, DecidingOK, SlotBecomes DEF PInv, TypeOK, device, history
  <2>3. CASE ~Stale(claim, cur) /\ req' = [req EXCEPT ![s] = [req[s] EXCEPT !.pc = "write", !.cur = cur, !.row = claim]]
    BY <2>1, <2>2, <2>3
  <2>4. CASE Stale(claim, cur) /\ req' = [req EXCEPT ![s] = [req[s] EXCEPT !.pc = "write", !.cur = cur, !.row = Carried(cur, claim)]]
    <3>1. cur \in Body
      BY <2>1, <2>4 DEF Stale
    <3>. QED
      BY <2>2, <2>4, <3>1, CarriedOK
  <2>5. CASE req' = [req EXCEPT ![s] = Answered(s, "answered")]
    <3>1. UNCHANGED <<now, stored, queue, device, history>>
      BY <1>1 DEF ServerReads
    <3>. QED
      BY <2>0, <2>5, <3>1, AnsweredOK, SlotBecomes DEF PInv, TypeOK, device, history
  <2>. QED
    BY <1>1, <2>3, <2>4, <2>5 DEF ServerReads
<1>2. ASSUME ServerWrites(s) PROVE PInv'
  <2>1. req[s].pc = "write" /\ req[s].c \in Comics /\ req[s].row \in Body
    BY <1>2 DEF ServerWrites, TypeOK, UnderWay, Writing
  <2>2. stored' \in [Comics -> Body \cup {None}]
    BY <1>2, <2>1 DEF ServerWrites, TypeOK
  <2>3. excused' \subseteq Comics
    BY <1>2, <2>1 DEF ServerWrites, Excuse, TypeOK
  <2>4. /\ req' \in [Slots -> ReqType] /\ \A t \in Slots : UnderWay(req'[t]) /\ Writing(req'[t])
        /\ ReplayOK'
    BY <1>2, <2>1, AnsweredOK, SlotBecomes DEF ServerWrites, device
  <2>. QED
    BY <1>2, <2>2, <2>3, <2>4 DEF PInv, ServerWrites, TypeOK, device
<1>3. ASSUME NEW why \in {"wrong", "notNow"}, ServerRefuses(s, why) PROVE PInv'
  BY <1>3, AnsweredOK, SlotBecomes DEF PInv, ServerRefuses, TypeOK, device, history
<1>. QED
  BY <1>1, <1>2, <1>3 DEF ServerStep, Refuses

-----------------------------------------------------------------------------
(* Answers.                                                                *)

LEMMA QueueOK ==
  ASSUME TypeOK, NEW d \in Devices, NEW c \in Comics, NEW body \in Body
  PROVE  /\ Enqueued(d, c, body) \in [Devices -> [Comics -> Body \cup {None}]]
         /\ Deleted(d, c) \in [Devices -> [Comics -> Body \cup {None}]]
BY DEF TypeOK, Enqueued, Deleted

\* The replay whose request is answered goes on to the next row.
LEMMA ReplayedOK ==
  ASSUME TypeOK, ReplayOK, NEW s \in Slots, ForReplay(req[s]), replay' = Replayed(req[s].dev),
         req' = [req EXCEPT ![s] = Free]
  PROVE  /\ replay' \in [Devices -> [pc : {"off", "list", "next", "wait"}, todo : Seq(Held)]]
         /\ ReplayOK'
<1>1. req[s].dev \in Devices
  BY DEF TypeOK, UnderWay, ForReplay
<1>2. replay[req[s].dev].todo \in Seq(Held) /\ replay[req[s].dev].todo # <<>>
  BY <1>1 DEF TypeOK, ReplayOK
<1>3. Tail(replay[req[s].dev].todo) \in Seq(Held)
  BY <1>2, HeadTailProperties
<1>. DEFINE p == [pc |-> "next", todo |-> Tail(replay[req[s].dev].todo)]
<1>4. replay' = [replay EXCEPT ![req[s].dev] = p] /\ p.pc # "wait"
  BY DEF Replayed
<1>5. ReplayOK'
  <2>. HIDE DEF p
  <2>. QED
    BY <1>4, FreeOK, ReplayMoves
<1>6. p \in [pc : {"off", "list", "next", "wait"}, todo : Seq(Held)]
  BY <1>3
<1>. QED
  BY <1>1, <1>4, <1>5, <1>6 DEF TypeOK

LEMMA DeliveryTypes ==
  ASSUME PInv, NEW s \in Slots, Delivery(s)
  PROVE  PInv'
<1>. TypeOK /\ ReplayOK
  BY DEF PInv
<1>0. /\ req[s].heard /\ req[s].pc # "free" /\ req' = [req EXCEPT ![s] = Free]
      /\ req[s].dev \in Devices /\ req[s].c \in Comics /\ req[s].body \in Body
      /\ UNCHANGED <<now, stored, open, online, pending, paused, turns, newest>>
  BY DEF Delivery, Hears, HearsRefusal, Release, TypeOK, UnderWay
<1>. DEFINE d == req[s].dev
            c == req[s].c
<1>1. req' \in [Slots -> ReqType] /\ \A t \in Slots : UnderWay(req'[t]) /\ Writing(req'[t])
  BY <1>0, FreeOK, SlotTaken
<1>2. /\ queue' = queue \/ queue' = Deleted(d, c) \/ queue' = Enqueued(d, c, req[s].body)
      /\ excused' = excused \/ excused' = excused \cup {c} \/ excused' = excused \cup {}
      /\ \/ req[s].from # "replay" /\ replay' = replay
         \/ req[s].from = "replay" /\ replay' = Replayed(d)
  BY DEF Delivery, Hears, HearsRefusal, Excuse
<1>3. queue' \in [Devices -> [Comics -> Body \cup {None}]]
  BY <1>0, <1>2, QueueOK DEF TypeOK
<1>4. excused' \subseteq Comics
  BY <1>0, <1>2 DEF TypeOK
<1>5. /\ replay' \in [Devices -> [pc : {"off", "list", "next", "wait"}, todo : Seq(Held)]]
      /\ ReplayOK'
  <2>1. CASE replay' = replay
    BY <1>0, <2>1, FreeOK, SlotBecomes DEF TypeOK
  <2>2. CASE req[s].from = "replay" /\ replay' = Replayed(d)
    BY <1>0, <2>2, ReplayedOK DEF ForReplay
  <2>. QED
    BY <1>2, <2>1, <2>2
<1>. QED
  BY <1>0, <1>1, <1>3, <1>4, <1>5 DEF PInv, TypeOK

LEMMA LossTypes ==
  ASSUME PInv, NEW s \in Slots, Loses(s) \/ Vanishes(s)
  PROVE  PInv'
<1>. TypeOK /\ ReplayOK
  BY DEF PInv
<1>1. CASE Vanishes(s)
  BY <1>1, FreeOK, SlotBecomes DEF PInv, Vanishes, Release, TypeOK, device, history
<1>2. CASE Loses(s) /\ req[s].pc # "free"
  <2>0. /\ req[s].dev \in Devices /\ req[s].c \in Comics /\ req[s].body \in Body
        /\ UNCHANGED <<now, stored, open, online, pending, paused, turns, newest>>
    BY <1>2 DEF Loses, TypeOK, UnderWay
  <2>. DEFINE r == IF req[s].pc \in {"sent", "write"} THEN [req[s] EXCEPT !.heard = FALSE] ELSE Free
  <2>1. ReqOK(r) /\ ~ForReplay(r) /\ req' = [req EXCEPT ![s] = r]
    BY <1>2, FreeOK, UnheardOK DEF Loses
  <2>2. CASE req[s].from # "replay"
    <3>1. /\ UNCHANGED replay /\ queue' = Enqueued(req[s].dev, req[s].c, req[s].body)
          /\ excused' = excused \cup {req[s].c} \/ excused' = excused \cup {}
      BY <1>2, <2>2 DEF Loses, Excuse
    <3>2. queue' \in [Devices -> [Comics -> Body \cup {None}]] /\ excused' \subseteq Comics
      BY <2>0, <3>1, QueueOK DEF TypeOK
    <3>3. /\ req' \in [Slots -> ReqType] /\ \A t \in Slots : UnderWay(req'[t]) /\ Writing(req'[t])
          /\ ReplayOK'
      BY <2>1, <3>1, SlotBecomes
    <3>. QED
      BY <2>0, <3>1, <3>2, <3>3 DEF PInv, TypeOK
  <2>3. CASE req[s].from = "replay"
    <3>1. replay' = [replay EXCEPT ![req[s].dev] = ReplayOff] /\ UNCHANGED <<queue, excused>>
      BY <1>2, <2>3 DEF Loses
    <3>2. /\ ReplayOff.pc # "wait" /\ ReplayOff \in [pc : {"off", "list", "next", "wait"}, todo : Seq(Held)]
      BY DEF ReplayOff
    <3>3. ForReplay(req[s])
      BY <1>2, <2>3 DEF ForReplay, Loses
    <3>4. ReplayOK'
      BY <2>1, <3>1, <3>2, <3>3, ReplayMoves
    <3>5. req' \in [Slots -> ReqType] /\ \A t \in Slots : UnderWay(req'[t]) /\ Writing(req'[t])
      BY <2>1, SlotTaken
    <3>. QED
      BY <2>0, <3>1, <3>2, <3>4, <3>5 DEF PInv, TypeOK
  <2>. QED
    BY <2>2, <2>3
<1>3. Loses(s) => req[s].pc # "free"
  BY DEF Loses, TypeOK, UnderWay
<1>. QED
  BY <1>1, <1>2, <1>3

-----------------------------------------------------------------------------
(* The replay, the browser and the clock.                                  *)

\* A replay that neither waits nor begins to wait has no request under way.
LEMMA ReplayGoesOn ==
  ASSUME TypeOK, ReplayOK, UNCHANGED req, NEW d \in Devices, replay[d].pc # "wait",
         NEW p, p.pc # "wait", replay' = [replay EXCEPT ![d] = p]
  PROVE  ReplayOK'
<1>1. \A e \in Devices : replay'[e] = IF e = d THEN p ELSE replay[e]
  BY DEF TypeOK
<1>2. \A e \in Devices : replay'[e].pc = "wait" => replay'[e].todo # <<>>
  BY <1>1 DEF ReplayOK
<1>3. ASSUME NEW s \in Slots, ForReplay(req[s]) PROVE replay'[req[s].dev].pc = "wait"
  <2>1. req[s].dev \in Devices /\ replay[req[s].dev].pc = "wait"
    BY <1>3 DEF TypeOK, UnderWay, ForReplay, ReplayOK
  <2>. QED
    BY <1>1, <2>1
<1>. QED
  BY <1>2, <1>3 DEF ReplayOK, ForReplay

\* The rows of the queue, in some order.
LEMMA ListedOK ==
  ASSUME TypeOK, NEW d \in Devices, NEW s \in SetToSeqs({c \in Comics : queue[d][c] # None})
  PROVE  /\ [i \in DOMAIN s |-> [c |-> s[i], body |-> queue[d][s[i]]]] \in Seq(Held)
         /\ \A i \in DOMAIN s : s[i] \in Comics /\ queue[d][s[i]] \in Body
<1>. DEFINE rows == {c \in Comics : queue[d][c] # None}
            t == [i \in DOMAIN s |-> [c |-> s[i], body |-> queue[d][s[i]]]]
<1>1. IsFiniteSet(rows)
  BY ProgressSyncAssumption, FS_Subset
<1>2. Cardinality(rows) \in Nat
  BY <1>1, FS_CardinalityType
<1>3. s \in [1..Cardinality(rows) -> rows]
  BY DEF SetToSeqs
<1>4. DOMAIN s = 1..Cardinality(rows) /\ \A i \in DOMAIN s : s[i] \in Comics /\ queue[d][s[i]] # None
  BY <1>3
<1>5. \A i \in DOMAIN s : s[i] \in Comics /\ queue[d][s[i]] \in Body
  BY <1>4, HeldInHand
<1>6. \A i \in DOMAIN s : [c |-> s[i], body |-> queue[d][s[i]]] \in Held
  BY <1>5 DEF Held
<1>7. t \in [1..Cardinality(rows) -> Held]
  BY <1>4, <1>6
<1>8. t \in Seq(Held)
  <2>. HIDE DEF t, rows
  <2>. QED
    BY <1>2, <1>7, SeqDef
<1>. QED
  BY <1>5, <1>8

LEMMA ReplayTypes ==
  ASSUME PInv, NEW d \in Devices, ReplayStep(d)
  PROVE  PInv'
<1>. TypeOK /\ ReplayOK
  BY DEF PInv
<1>. DEFINE ReplayType == [pc : {"off", "list", "next", "wait"}, todo : Seq(Held)]
<1>1. ASSUME ReplayLists(d) PROVE PInv'
  <2>1. PICK s \in SetToSeqs({c \in Comics : queue[d][c] # None}) :
          replay' = [replay EXCEPT ![d] =
            [pc |-> "next", todo |-> [i \in DOMAIN s |-> [c |-> s[i], body |-> queue[d][s[i]]]]]]
    BY <1>1 DEF ReplayLists
  <2>. DEFINE t == [i \in DOMAIN s |-> [c |-> s[i], body |-> queue[d][s[i]]]]
  <2>2. t \in Seq(Held)
    BY ListedOK
  <2>. HIDE DEF t
  <2>3. [pc |-> "next", todo |-> t] \in ReplayType /\ [pc |-> "next", todo |-> t].pc # "wait"
    BY <2>2
  <2>4. replay' = [replay EXCEPT ![d] = [pc |-> "next", todo |-> t]]
    BY <2>1 DEF t
  <2>5. ReplayOK'
    BY <1>1, <2>3, <2>4, ReplayGoesOn DEF ReplayLists
  <2>6. replay' \in [Devices -> ReplayType]
    BY <2>3, <2>4 DEF TypeOK
  <2>. QED
    BY <1>1, <2>5, <2>6 DEF PInv, TypeOK, ReplayLists, history
<1>2. ASSUME ReplaySends(d) PROVE PInv'
  <2>. DEFINE h == Head(replay[d].todo)
  <2>1. replay[d].todo \in Seq(Held) /\ replay[d].todo # <<>> /\ replay[d].pc = "next"
    BY <1>2 DEF ReplaySends, TypeOK
  <2>2. h.c \in Comics /\ h.body \in Body
    <3>1. h \in Held
      BY <2>1, HeadTailProperties
    <3>. HIDE DEF h
    <3>. QED
      BY <3>1 DEF Held
  <2>. HIDE DEF h
  <2>3. PICK s \in Slots : req[s].pc = "free" /\ req' = [req EXCEPT ![s] = Sent(d, "replay", h.c, h.body)]
    BY <1>2 DEF ReplaySends, Send, h
  <2>4. ReqOK(Sent(d, "replay", h.c, h.body)) /\ Sent(d, "replay", h.c, h.body).dev = d
    BY <2>2, SentOK
  <2>5. req' \in [Slots -> ReqType] /\ \A t \in Slots : UnderWay(req'[t]) /\ Writing(req'[t])
    BY <2>3, <2>4, SlotTaken
  <2>6. replay' = [replay EXCEPT ![d].pc = "wait"]
    BY <1>2 DEF ReplaySends
  <2>7. /\ replay' \in [Devices -> ReplayType] /\ replay'[d].pc = "wait"
        /\ replay'[d].todo = replay[d].todo
        /\ \A e \in Devices : e # d => replay'[e] = replay[e]
    BY <2>6 DEF TypeOK
  <2>8. \A e \in Devices : replay'[e].pc = "wait" => replay'[e].todo # <<>>
    BY <2>1, <2>7 DEF ReplayOK
  <2>9. ASSUME NEW t \in Slots, ForReplay(req'[t])
        PROVE  /\ replay'[req'[t].dev].pc = "wait"
               /\ t # s => req'[t] = req[t] /\ ForReplay(req[t]) /\ req[t].dev # d
               /\ t = s => req'[t].dev = d
    <3>1. CASE t = s
      BY <2>3, <2>4, <2>7, <3>1 DEF TypeOK
    <3>2. CASE t # s
      <4>1. req'[t] = req[t]
        BY <2>3, <3>2 DEF TypeOK
      <4>2. ForReplay(req[t])
        BY <2>9, <4>1 DEF ForReplay
      <4>3. req[t].dev \in Devices /\ replay[req[t].dev].pc = "wait"
        BY <4>2 DEF TypeOK, UnderWay, ForReplay, ReplayOK
      <4>. QED
        BY <2>1, <2>7, <3>2, <4>1, <4>2, <4>3
    <3>. QED
      BY <3>1, <3>2
  <2>10. \A t, u \in Slots :
           ForReplay(req'[t]) /\ ForReplay(req'[u]) /\ req'[t].dev = req'[u].dev => t = u
    BY <2>9 DEF ReplayOK
  <2>11. ReplayOK'
    BY <2>8, <2>9, <2>10 DEF ReplayOK, ForReplay
  <2>. QED
    BY <1>2, <2>5, <2>7, <2>11 DEF PInv, TypeOK, ReplaySends, history
<1>3. ASSUME ReplayEnds(d) PROVE PInv'
  <2>1. ReplayOff \in ReplayType /\ ReplayOff.pc # "wait"
    BY DEF ReplayOff
  <2>2. replay' = [replay EXCEPT ![d] = ReplayOff] /\ replay[d].pc = "next"
    BY <1>3 DEF ReplayEnds
  <2>3. replay' \in [Devices -> ReplayType]
    BY <2>1, <2>2 DEF TypeOK
  <2>4. ReplayOK'
    BY <1>3, <2>1, <2>2, ReplayGoesOn DEF ReplayEnds
  <2>. QED
    BY <1>3, <2>3, <2>4 DEF PInv, TypeOK, ReplayEnds, history
<1>. QED
  BY <1>1, <1>2, <1>3 DEF ReplayStep

LEMMA StartedOK ==
  ASSUME TypeOK, ReplayOK, UNCHANGED req, NEW d \in Devices, replay' = ReplayStarted(d)
  PROVE  /\ replay' \in [Devices -> [pc : {"off", "list", "next", "wait"}, todo : Seq(Held)]]
         /\ ReplayOK'
<1>1. CASE replay[d].pc = "off"
  <2>. DEFINE p == [replay[d] EXCEPT !.pc = "list"]
  <2>1. p \in [pc : {"off", "list", "next", "wait"}, todo : Seq(Held)] /\ p.pc # "wait"
    BY DEF TypeOK
  <2>2. replay' = [replay EXCEPT ![d] = p]
    BY <1>1 DEF ReplayStarted
  <2>. HIDE DEF p
  <2>. QED
    BY <1>1, <2>1, <2>2, ReplayGoesOn DEF TypeOK
<1>2. CASE replay[d].pc # "off"
  <2>1. replay' = replay
    BY <1>2 DEF ReplayStarted, TypeOK
  <2>. QED
    BY <2>1, ReplayKept DEF TypeOK
<1>. QED
  BY <1>1, <1>2

\* What a closed tab leaves of the requests.
LEMMA ClosedOK ==
  ASSUME PInv, NEW d \in Devices, Closes(d), NEW s \in Slots
  PROVE  /\ ReqOK(req'[s])
         /\ ForReplay(req'[s]) => req'[s] = req[s] /\ req[s].dev # d
<1>1. ReqOK(req[s]) /\ req[s] \in ReqType
  BY DEF PInv, TypeOK, ReqOK
<1>2. CASE req[s].dev # d \/ ~req[s].heard
  <2>1. req'[s] = req[s]
    BY <1>2 DEF Closes
  <2>. QED
    BY <1>1, <1>2, <2>1 DEF ForReplay
<1>3. CASE ~(req[s].dev # d \/ ~req[s].heard) /\ req[s].pc \in {"sent", "write"}
  <2>1. req'[s] = [req[s] EXCEPT !.heard = FALSE]
    BY <1>3 DEF Closes
  <2>. QED
    BY <2>1, UnheardOK DEF PInv
<1>4. CASE ~(req[s].dev # d \/ ~req[s].heard) /\ ~(req[s].pc \in {"sent", "write"})
  <2>1. req'[s] = Free
    BY <1>4 DEF Closes
  <2>. QED
    BY <2>1, FreeOK
<1>. QED
  BY <1>2, <1>3, <1>4

LEMMA BrowserTypes ==
  ASSUME PInv, NEW d \in Devices, BrowserStep(d)
  PROVE  PInv'
<1>. TypeOK /\ ReplayOK
  BY DEF PInv
<1>1. CASE GoesOffline(d)
  <2>1. ReplayOK'
    BY <1>1, ReplayKept DEF GoesOffline
  <2>. QED
    BY <1>1, <2>1 DEF PInv, TypeOK, GoesOffline, history
<1>2. CASE GoesOnline(d)
  BY <1>2, StartedOK DEF PInv, TypeOK, GoesOnline, history
<1>3. CASE Launches(d)
  BY <1>3, StartedOK DEF PInv, TypeOK, Launches, history
<1>4. CASE Closes(d)
  <2>1. replay' = [replay EXCEPT ![d] = ReplayOff]
    BY <1>4 DEF Closes
  <2>2. \A e \in Devices : replay'[e] = IF e = d THEN ReplayOff ELSE replay[e]
    BY <2>1 DEF TypeOK
  <2>3. replay' \in [Devices -> [pc : {"off", "list", "next", "wait"}, todo : Seq(Held)]]
    BY <2>1 DEF TypeOK, ReplayOff
  <2>4. \A e \in Devices : replay'[e].pc = "wait" => replay'[e].todo # <<>>
    BY <2>2 DEF ReplayOK, ReplayOff
  <2>5. ASSUME NEW s \in Slots, ForReplay(req'[s])
        PROVE  replay'[req'[s].dev].pc = "wait" /\ ForReplay(req[s]) /\ req'[s].dev = req[s].dev
    <3>1. req'[s] = req[s] /\ req[s].dev # d
      BY <1>4, <2>5, ClosedOK
    <3>2. ForReplay(req[s])
      BY <2>5, <3>1 DEF ForReplay
    <3>. QED
      BY <2>2, <3>1, <3>2 DEF ReplayOK, TypeOK, UnderWay, ForReplay
  <2>6. ReplayOK'
    BY <2>4, <2>5 DEF ReplayOK, ForReplay
  <2>7. req' = [s \in Slots |-> req'[s]]
    BY <1>4 DEF Closes
  <2>8. req' \in [Slots -> ReqType] /\ \A s \in Slots : UnderWay(req'[s]) /\ Writing(req'[s])
    BY <1>4, <2>7, ClosedOK DEF ReqOK
  <2>9. excused' \subseteq Comics
    BY <1>4 DEF Closes, Excuse, InMemory, TypeOK
  <2>10. pending' \in [Devices -> Held \cup {None}] /\ paused' \in [Devices -> SUBSET Held]
    BY <1>4 DEF Closes, TypeOK
  <2>11. open' \subseteq Devices /\ online' \subseteq open'
    BY <1>4 DEF Closes, TypeOK
  <2>12. UNCHANGED <<now, stored, queue, turns, newest>>
    BY <1>4 DEF Closes
  <2>. QED
    BY <2>3, <2>6, <2>8, <2>9, <2>10, <2>11, <2>12 DEF PInv, TypeOK
<1>. QED
  BY <1>1, <1>2, <1>3, <1>4 DEF BrowserStep

LEMMA TypesNext ==
  ASSUME PInv, [Next]_vars
  PROVE  PInv'
<1>1. ASSUME NEW s \in Slots, ServerStep(s) \/ Refuses(s) \/ Delivery(s) \/ Loses(s) \/ Vanishes(s)
      PROVE  PInv'
  BY <1>1, ServerTypes, DeliveryTypes, LossTypes
<1>2. ASSUME NEW d \in Devices, ReaderStep(d) \/ ReplayStep(d) \/ BrowserStep(d)
      PROVE  PInv'
  BY <1>2, ReaderTypes, ReplayTypes, BrowserTypes
<1>3. CASE Tick
  <2>1. ReplayOK'
    BY <1>3, ReplayKept DEF Tick, device, PInv
  <2>. QED
    BY <1>3, <2>1, ProgressSyncAssumption DEF PInv, TypeOK, Tick, device, history
<1>4. CASE UNCHANGED vars
  <2>1. ReplayOK'
    BY <1>4, ReplayKept DEF vars, device, PInv
  <2>. QED
    BY <1>4, <2>1 DEF PInv, TypeOK, vars, device, history
<1>. QED
  BY <1>1, <1>2, <1>3, <1>4 DEF Next

LEMMA TypesInit == Init => PInv
<1>. SUFFICES ASSUME Init PROVE PInv
  OBVIOUS
<1>1. TypeOK
  BY ProgressSyncAssumption, FreeOK DEF Init, TypeOK, ReplayOff, ReqOK
<1>2. ReplayOK
  BY FreeOK DEF Init, ReplayOK, ReplayOff
<1>. QED
  BY <1>1, <1>2 DEF PInv

LEMMA AlwaysTyped == Spec => []PInv
BY TypesInit, TypesNext, PTL DEF Spec

\* Every row, claim and request keeps its parts and their types, for any
\* devices, clocks, comics and faults.
THEOREM ProgressTypeCorrect == Spec => []TypeOK
<1>1. PInv => TypeOK
  BY DEF PInv
<1>. QED
  BY <1>1, AlwaysTyped, PTL

-----------------------------------------------------------------------------
(***************************************************************************)
(* That the server settles on the newest position, keeps none from the     *)
(* future and lets a late claim only finish a comic.                       *)
(***************************************************************************)

-----------------------------------------------------------------------------
(* The invariant.                                                          *)

\* What a claim can count for on the server: its time, or the server's time
\* when it was made if that is less.
Worth(d, body) == Earlier(body.at, body.at - Skew[d])

\* A claim was made no later than now, and newest knows of it.
Due(d, c, body) == body.at - Skew[d] <= now /\ Worth(d, body) <= newest[c]

Asks(s, d, c, body) ==
  req[s].pc # "free" /\ req[s].dev = d /\ req[s].c = c /\ req[s].body = body

InPending(d, c, body) == pending[d] # None /\ pending[d].c = c /\ pending[d].body = body
InPaused(d, c, body) == \E m \in paused[d] : m.c = c /\ m.body = body
InQueue(d, c, body) == queue[d][c] = body
InFlight(d, c, body) == \E s \in Slots : Asks(s, d, c, body)
InRequest(d, c, body) ==
  \E s \in Slots : Asks(s, d, c, body) /\ req[s].heard /\ req[s].from # "replay"
InReplay(d, c, body) ==
  \E i \in DOMAIN replay[d].todo : replay[d].todo[i].c = c /\ replay[d].todo[i].body = body

\* The device still answers for a claim.
Keeps(d, c, body) ==
  \/ InPending(d, c, body) \/ InPaused(d, c, body) \/ InQueue(d, c, body)
  \/ InRequest(d, c, body)

\* A claim is somewhere, if only in a replay's list or on its way.
Carries(d, c, body) ==
  Keeps(d, c, body) \/ InReplay(d, c, body) \/ InFlight(d, c, body)

Stands(c) == stored[c] # None /\ newest[c] <= stored[c].at

WriteOK(s) ==
  req[s].pc = "write" =>
    /\ req[s].row.at <= now
    /\ Worth(req[s].dev, req[s].body) <= req[s].row.at
    /\ req[s].cur # None =>
         \/ req[s].cur.at <= req[s].body.at /\ req[s].cur.at <= req[s].row.at
         \/ req[s].row = [req[s].cur EXCEPT !.completed = TRUE]

AnswerOK(s) ==
  /\ req[s].pc = "answered" /\ req[s].c \notin excused
  /\ newest[req[s].c] <= Worth(req[s].dev, req[s].body)
  => Stands(req[s].c)

ClaimsDue ==
  \A d \in Devices, c \in Comics, body \in Body : Carries(d, c, body) => Due(d, c, body)

SomewhereSafe ==
  \A c \in Comics : newest[c] > 0 /\ c \notin excused =>
    \/ Stands(c)
    \/ \E d \in Devices, body \in Body : Keeps(d, c, body) /\ newest[c] <= Worth(d, body)

SInv ==
  /\ NoneFromFuture /\ \A s \in Slots : WriteOK(s) /\ AnswerOK(s)
  /\ ClaimsDue /\ SomewhereSafe

-----------------------------------------------------------------------------
(* What a step that stores nothing has to show.                            *)

Judged(s) ==
  req'[s].pc \in {"write", "answered"} =>
    /\ req'[s].pc = req[s].pc /\ req'[s].dev = req[s].dev /\ req'[s].c = req[s].c
    /\ req'[s].body = req[s].body /\ req'[s].cur = req[s].cur /\ req'[s].row = req[s].row

Steady == now <= now' /\ UNCHANGED newest /\ excused \subseteq excused'

NothingNew ==
  \A d \in Devices, c \in Comics, body \in Body : Carries(d, c, body)' => Carries(d, c, body)

HandedOn ==
  \A d \in Devices, c \in Comics, body \in Body :
    Keeps(d, c, body) /\ newest[c] <= Worth(d, body) /\ c \notin excused' =>
      \/ Stands(c)
      \/ \E b \in Body : Keeps(d, c, b)' /\ body.at <= b.at

LEMMA WorthInt ==
  ASSUME NEW d \in Devices, NEW body \in Body
  PROVE  Skew[d] \in Int /\ body.at \in Nat \ {0} /\ Worth(d, body) \in Int /\ Worth(d, body) <= body.at
BY ProgressSyncAssumption DEF Worth, Earlier, Body

LEMMA WorthOrder ==
  ASSUME NEW d \in Devices, NEW a \in Body, NEW b \in Body, a.at <= b.at
  PROVE  Worth(d, a) <= Worth(d, b)
BY WorthInt DEF Worth, Earlier

LEMMA StateInts ==
  ASSUME TypeOK
  PROVE  /\ now \in Nat /\ \A c \in Comics : newest[c] \in Nat
         /\ \A c \in Comics : stored[c] # None => stored[c] \in Body /\ stored[c].at \in Nat
         /\ \A b \in Body : b # None /\ b.at \in Nat \ {0}
BY ProgressSyncAssumption DEF TypeOK, Body

LEMMA DueKept ==
  ASSUME TypeOK, TypeOK', Steady, NothingNew, ClaimsDue
  PROVE  ClaimsDue'
<1>. SUFFICES ASSUME NEW d \in Devices, NEW c \in Comics, NEW body \in Body, Carries(d, c, body)'
              PROVE  Due(d, c, body)'
  BY DEF ClaimsDue
<1>1. Due(d, c, body)
  BY DEF NothingNew, ClaimsDue
<1>2. /\ now \in Nat /\ now' \in Nat /\ now <= now' /\ newest' = newest
      /\ body.at - Skew[d] \in Int
  BY WorthInt DEF TypeOK, Steady
<1>. QED
  BY <1>1, <1>2 DEF Due, Worth

LEMMA SafeKept ==
  ASSUME TypeOK, TypeOK', Steady, HandedOn, SomewhereSafe,
         \A c \in Comics : Stands(c) /\ c \notin excused' => Stands(c)'
  PROVE  SomewhereSafe'
<1>. SUFFICES ASSUME NEW c \in Comics, newest'[c] > 0, c \notin excused', ~Stands(c)'
              PROVE  \E d \in Devices, body \in Body : Keeps(d, c, body)' /\ newest'[c] <= Worth(d, body)
  BY DEF SomewhereSafe, Worth
<1>1. newest' = newest /\ c \notin excused /\ ~Stands(c) /\ newest[c] > 0
  BY DEF Steady
<1>2. PICK d \in Devices, body \in Body : Keeps(d, c, body) /\ newest[c] <= Worth(d, body)
  BY <1>1 DEF SomewhereSafe
<1>3. PICK b \in Body : Keeps(d, c, b)' /\ body.at <= b.at
  BY <1>1, <1>2 DEF HandedOn
<1>4. newest[c] <= Worth(d, b)
  BY <1>2, <1>3, WorthOrder, WorthInt, StateInts
<1>. QED
  BY <1>1, <1>3, <1>4

LEMMA QuietStep ==
  ASSUME PInv, PInv', SInv, Steady, UNCHANGED stored, \A s \in Slots : Judged(s),
         NothingNew, HandedOn
  PROVE  SInv'
<1>. TypeOK /\ TypeOK'
  BY DEF PInv
<1>1. NoneFromFuture'
  BY StateInts DEF SInv, NoneFromFuture, Steady, TypeOK
<1>2. \A c \in Comics : Stands(c)' <=> Stands(c)
  BY DEF Stands, Steady
<1>3. ASSUME NEW s \in Slots PROVE WriteOK(s)' /\ AnswerOK(s)'
  <2>0. Judged(s) /\ WriteOK(s) /\ AnswerOK(s) /\ newest' = newest /\ now <= now'
    BY DEF SInv, Steady
  <2>1. WriteOK(s)'
    <3>. SUFFICES ASSUME req'[s].pc = "write" PROVE WriteOK(s)'
      BY DEF WriteOK
    <3>1. req[s].pc = "write" /\ req'[s].row = req[s].row /\ req'[s].cur = req[s].cur
          /\ req'[s].body = req[s].body /\ req'[s].dev = req[s].dev
      BY <2>0 DEF Judged
    <3>2. req[s].row \in Body /\ req[s].row.at \in Nat /\ now \in Nat /\ now' \in Nat
      BY <3>1, StateInts DEF TypeOK, Writing
    <3>. QED
      BY <2>0, <3>1, <3>2 DEF WriteOK, Worth
  <2>2. AnswerOK(s)'
    <3>1. req[s].pc = "answered" => req[s].c \in Comics
      BY DEF TypeOK, UnderWay
    <3>. QED
      BY <2>0, <3>1 DEF Judged, AnswerOK, Steady, Stands, Worth
  <2>. QED
    BY <2>1, <2>2
<1>4. ClaimsDue'
  BY DueKept DEF SInv
<1>5. SomewhereSafe'
  BY <1>2, SafeKept DEF SInv
<1>. QED
  BY <1>1, <1>3, <1>4, <1>5 DEF SInv

-----------------------------------------------------------------------------
(* One slot.                                                               *)

\* A free slot is taken.
LEMMA SlotSends ==
  ASSUME TypeOK, NEW s \in Slots, req[s].pc = "free", NEW r, r.pc = "sent",
         req' = [req EXCEPT ![s] = r]
  PROVE  /\ \A t \in Slots : Judged(t)
         /\ \A e \in Devices, k \in Comics, b \in Body : InRequest(e, k, b) => InRequest(e, k, b)'
<1>1. req'[s] = r /\ \A t \in Slots : t # s => req'[t] = req[t]
  BY DEF TypeOK
<1>2. \A t \in Slots : Judged(t)
  BY <1>1 DEF Judged
<1>3. ASSUME NEW e \in Devices, NEW k \in Comics, NEW b \in Body, InRequest(e, k, b)
      PROVE  InRequest(e, k, b)'
  <2>1. PICK t \in Slots : Asks(t, e, k, b) /\ req[t].heard /\ req[t].from # "replay"
    BY <1>3 DEF InRequest
  <2>2. t # s /\ req'[t] = req[t]
    BY <1>1, <2>1 DEF Asks
  <2>. QED
    BY <2>1, <2>2 DEF InRequest, Asks
<1>. QED
  BY <1>2, <1>3

LEMMA RequestSent ==
  ASSUME TypeOK, NEW d \in Devices, NEW from \in {"save", "leave"}, NEW c \in Comics,
         NEW body \in Body, Send(d, from, c, body)
  PROVE  /\ \A t \in Slots : Judged(t)
         /\ \A e \in Devices, k \in Comics, b \in Body :
              /\ InRequest(e, k, b) => InRequest(e, k, b)'
              /\ InFlight(e, k, b)' => InFlight(e, k, b) \/ (e = d /\ k = c /\ b = body)
         /\ InRequest(d, c, body)'
<1>1. PICK s \in Slots : req[s].pc = "free" /\ req' = [req EXCEPT ![s] = Sent(d, from, c, body)]
  BY DEF Send
<1>. DEFINE r == Sent(d, from, c, body)
<1>2. /\ r.pc = "sent" /\ r.heard /\ r.dev = d /\ r.from # "replay" /\ r.c = c /\ r.body = body
      /\ req' = [req EXCEPT ![s] = r]
  BY <1>1, SentOK
<1>. HIDE DEF r
<1>3. InRequest(d, c, body)'
  BY <1>2 DEF InRequest, Asks, TypeOK
<1>4. ASSUME NEW e \in Devices, NEW k \in Comics, NEW b \in Body
      PROVE  InFlight(e, k, b)' => InFlight(e, k, b) \/ (e = d /\ k = c /\ b = body)
  BY <1>1, <1>2 DEF InFlight, Asks, TypeOK
<1>5. \A e \in Devices, k \in Comics, b \in Body : InRequest(e, k, b) => InRequest(e, k, b)'
  BY <1>1, <1>2, SlotSends
<1>6. \A t \in Slots : Judged(t)
  BY <1>1, <1>2, SlotSends
<1>. QED
  BY <1>2, <1>3, <1>4, <1>5, <1>6

\* A slot is released, or its request no longer waited for.
LEMMA SlotDrops ==
  ASSUME TypeOK, NEW s \in Slots, NEW r, r = Free \/ r = [req[s] EXCEPT !.heard = FALSE],
         req' = [req EXCEPT ![s] = r]
  PROVE  /\ \A t \in Slots : Judged(t)
         /\ \A e \in Devices, k \in Comics, b \in Body :
              /\ InRequest(e, k, b) =>
                   InRequest(e, k, b)' \/ (Asks(s, e, k, b) /\ req[s].heard /\ req[s].from # "replay")
              /\ InFlight(e, k, b)' => InFlight(e, k, b)
<1>1. req'[s] = r /\ \A t \in Slots : t # s => req'[t] = req[t]
  BY DEF TypeOK
<1>2. \/ r.pc = "free"
      \/ /\ r.pc = req[s].pc /\ r.dev = req[s].dev /\ r.c = req[s].c
         /\ r.body = req[s].body /\ r.cur = req[s].cur /\ r.row = req[s].row
  <2>1. req[s] \in ReqType
    BY DEF TypeOK
  <2>. QED
    BY <2>1, FreeOK DEF ReqType
<1>3. \A t \in Slots : Judged(t)
  BY <1>1, <1>2 DEF Judged
<1>4. ASSUME NEW e \in Devices, NEW k \in Comics, NEW b \in Body
      PROVE  /\ InRequest(e, k, b) =>
                  InRequest(e, k, b)' \/ (Asks(s, e, k, b) /\ req[s].heard /\ req[s].from # "replay")
             /\ InFlight(e, k, b)' => InFlight(e, k, b)
  <2>1. ASSUME NEW t \in Slots, Asks(t, e, k, b), req[t].heard, req[t].from # "replay", t # s
        PROVE  InRequest(e, k, b)'
    BY <1>1, <2>1 DEF InRequest, Asks
  <2>2. InRequest(e, k, b) =>
          InRequest(e, k, b)' \/ (Asks(s, e, k, b) /\ req[s].heard /\ req[s].from # "replay")
    BY <2>1 DEF InRequest
  <2>3. \A t \in Slots : Asks(t, e, k, b)' => Asks(t, e, k, b)
    BY <1>1, <1>2 DEF Asks
  <2>. QED
    BY <2>2, <2>3 DEF InFlight
<1>. QED
  BY <1>3, <1>4

LEMMA SlotsSame ==
  ASSUME UNCHANGED req
  PROVE  /\ \A t \in Slots : Judged(t)
         /\ \A e \in Devices, k \in Comics, b \in Body :
              /\ InRequest(e, k, b)' <=> InRequest(e, k, b)
              /\ InFlight(e, k, b)' <=> InFlight(e, k, b)
BY DEF Judged, InRequest, InFlight, Asks

\* What keeps its value keeps its claims.
LEMMA PlacesSame ==
  ASSUME NEW e, NEW k, NEW b
  PROVE  /\ UNCHANGED pending => (InPending(e, k, b)' <=> InPending(e, k, b))
         /\ UNCHANGED paused => (InPaused(e, k, b)' <=> InPaused(e, k, b))
         /\ UNCHANGED queue => (InQueue(e, k, b)' <=> InQueue(e, k, b))
         /\ UNCHANGED replay => (InReplay(e, k, b)' <=> InReplay(e, k, b))
BY DEF InPending, InPaused, InQueue, InReplay

LEMMA BodyAt == \A b \in Body : b.at <= b.at /\ b # None
BY ProgressSyncAssumption DEF Body

-----------------------------------------------------------------------------
(* The reader.                                                             *)

\* The held claim of a device is dropped from pendingRef.
LEMMA PendingTaken ==
  ASSUME TypeOK, NEW d \in Devices, pending' = [pending EXCEPT ![d] = None]
  PROVE  \A e \in Devices, k \in Comics, b \in Body :
           /\ InPending(e, k, b)' => InPending(e, k, b)
           /\ InPending(e, k, b) =>
                InPending(e, k, b)' \/ (e = d /\ k = pending[d].c /\ b = pending[d].body)
BY DEF InPending, TypeOK

LEMMA SendsQuiet ==
  ASSUME PInv, PInv', SInv, NEW d \in Devices,
         UNCHANGED <<now, stored, newest, excused, queue, replay>>,
         NEW from \in {"save", "leave"}, NEW c \in Comics, NEW body \in Body, Send(d, from, c, body),
         Keeps(d, c, body),
         \A e \in Devices, k \in Comics, b \in Body :
           /\ (InPending(e, k, b) \/ InPaused(e, k, b))' => InPending(e, k, b) \/ InPaused(e, k, b)
           /\ InPending(e, k, b) \/ InPaused(e, k, b) =>
                (InPending(e, k, b) \/ InPaused(e, k, b))' \/ (e = d /\ k = c /\ b = body)
  PROVE  SInv'
<1>. TypeOK /\ TypeOK'
  BY DEF PInv
<1>1. /\ \A t \in Slots : Judged(t)
      /\ \A e \in Devices, k \in Comics, b \in Body :
           /\ InRequest(e, k, b) => InRequest(e, k, b)'
           /\ InFlight(e, k, b)' => InFlight(e, k, b) \/ (e = d /\ k = c /\ b = body)
      /\ InRequest(d, c, body)'
  BY RequestSent
<1>2. NothingNew
  <2>. SUFFICES ASSUME NEW e \in Devices, NEW k \in Comics, NEW b \in Body, Carries(e, k, b)'
                PROVE  Carries(e, k, b)
    BY DEF NothingNew
  <2>1. InRequest(e, k, b)' => InFlight(e, k, b)'
    BY DEF InRequest, InFlight
  <2>. QED
    BY <1>1, <2>1, PlacesSame DEF Carries, Keeps
<1>3. HandedOn
  <2>. SUFFICES ASSUME NEW e \in Devices, NEW k \in Comics, NEW b \in Body, Keeps(e, k, b)
                PROVE  Keeps(e, k, b)'
    BY BodyAt DEF HandedOn
  <2>. QED
    BY <1>1, PlacesSame DEF Keeps
<1>. QED
  BY <1>1, <1>2, <1>3, QuietStep, StateInts DEF Steady

LEMMA FlushKeeps ==
  ASSUME PInv, PInv', SInv, NEW d \in Devices, Flush(d) \/ FlushLeaving(d)
  PROVE  SInv'
<1>. TypeOK /\ TypeOK'
  BY DEF PInv
<1>0. /\ pending[d] # None /\ pending' = [pending EXCEPT ![d] = None]
      /\ pending[d].c \in Comics /\ pending[d].body \in Body
      /\ UNCHANGED <<now, stored, newest, excused, queue, replay>>
  BY HeldInHand DEF Flush, FlushLeaving, history
<1>. PICK c \in Comics, body \in Body : c = pending[d].c /\ body = pending[d].body
  BY <1>0
<1>1. Keeps(d, c, body)
  BY <1>0 DEF Keeps, InPending
<1>2. \A e \in Devices, k \in Comics, b \in Body :
        /\ InPending(e, k, b)' => InPending(e, k, b)
        /\ InPending(e, k, b) => InPending(e, k, b)' \/ (e = d /\ k = c /\ b = body)
  BY <1>0, PendingTaken
<1>3. CASE UNCHANGED paused /\ \E from \in {"save", "leave"} : Send(d, from, c, body)
  <2>1. PICK from \in {"save", "leave"} : Send(d, from, c, body)
    BY <1>3
  <2>2. \A e \in Devices, k \in Comics, b \in Body : InPaused(e, k, b)' <=> InPaused(e, k, b)
    BY <1>3, PlacesSame
  <2>. QED
    BY <1>0, <1>1, <1>2, <2>1, <2>2, SendsQuiet
<1>4. CASE UNCHANGED req /\ paused' = [paused EXCEPT ![d] = @ \cup {pending[d]}]
  <2>1. \A e \in Devices, k \in Comics, b \in Body :
          /\ InPaused(e, k, b)' => InPaused(e, k, b) \/ InPending(e, k, b)
          /\ InPaused(e, k, b) => InPaused(e, k, b)'
    BY <1>0, <1>4 DEF InPaused, InPending, TypeOK
  <2>2. InPaused(d, c, body)'
    <3>1. pending[d] \in paused'[d]
      BY <1>4 DEF TypeOK
    <3>. QED
      BY <3>1 DEF InPaused
  <2>3. NothingNew
    BY <1>0, <1>2, <1>4, <2>1, PlacesSame, SlotsSame DEF NothingNew, Carries, Keeps
  <2>4. \A e \in Devices, k \in Comics, b \in Body : Keeps(e, k, b) => Keeps(e, k, b)'
    BY <1>0, <1>2, <1>4, <2>1, <2>2, PlacesSame, SlotsSame DEF Keeps
  <2>5. HandedOn
    BY <2>4, BodyAt DEF HandedOn
  <2>. QED
    BY <1>0, <1>4, <2>3, <2>5, QuietStep, SlotsSame, StateInts DEF Steady
<1>. QED
  BY <1>3, <1>4 DEF Flush, FlushLeaving

LEMMA ResumeKeeps ==
  ASSUME PInv, PInv', SInv, NEW d \in Devices, NEW m \in paused[d], Resume(d, m)
  PROVE  SInv'
<1>. TypeOK /\ TypeOK'
  BY DEF PInv
<1>0. /\ m.c \in Comics /\ m.body \in Body /\ Send(d, "save", m.c, m.body)
      /\ paused' = [paused EXCEPT ![d] = @ \ {m}]
      /\ UNCHANGED <<now, stored, newest, excused, queue, replay, pending>>
  BY HeldInHand DEF Resume, history
<1>1. Keeps(d, m.c, m.body)
  BY DEF Keeps, InPaused
<1>2. \A e \in Devices, k \in Comics, b \in Body :
        /\ InPaused(e, k, b)' => InPaused(e, k, b)
        /\ InPaused(e, k, b) => InPaused(e, k, b)' \/ (e = d /\ k = m.c /\ b = m.body)
  BY <1>0 DEF InPaused, TypeOK
<1>. QED
  BY <1>0, <1>1, <1>2, PlacesSame, SendsQuiet

-----------------------------------------------------------------------------
(* Answers and losses.                                                     *)

\* A claim is put in the queue; a row it replaces is no newer, or excused.
LEMMA EnqueueKeeps ==
  ASSUME TypeOK, NEW d \in Devices, NEW c \in Comics, NEW body \in Body,
         queue' = Enqueued(d, c, body),
         Overtakes(queue[d][c], body) => c \in excused'
  PROVE  /\ InQueue(d, c, body)'
         /\ \A e \in Devices, k \in Comics, b \in Body :
              /\ InQueue(e, k, b)' => InQueue(e, k, b) \/ (e = d /\ k = c /\ b = body)
              /\ InQueue(e, k, b) /\ k \notin excused' =>
                   InQueue(e, k, b)' \/ (e = d /\ k = c /\ b.at <= body.at)
<1>1. /\ queue'[d][c] = body
      /\ \A e \in Devices, k \in Comics : e # d \/ k # c => queue'[e][k] = queue[e][k]
  BY DEF TypeOK, Enqueued
<1>2. ASSUME NEW b \in Body, queue[d][c] = b, c \notin excused' PROVE b.at <= body.at
  BY <1>2, StateInts DEF Overtakes
<1>. QED
  BY <1>1, <1>2 DEF InQueue

LEMMA DeleteDrops ==
  ASSUME TypeOK, NEW d \in Devices, NEW c \in Comics, queue' = Deleted(d, c)
  PROVE  \A e \in Devices, k \in Comics, b \in Body :
           /\ InQueue(e, k, b)' => InQueue(e, k, b)
           /\ InQueue(e, k, b) => InQueue(e, k, b)' \/ (e = d /\ k = c /\ b = queue[d][c])
<1>1. /\ queue'[d][c] = None
      /\ \A e \in Devices, k \in Comics : e # d \/ k # c => queue'[e][k] = queue[e][k]
  BY DEF TypeOK, Deleted
<1>. QED
  BY <1>1, BodyAt DEF InQueue

\* A replay's list gets shorter.
LEMMA TailDrops ==
  ASSUME TypeOK, ReplayOK, NEW d \in Devices, replay[d].pc = "wait", replay' = Replayed(d)
  PROVE  \A e \in Devices, k \in Comics, b \in Body : InReplay(e, k, b)' => InReplay(e, k, b)
<1>1. replay[d].todo \in Seq(Held) /\ replay[d].todo # <<>>
  BY DEF TypeOK, ReplayOK
<1>2. /\ Tail(replay[d].todo) \in Seq(Held)
      /\ Len(Tail(replay[d].todo)) = Len(replay[d].todo) - 1
      /\ \A i \in 1..Len(Tail(replay[d].todo)) : Tail(replay[d].todo)[i] = replay[d].todo[i + 1]
  BY <1>1, HeadTailProperties
<1>3. \A i \in DOMAIN Tail(replay[d].todo) :
        i + 1 \in DOMAIN replay[d].todo /\ Tail(replay[d].todo)[i] = replay[d].todo[i + 1]
  BY <1>1, <1>2, LenProperties
<1>4. /\ replay'[d].todo = Tail(replay[d].todo)
      /\ \A e \in Devices : e # d => replay'[e] = replay[e]
  BY DEF Replayed, TypeOK
<1>5. ASSUME NEW k \in Comics, NEW b \in Body, InReplay(d, k, b)'
      PROVE  InReplay(d, k, b)
  <2>1. PICK i \in DOMAIN Tail(replay[d].todo) :
          Tail(replay[d].todo)[i].c = k /\ Tail(replay[d].todo)[i].body = b
    BY <1>4, <1>5 DEF InReplay
  <2>2. replay[d].todo[i + 1].c = k /\ replay[d].todo[i + 1].body = b
    BY <1>3, <2>1
  <2>. QED
    BY <1>3, <2>1, <2>2 DEF InReplay
<1>6. \A e \in Devices, k \in Comics, b \in Body :
        e # d => (InReplay(e, k, b)' => InReplay(e, k, b))
  BY <1>4 DEF InReplay
<1>. QED
  BY <1>5, <1>6

\* The list of a replay that is over, or has yet to be read, is empty or the
\* one it was.
LEMMA ListDrops ==
  ASSUME TypeOK, NEW d \in Devices, NEW p, p.todo = <<>> \/ p.todo = replay[d].todo,
         replay' = [replay EXCEPT ![d] = p]
  PROVE  \A e \in Devices, k \in Comics, b \in Body : InReplay(e, k, b)' => InReplay(e, k, b)
<1>1. replay'[d] = p /\ \A e \in Devices : e # d => replay'[e] = replay[e]
  BY DEF TypeOK
<1>2. ASSUME NEW e \in Devices, NEW k \in Comics, NEW b \in Body, InReplay(e, k, b)'
      PROVE  InReplay(e, k, b)
  <2>1. PICK i \in DOMAIN replay'[e].todo : replay'[e].todo[i].c = k /\ replay'[e].todo[i].body = b
    BY <1>2 DEF InReplay
  <2>2. replay'[e].todo = <<>> \/ replay'[e].todo = replay[e].todo
    BY <1>1
  <2>3. replay'[e].todo # <<>>
    BY <2>1
  <2>. QED
    BY <2>1, <2>2, <2>3 DEF InReplay
<1>. QED
  BY <1>2

\* Only queue and replay change with an answer, apart from its slot.
LEMMA AnswerFrame ==
  ASSUME PInv, PInv', SInv,
         UNCHANGED <<now, stored, newest, pending, paused>>, excused \subseteq excused',
         NEW s \in Slots, NEW r, r = Free \/ r = [req[s] EXCEPT !.heard = FALSE],
         req' = [req EXCEPT ![s] = r],
         \A e \in Devices, k \in Comics, b \in Body : InReplay(e, k, b)' => InReplay(e, k, b),
         \A e \in Devices, k \in Comics, b \in Body :
           InQueue(e, k, b)' => InQueue(e, k, b) \/ InFlight(e, k, b),
         \A e \in Devices, k \in Comics, b \in Body :
           InQueue(e, k, b) /\ newest[k] <= Worth(e, b) /\ k \notin excused' =>
             Stands(k) \/ \E a \in Body : InQueue(e, k, a)' /\ b.at <= a.at,
         \A e \in Devices, k \in Comics, b \in Body :
           /\ Asks(s, e, k, b) /\ req[s].heard /\ req[s].from # "replay"
           /\ newest[k] <= Worth(e, b) /\ k \notin excused'
           => Stands(k) \/ InQueue(e, k, b)'
  PROVE  SInv'
<1>. TypeOK /\ TypeOK'
  BY DEF PInv
<1>1. /\ \A t \in Slots : Judged(t)
      /\ \A e \in Devices, k \in Comics, b \in Body :
           /\ InRequest(e, k, b) =>
                InRequest(e, k, b)' \/ (Asks(s, e, k, b) /\ req[s].heard /\ req[s].from # "replay")
           /\ InFlight(e, k, b)' => InFlight(e, k, b)
  BY SlotDrops
<1>2. NothingNew
  <2>. SUFFICES ASSUME NEW e \in Devices, NEW k \in Comics, NEW b \in Body, Carries(e, k, b)'
                PROVE  Carries(e, k, b)
    BY DEF NothingNew
  <2>1. InRequest(e, k, b)' => InFlight(e, k, b)'
    BY DEF InRequest, InFlight
  <2>. QED
    BY <1>1, <2>1, PlacesSame DEF Carries, Keeps
<1>3. HandedOn
  <2>. SUFFICES ASSUME NEW e \in Devices, NEW k \in Comics, NEW b \in Body, Keeps(e, k, b),
                       newest[k] <= Worth(e, b), k \notin excused'
                PROVE  Stands(k) \/ \E a \in Body : Keeps(e, k, a)' /\ b.at <= a.at
    BY DEF HandedOn
  <2>1. CASE InPending(e, k, b) \/ InPaused(e, k, b)
    BY <2>1, PlacesSame, BodyAt DEF Keeps
  <2>2. CASE InQueue(e, k, b)
    BY <2>2 DEF Keeps
  <2>3. CASE InRequest(e, k, b)
    BY <1>1, <2>3, BodyAt DEF Keeps
  <2>. QED
    BY <2>1, <2>2, <2>3 DEF Keeps
<1>. QED
  BY <1>1, <1>2, <1>3, QuietStep, StateInts DEF Steady

LEMMA AskedOf ==
  ASSUME NEW s \in Slots, NEW e, NEW k, NEW b, Asks(s, e, k, b)
  PROVE  e = req[s].dev /\ k = req[s].c /\ b = req[s].body /\ InFlight(e, k, b)
BY DEF Asks, InFlight

LEMMA DeliveryKeeps ==
  ASSUME PInv, PInv', SInv, NEW s \in Slots, Delivery(s)
  PROVE  SInv'
<1>. TypeOK /\ TypeOK' /\ ReplayOK
  BY DEF PInv
<1>0. /\ req[s].heard /\ req[s].pc # "free" /\ req' = [req EXCEPT ![s] = Free]
      /\ req[s].dev \in Devices /\ req[s].c \in Comics /\ req[s].body \in Body
      /\ UNCHANGED <<now, stored, newest, pending, paused>> /\ excused \subseteq excused'
  BY DEF Delivery, Hears, HearsRefusal, Release, Excuse, TypeOK, UnderWay
<1>. PICK d \in Devices, c \in Comics, body \in Body :
       d = req[s].dev /\ c = req[s].c /\ body = req[s].body
  BY <1>0
<1>1. InFlight(d, c, body) /\ \A e, k, b : Asks(s, e, k, b) => e = d /\ k = c /\ b = body
  BY <1>0 DEF InFlight, Asks
<1>2. \A e \in Devices, k \in Comics, b \in Body : InReplay(e, k, b)' => InReplay(e, k, b)
  <2>1. CASE UNCHANGED replay
    BY <2>1, PlacesSame
  <2>2. CASE req[s].from = "replay" /\ replay' = Replayed(d)
    <3>1. replay[d].pc = "wait"
      BY <1>0, <2>2 DEF ReplayOK, ForReplay
    <3>. QED
      BY <2>2, <3>1, TailDrops
  <2>. QED
    BY <2>1, <2>2 DEF Delivery, Hears, HearsRefusal
\* A save that was answered: the server has it or a newer one.
<1>3. CASE Hears(s) /\ req[s].from # "replay"
  <2>1. UNCHANGED <<queue, excused>> /\ req[s].pc = "answered"
    BY <1>3 DEF Hears
  <2>2. newest[c] <= Worth(d, body) /\ c \notin excused' => Stands(c)
    BY <2>1 DEF SInv, AnswerOK
  <2>. QED
    BY <1>0, <1>1, <1>2, <2>1, <2>2, PlacesSame, BodyAt, AnswerFrame
\* A replayed row was answered, and leaves the queue.
<1>4. CASE Hears(s) /\ req[s].from = "replay"
  <2>1. queue' = Deleted(d, c) /\ req[s].pc = "answered"
    BY <1>4 DEF Hears
  <2>2. c \notin excused' => queue[d][c] \in {None, body}
    BY <1>4 DEF Hears, Excuse
  <2>3. c \notin excused' => c \notin excused
    BY <1>0
  <2>4. newest[c] <= Worth(d, body) /\ c \notin excused' => Stands(c)
    BY <2>1, <2>3 DEF SInv, AnswerOK
  <2>5. ASSUME NEW e \in Devices, NEW k \in Comics, NEW b \in Body,
               InQueue(e, k, b), newest[k] <= Worth(e, b), k \notin excused'
        PROVE  Stands(k) \/ \E a \in Body : InQueue(e, k, a)' /\ b.at <= a.at
    <3>1. CASE InQueue(e, k, b)'
      BY <3>1, BodyAt
    <3>2. CASE e = d /\ k = c /\ b = queue[d][c]
      BY <2>2, <2>4, <2>5, <3>2, BodyAt
    <3>. QED
      BY <2>1, <2>5, <3>1, <3>2, DeleteDrops
  <2>6. \A e \in Devices, k \in Comics, b \in Body : InQueue(e, k, b)' => InQueue(e, k, b)
    BY <2>1, DeleteDrops
  <2>. QED
    BY <1>0, <1>2, <1>4, <2>5, <2>6, AnswerFrame
\* A refused save is given up, and excused.
<1>5. CASE HearsRefusal(s) /\ req[s].from = "save"
  <2>1. UNCHANGED queue /\ c \in excused'
    BY <1>5 DEF HearsRefusal, Excuse
  <2>. QED
    BY <1>0, <1>1, <1>2, <2>1, PlacesSame, BodyAt, AnswerFrame
<1>6. CASE HearsRefusal(s) /\ req[s].from = "leave"
  <2>1. queue' = Enqueued(d, c, body) /\ (Overtakes(queue[d][c], body) => c \in excused')
    BY <1>6 DEF HearsRefusal, Excuse
  <2>2. /\ InQueue(d, c, body)'
        /\ \A e \in Devices, k \in Comics, b \in Body :
             /\ InQueue(e, k, b)' => InQueue(e, k, b) \/ InFlight(e, k, b)
             /\ InQueue(e, k, b) /\ k \notin excused' =>
                  \E a \in Body : InQueue(e, k, a)' /\ b.at <= a.at
    BY <1>1, <2>1, EnqueueKeeps, BodyAt
  <2>. QED
    BY <1>0, <1>1, <1>2, <2>2, AnswerFrame
<1>7. CASE HearsRefusal(s) /\ req[s].from = "replay"
  <2>1. CASE queue' = Deleted(d, c) /\ c \in excused'
    <3>1. \A e \in Devices, k \in Comics, b \in Body :
            /\ InQueue(e, k, b)' => InQueue(e, k, b)
            /\ InQueue(e, k, b) /\ k \notin excused' => InQueue(e, k, b)'
      BY <2>1, DeleteDrops
    <3>. QED
      BY <1>0, <1>2, <1>7, <3>1, BodyAt, AnswerFrame
  <2>2. CASE UNCHANGED queue
    BY <1>0, <1>2, <1>7, <2>2, PlacesSame, BodyAt, AnswerFrame
  <2>. QED
    BY <1>7, <2>1, <2>2 DEF HearsRefusal, Excuse
<1>. QED
  BY <1>3, <1>4, <1>5, <1>6, <1>7 DEF Delivery, HearsRefusal

LEMMA LossKeeps ==
  ASSUME PInv, PInv', SInv, NEW s \in Slots, Loses(s) \/ Vanishes(s)
  PROVE  SInv'
<1>. TypeOK /\ TypeOK' /\ ReplayOK
  BY DEF PInv
<1>1. CASE Vanishes(s)
  <2>1. /\ req' = [req EXCEPT ![s] = Free] /\ ~req[s].heard
        /\ UNCHANGED <<now, stored, newest, pending, paused, queue, replay, excused>>
    BY <1>1 DEF Vanishes, Release, device, history
  <2>. QED
    BY <2>1, PlacesSame, BodyAt, AnswerFrame
<1>2. CASE Loses(s)
  <2>. DEFINE r == IF req[s].pc \in {"sent", "write"} THEN [req[s] EXCEPT !.heard = FALSE] ELSE Free
  <2>0. /\ req[s].heard /\ req[s].pc # "free"
        /\ req[s].dev \in Devices /\ req[s].c \in Comics /\ req[s].body \in Body
        /\ UNCHANGED <<now, stored, newest, pending, paused>> /\ excused \subseteq excused'
        /\ req' = [req EXCEPT ![s] = r]
        /\ r = Free \/ r = [req[s] EXCEPT !.heard = FALSE]
    BY <1>2 DEF Loses, Excuse, TypeOK, UnderWay
  <2>. HIDE DEF r
  <2>. PICK d \in Devices, c \in Comics, body \in Body :
         d = req[s].dev /\ c = req[s].c /\ body = req[s].body
    BY <2>0
  <2>1. InFlight(d, c, body) /\ \A e, k, b : Asks(s, e, k, b) => e = d /\ k = c /\ b = body
    BY <2>0 DEF InFlight, Asks
  <2>2. CASE req[s].from = "replay"
    <3>1. UNCHANGED <<queue, excused>> /\ replay' = [replay EXCEPT ![d] = ReplayOff]
      BY <1>2, <2>2 DEF Loses
    <3>2. \A e \in Devices, k \in Comics, b \in Body : InReplay(e, k, b)' => InReplay(e, k, b)
      BY <3>1, ListDrops DEF ReplayOff
    <3>. QED
      BY <2>0, <2>2, <3>1, <3>2, PlacesSame, BodyAt, AnswerFrame
  <2>3. CASE req[s].from # "replay"
    <3>1. /\ queue' = Enqueued(d, c, body) /\ (Overtakes(queue[d][c], body) => c \in excused')
          /\ UNCHANGED replay
      BY <1>2, <2>3 DEF Loses, Excuse
    <3>2. /\ InQueue(d, c, body)'
          /\ \A e \in Devices, k \in Comics, b \in Body :
               /\ InQueue(e, k, b)' => InQueue(e, k, b) \/ InFlight(e, k, b)
               /\ InQueue(e, k, b) /\ k \notin excused' =>
                    \E a \in Body : InQueue(e, k, a)' /\ b.at <= a.at
      BY <2>1, <3>1, EnqueueKeeps, BodyAt
    <3>3. \A e \in Devices, k \in Comics, b \in Body : InReplay(e, k, b)' => InReplay(e, k, b)
      BY <3>1, PlacesSame
    <3>4. \A e \in Devices, k \in Comics, b \in Body : Asks(s, e, k, b) => InQueue(e, k, b)'
      BY <2>1, <3>2
    <3>. QED
      BY <2>0, <3>2, <3>3, <3>4, AnswerFrame
  <2>. QED
    BY <2>2, <2>3
<1>. QED
  BY <1>1, <1>2

-----------------------------------------------------------------------------
(* The replay, the browser and the clock.                                  *)

\* Nothing that a device answers for changes.
LEMMA KeptStep ==
  ASSUME PInv, PInv', SInv, now <= now',
         UNCHANGED <<stored, newest, excused, pending, paused, queue>>,
         \A s \in Slots : Judged(s),
         \A e \in Devices, k \in Comics, b \in Body : InRequest(e, k, b) => InRequest(e, k, b)',
         \A e \in Devices, k \in Comics, b \in Body :
           InReplay(e, k, b)' \/ InFlight(e, k, b)' => Carries(e, k, b)
  PROVE  SInv'
<1>1. NothingNew
  <2>. SUFFICES ASSUME NEW e \in Devices, NEW k \in Comics, NEW b \in Body, Carries(e, k, b)'
                PROVE  Carries(e, k, b)
    BY DEF NothingNew
  <2>1. InRequest(e, k, b)' => InFlight(e, k, b)'
    BY DEF InRequest, InFlight
  <2>. QED
    BY <2>1, PlacesSame DEF Carries, Keeps
<1>2. \A e \in Devices, k \in Comics, b \in Body : Keeps(e, k, b) => Keeps(e, k, b)'
  BY PlacesSame DEF Keeps
<1>3. HandedOn
  BY <1>2, BodyAt DEF HandedOn
<1>. QED
  BY <1>1, <1>3, QuietStep DEF Steady

LEMMA ReplayKeeps ==
  ASSUME PInv, PInv', SInv, NEW d \in Devices, ReplayStep(d)
  PROVE  SInv'
<1>. TypeOK /\ TypeOK' /\ ReplayOK
  BY DEF PInv
<1>1. ASSUME ReplayLists(d) PROVE SInv'
  <2>0. UNCHANGED <<now, stored, newest, excused, pending, paused, queue, req>>
    BY <1>1 DEF ReplayLists, history
  <2>1. PICK s \in SetToSeqs({c \in Comics : queue[d][c] # None}) :
          replay' = [replay EXCEPT ![d] =
            [pc |-> "next", todo |-> [i \in DOMAIN s |-> [c |-> s[i], body |-> queue[d][s[i]]]]]]
    BY <1>1 DEF ReplayLists
  <2>2. /\ replay'[d].todo = [i \in DOMAIN s |-> [c |-> s[i], body |-> queue[d][s[i]]]]
        /\ \A e \in Devices : e # d => replay'[e] = replay[e]
    BY <2>1 DEF TypeOK
  <2>3. ASSUME NEW k \in Comics, NEW b \in Body, InReplay(d, k, b)' PROVE InQueue(d, k, b)
    BY <2>2, <2>3 DEF InReplay, InQueue
  <2>4. \A e \in Devices, k \in Comics, b \in Body :
          e # d => (InReplay(e, k, b)' => InReplay(e, k, b))
    BY <2>2 DEF InReplay
  <2>5. \A e \in Devices, k \in Comics, b \in Body :
          InReplay(e, k, b)' \/ InFlight(e, k, b)' => Carries(e, k, b)
    BY <2>0, <2>3, <2>4, SlotsSame DEF Carries, Keeps
  <2>. QED
    BY <2>0, <2>5, SlotsSame, StateInts, KeptStep
<1>2. ASSUME ReplaySends(d) PROVE SInv'
  <2>0. /\ UNCHANGED <<now, stored, newest, excused, pending, paused, queue>>
        /\ replay[d].todo \in Seq(Held) /\ replay[d].todo # <<>>
        /\ replay' = [replay EXCEPT ![d].pc = "wait"]
    BY <1>2 DEF ReplaySends, history, TypeOK
  <2>. DEFINE h == Head(replay[d].todo)
  <2>1. /\ h \in Held /\ 1 \in DOMAIN replay[d].todo /\ replay[d].todo[1] = h
    BY <2>0, HeadTailProperties, LenProperties, EmptySeq
  <2>. HIDE DEF h
  <2>2. h.c \in Comics /\ h.body \in Body
    BY <2>1 DEF Held
  <2>3. PICK s \in Slots : req[s].pc = "free" /\ req' = [req EXCEPT ![s] = Sent(d, "replay", h.c, h.body)]
    BY <1>2 DEF ReplaySends, Send, h
  <2>. DEFINE r == Sent(d, "replay", h.c, h.body)
  <2>4. r.pc = "sent" /\ r.dev = d /\ r.c = h.c /\ r.body = h.body /\ req' = [req EXCEPT ![s] = r]
    BY <2>2, <2>3, SentOK
  <2>. HIDE DEF r
  <2>5. InReplay(d, h.c, h.body)
    BY <2>1 DEF InReplay
  <2>6. ASSUME NEW e \in Devices, NEW k \in Comics, NEW b \in Body
        PROVE  InFlight(e, k, b)' => InFlight(e, k, b) \/ (e = d /\ k = h.c /\ b = h.body)
    BY <2>3, <2>4 DEF InFlight, Asks, TypeOK
  <2>7. \A e \in Devices : replay'[e].todo = replay[e].todo
    BY <2>0 DEF TypeOK
  <2>8. \A e \in Devices, k \in Comics, b \in Body : InReplay(e, k, b)' => InReplay(e, k, b)
    BY <2>7 DEF InReplay
  <2>9. \A e \in Devices, k \in Comics, b \in Body :
          InReplay(e, k, b)' \/ InFlight(e, k, b)' => Carries(e, k, b)
    BY <2>5, <2>6, <2>8 DEF Carries
  <2>10. /\ \A t \in Slots : Judged(t)
         /\ \A e \in Devices, k \in Comics, b \in Body : InRequest(e, k, b) => InRequest(e, k, b)'
    BY <2>3, <2>4, SlotSends
  <2>. QED
    BY <2>0, <2>9, <2>10, StateInts, KeptStep
<1>3. ASSUME ReplayEnds(d) PROVE SInv'
  <2>1. /\ UNCHANGED <<now, stored, newest, excused, pending, paused, queue, req>>
        /\ replay' = [replay EXCEPT ![d] = ReplayOff]
    BY <1>3 DEF ReplayEnds, history
  <2>2. \A e \in Devices, k \in Comics, b \in Body : InReplay(e, k, b)' => InReplay(e, k, b)
    BY <2>1, ListDrops DEF ReplayOff
  <2>. QED
    BY <2>1, <2>2, SlotsSame, StateInts, KeptStep DEF Carries
<1>. QED
  BY <1>1, <1>2, <1>3 DEF ReplayStep

\* A step that moves no claim.
LEMMA StillStep ==
  ASSUME PInv, PInv', SInv, now <= now',
         UNCHANGED <<stored, newest, excused, pending, paused, queue, req>>,
         \A e \in Devices, k \in Comics, b \in Body : InReplay(e, k, b)' => InReplay(e, k, b)
  PROVE  SInv'
BY SlotsSame, KeptStep DEF Carries

LEMMA StartKeeps ==
  ASSUME TypeOK, NEW d \in Devices, replay' = ReplayStarted(d)
  PROVE  \A e \in Devices, k \in Comics, b \in Body : InReplay(e, k, b)' => InReplay(e, k, b)
<1>. DEFINE p == IF replay[d].pc = "off" THEN [replay[d] EXCEPT !.pc = "list"] ELSE replay[d]
<1>1. p.todo = replay[d].todo
  BY DEF TypeOK
<1>2. replay' = [replay EXCEPT ![d] = p]
  BY DEF ReplayStarted
<1>. HIDE DEF p
<1>. QED
  BY <1>1, <1>2, ListDrops

\* What a closed tab takes with it is excused.
LEMMA CloseKeeps ==
  ASSUME PInv, PInv', SInv, NEW d \in Devices, Closes(d)
  PROVE  SInv'
<1>. TypeOK /\ TypeOK'
  BY DEF PInv
<1>0. /\ UNCHANGED <<now, stored, newest, queue>>
      /\ excused' = excused \cup InMemory(d)
      /\ pending' = [pending EXCEPT ![d] = None] /\ paused' = [paused EXCEPT ![d] = {}]
      /\ replay' = [replay EXCEPT ![d] = ReplayOff]
  BY DEF Closes, Excuse
<1>1. ASSUME NEW s \in Slots
      PROVE  /\ \/ req'[s] = req[s] \/ req'[s] = Free
                \/ req'[s] = [req[s] EXCEPT !.heard = FALSE]
             /\ req'[s] # req[s] => req[s].dev = d
  BY DEF Closes
<1>2. ASSUME NEW s \in Slots
      PROVE  \/ req'[s].pc = "free"
             \/ /\ req'[s].pc = req[s].pc /\ req'[s].dev = req[s].dev /\ req'[s].c = req[s].c
                /\ req'[s].body = req[s].body /\ req'[s].cur = req[s].cur /\ req'[s].row = req[s].row
  <2>1. req[s] \in ReqType
    BY DEF TypeOK
  <2>. QED
    BY <1>1, <2>1, FreeOK DEF ReqType
<1>3. \A s \in Slots : Judged(s)
  BY <1>2 DEF Judged
<1>4. \A e \in Devices, k \in Comics, b \in Body : InFlight(e, k, b)' => InFlight(e, k, b)
  BY <1>2 DEF InFlight, Asks
<1>5. \A e \in Devices, k \in Comics, b \in Body : InReplay(e, k, b)' => InReplay(e, k, b)
  BY <1>0, ListDrops DEF ReplayOff
<1>6. \A e \in Devices, k \in Comics, b \in Body :
        /\ InPending(e, k, b)' => InPending(e, k, b)
        /\ InPaused(e, k, b)' => InPaused(e, k, b)
        /\ InPending(e, k, b) => InPending(e, k, b)' \/ e = d
        /\ InPaused(e, k, b) => InPaused(e, k, b)' \/ e = d
  BY <1>0 DEF InPending, InPaused, TypeOK
<1>7. NothingNew
  <2>. SUFFICES ASSUME NEW e \in Devices, NEW k \in Comics, NEW b \in Body, Carries(e, k, b)'
                PROVE  Carries(e, k, b)
    BY DEF NothingNew
  <2>1. InRequest(e, k, b)' => InFlight(e, k, b)'
    BY DEF InRequest, InFlight
  <2>. QED
    BY <1>0, <1>4, <1>5, <1>6, <2>1, PlacesSame DEF Carries, Keeps
<1>8. \A k \in Comics, b \in Body : InPending(d, k, b) \/ InPaused(d, k, b) => k \in InMemory(d)
  BY DEF InPending, InPaused, InMemory
<1>9. ASSUME NEW e \in Devices, NEW k \in Comics, NEW b \in Body, InRequest(e, k, b)
      PROVE  InRequest(e, k, b)' \/ k \in InMemory(d)
  <2>1. PICK s \in Slots : Asks(s, e, k, b) /\ req[s].heard /\ req[s].from # "replay"
    BY <1>9 DEF InRequest
  <2>2. CASE e = d
    BY <2>1, <2>2 DEF Asks, InMemory
  <2>3. CASE e # d
    <3>1. req'[s] = req[s]
      BY <1>1, <2>1, <2>3 DEF Asks
    <3>. QED
      BY <2>1, <3>1 DEF InRequest, Asks
  <2>. QED
    BY <2>2, <2>3
<1>10. HandedOn
  <2>. SUFFICES ASSUME NEW e \in Devices, NEW k \in Comics, NEW b \in Body, Keeps(e, k, b),
                       k \notin excused'
                PROVE  Keeps(e, k, b)'
    BY BodyAt DEF HandedOn
  <2>1. k \notin InMemory(d)
    BY <1>0
  <2>. QED
    BY <1>0, <1>6, <1>8, <1>9, <2>1, PlacesSame DEF Keeps
<1>. QED
  BY <1>0, <1>3, <1>7, <1>10, QuietStep, StateInts DEF Steady

LEMMA BrowserKeeps ==
  ASSUME PInv, PInv', SInv, NEW d \in Devices, BrowserStep(d)
  PROVE  SInv'
<1>. TypeOK
  BY DEF PInv
<1>1. CASE GoesOffline(d)
  BY <1>1, PlacesSame, StillStep, StateInts DEF GoesOffline, history
<1>2. CASE GoesOnline(d)
  BY <1>2, StartKeeps, StillStep, StateInts DEF GoesOnline, history
<1>3. CASE Launches(d)
  BY <1>3, StartKeeps, StillStep, StateInts DEF Launches, history
<1>. QED
  BY <1>1, <1>2, <1>3, CloseKeeps DEF BrowserStep

LEMMA TickKeeps ==
  ASSUME PInv, PInv', SInv, Tick \/ UNCHANGED vars
  PROVE  SInv'
<1>1. now <= now' /\ UNCHANGED <<stored, newest, excused, pending, paused, queue, req, replay>>
  BY StateInts DEF PInv, Tick, vars, device, history
<1>. QED
  BY <1>1, PlacesSame, StillStep

-----------------------------------------------------------------------------
(* The server.                                                             *)

\* A request the handler has worked on is the same claim, or nobody's.
LEMMA ServerFrame ==
  ASSUME PInv, PInv', SInv, UNCHANGED <<now, newest, device, queue>>, excused \subseteq excused',
         NEW s \in Slots, NEW r, req' = [req EXCEPT ![s] = r], req[s].pc # "free",
         \/ r.pc = "free" /\ ~req[s].heard
         \/ /\ r.dev = req[s].dev /\ r.c = req[s].c /\ r.body = req[s].body
            /\ r.from = req[s].from /\ r.heard = req[s].heard /\ r.pc # "free",
         NoneFromFuture', WriteOK(s)', AnswerOK(s)',
         \A c \in Comics : Stands(c) /\ c \notin excused' => Stands(c)'
  PROVE  SInv'
<1>. TypeOK /\ TypeOK'
  BY DEF PInv
<1>1. req'[s] = r /\ \A t \in Slots : t # s => req'[t] = req[t]
  BY DEF TypeOK
<1>2. \A e \in Devices, k \in Comics, b \in Body : InFlight(e, k, b)' => InFlight(e, k, b)
  BY <1>1 DEF InFlight, Asks
<1>3. ASSUME NEW e \in Devices, NEW k \in Comics, NEW b \in Body, InRequest(e, k, b)
      PROVE  InRequest(e, k, b)'
  <2>1. PICK t \in Slots : Asks(t, e, k, b) /\ req[t].heard /\ req[t].from # "replay"
    BY <1>3 DEF InRequest
  <2>2. CASE t = s
    BY <1>1, <2>1, <2>2 DEF InRequest, Asks
  <2>3. CASE t # s
    BY <1>1, <2>1, <2>3 DEF InRequest, Asks
  <2>. QED
    BY <2>2, <2>3
<1>4. UNCHANGED <<pending, paused, queue, replay>> /\ Steady
  BY StateInts DEF device, Steady
<1>5. NothingNew
  <2>. SUFFICES ASSUME NEW e \in Devices, NEW k \in Comics, NEW b \in Body, Carries(e, k, b)'
                PROVE  Carries(e, k, b)
    BY DEF NothingNew
  <2>1. InRequest(e, k, b)' => InFlight(e, k, b)'
    BY DEF InRequest, InFlight
  <2>. QED
    BY <1>2, <1>4, <2>1, PlacesSame DEF Carries, Keeps
<1>6. \A e \in Devices, k \in Comics, b \in Body : Keeps(e, k, b) => Keeps(e, k, b)'
  BY <1>3, <1>4, PlacesSame DEF Keeps
<1>7. HandedOn
  BY <1>6, BodyAt DEF HandedOn
<1>8. ClaimsDue' /\ SomewhereSafe'
  BY <1>4, <1>5, <1>7, DueKept, SafeKept DEF SInv
<1>9. ASSUME NEW t \in Slots, t # s PROVE WriteOK(t)' /\ AnswerOK(t)'
  <2>1. req'[t] = req[t] /\ WriteOK(t) /\ AnswerOK(t) /\ now' = now /\ newest' = newest
    BY <1>1, <1>9 DEF SInv
  <2>2. WriteOK(t)'
    BY <2>1 DEF WriteOK, Worth
  <2>3. req[t].pc = "answered" => req[t].c \in Comics
    BY DEF TypeOK, UnderWay
  <2>4. AnswerOK(t)'
    BY <2>1, <2>3 DEF AnswerOK, Worth, Stands
  <2>. QED
    BY <2>2, <2>4
<1>. QED
  BY <1>8, <1>9 DEF SInv

\* The claim of a request: due, and worth no more than the server makes of it.
LEMMA RequestDue ==
  ASSUME TypeOK, SInv, NEW s \in Slots, req[s].pc # "free"
  PROVE  /\ req[s].dev \in Devices /\ req[s].c \in Comics /\ req[s].body \in Body
         /\ Due(req[s].dev, req[s].c, req[s].body)
         /\ Worth(req[s].dev, req[s].body) <= Claim(req[s].body).at
<1>1. req[s].dev \in Devices /\ req[s].c \in Comics /\ req[s].body \in Body
  BY DEF TypeOK, UnderWay
<1>2. Due(req[s].dev, req[s].c, req[s].body)
  BY <1>1 DEF SInv, ClaimsDue, Carries, InFlight, Asks
<1>3. Claim(req[s].body).at = Earlier(req[s].body.at, now)
  BY <1>1, ClaimOK
<1>4. Skew[req[s].dev] \in Int /\ req[s].body.at \in Nat /\ now \in Nat
  BY <1>1, WorthInt, StateInts
<1>. QED
  BY <1>1, <1>2, <1>3, <1>4 DEF Due, Worth, Earlier

LEMMA AnsweredSlot ==
  ASSUME TypeOK, NEW s \in Slots, NEW pc \in {"answered", "wrong", "notNow"}, req[s].pc # "free"
  PROVE  \/ Answered(s, pc).pc = "free" /\ ~req[s].heard
         \/ /\ Answered(s, pc).dev = req[s].dev /\ Answered(s, pc).c = req[s].c
            /\ Answered(s, pc).body = req[s].body /\ Answered(s, pc).from = req[s].from
            /\ Answered(s, pc).heard = req[s].heard /\ Answered(s, pc).pc = pc
<1>1. req[s] \in ReqType
  BY DEF TypeOK
<1>. QED
  BY <1>1, FreeOK DEF Answered, ReqType

LEMMA ReadsKeeps ==
  ASSUME PInv, PInv', SInv, NEW s \in Slots, ServerReads(s)
  PROVE  SInv'
<1>. TypeOK /\ TypeOK'
  BY DEF PInv
<1>. DEFINE cur == stored[req[s].c]
            claim == Claim(req[s].body)
<1>0. /\ req[s].pc = "sent" /\ req[s] \in ReqType
      /\ UNCHANGED <<now, stored, queue, device, newest, excused>>
  BY DEF ServerReads, history, TypeOK
<1>1. /\ req[s].dev \in Devices /\ req[s].c \in Comics /\ req[s].body \in Body
      /\ Worth(req[s].dev, req[s].body) \in Int
      /\ Worth(req[s].dev, req[s].body) <= claim.at
      /\ claim \in Body /\ claim.at \in Nat /\ claim.at <= now /\ claim.at <= req[s].body.at
      /\ req[s].body.at \in Nat /\ now \in Nat
      /\ newest[req[s].c] \in Nat
  BY <1>0, RequestDue, ClaimOK, WorthInt, StateInts
<1>2. cur # None => cur \in Body /\ cur.at \in Nat /\ cur.at <= now
  BY <1>1, StateInts DEF SInv, NoneFromFuture
<1>. HIDE DEF cur, claim
<1>3. NoneFromFuture' /\ \A c \in Comics : Stands(c) => Stands(c)'
  BY <1>0 DEF SInv, NoneFromFuture, Stands
\* What will be written.
<1>4. ASSUME NEW row \in Body, row.at \in Nat, row.at <= now,
             Worth(req[s].dev, req[s].body) <= row.at,
             cur # None => \/ cur.at <= req[s].body.at /\ cur.at <= row.at
                           \/ row = [cur EXCEPT !.completed = TRUE],
             req' = [req EXCEPT ![s] = [req[s] EXCEPT !.pc = "write", !.cur = cur, !.row = row]]
      PROVE  SInv'
  <2>. DEFINE r == [req[s] EXCEPT !.pc = "write", !.cur = cur, !.row = row]
  <2>1. /\ r.pc = "write" /\ r.cur = cur /\ r.row = row /\ r.dev = req[s].dev /\ r.c = req[s].c
        /\ r.body = req[s].body /\ r.from = req[s].from /\ r.heard = req[s].heard
        /\ req' = [req EXCEPT ![s] = r]
    BY <1>0, <1>4 DEF ReqType
  <2>. HIDE DEF r
  <2>2. req'[s] = r
    BY <2>1 DEF TypeOK
  <2>3. WriteOK(s)' /\ AnswerOK(s)'
    BY <1>0, <1>4, <2>1, <2>2 DEF WriteOK, AnswerOK, Worth
  <2>. QED
    BY <1>0, <1>3, <2>1, <2>3, ServerFrame
<1>5. CASE ~Stale(claim, cur) /\ req' = [req EXCEPT ![s] = [req[s] EXCEPT !.pc = "write", !.cur = cur, !.row = claim]]
  <2>1. cur # None => cur.at <= claim.at
    BY <1>1, <1>2, <1>5 DEF Stale
  <2>2. cur # None => cur.at <= req[s].body.at
    BY <1>1, <1>2, <2>1
  <2>. QED
    BY <1>1, <1>4, <1>5, <2>1, <2>2
<1>6. CASE Stale(claim, cur) /\ req' = [req EXCEPT ![s] = [req[s] EXCEPT !.pc = "write", !.cur = cur, !.row = Carried(cur, claim)]]
  <2>1. cur \in Body /\ cur.at \in Nat /\ cur.at <= now /\ claim.at < cur.at
    BY <1>2, <1>6 DEF Stale
  <2>2. Carried(cur, claim) \in Body /\ Carried(cur, claim).at = cur.at
    BY <2>1, CarriedOK
  <2>3. Carried(cur, claim) = [cur EXCEPT !.completed = TRUE]
    BY DEF Carried
  <2>4. Worth(req[s].dev, req[s].body) <= cur.at
    BY <1>1, <2>1
  <2>. QED
    BY <1>4, <1>6, <2>1, <2>2, <2>3, <2>4
<1>7. CASE Stale(claim, cur) /\ req' = [req EXCEPT ![s] = Answered(s, "answered")]
  <2>. DEFINE r == Answered(s, "answered")
  <2>1. /\ \/ r.pc = "free" /\ ~req[s].heard
           \/ /\ r.dev = req[s].dev /\ r.c = req[s].c /\ r.body = req[s].body
              /\ r.from = req[s].from /\ r.heard = req[s].heard /\ r.pc = "answered"
        /\ req' = [req EXCEPT ![s] = r]
    BY <1>0, <1>7, AnsweredSlot
  <2>. HIDE DEF r
  <2>2. req'[s] = r
    BY <2>1 DEF TypeOK
  <2>3. cur # None /\ Worth(req[s].dev, req[s].body) <= cur.at
    BY <1>1, <1>2, <1>7 DEF Stale
  <2>4. newest[req[s].c] <= Worth(req[s].dev, req[s].body) => newest[req[s].c] <= cur.at
    BY <1>1, <1>2, <2>3
  <2>5. WriteOK(s)' /\ AnswerOK(s)'
    BY <1>0, <2>1, <2>2, <2>3, <2>4 DEF WriteOK, AnswerOK, Worth, Stands, cur
  <2>. QED
    BY <1>0, <1>3, <2>1, <2>5, ServerFrame
<1>. QED
  BY <1>5, <1>6, <1>7 DEF ServerReads, cur, claim

LEMMA WritesKeeps ==
  ASSUME PInv, PInv', SInv, NEW s \in Slots, ServerWrites(s)
  PROVE  SInv'
<1>. TypeOK /\ TypeOK'
  BY DEF PInv
<1>. DEFINE c == req[s].c
            row == req[s].row
            r == Answered(s, "answered")
<1>0. /\ req[s].pc = "write" /\ stored' = [stored EXCEPT ![c] = row] /\ req' = [req EXCEPT ![s] = r]
      /\ UNCHANGED <<now, queue, device, newest>> /\ excused \subseteq excused'
      /\ Lowers(s) => c \in excused'
  BY DEF ServerWrites, Excuse
<1>1. /\ req[s].dev \in Devices /\ c \in Comics /\ req[s].body \in Body /\ row \in Body
      /\ row.at \in Nat /\ row # None /\ row.at <= now
      /\ Worth(req[s].dev, req[s].body) \in Int /\ Worth(req[s].dev, req[s].body) <= row.at
  BY <1>0, RequestDue, WorthInt, StateInts DEF TypeOK, Writing, SInv, WriteOK
<1>2. req[s].cur # None => req[s].cur.at <= row.at
  <2>1. req[s].cur # None => req[s].cur \in Body /\ req[s].cur.at \in Nat
    BY StateInts DEF TypeOK, ReqType, Body
  <2>2. req[s].cur # None /\ row = [req[s].cur EXCEPT !.completed = TRUE] => row.at = req[s].cur.at
    BY <2>1 DEF Body
  <2>. QED
    BY <1>0, <1>1, <2>1, <2>2 DEF SInv, WriteOK
<1>3. /\ \/ r.pc = "free" /\ ~req[s].heard
         \/ /\ r.dev = req[s].dev /\ r.c = c /\ r.body = req[s].body
            /\ r.from = req[s].from /\ r.heard = req[s].heard /\ r.pc = "answered"
  BY <1>0, AnsweredSlot
<1>. HIDE DEF r
<1>4. req'[s] = r /\ stored'[c] = row /\ \A k \in Comics : k # c => stored'[k] = stored[k]
  BY <1>0, <1>1 DEF TypeOK
<1>5. NoneFromFuture'
  BY <1>0, <1>1, <1>4 DEF SInv, NoneFromFuture
<1>6. ASSUME NEW k \in Comics, Stands(k), k \notin excused' PROVE Stands(k)'
  <2>1. CASE k # c
    BY <1>0, <1>4, <1>6, <2>1 DEF Stands
  <2>2. CASE k = c
    <3>1. stored[c] # None /\ newest[c] <= stored[c].at /\ stored[c].at \in Nat /\ newest[c] \in Nat
      BY <1>1, <1>6, <2>2, StateInts DEF Stands
    <3>2. ~Lowers(s)
      BY <1>0, <1>6, <2>2
    <3>3. stored[c].at <= row.at
      BY <1>1, <1>2, <3>1, <3>2 DEF Lowers
    <3>4. newest[c] <= row.at
      BY <1>1, <3>1, <3>3
    <3>. QED
      BY <1>0, <1>1, <1>4, <2>2, <3>4 DEF Stands
  <2>. QED
    BY <2>1, <2>2
<1>7. newest[c] <= Worth(req[s].dev, req[s].body) => newest[c] <= row.at
  BY <1>1, StateInts
<1>8. WriteOK(s)' /\ AnswerOK(s)'
  BY <1>0, <1>1, <1>3, <1>4, <1>7 DEF WriteOK, AnswerOK, Worth, Stands
<1>. QED
  BY <1>0, <1>3, <1>5, <1>6, <1>8, ServerFrame

LEMMA RefusesKeeps ==
  ASSUME PInv, PInv', SInv, NEW s \in Slots, Refuses(s)
  PROVE  SInv'
<1>. TypeOK /\ TypeOK'
  BY DEF PInv
<1>1. PICK why \in {"wrong", "notNow"} : ServerRefuses(s, why)
  BY DEF Refuses
<1>. DEFINE r == Answered(s, why)
<1>2. /\ req[s].pc # "free" /\ req' = [req EXCEPT ![s] = r]
      /\ UNCHANGED <<now, stored, queue, device, newest, excused>>
  BY <1>1 DEF ServerRefuses, history
<1>3. \/ r.pc = "free" /\ ~req[s].heard
      \/ /\ r.dev = req[s].dev /\ r.c = req[s].c /\ r.body = req[s].body
         /\ r.from = req[s].from /\ r.heard = req[s].heard /\ r.pc = why
  BY <1>2, AnsweredSlot
<1>. HIDE DEF r
<1>4. req'[s] = r
  BY <1>2 DEF TypeOK
<1>5. WriteOK(s)' /\ AnswerOK(s)'
  BY <1>3, <1>4 DEF WriteOK, AnswerOK
<1>6. NoneFromFuture' /\ \A k \in Comics : Stands(k) => Stands(k)'
  BY <1>2 DEF SInv, NoneFromFuture, Stands
<1>. QED
  BY <1>2, <1>3, <1>5, <1>6, ServerFrame

-----------------------------------------------------------------------------
(* A page is turned.                                                       *)

LEMMA TurnKeeps ==
  ASSUME PInv, PInv', SInv, NEW d \in Devices, NEW c \in Comics, NEW p \in Positions, Turn(d, c, p)
  PROVE  SInv'
<1>. TypeOK /\ TypeOK'
  BY DEF PInv
<1>0. [page |-> p.page, completed |-> p.completed, at |-> Clock(d)] \in Body
  BY ClockAhead, ProgressSyncAssumption DEF Body
<1>. PICK new \in Body : new = [page |-> p.page, completed |-> p.completed, at |-> Clock(d)]
  BY <1>0
<1>1. /\ [c |-> c, body |-> new] \in Held /\ [c |-> c, body |-> new] # None
      /\ new.at = Clock(d) /\ new.at = now + Skew[d]
  BY ProgressSyncAssumption DEF Held, Clock
<1>2. /\ UNCHANGED <<now, stored, queue, paused, replay, req>>
      /\ pending[d] # None => pending[d].c = c
      /\ pending' = [pending EXCEPT ![d] = [c |-> c, body |-> new]]
  BY DEF Turn
<1>3. /\ Skew[d] \in Int /\ now \in Nat /\ newest[c] \in Nat /\ Worth(d, new) \in Int
      /\ Worth(d, new) = Earlier(Clock(d), now)
  BY <1>1, WorthInt, StateInts DEF Worth, Clock
<1>4. /\ newest' = [newest EXCEPT ![c] = Later(newest[c], Worth(d, new))]
      /\ excused' = IF newest'[c] > newest[c] THEN excused \ {c} ELSE excused
  BY <1>3 DEF Turn
<1>5. /\ Worth(d, new) <= newest'[c] /\ newest[c] <= newest'[c]
      /\ newest'[c] > newest[c] => newest'[c] = Worth(d, new)
      /\ newest'[c] = newest[c] \/ newest'[c] > newest[c]
  BY <1>3, <1>4 DEF TypeOK, Later
<1>6. \A k \in Comics : k # c => newest'[k] = newest[k] /\ (k \in excused' <=> k \in excused)
  BY <1>4 DEF TypeOK
<1>7. InPending(d, c, new)'
  BY <1>1, <1>2 DEF InPending, TypeOK
<1>8. \A e \in Devices, k \in Comics, b \in Body :
        /\ InPending(e, k, b)' => InPending(e, k, b) \/ (e = d /\ k = c /\ b = new)
        /\ InPending(e, k, b) => InPending(e, k, b)' \/ (e = d /\ k = c)
  BY <1>1, <1>2 DEF InPending, TypeOK
<1>9. NoneFromFuture' /\ \A s \in Slots : WriteOK(s)'
  BY <1>2 DEF SInv, NoneFromFuture, WriteOK, Worth
<1>10. ClaimsDue'
  <2>. SUFFICES ASSUME NEW e \in Devices, NEW k \in Comics, NEW b \in Body, Carries(e, k, b)'
                PROVE  Due(e, k, b)'
    BY DEF ClaimsDue
  <2>1. Carries(e, k, b) \/ (e = d /\ k = c /\ b = new)
    BY <1>2, <1>8, PlacesSame, SlotsSame DEF Carries, Keeps
  <2>2. CASE Carries(e, k, b)
    <3>1. Due(e, k, b)
      BY <2>2 DEF SInv, ClaimsDue
    <3>2. newest[k] <= newest'[k] /\ newest[k] \in Nat /\ newest'[k] \in Nat
      <4>1. newest[k] \in Nat /\ newest'[k] \in Nat
        BY DEF TypeOK
      <4>2. CASE k = c
        BY <1>5, <4>1, <4>2
      <4>3. CASE k # c
        BY <1>6, <4>1, <4>3
      <4>. QED
        BY <4>1, <4>2, <4>3
    <3>3. Worth(e, b) <= newest'[k]
      BY <3>1, <3>2, WorthInt DEF Due
    <3>. QED
      BY <1>2, <3>1, <3>3 DEF Due, Worth
  <2>3. CASE e = d /\ k = c /\ b = new
    <3>1. new.at - Skew[d] <= now /\ Worth(d, new) <= newest'[c]
      BY <1>1, <1>3, <1>5
    <3>. QED
      BY <1>2, <2>3, <3>1 DEF Due, Worth
  <2>. QED
    BY <2>1, <2>2, <2>3
<1>11. ASSUME NEW s \in Slots PROVE AnswerOK(s)'
  <2>. DEFINE k == req[s].c
              w == Worth(req[s].dev, req[s].body)
  <2>. SUFFICES ASSUME req[s].pc = "answered", k \notin excused', newest'[k] <= w
                PROVE  stored[k] # None /\ newest'[k] <= stored[k].at
    BY <1>2 DEF AnswerOK, Stands, Worth
  <2>1. k \in Comics /\ w <= newest[k] /\ w \in Int /\ newest[k] \in Nat /\ newest'[k] \in Nat
    BY RequestDue, WorthInt, StateInts DEF Due, TypeOK
  <2>. HIDE DEF k, w
  <2>2. newest'[k] = newest[k] /\ k \notin excused
    BY <1>4, <1>5, <1>6, <2>1
  <2>3. Stands(req[s].c)
    BY <2>2 DEF SInv, AnswerOK, k, w
  <2>. QED
    BY <2>2, <2>3 DEF Stands, k
<1>12. SomewhereSafe'
  <2>. SUFFICES ASSUME NEW k \in Comics, newest'[k] > 0, k \notin excused', ~Stands(k)'
                PROVE  \E e \in Devices, b \in Body : Keeps(e, k, b)' /\ newest'[k] <= Worth(e, b)
    BY DEF SomewhereSafe, Worth
  <2>1. CASE k = c /\ newest'[c] > newest[c]
    BY <1>3, <1>5, <1>7, <2>1 DEF Keeps
  <2>2. CASE k # c \/ newest'[c] = newest[c]
    <3>1. newest'[k] = newest[k] /\ k \notin excused /\ newest[k] \in Nat
      BY <1>4, <1>5, <1>6, <2>2, StateInts
    <3>2. ~Stands(k)
      BY <1>2, <3>1 DEF Stands
    <3>3. PICK e \in Devices, b \in Body : Keeps(e, k, b) /\ newest[k] <= Worth(e, b)
      BY <3>1, <3>2 DEF SInv, SomewhereSafe
    <3>4. CASE Keeps(e, k, b)'
      BY <3>1, <3>3, <3>4
    <3>5. CASE e = d /\ k = c /\ InPending(d, c, b)
      <4>1. Due(d, c, b)
        BY <3>5 DEF SInv, ClaimsDue, Carries, Keeps
      <4>2. b.at <= new.at
        BY <1>1, <1>3, <4>1, WorthInt DEF Due
      <4>3. Worth(d, b) <= Worth(d, new)
        BY <4>2, WorthOrder
      <4>4. newest[c] <= Worth(d, new)
        BY <1>3, <3>3, <3>5, <4>3, WorthInt
      <4>. QED
        BY <1>7, <3>1, <3>5, <4>4 DEF Keeps
    <3>6. InPending(e, k, b) => Keeps(e, k, b)' \/ (e = d /\ k = c)
      BY <1>8 DEF Keeps
    <3>7. InPaused(e, k, b) \/ InQueue(e, k, b) \/ InRequest(e, k, b) => Keeps(e, k, b)'
      BY <1>2, PlacesSame, SlotsSame DEF Keeps
    <3>. QED
      BY <3>3, <3>4, <3>5, <3>6, <3>7 DEF Keeps
  <2>. QED
    BY <1>5, <2>1, <2>2
<1>. QED
  BY <1>9, <1>10, <1>11, <1>12 DEF SInv

-----------------------------------------------------------------------------
(* The invariant holds, and what follows from it.                          *)

LEMMA OrderInit == Init => SInv
<1>. SUFFICES ASSUME Init PROVE SInv
  OBVIOUS
<1>1. \A s \in Slots : req[s].pc = "free"
  BY FreeOK DEF Init
<1>2. NoneFromFuture /\ SomewhereSafe
  BY DEF Init, NoneFromFuture, SomewhereSafe
<1>3. \A s \in Slots : WriteOK(s) /\ AnswerOK(s)
  BY <1>1 DEF WriteOK, AnswerOK
<1>4. ASSUME NEW d \in Devices, NEW c \in Comics, NEW b \in Body PROVE ~Carries(d, c, b)
  <2>1. replay[d].todo = <<>> /\ pending[d] = None /\ paused[d] = {} /\ queue[d][c] # b
    BY BodyAt DEF Init, ReplayOff
  <2>2. ~InReplay(d, c, b)
    BY <2>1 DEF InReplay
  <2>3. ~InFlight(d, c, b) /\ ~InRequest(d, c, b)
    BY <1>1 DEF InFlight, InRequest, Asks
  <2>. QED
    BY <2>1, <2>2, <2>3 DEF Carries, Keeps, InPending, InPaused, InQueue
<1>5. ClaimsDue
  BY <1>4 DEF ClaimsDue
<1>. QED
  BY <1>2, <1>3, <1>5 DEF SInv

LEMMA OrderNext ==
  ASSUME PInv, PInv', SInv, [Next]_vars
  PROVE  SInv'
<1>1. ASSUME NEW s \in Slots, ServerStep(s) \/ Refuses(s) \/ Delivery(s) \/ Loses(s) \/ Vanishes(s)
      PROVE  SInv'
  BY <1>1, ReadsKeeps, WritesKeeps, RefusesKeeps, DeliveryKeeps, LossKeeps DEF ServerStep
<1>2. ASSUME NEW d \in Devices, ReaderStep(d) \/ ReplayStep(d) \/ BrowserStep(d)
      PROVE  SInv'
  BY <1>2, TurnKeeps, FlushKeeps, ResumeKeeps, ReplayKeeps, BrowserKeeps DEF ReaderStep
<1>3. CASE Tick \/ UNCHANGED vars
  BY <1>3, TickKeeps
<1>. QED
  BY <1>1, <1>2, <1>3 DEF Next

LEMMA AlwaysInOrder == Spec => []SInv
<1>1. PInv /\ PInv' /\ SInv /\ [Next]_vars => SInv'
  BY OrderNext
<1>. QED
  BY <1>1, OrderInit, AlwaysTyped, PTL DEF Spec

\* No stored position is from the server's future, whatever the devices'
\* clocks say.
THEOREM NeverFromFuture == Spec => []NoneFromFuture
<1>1. SInv => NoneFromFuture
  BY DEF SInv
<1>. QED
  BY <1>1, AlwaysInOrder, PTL

\* When nothing of a comic is under way the server has the newest position,
\* unless one of the accounted-for accidents took it.
THEOREM NewestSettles == Spec => []SettlesOnNewest
<1>1. PInv /\ SInv => SettlesOnNewest
  <2>. SUFFICES ASSUME PInv, SInv, NEW c \in Comics, Settled(c), newest[c] > 0, c \notin excused
                PROVE  stored[c] # None /\ stored[c].at >= newest[c]
    BY DEF SettlesOnNewest
  <2>1. TypeOK
    BY DEF PInv
  <2>2. ASSUME NEW d \in Devices, NEW b \in Body, Keeps(d, c, b) PROVE FALSE
    <3>1. \A s \in Slots : ~Asks(s, d, c, b)
      BY DEF Settled, Asks
    <3>2. ~InQueue(d, c, b)
      BY BodyAt DEF Settled, InQueue
    <3>3. ~InPending(d, c, b) /\ ~InPaused(d, c, b)
      BY DEF Settled, InMemory, InPending, InPaused
    <3>. QED
      BY <2>2, <3>1, <3>2, <3>3 DEF Keeps, InRequest
  <2>3. Stands(c)
    BY <2>2 DEF SInv, SomewhereSafe
  <2>. QED
    BY <2>1, <2>3, StateInts DEF Stands
<1>. QED
  BY <1>1, AlwaysInOrder, AlwaysTyped, PTL

\* Which steps end a write: the one that stores, and a refusal.
LEMMA WriteEnds ==
  ASSUME PInv, [Next]_vars, NEW s \in Slots, req[s].pc = "write", req'[s].pc # "write"
  PROVE  \/ stored' = [stored EXCEPT ![req[s].c] = req[s].row] /\ req'[s] # req[s]
         \/ UNCHANGED stored
<1>. TypeOK
  BY DEF PInv
<1>1. ASSUME NEW t \in Slots, ServerWrites(t), t # s PROVE FALSE
  <2>1. req'[s] = req[s]
    BY <1>1 DEF ServerWrites, TypeOK
  <2>. QED
    BY <2>1
<1>2. ServerWrites(s) => stored' = [stored EXCEPT ![req[s].c] = req[s].row] /\ req'[s] # req[s]
  BY DEF ServerWrites
<1>3. ASSUME NEW t \in Slots,
             ServerReads(t) \/ Refuses(t) \/ Delivery(t) \/ Loses(t) \/ Vanishes(t)
      PROVE  UNCHANGED stored
  BY <1>3 DEF ServerReads, Refuses, ServerRefuses, Delivery, Hears, HearsRefusal, Loses, Vanishes
<1>4. ASSUME NEW d \in Devices, ReaderStep(d) \/ ReplayStep(d) \/ BrowserStep(d)
      PROVE  UNCHANGED stored
  BY <1>4 DEF ReaderStep, Turn, Flush, FlushLeaving, Resume, ReplayStep, ReplayLists, ReplaySends,
     ReplayEnds, BrowserStep, GoesOffline, GoesOnline, Launches, Closes
<1>5. Tick \/ UNCHANGED vars => UNCHANGED stored
  BY DEF Tick, vars
<1>. QED
  BY <1>1, <1>2, <1>3, <1>4, <1>5 DEF Next, ServerStep

\* A claim that meets a newer row can finish the comic and nothing else, if no
\* write comes between its judgement and its own.
THEOREM LateClaimsComplete == Spec => LateClaimOnlyCompletes
<1>1. ASSUME PInv, SInv, [Next]_vars
      PROVE  \A s \in Slots :
               LET c == req[s].c
                   cur == req[s].cur
               IN req[s].pc = "write" /\ req'[s].pc # "write" /\ cur # None /\ stored[c] = cur =>
                    \/ req[s].body.at >= cur.at /\ stored'[c].at >= cur.at
                    \/ /\ stored'[c].page = cur.page /\ stored'[c].at = cur.at
                       /\ cur.completed => stored'[c].completed
  <2>. SUFFICES ASSUME NEW s \in Slots, req[s].pc = "write", req'[s].pc # "write",
                       req[s].cur # None, stored[req[s].c] = req[s].cur
                PROVE  \/ /\ req[s].body.at >= req[s].cur.at
                          /\ stored'[req[s].c].at >= req[s].cur.at
                       \/ /\ stored'[req[s].c].page = req[s].cur.page
                          /\ stored'[req[s].c].at = req[s].cur.at
                          /\ req[s].cur.completed => stored'[req[s].c].completed
    OBVIOUS
  <2>0. TypeOK /\ req[s].c \in Comics /\ req[s].cur \in Body
    BY <1>1 DEF PInv, TypeOK, UnderWay, ReqType
  <2>1. CASE UNCHANGED stored
    BY <2>1
  <2>2. CASE stored' = [stored EXCEPT ![req[s].c] = req[s].row]
    <3>1. stored'[req[s].c] = req[s].row
      BY <2>0, <2>2 DEF TypeOK
    <3>2. CASE req[s].cur.at <= req[s].body.at /\ req[s].cur.at <= req[s].row.at
      BY <3>1, <3>2
    <3>3. CASE req[s].row = [req[s].cur EXCEPT !.completed = TRUE]
      BY <2>0, <3>1, <3>3 DEF Body
    <3>. QED
      BY <1>1, <3>2, <3>3 DEF SInv, WriteOK
  <2>. QED
    BY <1>1, <2>1, <2>2, WriteEnds
<1>. QED
  BY <1>1, AlwaysInOrder, AlwaysTyped, PTL DEF Spec, LateClaimOnlyCompletes
=============================================================================
