---------------------------- MODULE ProgressSync ----------------------------
(***************************************************************************)
(* Reading positions of one account on several devices: the reader that    *)
(* claims them (web/src/routes/Reader.tsx), the browser's queue and its    *)
(* replay (web/src/offline/progressQueue.ts), and the handler that keeps   *)
(* the newest (handleSetProgress of internal/server/comic_handlers.go).    *)
(*                                                                         *)
(* A step is what a browser does between two awaits, or one SQL statement. *)
(* A device has one tab.  A request is a slot of the network: it may be    *)
(* lost on the way there, on the way back, or both, and its sender may be  *)
(* gone when it is answered.  A position is the pair of a page and whether *)
(* it finishes the comic; times are seconds.                               *)
(***************************************************************************)
EXTENDS Integers, Sequences, FiniteSets, SequencesExt

CONSTANTS
  Devices,
  Comics,
  Slots,        (* bound: requests under way at once                       *)
  LastPage,     (* page count - 1, as the server has it                    *)
  Positions,    (* what a reader may claim: [page, completed]              *)
  Skew,         (* how far a device's clock is ahead of the server's       *)
  Epoch,        (* the server's time in the initial state                  *)
  MaxTime,      (* bound: no later than this                               *)
  MaxTurns,     (* bound: pages turned in all                              *)
  None,         (* no row and no claim                                     *)
  Faults        (* what may go wrong: "lost", "refused", "offline", "close" *)

\* A row of the database or of a queue, and a claim that waits for its turn.
Body == [page : Nat, completed : BOOLEAN, at : Nat \ {0}]
Held == [c : Comics, body : Body]

ASSUME ProgressSyncAssumption ==
  /\ LastPage \in Nat /\ Epoch \in Nat \ {0} /\ MaxTime \in Nat /\ MaxTurns \in Nat
  /\ Positions \subseteq [page : Nat, completed : BOOLEAN]
  /\ IsFiniteSet(Comics)
  /\ Skew \in [Devices -> Int]
  /\ \A d \in Devices : Epoch + Skew[d] > 0
  /\ None \notin Devices \cup Comics \cup Body \cup Held

VARIABLES
  now,      (* the server's clock                                          *)
  stored,   (* progress: the account's row of each comic                   *)
  queue,    (* IndexedDB: each device's row of each comic                  *)
  open,     (* devices with the app open                                   *)
  online,   (* devices whose browser has not reported being offline        *)
  pending,  (* pendingRef: the claim the debounce holds back               *)
  paused,   (* mutations the query client holds until it is online         *)
  replay,   (* replayProgressQueue: pc, and the rows still to send         *)
  req,      (* the requests under way                                      *)
  turns,    (* how many pages have been turned                             *)
  newest,   (* history: the time of a comic's newest claim                 *)
  excused   (* history: comics whose newest claim something may have undone *)

device == <<open, online, pending, paused, replay>>
history == <<turns, newest, excused>>
vars == <<now, stored, queue, device, req, history>>

-----------------------------------------------------------------------------

Clock(d) == now + Skew[d]
Earlier(a, b) == IF a < b THEN a ELSE b
Later(a, b) == IF a > b THEN a ELSE b

ReplayOff == [pc |-> "off", todo |-> <<>>]
Free == [pc |-> "free", dev |-> None, from |-> "save", c |-> None, body |-> None, cur |-> None,
         row |-> None, heard |-> FALSE]

Sent(d, from, c, body) ==
  [pc |-> "sent", dev |-> d, from |-> from, c |-> c, body |-> body, cur |-> None, row |-> None,
   heard |-> TRUE]

\* A request leaves by some free slot.
Send(d, from, c, body) ==
  \E s \in Slots : req[s].pc = "free" /\ req' = [req EXCEPT ![s] = Sent(d, from, c, body)]

\* An answer nobody waits for is gone.
Answered(s, pc) == IF req[s].heard THEN [req[s] EXCEPT !.pc = pc] ELSE Free
Release(s) == req' = [req EXCEPT ![s] = Free]

\* The newest claim for a comic may have gone with something that was dropped.
Excuse(lost) == excused' = excused \cup lost

-----------------------------------------------------------------------------
(* The reader.                                                             *)

\* jump: the claim is stamped when the page is turned, and replaces the one
\* the debounce holds.  A reader of another comic has flushed its own.
Turn(d, c, p) ==
  /\ d \in open /\ turns < MaxTurns
  /\ pending[d] # None => pending[d].c = c
  /\ turns' = turns + 1
  /\ pending' = [pending EXCEPT ![d] =
       [c |-> c, body |-> [page |-> p.page, completed |-> p.completed, at |-> Clock(d)]]]
  /\ newest' = [newest EXCEPT ![c] = Later(@, Earlier(Clock(d), now))]
  /\ excused' = IF newest'[c] > newest[c] THEN excused \ {c} ELSE excused
  /\ UNCHANGED <<now, stored, queue, open, online, paused, replay, req>>

\* flushProgress, the debounce over: a mutation, which the query client runs
\* at once, or holds in memory while the browser says it is offline.
Flush(d) ==
  /\ d \in open /\ pending[d] # None
  /\ IF d \in online
     THEN Send(d, "save", pending[d].c, pending[d].body) /\ UNCHANGED paused
     ELSE paused' = [paused EXCEPT ![d] = @ \cup {pending[d]}] /\ UNCHANGED req
  /\ pending' = [pending EXCEPT ![d] = None]
  /\ UNCHANGED <<now, stored, queue, open, online, replay, history>>

\* flushProgress when the page is hidden or left: a keepalive request.
FlushLeaving(d) ==
  /\ d \in open /\ pending[d] # None
  /\ Send(d, "leave", pending[d].c, pending[d].body)
  /\ pending' = [pending EXCEPT ![d] = None]
  /\ UNCHANGED <<now, stored, queue, open, online, paused, replay, history>>

\* A held mutation runs when the browser is online again.
Resume(d, m) ==
  /\ d \in online /\ m \in paused[d]
  /\ Send(d, "save", m.c, m.body)
  /\ paused' = [paused EXCEPT ![d] = @ \ {m}]
  /\ UNCHANGED <<now, stored, queue, open, online, pending, replay, history>>

-----------------------------------------------------------------------------
(* The server: handleSetProgress.                                          *)

\* No claim means now, and no claim is from the future.
Believed(at) == at  \* Mutant: the client's clock is taken at its word.
ObservedAt(at) == IF at = 0 THEN now ELSE Earlier(at, now)

\* What the handler makes of a request: the page within the comic, and the
\* comic finished when that is the last.
Claim(body) ==
  LET page == Earlier(body.page, LastPage) IN
    [page |-> page, completed |-> body.completed \/ page >= LastPage, at |-> ObservedAt(body.at)]

NeverStale(claim, cur) == FALSE  \* Mutant: the last to arrive wins.
Stale(claim, cur) == cur # None /\ claim.at < cur.at

\* A stale claim that finishes the comic: the stored page and time, completed.
CarriedWithClaim(cur, claim) ==  \* Mutant: the stale time comes in as well.
  [cur EXCEPT !.completed = TRUE, !.at = claim.at]
Carried(cur, claim) == [cur EXCEPT !.completed = TRUE]

\* GetProgress, and the decision.
ServerReads(s) ==
  /\ req[s].pc = "sent"
  /\ LET cur == stored[req[s].c]
         claim == Claim(req[s].body)
         Deciding(r) == [req[s] EXCEPT !.pc = "write", !.cur = cur, !.row = r]
     IN \/ /\ ~Stale(claim, cur)
           /\ req' = [req EXCEPT ![s] = Deciding(claim)]
        \/ /\ Stale(claim, cur) /\ claim.completed /\ ~cur.completed
           /\ req' = [req EXCEPT ![s] = Deciding(Carried(cur, claim))]
        \/ /\ Stale(claim, cur) /\ (claim.completed => cur.completed)
           /\ req' = [req EXCEPT ![s] = Answered(s, "answered")]
  /\ UNCHANGED <<now, stored, queue, device, history>>

\* An older row over a newer one that another request wrote since the read.
Lowers(s) ==
  LET stands == stored[req[s].c] IN
    stands \notin {None, req[s].cur} /\ req[s].row.at < stands.at

\* SetProgressAt: an upsert, whatever the row has become since it was read.
ServerWrites(s) ==
  /\ req[s].pc = "write"
  /\ stored' = [stored EXCEPT ![req[s].c] = req[s].row]
  /\ req' = [req EXCEPT ![s] = Answered(s, "answered")]
  /\ Excuse(IF Lowers(s) THEN {req[s].c} ELSE {})
  /\ UNCHANGED <<now, queue, device, turns, newest>>

\* A 4xx the client cannot mend, or one that means "not now" (a session that
\* has expired, a timeout, a limit) or a 5xx.
ServerRefuses(s, why) ==
  /\ "refused" \in Faults /\ req[s].pc \in {"sent", "write"}
  /\ req' = [req EXCEPT ![s] = Answered(s, why)]
  /\ UNCHANGED <<now, stored, queue, device, history>>

-----------------------------------------------------------------------------
(* Answers, and requests that never get one.                               *)

\* enqueueProgress: one row per comic, the last one put.
EnqueuedWhole(d, c, body) ==  \* Mutant: the row is the claim and its comic.
  [queue EXCEPT ![d][c] = [c |-> c, body |-> body]]
Enqueued(d, c, body) == [queue EXCEPT ![d][c] = body]
Deleted(d, c) == [queue EXCEPT ![d][c] = None]
Overtakes(row, body) == row # None /\ row.at > body.at

\* Mutant: the row is not deleted, and the loop does not move on.
NotReplayed(d) == [replay EXCEPT ![d] = [@ EXCEPT !.pc = "next"]]
Replayed(d) == [replay EXCEPT ![d] = [pc |-> "next", todo |-> Tail(@.todo)]]

\* A saved position needs nothing more; a replayed one leaves the queue, by
\* its comic, whatever its row has become since the list was read.
Hears(s) ==
  /\ req[s].heard /\ req[s].pc = "answered"
  /\ LET d == req[s].dev
         c == req[s].c
     IN IF req[s].from = "replay"
        THEN /\ queue' = Deleted(d, c)
             /\ replay' = Replayed(d)
             /\ Excuse(IF queue[d][c] \notin {None, req[s].body} THEN {c} ELSE {})
        ELSE UNCHANGED <<queue, replay, excused>>
  /\ Release(s)
  /\ UNCHANGED <<now, stored, open, online, pending, paused, turns, newest>>

\* A save is given up, a leaving reader queues, and a replay deletes the row
\* or leaves it for another time.
HearsRefusal(s) ==
  /\ req[s].heard /\ req[s].pc \in {"wrong", "notNow"}
  /\ LET d == req[s].dev
         c == req[s].c
     IN \/ /\ req[s].from = "save"
           /\ Excuse({c})
           /\ UNCHANGED <<queue, replay>>
        \/ /\ req[s].from = "leave"
           /\ queue' = Enqueued(d, c, req[s].body)
           /\ Excuse(IF Overtakes(queue[d][c], req[s].body) THEN {c} ELSE {})
           /\ UNCHANGED replay
        \/ /\ req[s].from = "replay"
           /\ replay' = Replayed(d)
           /\ IF req[s].pc = "wrong" THEN queue' = Deleted(d, c) /\ Excuse({c})
                                     ELSE UNCHANGED <<queue, excused>>
  /\ Release(s)
  /\ UNCHANGED <<now, stored, open, online, pending, paused, turns, newest>>

\* fetch rejects: the network is gone.  The request may be on its way still.
\* A position is queued; a replay stops.
Loses(s) ==
  /\ "lost" \in Faults /\ req[s].heard
  /\ LET d == req[s].dev
         c == req[s].c
     IN IF req[s].from = "replay"
        THEN replay' = [replay EXCEPT ![d] = ReplayOff] /\ UNCHANGED <<queue, excused>>
        ELSE /\ queue' = Enqueued(d, c, req[s].body)
             /\ Excuse(IF Overtakes(queue[d][c], req[s].body) THEN {c} ELSE {})
             /\ UNCHANGED replay
  /\ req' = [req EXCEPT ![s] = IF @.pc \in {"sent", "write"} THEN [@ EXCEPT !.heard = FALSE] ELSE Free]
  /\ UNCHANGED <<now, stored, open, online, pending, paused, turns, newest>>

\* A request nobody waits for never reaches the server.
Vanishes(s) ==
  /\ ~req[s].heard /\ req[s].pc = "sent"
  /\ Release(s)
  /\ UNCHANGED <<now, stored, queue, device, history>>

-----------------------------------------------------------------------------
(* replayProgressQueue.                                                    *)

\* One replay at a time: on launch, on sign-in, when the browser is online.
ReplayStarted(d) == [replay EXCEPT ![d] = IF @.pc = "off" THEN [@ EXCEPT !.pc = "list"] ELSE @]

ReplayLists(d) ==
  /\ replay[d].pc = "list"
  /\ \E s \in SetToSeqs({c \in Comics : queue[d][c] # None}) :
       replay' = [replay EXCEPT ![d] =
         [pc |-> "next", todo |-> [i \in DOMAIN s |-> [c |-> s[i], body |-> queue[d][s[i]]]]]]
  /\ UNCHANGED <<now, stored, queue, open, online, pending, paused, req, history>>

ReplaySends(d) ==
  /\ replay[d].pc = "next" /\ replay[d].todo # <<>>
  /\ Send(d, "replay", Head(replay[d].todo).c, Head(replay[d].todo).body)
  /\ replay' = [replay EXCEPT ![d].pc = "wait"]
  /\ UNCHANGED <<now, stored, queue, open, online, pending, paused, history>>

ReplayEnds(d) ==
  /\ replay[d].pc = "next" /\ replay[d].todo = <<>>
  /\ replay' = [replay EXCEPT ![d] = ReplayOff]
  /\ UNCHANGED <<now, stored, queue, open, online, pending, paused, req, history>>

-----------------------------------------------------------------------------
(* The browser and the clock.                                              *)

GoesOffline(d) ==
  /\ "offline" \in Faults /\ d \in open \cap online
  /\ online' = online \ {d}
  /\ UNCHANGED <<now, stored, queue, open, pending, paused, replay, req, history>>

GoesOnline(d) ==
  /\ d \in open \ online
  /\ online' = online \cup {d}
  /\ replay' = ReplayStarted(d)
  /\ UNCHANGED <<now, stored, queue, open, pending, paused, req, history>>

\* A launched app takes itself to be online until the browser says otherwise.
Launches(d) ==
  /\ d \notin open
  /\ open' = open \cup {d} /\ online' = online \cup {d}
  /\ replay' = ReplayStarted(d)
  /\ UNCHANGED <<now, stored, queue, pending, paused, req, history>>

\* What the tab alone knows of: claims held back, and requests it waits for.
InMemory(d) ==
  {c \in Comics :
     \/ pending[d] # None /\ pending[d].c = c
     \/ \E m \in paused[d] : m.c = c
     \/ \E s \in Slots : req[s].heard /\ req[s].dev = d /\ req[s].c = c /\ req[s].from # "replay"}

\* The tab is closed or killed.  What pagehide sends has been sent.
Closes(d) ==
  /\ "close" \in Faults /\ d \in open
  /\ open' = open \ {d} /\ online' = online \ {d}
  /\ Excuse(InMemory(d))
  /\ pending' = [pending EXCEPT ![d] = None]
  /\ paused' = [paused EXCEPT ![d] = {}]
  /\ replay' = [replay EXCEPT ![d] = ReplayOff]
  /\ req' = [s \in Slots |->
       IF req[s].dev # d \/ ~req[s].heard THEN req[s]
       ELSE IF req[s].pc \in {"sent", "write"} THEN [req[s] EXCEPT !.heard = FALSE]
       ELSE Free]
  /\ UNCHANGED <<now, stored, queue, turns, newest>>

Tick ==
  /\ now < MaxTime
  /\ now' = now + 1
  /\ UNCHANGED <<stored, queue, device, req, history>>

-----------------------------------------------------------------------------

Init ==
  /\ now = Epoch
  /\ stored = [c \in Comics |-> None]
  /\ queue = [d \in Devices |-> [c \in Comics |-> None]]
  /\ open = {} /\ online = {}
  /\ pending = [d \in Devices |-> None] /\ paused = [d \in Devices |-> {}]
  /\ replay = [d \in Devices |-> ReplayOff]
  /\ req = [s \in Slots |-> Free]
  /\ turns = 0 /\ newest = [c \in Comics |-> 0] /\ excused = {}

ServerStep(s) == ServerReads(s) \/ ServerWrites(s)
Refuses(s) == \E why \in {"wrong", "notNow"} : ServerRefuses(s, why)
Delivery(s) == Hears(s) \/ HearsRefusal(s)
ReplayStep(d) == ReplayLists(d) \/ ReplaySends(d) \/ ReplayEnds(d)
ReaderStep(d) ==
  \/ \E c \in Comics : \E p \in Positions : Turn(d, c, p)
  \/ Flush(d) \/ FlushLeaving(d)
  \/ \E m \in paused[d] : Resume(d, m)
BrowserStep(d) == GoesOffline(d) \/ GoesOnline(d) \/ Launches(d) \/ Closes(d)

Next ==
  \/ \E s \in Slots : ServerStep(s) \/ Refuses(s) \/ Delivery(s) \/ Loses(s) \/ Vanishes(s)
  \/ \E d \in Devices : ReaderStep(d) \/ ReplayStep(d) \/ BrowserStep(d)
  \/ Tick

Spec == Init /\ [][Next]_vars

-----------------------------------------------------------------------------
(* Types.                                                                  *)

PCs == {"free", "sent", "write", "answered", "wrong", "notNow"}
ReqType == [pc : PCs, dev : Devices \cup {None}, from : {"save", "leave", "replay"},
            c : Comics \cup {None}, body : Body \cup {None}, cur : Body \cup {None},
            row : Body \cup {None}, heard : BOOLEAN]
UnderWay(r) ==
  /\ r.heard => r.pc # "free"
  /\ r.pc # "free" => r.dev \in Devices /\ r.c \in Comics /\ r.body \in Body
Writing(r) == r.pc = "write" => r.row \in Body

\* The tables hold rows and claims; a request under way has all its parts.
TypeOK ==
  /\ now \in Nat /\ now >= Epoch
  /\ stored \in [Comics -> Body \cup {None}]
  /\ queue \in [Devices -> [Comics -> Body \cup {None}]]
  /\ open \subseteq Devices /\ online \subseteq open
  /\ pending \in [Devices -> Held \cup {None}]
  /\ paused \in [Devices -> SUBSET Held]
  /\ replay \in [Devices -> [pc : {"off", "list", "next", "wait"}, todo : Seq(Held)]]
  /\ req \in [Slots -> ReqType] /\ \A s \in Slots : UnderWay(req[s]) /\ Writing(req[s])
  /\ turns \in Nat /\ newest \in [Comics -> Nat] /\ excused \subseteq Comics

(***************************************************************************)
(* Fairness: the server handles and answers what reaches it, the page goes *)
(* on when it is answered, and a free slot is only a bound of the model.   *)
(***************************************************************************)
Fairness ==
  /\ \A s \in Slots : WF_vars(ServerStep(s)) /\ WF_vars(Delivery(s)) /\ WF_vars(Vanishes(s))
  /\ \A d \in Devices : SF_vars(ReplayStep(d))

FairSpec == Spec /\ Fairness

-----------------------------------------------------------------------------
(* Safety.                                                                 *)

\* However fast a device's clock is, no stored time is past the server's, so
\* any position read from now on can replace the stored one.
NoneFromFuture == \A c \in Comics : stored[c] # None => stored[c].at <= now

\* A claim older than the row it met leaves that row's page and time alone, and
\* can finish the comic but not un-finish it, if no other write came between.
LateClaimOnlyCompletes ==
  [][\A s \in Slots :
       LET c == req[s].c
           cur == req[s].cur
       IN req[s].pc = "write" /\ req'[s].pc # "write" /\ cur # None /\ stored[c] = cur =>
            \/ req[s].body.at >= cur.at /\ stored'[c].at >= cur.at
            \/ /\ stored'[c].page = cur.page /\ stored'[c].at = cur.at
               /\ cur.completed => stored'[c].completed]_vars

\* Nothing of a comic is under way any more.
Settled(c) ==
  /\ \A s \in Slots : req[s].c # c
  /\ \A d \in Devices : queue[d][c] = None /\ c \notin InMemory(d)

\* When all is delivered, the server has the newest position read on any
\* device.  What may take it away is listed in the actions that excuse it: an
\* overlapping older write, a refused claim, a tab that closes, a queue row
\* replaced by an older failure or deleted for the one it replaced.
SettlesOnNewest ==
  \A c \in Comics : Settled(c) /\ newest[c] > 0 /\ c \notin excused =>
    stored[c] # None /\ stored[c].at >= newest[c]

\* A replay comes to its end, whatever is refused, lost or read meanwhile: the
\* flag that keeps a second one away is cleared.
ReplayFinishes == \A d \in Devices : (replay[d].pc # "off") ~> (replay[d].pc = "off")

=============================================================================
