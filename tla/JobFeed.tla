------------------------------- MODULE JobFeed -------------------------------
(***************************************************************************)
(* What open pages show of the import jobs and of the queue's paused flag: *)
(* the hub and its sockets (internal/server/ws.go), the publications of    *)
(* imports.Manager and its JobSnapshot (internal/imports/manager.go), and  *)
(* the page that merges them (web/src/live/LiveData.tsx).                  *)
(*                                                                         *)
(* A topic is a job or the flag, and what is said of it is the number of   *)
(* the change it tells of; 0 says nothing, or that there is no such job.   *)
(* A publication changes the manager's memory, saves the row, and is then  *)
(* sent to one socket after another, while others are under way.           *)
(***************************************************************************)
EXTENDS Integers, Sequences, FiniteSets

CONSTANTS
  Jobs,
  Queue,       (* the topic of the paused flag                             *)
  Clients,     (* pages, each with one socket                              *)
  Users,
  Admins,      (* the users with is_admin                                  *)
  Owner,       (* whose a job is; None for the library's conversions       *)
  Started,     (* a job's started_at, in seconds: two may have the same,   *)
               (* and a clock that is set back makes a later job older     *)
  SnapshotLimit, (* jobs a set frame holds, 20 in the code                 *)
  Pubs,        (* bound: publications under way at once                    *)
  Buffer,      (* frames a socket's buffer holds, 32 in the code           *)
  MaxChanges,  (* bound: changes of the topics, together                   *)
  MaxDials,    (* bound: connections made and restarts                     *)
  None

Topics == Jobs \cup {Queue}

ASSUME FeedAssumption ==
  /\ Queue \notin Jobs /\ Buffer \in Nat \ {0} /\ MaxChanges \in Nat /\ MaxDials \in Nat
  /\ None \notin Topics
  /\ Started \in [Jobs -> Nat] /\ SnapshotLimit \in Nat \ {0}

VARIABLES
  account,  (* whose each page is                                          *)
  live,     (* Manager.live's snapshots; the flag is Manager.paused        *)
  row,      (* the rows; the flag's in the meta table                      *)
  over,     (* jobs whose last change has been made                        *)
  imported, (* of those, the library's conversions that ended in a comic   *)
  last,     (* Hub.last[WSTypeQueue]                                       *)
  pub,      (* the publications under way                                  *)
  conn,     (* how far handleWS has come with each page's socket           *)
  snap,     (* the snapshot it is making                                   *)
  buf,      (* wsClient.send                                               *)
  shows,    (* the page                                                    *)
  dials,    (* connections made and restarts                               *)
  changes,  (* changes made                                                *)
  told,     (* history: the newest change of a topic sent out so far       *)
  wrong,    (* history: topics an accident has put a page behind on        *)
  beyond,   (* history: jobs a page's last set left out for its size       *)
  loose     (* history: jobs with progress that came too soon to tell, or  *)
            (* with a row that an older save has overwritten; the flag     *)
            (* when its save has failed                                    *)

manager == <<live, row, over, imported, loose>>
sockets == <<last, conn, snap, buf, told, wrong, beyond>>
rest == <<account, dials, changes>>
vars == <<manager, sockets, pub, shows, rest>>

\* One more change, within the bound.
Change == changes < MaxChanges /\ changes' = changes + 1

-----------------------------------------------------------------------------
(* Frames.  A set frame ("jobs") says of each job it lists where it        *)
(* stands, and by leaving one out that there is none; a single frame       *)
(* ("job", "queue") mentions one topic.  Beside that, for the accounts     *)
(* wrong and beyond: old, the topics that something else may have been     *)
(* told of since the frame was made, and cut, the jobs that it had no      *)
(* place for.                                                              *)

Blank == [t \in Topics |-> 0]
One(t, v) == [set |-> FALSE, of |-> [Blank EXCEPT ![t] = v], old |-> {t}, cut |-> {}]
All(f, cut) == [set |-> TRUE, of |-> f, old |-> {}, cut |-> cut]
Unmade == All(Blank, {})
Mentions(m, t) == IF m.set THEN t \in Jobs ELSE m.of[t] # 0
Ages(m, new) ==
  [m EXCEPT !.old = @ \cup {t \in Topics : Mentions(m, t) /\ Mentions(new, t)}]

\* ListImportJobs, or ListAllImportJobs for an admin.
MaySee(u, j) == u \in Admins \/ Owner[j] = u

\* A send never waits: a full buffer loses the frame.
Room(b) == TRUE  \* Mutant: the buffer takes what comes.
HasRoom(b) == Len(b) < Buffer
Newest(old, m) == [t \in Topics |-> IF m.of[t] > old[t] THEN m.of[t] ELSE old[t]]
NoLonger(t) == row[t] = 0 /\ live[t] = 0
Behind(b, m) ==
  {t \in Topics : Mentions(m, t) /\ (
     \/ ~HasRoom(b)
     \/ t \in m.old /\ m.of[t] < told[t]
     \/ m.of[t] # 0 /\ NoLonger(t))}

\* One frame to one socket; wrong and beyond keep the account of it.
Bare(m) == [m EXCEPT !.old = {}, !.cut = {}]
Sends(c, m) ==
  /\ buf' = IF HasRoom(buf[c]) THEN [buf EXCEPT ![c] = Append(@, Bare(m))] ELSE buf
  /\ wrong' = [wrong EXCEPT ![c] = {t \in @ : ~Mentions(m, t)} \cup Behind(buf[c], m)]
  /\ beyond' = [beyond EXCEPT ![c] = {t \in @ : ~Mentions(m, t)} \cup m.cut]

-----------------------------------------------------------------------------
(* Publications.                                                           *)

NoPub == [topic |-> None, frame |-> Unmade, at |-> "none", next |-> "none",
          to |-> {}, user |-> None]
Starts(p, t, v, at) ==
  /\ pub[p] = NoPub
  /\ pub' = [pub EXCEPT ![p] = [NoPub EXCEPT !.topic = t, !.frame = One(t, v), !.at = at]]
Moves(p, at) == pub' = [pub EXCEPT ![p].at = at]

\* Begin and enqueueLibraryConvert; recover, for a job a restart has left.
Appears(p, j) ==
  /\ live[j] = 0 /\ j \notin over /\ Change
  /\ Starts(p, j, row[j] + 1, "save")
  /\ \/ live' = [live EXCEPT ![j] = row[j] + 1] /\ UNCHANGED over
     \/ row[j] > 0 /\ over' = over \cup {j} /\ UNCHANGED live
  /\ UNCHANGED <<row, imported, loose, sockets, shows, account, dials>>

\* tick, enqueueUploaded, the worker's pick and Reorder: saved when it is a
\* step the user reads as one, told unless it comes too soon.
Steps(p, j) ==
  /\ live[j] > 0 /\ j \notin over /\ Change
  /\ live' = [live EXCEPT ![j] = @ + 1]
  /\ \/ (\E at \in {"save", "owner"} : Starts(p, j, live[j] + 1, at)) /\ loose' = loose \ {j}
     \/ loose' = loose \cup {j} /\ UNCHANGED pub
  /\ UNCHANGED <<row, over, imported, sockets, shows, account, dials>>

\* finish: the row, then the live job, then the frame.  What the library has
\* handed over may have become a comic.
Finishes(p, j) ==
  /\ live[j] > 0 /\ j \notin over /\ Change
  /\ live' = [live EXCEPT ![j] = @ + 1]
  /\ over' = over \cup {j} /\ loose' = loose \ {j}
  /\ UNCHANGED imported \/ (Owner[j] = None /\ imported' = imported \cup {j})
  /\ Starts(p, j, live[j] + 1, "save")
  /\ UNCHANGED <<row, sockets, shows, account, dials>>

\* setPaused; it tells nobody when the flag cannot be saved.
Pauses(p) ==
  /\ Change
  /\ live' = [live EXCEPT ![Queue] = @ + 1]
  /\ Starts(p, Queue, live[Queue] + 1, "save") /\ loose' = loose \ {Queue}
  /\ UNCHANGED <<row, over, imported, sockets, shows, account, dials>>
FlagSaveFails(p) ==
  /\ pub[p].at = "save" /\ pub[p].topic = Queue
  /\ pub' = [pub EXCEPT ![p] = NoPub] /\ loose' = loose \cup {Queue}
  /\ UNCHANGED <<live, row, over, imported, sockets, shows, rest>>

\* save, and the job leaves memory if that was its last.
Saves(p) ==
  LET t == pub[p].topic IN
    /\ pub[p].at = "save"
    /\ row' = [row EXCEPT ![t] = pub[p].frame.of[t]]
    /\ loose' = IF t \in Jobs /\ pub[p].frame.of[t] < row[t] THEN loose \cup {t} ELSE loose
    /\ Moves(p, IF t = Queue THEN "all"
                ELSE IF t \in over /\ live[t] = pub[p].frame.of[t] THEN "leave" ELSE "owner")
    /\ UNCHANGED <<live, over, imported, sockets, shows, rest>>
Leaves(p) ==
  LET j == pub[p].topic IN
    /\ pub[p].at = "leave" /\ Moves(p, "owner")
    /\ live' = [live EXCEPT ![j] = 0]
    /\ UNCHANGED <<row, over, imported, loose, sockets, shows, rest>>

\* Broadcast, BroadcastTo and BroadcastToAdmins: the sockets to send to are
\* listed under the lock, where Broadcast also keeps a frame that is the same
\* for everybody.
Joined == {c \in Clients : conn[c] # "off"}
Of(u) == {c \in Joined : account[c] = u}
ToAdmins(p) == {c \in Joined : account[c] \in Admins}
Listed(p, next, to) ==
  pub' = [q \in Pubs |->
            IF q = p THEN [pub[p] EXCEPT !.at = "send", !.next = next, !.to = to]
            ELSE IF pub[q] = NoPub THEN NoPub
            ELSE [pub[q] EXCEPT !.frame = Ages(@, pub[p].frame)]]
Lists(p) ==
  /\ \/ pub[p].at = "all" /\ Listed(p, "none", Joined) /\ last' = pub[p].frame.of[Queue]
     \/ pub[p].at = "owner" /\ Listed(p, "admins", Of(Owner[pub[p].topic])) /\ UNCHANGED last
     \/ pub[p].at = "admins" /\ Listed(p, "none", ToAdmins(p)) /\ UNCHANGED last
     \/ pub[p].at = "user" /\ Listed(p, "none", Of(pub[p].user)) /\ UNCHANGED last
  /\ told' = Newest(told, pub[p].frame)
  /\ snap' = [c \in Clients |-> IF conn[c] \in {"rows", "overlay"}
                             THEN Ages(snap[c], pub[p].frame) ELSE snap[c]]
  /\ UNCHANGED <<manager, conn, buf, wrong, beyond, shows, rest>>

\* The sends; one to a socket that has closed meanwhile goes nowhere.
SendsOn(p, c) ==
  /\ pub[p].at = "send" /\ c \in pub[p].to
  /\ pub' = [pub EXCEPT ![p].to = @ \ {c}]
  /\ IF conn[c] = "off" THEN UNCHANGED <<buf, wrong, beyond>> ELSE Sends(c, pub[p].frame)
  /\ UNCHANGED <<manager, last, conn, snap, told, shows, rest>>
Sent(p) ==
  /\ pub[p].at = "send" /\ pub[p].to = {}
  /\ IF pub[p].next = "none" THEN pub' = [pub EXCEPT ![p] = NoPub] ELSE Moves(p, pub[p].next)
  /\ UNCHANGED <<manager, sockets, shows, rest>>

\* handleClearFinishedImports: the rows go, but not those that remember what
\* the library has had converted, and the caller's sockets alone are sent a new
\* set, made as JobSnapshot makes one.
Finished(u) == {j \in over \ imported :
                  /\ row[j] > 0 /\ MaySee(u, j)
                  /\ \A p \in Pubs : pub[p].topic = j => pub[p].at # "save"}
Clears(p, u) ==
  /\ pub[p] = NoPub /\ Finished(u) # {}
  /\ row' = [t \in Topics |-> IF t \in Finished(u) THEN 0 ELSE row[t]]
  /\ pub' = [pub EXCEPT ![p] = [NoPub EXCEPT !.at = "rows", !.user = u]]
  /\ told' = [t \in Topics |-> IF t \in Finished(u) THEN 0 ELSE told[t]]
  /\ wrong' = [c \in Clients |-> IF account[c] = u \/ conn[c] = "off" THEN wrong[c]
                               ELSE wrong[c] \cup Finished(u)]
  /\ UNCHANGED <<live, over, imported, loose, last, conn, snap, buf, beyond, shows, rest>>

\* JobSnapshot: the newest rows, as many as a set may hold, and then, under the
\* lock, what is live over them.  Rows of one second come in any order.
Rowed(u) == {j \in Jobs : row[j] > 0 /\ MaySee(u, j)}
Listings(u) ==
  {S \in SUBSET Rowed(u) :
     /\ Cardinality(S) <= SnapshotLimit
     /\ S # Rowed(u) => Cardinality(S) = SnapshotLimit
     /\ \A j \in S, k \in Rowed(u) \ S : Started[j] >= Started[k]}
RowsFor(u, S) == All([t \in Topics |-> IF t \in S THEN row[t] ELSE 0], Rowed(u) \ S)
RowsOnly(m) == m  \* Mutant: nothing is laid over the rows.
Overlaid(m) ==
  [m EXCEPT !.of = [t \in Topics |-> IF m.of[t] # 0 /\ live[t] # 0 THEN live[t] ELSE m.of[t]]]
MakesSet(p) ==
  /\ \/ pub[p].at = "rows"
        /\ \E S \in Listings(pub[p].user) :
             pub' = [pub EXCEPT ![p] = [@ EXCEPT !.at = "overlay", !.frame = RowsFor(pub[p].user, S)]]
     \/ pub[p].at = "overlay"
        /\ pub' = [pub EXCEPT ![p] = [@ EXCEPT !.at = "user", !.frame = Overlaid(pub[p].frame)]]
  /\ UNCHANGED <<manager, sockets, shows, rest>>

-----------------------------------------------------------------------------
(* Sockets and pages.                                                      *)

\* add: under the lock the socket joins the hub, and the frame the hub has kept
\* is taken for it; sending that comes after, and then the snapshot is made.
Joins(c) ==
  /\ conn[c] = "off" /\ dials < MaxDials
  /\ dials' = dials + 1
  /\ conn' = [conn EXCEPT ![c] = IF last = 0 THEN "joined" ELSE "kept"]
  /\ snap' = [snap EXCEPT ![c] = IF last = 0 THEN Unmade ELSE One(Queue, last)]
  /\ buf' = [buf EXCEPT ![c] = <<>>]
  /\ wrong' = [wrong EXCEPT ![c] = {}] /\ beyond' = [beyond EXCEPT ![c] = {}]
  /\ UNCHANGED <<manager, last, pub, told, shows, account, changes>>

\* replayJobs, then replayQueue.
Snaps(c) ==
  /\ \/ conn[c] = "joined" /\ conn' = [conn EXCEPT ![c] = "rows"]
        /\ \E S \in Listings(account[c]) : snap' = [snap EXCEPT ![c] = RowsFor(account[c], S)]
     \/ conn[c] = "rows" /\ conn' = [conn EXCEPT ![c] = "overlay"]
        /\ snap' = [snap EXCEPT ![c] = Overlaid(@)]
     \/ conn[c] = "jobs" /\ conn' = [conn EXCEPT ![c] = "paused"]
        /\ snap' = [snap EXCEPT ![c] = One(Queue, live[Queue])]
  /\ UNCHANGED <<manager, pub, last, buf, told, wrong, beyond, shows, rest>>
Replays(c) ==
  /\ \/ conn[c] = "kept" /\ conn' = [conn EXCEPT ![c] = "joined"]
     \/ conn[c] = "overlay" /\ conn' = [conn EXCEPT ![c] = "jobs"]
     \/ conn[c] = "paused" /\ conn' = [conn EXCEPT ![c] = "on"]
  /\ Sends(c, snap[c])
  /\ snap' = [snap EXCEPT ![c] = Unmade]
  /\ UNCHANGED <<manager, pub, last, told, shows, rest>>

\* The writer's loop, and the page: a set replaces, a single frame is merged.
Merged(f, m) == [t \in Topics |-> IF Mentions(m, t) THEN m.of[t] ELSE f[t]]
Delivers(c) ==
  /\ conn[c] = "on" /\ buf[c] # <<>>
  /\ buf' = [buf EXCEPT ![c] = Tail(@)]
  /\ shows' = [shows EXCEPT ![c] = Merged(@, Head(buf[c]))]
  /\ UNCHANGED <<manager, pub, last, conn, snap, told, wrong, beyond, rest>>

\* The connection is lost; the page goes on showing what it had, and dials
\* again after a while.
Drop(f, c, x) == [f EXCEPT ![c] = x]
Loses(c) ==
  /\ conn[c] # "off"
  /\ conn' = Drop(conn, c, "off") /\ buf' = Drop(buf, c, <<>>)
  /\ snap' = Drop(snap, c, Unmade)
  /\ wrong' = Drop(wrong, c, {}) /\ beyond' = Drop(beyond, c, {})
  /\ UNCHANGED <<manager, pub, last, told, shows, rest>>

\* The process dies and starts again: memory and sockets are lost.
Restarts ==
  /\ dials < MaxDials /\ dials' = dials + 1
  /\ live' = [t \in Topics |-> IF t = Queue THEN row[t] ELSE 0]
  /\ over' = {j \in over : \A p \in Pubs : pub[p].topic = j => pub[p].at # "save"}
  /\ imported' = imported \cap over'
  /\ loose' = {} /\ last' = 0 /\ told' = Blank
  /\ pub' = [p \in Pubs |-> NoPub]
  /\ conn' = [c \in Clients |-> "off"] /\ buf' = [c \in Clients |-> <<>>]
  /\ snap' = [c \in Clients |-> Unmade]
  /\ wrong' = [c \in Clients |-> {}] /\ beyond' = [c \in Clients |-> {}]
  /\ UNCHANGED <<row, shows, account, changes>>

-----------------------------------------------------------------------------

Init ==
  /\ account \in [Clients -> Users]
  /\ live = [t \in Topics |-> IF t = Queue THEN 1 ELSE 0]
  /\ row = [t \in Topics |-> IF t = Queue THEN 1 ELSE 0]
  /\ over = {} /\ imported = {} /\ last = 0 /\ loose = {} /\ dials = 0 /\ changes = 0
  /\ pub = [p \in Pubs |-> NoPub]
  /\ conn = [c \in Clients |-> "off"] /\ buf = [c \in Clients |-> <<>>]
  /\ snap = [c \in Clients |-> Unmade]
  /\ shows = [c \in Clients |-> Blank] /\ told = Blank
  /\ wrong = [c \in Clients |-> {}] /\ beyond = [c \in Clients |-> {}]

Publishes(p) ==
  \/ \E j \in Jobs : Appears(p, j) \/ Steps(p, j) \/ Finishes(p, j)
  \/ Pauses(p) \/ FlagSaveFails(p) \/ Saves(p) \/ Leaves(p) \/ Lists(p) \/ Sent(p) \/ MakesSet(p)
  \/ \E c \in Clients : SendsOn(p, c)
  \/ \E u \in Users : Clears(p, u)
Next ==
  \/ \E p \in Pubs : Publishes(p)
  \/ \E c \in Clients : Joins(c) \/ Snaps(c) \/ Replays(c) \/ Delivers(c) \/ Loses(c)
  \/ Restarts

Spec == Init /\ [][Next]_vars

-----------------------------------------------------------------------------

Values == 0..MaxChanges + 1
Frame == [set : BOOLEAN, of : [Topics -> Values], old : SUBSET Topics, cut : SUBSET Jobs]
TypeOK ==
  /\ account \in [Clients -> Users]
  /\ live \in [Topics -> Values] /\ row \in [Topics -> Values]
  /\ over \subseteq Jobs /\ imported \subseteq over /\ loose \subseteq Topics
  /\ last \in Values
  /\ dials \in 0..MaxDials /\ changes \in 0..MaxChanges
  /\ pub \in [Pubs -> [topic : Topics \cup {None}, frame : Frame,
       at : {"none", "save", "leave", "owner", "admins", "all", "send", "rows", "overlay", "user"},
       next : {"none", "admins"}, to : SUBSET Clients,
       user : Users \cup {None}]]
  /\ conn \in [Clients -> {"off", "kept", "joined", "rows", "overlay", "jobs", "paused", "on"}]
  /\ snap \in [Clients -> Frame]
  /\ buf \in [Clients -> Seq(Frame)] /\ \A c \in Clients : Len(buf[c]) <= Buffer
  /\ shows \in [Clients -> [Topics -> Values]]
  /\ told \in [Topics -> Values]
  /\ wrong \in [Clients -> SUBSET Topics] /\ beyond \in [Clients -> SUBSET Jobs]

\* Once nothing is under way a connected page shows how things stand ("what is
\* in flight now, and what finished while it was away", ws.go:188-189), for
\* every change was either in its snapshot or sent to it.  The exceptions, by
\* topic.  Those that wrong keeps: a frame its full buffer lost, a frame that
\* was overtaken by a newer one on its way to the buffer, a list somebody else
\* has cleared, a late frame of a job that was; each lasts until the topic's
\* next frame or the next dial.  Those that beyond keeps: the older jobs that
\* the page's set had no place for (snapshotLimit, manager.go:103-106), the one
\* at work among them, until their next frame.  And those that loose keeps: the
\* jobs whose last progress was too soon to tell, or whose row an older save has
\* overwritten, and the flag while its last change could not be saved, which is
\* told to nobody.
Truth(c) ==
  [t \in Topics |-> IF t \in Jobs /\ ~MaySee(account[c], t) THEN 0
                    ELSE IF live[t] # 0 THEN live[t] ELSE row[t]]
Quiet == \A p \in Pubs : pub[p] = NoPub
UpToDate(c) == conn[c] = "on" /\ buf[c] = <<>>
QuietPageIsTrue ==
  Quiet => \A c \in Clients : UpToDate(c) =>
    \A t \in Topics \ (wrong[c] \cup beyond[c] \cup loose) : shows[c][t] = Truth(c)[t]

=============================================================================
