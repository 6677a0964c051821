---------------------------- MODULE LibraryScan ----------------------------
(***************************************************************************)
(* The library folder and the comic rows that follow it                    *)
(* (internal/library): the scan with its pool of workers, the flagging of  *)
(* missing files, the watcher's debounced paths, the write lock dbMu, and  *)
(* the hand-off of files to convert.                                       *)
(*                                                                         *)
(* A step is one SQL statement, one look at one file, or one critical      *)
(* section.  A content hash stands for the content.  The folder belongs to *)
(* its user, who may change it at any time.                                *)
(***************************************************************************)
EXTENDS Integers, Sequences, FiniteSets

CONSTANTS
  Order,        (* the paths that are looked at, as WalkDir comes to them  *)
  Convertible,  (* those of a PDF or of an archive that is not a zip       *)
  Contents,     (* contents of a comic, or versions of a convertible file  *)
  Unreadable,   (* a file half copied, or no comic                         *)
  Ids,          (* bound: comic ids                                        *)
  Workers,      (* the scan's pool                                         *)
  Watcher,      (* the dispatch goroutine of Watch                         *)
  Scanner,      (* the goroutine of Scan itself                            *)
  Filed,        (* stands for the paths under the uploads directory        *)
  None,         (* no file, no row, no id                                  *)
  Happenings,   (* what may happen beside the user's changes: "lost",      *)
                (* "unreadable", "restart", "claim", "delete", "upload",   *)
                (* "converted"                                             *)
  MaxChanges    (* bound: changes and happenings                           *)

Paths == {Order[n] : n \in DOMAIN Order}
Agents == Workers \cup {Watcher, Scanner}
Looks == Contents \cup {Unreadable, None}

\* A comic: a claimed one has left the shelf of everyone for one user's.
Row == [path : Paths \cup {Filed}, hash : Contents, missing : BOOLEAN,
        source : {"library", "claimed", "upload", "converted"}]

ASSUME LibraryScanAssumption ==
  /\ Order \in Seq(Paths) /\ Order # <<>> /\ MaxChanges \in Nat
  /\ Filed \notin Paths /\ None \notin Paths \cup Ids \cup Contents \cup Row
  /\ Watcher \notin Workers /\ Scanner \notin Workers /\ Watcher # Scanner
  /\ Unreadable \notin Contents /\ Unreadable # None /\ Convertible \subseteq Paths

VARIABLES
  disk,         (* what is at each path                                    *)
  rows,         (* comics                                                  *)
  agent,        (* the file a goroutine is at, and what it knows of it     *)
  scan,         (* Scan: pc, place in Order, and what its walk has seen    *)
  watching,     (* Watch has added the tree                                *)
  armed,        (* debouncer.pending                                       *)
  convertSeen,  (* the version last handed off of each path                *)
  handed,       (* history: versions handed off since the process started  *)
  changes,      (* how often something has happened                        *)
  calm,         (* history: whether nothing has happened in a whole scan   *)
  owed          (* history: the row a renamed file should keep             *)

watch == <<watching, armed>>
hand == <<convertSeen, handed>>
history == <<changes, calm, owed>>
vars == <<disk, rows, agent, scan, watch, hand, history>>

-----------------------------------------------------------------------------

Idle == [pc |-> "idle", path |-> None, look |-> None, id |-> None]
Resting(a) == agent[a].pc = "idle"
Rests(a) == agent' = [agent EXCEPT ![a] = Idle]
Goes(a, pc) == agent' = [agent EXCEPT ![a].pc = pc]

At(p) == {i \in Ids : rows[i] # None /\ rows[i].path = p}
OfContent(h) == {i \in Ids : rows[i] # None /\ rows[i].hash = h}
OwnSources == {"library", "claimed"}
Unused(i) == rows[i] = None /\ \A a \in Agents : agent[a].id # i
NewID == CHOOSE i \in Ids : Unused(i)

\* dbMu: held from the first statement of record or flagMissing to the last.
AlwaysUnlocked == TRUE  \* Mutant: no lock.
Unlocked == \A a \in Agents : agent[a].pc \notin {"hash", "move", "upsert", "flag"}

\* A write that rests on a look older than the file's last change: whatever a
\* scan has found since is not the last word.
Unsettles(a) == calm' = IF agent[a].look # disk[agent[a].path] THEN "no" ELSE calm

-----------------------------------------------------------------------------
(* reconcileFile and record.                                               *)

\* Mutant: whatever is there is recorded.
ReadsAnything(a, p) ==
  agent' = [agent EXCEPT ![a] =
    IF disk[p] # None THEN [pc |-> "path", path |-> p, look |-> disk[p], id |-> None] ELSE Idle]

\* Stat, open and hash: a file that is gone, half copied or no comic ends it.
Reads(a, p) ==
  agent' = [agent EXCEPT ![a] =
    IF disk[p] \in Contents THEN [pc |-> "path", path |-> p, look |-> disk[p], id |-> None] ELSE Idle]

Opens(w) ==
  /\ agent[w].pc = "open"
  /\ Reads(w, agent[w].path)
  /\ UNCHANGED <<disk, rows, scan, watch, hand, history>>

\* ComicRowByPath, the lock taken.
FindsPath(a) ==
  /\ agent[a].pc = "path" /\ Unlocked
  /\ LET there == At(agent[a].path) IN
       \/ there = {} /\ Goes(a, "hash")
       \/ \E i \in there : IF rows[i].source = "upload" THEN Rests(a)
            ELSE agent' = [agent EXCEPT ![a].pc = "upsert", ![a].id = i]
  /\ UNCHANGED <<disk, rows, scan, watch, hand, history>>

\* Whether the path of another row still has its file: a scan asks what its
\* walk has seen, the watcher asks the disk.
OnDisk(a, p) == IF a = Watcher THEN p \in Paths /\ disk[p] # None ELSE p \in scan.seen
\* Mutant: a claimed comic is not followed.
UnclaimedMoved(a, i) == rows[i].source = "library" /\ ~OnDisk(a, rows[i].path)
Moved(a, i) == rows[i].source # "upload" /\ ~OnDisk(a, rows[i].path)

\* ComicRowByHash, which names no order among rows of one content.
FindsContent(a) ==
  /\ agent[a].pc = "hash"
  /\ LET same == OfContent(agent[a].look) IN
       \/ \E i \in same : Moved(a, i) /\
            agent' = [agent EXCEPT ![a].pc = "move", ![a].id = i]
       \/ /\ same = {} \/ \E i \in same : ~Moved(a, i)
          /\ \E i \in Ids : Unused(i)
          /\ agent' = [agent EXCEPT ![a].pc = "upsert", ![a].id = NewID]
  /\ UNCHANGED <<disk, rows, scan, watch, hand, history>>

\* MovedComic.  A path that is taken fails the statement and the file.
Moves(a) ==
  /\ agent[a].pc = "move"
  /\ LET i == agent[a].id
         p == agent[a].path
     IN IF rows[i] # None /\ At(p) \ {i} # {} THEN Rests(a) /\ UNCHANGED rows
        ELSE /\ rows' = [rows EXCEPT ![i] =
                  IF @ = None THEN None ELSE [@ EXCEPT !.path = p, !.missing = FALSE]]
             /\ Goes(a, "upsert")
  /\ Unsettles(a)
  /\ UNCHANGED <<disk, scan, watch, hand, changes, owed>>

Refreshed(row, h) == [row EXCEPT !.hash = h, !.missing = FALSE]

\* UpsertComic: the row of the path is refreshed, its owner and source left
\* alone, or a library row inserted.  An id that is taken fails it.
Upserts(a) ==
  /\ agent[a].pc = "upsert"
  /\ LET i == agent[a].id
         p == agent[a].path
         h == agent[a].look
     IN rows' =
          IF At(p) # {} THEN [j \in Ids |->
            IF j \in At(p) THEN Refreshed(rows[j], h) ELSE rows[j]]
          ELSE IF rows[i] # None THEN rows
          ELSE [rows EXCEPT ![i] =
            [path |-> p, hash |-> h, missing |-> FALSE, source |-> "library"]]
  /\ Rests(a)
  /\ Unsettles(a)
  /\ UNCHANGED <<disk, scan, watch, hand, changes, owed>>

-----------------------------------------------------------------------------
(* handleConvert.                                                          *)

\* The file's modification time.
Stats(a, p) ==
  agent' = [agent EXCEPT ![a] =
    IF disk[p] # None THEN [pc |-> "handoff", path |-> p, look |-> disk[p], id |-> None] ELSE Idle]

\* Mutant: a path is handed off once, whatever becomes of it.
SeenPath(p, version) == convertSeen[p] # None
SeenVersion(p, version) == convertSeen[p] = version

\* convertSeen is read and written under convertMu; then the queue is called.
HandsOff(a) ==
  /\ agent[a].pc = "handoff"
  /\ LET p == agent[a].path
         version == agent[a].look
     IN IF SeenVersion(p, version) THEN UNCHANGED hand
        ELSE /\ convertSeen' = [convertSeen EXCEPT ![p] = version]
             /\ handed' = [handed EXCEPT ![p] = @ \cup {version}]
  /\ Rests(a)
  /\ UNCHANGED <<disk, rows, scan, watch, history>>

-----------------------------------------------------------------------------
(* Scan.                                                                   *)

NewScan == [pc |-> "walk", at |-> 1, seen |-> {}, lost |-> {}]

\* The sweep, or a user.  A second scan is told ErrScanning.
ScanStarts ==
  /\ scan.pc = "idle"
  /\ scan' = NewScan /\ calm' = "scan"
  /\ UNCHANGED <<disk, rows, agent, watch, hand, changes, owed>>

\* The walk comes to the next path, and then to its end.
WalksOn(found) ==
  scan' = [scan EXCEPT
    !.seen = @ \cup found,
    !.at = IF @ = Len(Order) THEN 1 ELSE @ + 1,
    !.pc = IF scan.at = Len(Order) THEN "work" ELSE @]

Walks ==
  /\ scan.pc = "walk"
  /\ LET p == Order[scan.at] IN WalksOn(IF disk[p] = None THEN {} ELSE {p})
  /\ UNCHANGED <<disk, rows, agent, watch, hand, history>>

\* A directory that cannot be read, or a root that is not mounted.
WalksPast ==
  /\ "unreadable" \in Happenings /\ changes < MaxChanges
  /\ scan.pc = "walk"
  /\ WalksOn({})
  /\ changes' = changes + 1 /\ calm' = "no"
  /\ UNCHANGED <<disk, rows, agent, watch, hand, owed>>

\* The next path the walk has seen among those of one kind.
Upcoming(kind) ==
  {n \in scan.at .. Len(Order) :
     /\ Order[n] \in scan.seen \cap kind
     /\ \A m \in scan.at .. n - 1 : Order[m] \notin scan.seen \cap kind}

\* A worker of the pool takes the next candidate.
Assigns(w) ==
  /\ scan.pc = "work" /\ Resting(w)
  /\ \E n \in Upcoming(Paths \ Convertible) :
         /\ scan' = [scan EXCEPT !.at = n + 1]
         /\ agent' = [agent EXCEPT ![w] = [Idle EXCEPT !.pc = "open", !.path = Order[n]]]
  /\ UNCHANGED <<disk, rows, watch, hand, history>>

\* Mutant: only library rows are looked at, as the watcher does.
UnseenUnclaimed ==
  {i \in Ids : rows[i] # None /\ rows[i].source = "library" /\ rows[i].path \notin scan.seen}

\* wg.Wait is over: markMissing lists the rows whose path was not seen.
Unseen ==
  {i \in Ids : rows[i] # None /\ rows[i].source \in OwnSources /\ rows[i].path \notin scan.seen}

Lists ==
  /\ scan.pc = "work" /\ Upcoming(Paths \ Convertible) = {}
  /\ \A w \in Workers : Resting(w)
  /\ scan' = [scan EXCEPT !.pc = "end", !.at = 1, !.lost = Unseen]
  /\ UNCHANGED <<disk, rows, agent, watch, hand, history>>

\* SetComicMissing, without the lock.
FlaggedMissing(i) == [rows EXCEPT ![i] = IF @ = None THEN None ELSE [@ EXCEPT !.missing = TRUE]]

Marks ==
  /\ scan.pc = "end"
  /\ \E i \in scan.lost :
       scan' = [scan EXCEPT !.lost = @ \ {i}] /\ rows' = FlaggedMissing(i)
  /\ UNCHANGED <<disk, agent, watch, hand, history>>

\* The convertible files, one after the other.
Converts ==
  /\ scan.pc = "end" /\ scan.lost = {} /\ Resting(Scanner)
  /\ \E n \in Upcoming(Convertible) :
         /\ scan' = [scan EXCEPT !.at = n + 1]
         /\ Stats(Scanner, Order[n])
  /\ UNCHANGED <<disk, rows, watch, hand, history>>

\* The scan is over.  The first one is what Run, and so the watcher, waits for.
ScanEnds ==
  /\ scan.pc = "end" /\ scan.lost = {} /\ Resting(Scanner) /\ Upcoming(Convertible) = {}
  /\ scan' = [NewScan EXCEPT !.pc = "idle"]
  /\ watching' = TRUE
  /\ calm' = IF calm = "scan" THEN "yes" ELSE calm
  /\ UNCHANGED <<disk, rows, agent, armed, hand, changes, owed>>

-----------------------------------------------------------------------------
(* The watcher.                                                            *)

\* dispatch and handlePath: a path whose quiet period is over, in any order,
\* and the first look at its size.
Handles ==
  /\ Resting(Watcher)
  /\ \E p \in armed :
       /\ armed' = armed \ {p}
       /\ agent' = [agent EXCEPT ![Watcher] =
            [pc |-> IF disk[p] = None THEN "gone" ELSE "settle",
             path |-> p, look |-> disk[p], id |-> None]]
  /\ UNCHANGED <<disk, rows, scan, watching, hand, history>>

\* stable: the size has held, or the path gets another quiet period.
Settles ==
  /\ agent[Watcher].pc = "settle"
  /\ LET p == agent[Watcher].path IN
       \/ /\ disk[p] # None
          /\ IF p \in Convertible THEN Stats(Watcher, p) ELSE Reads(Watcher, p)
          /\ UNCHANGED armed
       \/ /\ disk[p] = Unreadable \/ disk[p] # agent[Watcher].look
          /\ armed' = armed \cup {p}
          /\ Rests(Watcher)
  /\ UNCHANGED <<disk, rows, scan, watching, hand, history>>

\* flagMissing: a claimed row is left to the scan.
FindsGone ==
  /\ agent[Watcher].pc = "gone" /\ Unlocked
  /\ LET there == {i \in At(agent[Watcher].path) : rows[i].source = "library"} IN
       \/ there = {} /\ Rests(Watcher)
       \/ \E i \in there : agent' = [agent EXCEPT ![Watcher].pc = "flag", ![Watcher].id = i]
  /\ UNCHANGED <<disk, rows, scan, watch, hand, history>>

Flags ==
  /\ agent[Watcher].pc = "flag"
  /\ rows' = FlaggedMissing(agent[Watcher].id)
  /\ Rests(Watcher)
  /\ Unsettles(Watcher)
  /\ UNCHANGED <<disk, scan, watch, hand, changes, owed>>

-----------------------------------------------------------------------------
(* The folder, and what else happens.                                      *)

Happens == changes < MaxChanges /\ changes' = changes + 1

\* Events arm the paths, unless the kernel or a network mount drops them.
Notices(ps) ==
  IF ~watching THEN UNCHANGED armed
  ELSE \E told \in SUBSET ps :
         /\ told # ps => "lost" \in Happenings
         /\ armed' = armed \cup told

Forgives(spoiled) == owed' = [p \in Paths |-> IF p \in spoiled THEN None ELSE owed[p]]
OwedFrom(p) == {q \in Paths : owed[q] # None /\ rows[owed[q]] # None /\ rows[owed[q]].path = p}

\* A file is copied in, completed, or replaced.
Puts(p, c) ==
  /\ Happens /\ disk[p] # c
  /\ disk' = [disk EXCEPT ![p] = c]
  /\ Notices({p}) /\ calm' = "no"
  /\ Forgives({p} \cup OwedFrom(p) \cup {q \in Paths : disk[q] = c})
  /\ UNCHANGED <<rows, agent, scan, watching, hand>>

Removes(p) ==
  /\ Happens /\ disk[p] # None
  /\ disk' = [disk EXCEPT ![p] = None]
  /\ Notices({p}) /\ calm' = "no"
  /\ Forgives({p})
  /\ UNCHANGED <<rows, agent, scan, watching, hand>>

\* Paths a walk has still to come to.
Ahead == IF scan.pc = "walk" THEN {Order[n] : n \in scan.at .. Len(Order)} ELSE {}

\* What makes a file at p the one row i knows, and its new name free: no other
\* row or file of the content, no row of the new path, no goroutine at either, and
\* no scan that has seen a file at both.
Recognisable(i, p, q) ==
  /\ rows[i] # None /\ rows[i].hash = disk[p] /\ OfContent(disk[p]) = {i}
  /\ rows[i].path = p \/ owed[p] = i
  /\ \A o \in Paths \ {p} : disk[o] # disk[p]
  /\ At(q) \subseteq {i}
  /\ \A a \in Agents : agent[a].path \notin {p, q, rows[i].path} /\ agent[a].look # disk[p]
  /\ scan.pc \in {"walk", "work"} /\ rows[i].path \in scan.seen => q \notin scan.seen \cup Ahead

Renames(p, q) ==
  /\ Happens /\ p # q /\ disk[p] # None
  /\ disk' = [disk EXCEPT ![q] = disk[p], ![p] = None]
  /\ Notices({p, q}) /\ calm' = "no"
  /\ LET known == {i \in Ids : p \notin Convertible /\ q \notin Convertible /\ Recognisable(i, p, q)}
         spoiled == {p, q} \cup OwedFrom(q)
     IN owed' = [o \in Paths |->
          IF o = q /\ known # {} THEN CHOOSE i \in known : TRUE
          ELSE IF o \in spoiled THEN None ELSE owed[o]]
  /\ UNCHANGED <<rows, agent, scan, watching, hand>>

\* ClaimComic and UnclaimComic.
Claims(i, from, to) ==
  /\ "claim" \in Happenings /\ Happens
  /\ rows[i] # None /\ rows[i].source = from
  /\ rows' = [rows EXCEPT ![i].source = to]
  /\ UNCHANGED <<disk, agent, scan, watch, hand, calm, owed>>

\* DeleteComic, or DeleteUser, which takes a claimer's comics along.
Deletes(i) ==
  /\ "delete" \in Happenings /\ Happens
  /\ rows[i] # None /\ rows[i].source # "library"
  /\ rows' = [rows EXCEPT ![i] = None]
  /\ calm' = "no"
  /\ Forgives({p \in Paths : owed[p] = i})
  /\ UNCHANGED <<disk, agent, scan, watch, hand>>

\* The import queue files a comic under the uploads directory: a converted one
\* only if there is no server-wide comic of its content.
Files(h, source) ==
  /\ source \in Happenings /\ Happens
  /\ source = "converted" => \A i \in OfContent(h) : rows[i].source \notin {"library", "converted"}
  /\ \E i \in Ids : Unused(i)
  /\ rows' = [rows EXCEPT ![NewID] = [path |-> Filed, hash |-> h, missing |-> FALSE, source |-> source]]
  /\ Forgives({p \in Paths : disk[p] = h})
  /\ UNCHANGED <<disk, agent, scan, watch, hand, calm>>

\* The process dies and starts again, with its first scan.
Restarts ==
  /\ "restart" \in Happenings /\ Happens
  /\ agent' = [a \in Agents |-> Idle]
  /\ scan' = NewScan /\ calm' = "scan"
  /\ watching' = FALSE /\ armed' = {}
  /\ convertSeen' = [p \in Paths |-> None] /\ handed' = [p \in Paths |-> {}]
  /\ UNCHANGED <<disk, rows, owed>>

-----------------------------------------------------------------------------

Init ==
  /\ disk \in [Paths -> Looks]
  /\ rows = [i \in Ids |-> None]
  /\ agent = [a \in Agents |-> Idle]
  /\ scan = NewScan
  /\ watching = FALSE /\ armed = {}
  /\ convertSeen = [p \in Paths |-> None] /\ handed = [p \in Paths |-> {}]
  /\ changes = 0 /\ calm = "scan" /\ owed = [p \in Paths |-> None]

Recording(a) ==
  Opens(a) \/ FindsPath(a) \/ FindsContent(a) \/ Moves(a) \/ Upserts(a)
Watching == Handles \/ Settles \/ FindsGone \/ Flags
Scanning == Walks \/ Lists \/ Marks \/ Converts \/ ScanEnds
Changing ==
  \/ \E p \in Paths : Removes(p) \/ \E c \in Contents \cup {Unreadable} : Puts(p, c)
  \/ \E p, q \in Paths : Renames(p, q)
Happening ==
  \/ WalksPast \/ Restarts
  \/ \E i \in Ids : Claims(i, "library", "claimed") \/ Claims(i, "claimed", "library") \/ Deletes(i)
  \/ \E h \in Contents : \E source \in {"upload", "converted"} : Files(h, source)

Next ==
  \/ \E a \in Agents : Recording(a) \/ HandsOff(a)
  \/ Watching \/ ScanStarts \/ Scanning
  \/ \E w \in Workers : Assigns(w)
  \/ Changing \/ Happening

Spec == Init /\ [][Next]_vars

-----------------------------------------------------------------------------

AgentType == [pc : {"idle", "open", "path", "hash", "move", "upsert", "settle", "gone", "flag",
                    "handoff"},
              path : Paths \cup {None}, look : Looks, id : Ids \cup {None}]

\* Every variable keeps to its values: a worker never carries what is no comic
\* into record, and the scan's place stays within its walk.
TypeOK ==
  /\ disk \in [Paths -> Looks]
  /\ rows \in [Ids -> Row \cup {None}]
  /\ agent \in [Agents -> AgentType]
  /\ scan \in [pc : {"idle", "walk", "work", "end"}, at : 1 .. Len(Order) + 1,
               seen : SUBSET Paths, lost : SUBSET Ids]
  /\ watching \in BOOLEAN /\ armed \subseteq Paths
  /\ convertSeen \in [Paths -> Looks] /\ handed \in [Paths -> SUBSET Looks]
  /\ changes \in 0 .. MaxChanges /\ calm \in {"no", "scan", "yes"}
  /\ owed \in [Paths -> Ids \cup {None}]

\* The goroutines run and dbMu is granted; the sweep's timer fires.  The users,
\* the network and the kernel owe nothing.
Fairness ==
  /\ \A a \in Agents : SF_vars(Recording(a)) /\ WF_vars(HandsOff(a))
  /\ SF_vars(Watching) /\ WF_vars(ScanStarts) /\ WF_vars(Scanning)
  /\ WF_vars(\E w \in Workers : Assigns(w))

FairSpec == Spec /\ Fairness

-----------------------------------------------------------------------------

\* What the folder and the rows owe each other: a comic that is there has an
\* unflagged row of its content at its path, a row of the library whose file is
\* not there is flagged, and a file to convert has been handed off.
RowsAgree ==
  /\ \A p \in Paths \ Convertible : disk[p] \in Contents =>
       \E i \in At(p) : rows[i].hash = disk[p] /\ ~rows[i].missing
  /\ \A i \in Ids : rows[i] # None /\ rows[i].source \in OwnSources /\ disk[rows[i].path] = None =>
       rows[i].missing
  /\ \A p \in Convertible : disk[p] # None => disk[p] \in handed[p]

\* A scan in which nothing happened leaves the rows in agreement with the
\* folder, whatever earlier scans, watchers and crashes left behind, and for as
\* long as nothing happens (scan.go: Scan, "the sweep retries this one").
CalmScanAgrees == calm = "yes" => RowsAgree

\* A file renamed keeps its row, and so its tags and everyone's place in it,
\* through lost events, a watcher and a scan that come to its two names in any
\* order, and further renames (scan.go: record, "a rename or a move, which is
\* the case the content hash exists for").
RenameKeepsRow ==
  calm = "yes" => \A p \in Paths : owed[p] # None =>
    rows[owed[p]].path = p /\ ~rows[owed[p]].missing

\* What record has read under dbMu holds when it writes: no goroutine gives a
\* path two rows, or a row two paths, though rows are claimed, deleted, flagged
\* and filed meanwhile (library.go: dbMu, "two scan workers landing on it at
\* once could both decide the same row is theirs to move").
WritesDoNotCollide ==
  \A a \in Agents :
    LET p == agent[a].path
        i == agent[a].id
    IN /\ agent[a].pc = "move" => At(p) \subseteq {i}
       /\ agent[a].pc = "upsert" => At(p) \subseteq {i} /\ (rows[i] # None => i \in At(p))

\* Once the folder is left alone the rows agree with it and stay so: no worker
\* with an old look, no flag and no hand-off is left to undo it (library.go:
\* Sweep, "to catch what the watcher missed").
Converges == <>[]RowsAgree

\* accessors.go:29: of a converted comic, "the scanner does not manage it: its
\* CBZ lives in the uploads (data) dir", where ComicFileDir looks for it.  But
\* record takes it for a comic whose file has moved when a file of its content
\* turns up in the library, and gives it that path.
FiledStayFiled ==
  \A i \in Ids : rows[i] # None /\ rows[i].source \notin OwnSources => rows[i].path = Filed
=============================================================================
