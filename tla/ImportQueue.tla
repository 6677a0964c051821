---------------------------- MODULE ImportQueue ----------------------------
(***************************************************************************)
(* The import job queue: imports.Manager of internal/imports/manager.go,   *)
(* with the import_jobs rows it keeps (internal/store/accessors.go) and    *)
(* the upload handler that feeds it (internal/server/import_handlers.go).  *)
(*                                                                         *)
(* A step of the model is one critical section of Manager.mu, one SQL      *)
(* statement (the store has a single SQLite connection), or one removal or *)
(* creation of a staging directory.  Between two steps of one goroutine    *)
(* any other goroutine may run and the process may die.                    *)
(*                                                                         *)
(* Abstractions.  A job's message is kept only where it tells a cancel     *)
(* from a failure: stage "cancelled" stands for StageFailed with the       *)
(* message "cancelled".  FinishedAt is non-zero exactly in a terminal      *)
(* stage and ComicID is set exactly in stage "done", as finish writes      *)
(* them together.  The pipeline's stages after the first are all           *)
(* "packing".  What the hub sends is left to other modules.                *)
(***************************************************************************)
EXTENDS Integers, Sequences, FiniteSets, SequencesExt

CONSTANTS
  Jobs,         (* job ids; store.NewID never repeats one                  *)
  Users,        (* uploaders                                               *)
  Files,        (* convertible files in the watched library folder         *)
  Content,      (* the content each file converts to, by hash              *)
  Workers,      (* queue workers, DOWITCHER_IMPORT_WORKERS many            *)
  Clients,      (* HTTP requests and library hand-offs running at once     *)
  None,         (* no user, file or goroutine                              *)
  NoJob,        (* no job                                                  *)
  MaxPerUser,   (* maxPerUser                                              *)
  MaxStarts,    (* bound: how often the process is started                 *)
  MaxSeq,       (* bound: queue_seq past which nothing is reordered        *)
  Calls,        (* bound: the requests the clients of a run make           *)
  StoreErrors   (* whether the first SaveImportJob of a job may fail       *)

Threads == Workers \cup Clients

ASSUME ImportQueueAssumption ==
  /\ IsFiniteSet(Jobs)
  /\ Workers \cap Clients = {}
  /\ None \notin Users \cup Files \cup Threads
  /\ Users \cap Files = {}
  /\ NoJob \notin Jobs
  /\ DOMAIN Content = Files
  /\ MaxPerUser \in Nat \ {0}
  /\ MaxStarts \in Nat /\ MaxSeq \in Nat
  /\ StoreErrors \in BOOLEAN

VARIABLES
  (* What survives the process: the database and the staging area.         *)
  row,          (* import_jobs: stage, queue_seq, whether input_path is set *)
  storedPause,  (* meta queue_paused                                       *)
  filed,        (* comics rows a job's runs have added                     *)
  staged,       (* uploads whose staging directory exists                  *)
  (* The process: Manager's fields.                                        *)
  up, ctxDone, draining,
  paused, live, queue, seq,
  boot,         (* progress of Run's recover: pc, rows left, row's new seq *)
  th,           (* the goroutines: pc, and the locals of what they run     *)
  (* Bounds and history.                                                   *)
  starts,
  origin,       (* who a job is for: its user or its library file          *)
  revived       (* jobs whose rows a late or a failed write left unfinished *)

durable == <<row, storedPause, filed, staged>>
manager == <<paused, live, queue, seq>>
process == <<up, ctxDone, draining, boot>>
history == <<starts, origin, revived>>
vars == <<durable, manager, process, th, history>>

-----------------------------------------------------------------------------
(* Jobs, rows and goroutines.                                              *)

Terminal == {"done", "failed", "cancelled"}
Running == {"reading", "packing"}
Stages == {"none", "uploading", "queued"} \cup Running \cup Terminal

\* A row that is not there and a job that is not in the live map.
NoRow == [st |-> "none", seq |-> 0, input |-> FALSE]
NotLive == [st |-> "none", seq |-> 0, input |-> FALSE, ctx |-> "nil"]

IsUpload(j) == origin[j] \in Users
Finished(j) == row[j].st \in Terminal
Unfinished(j) == row[j].st \notin Terminal \cup {"none"}
Live(j) == live[j].st # "none"
Active(j) == live[j].st \notin Terminal \cup {"none"}

Idle == [pc |-> "idle", job |-> NoJob, st |-> "none", seq |-> 0, ids |-> <<>>]
BootOff == [pc |-> "off", todo |-> <<>>, seq |-> 0]

At(t, pc) == th[t].pc = pc
Goto(t, pc) == th' = [th EXCEPT ![t] = [@ EXCEPT !.pc = pc]]
GotoSaving(t, pc, st, s) ==
  th' = [th EXCEPT ![t] = [@ EXCEPT !.pc = pc, !.st = st, !.seq = s]]
GotoEnding(t, pc, st) == th' = [th EXCEPT ![t] = [@ EXCEPT !.pc = pc, !.st = st]]
Rest(t) == th' = [th EXCEPT ![t] = Idle]

\* Manager.cond: a worker in Wait looks again only when it is woken.  Signal
\* wakes one, Broadcast all; nobody waiting, neither is remembered.
Waiting == {w \in Workers : At(w, "waiting")}
SignalForgotten == {{}}  \* Mutant: an enqueue that does not signal.
Signalled == IF Waiting = {} THEN {{}} ELSE {{w} : w \in Waiting}
WithWoken(goroutines, woken) ==
  [t \in Threads |-> IF t \in woken THEN Idle ELSE goroutines[t]]

\* A fresh id: no job has had it.
Fresh(j) == origin[j] = None

\* An assignment to the live job's Stage.
AtStage(j, st) == [live EXCEPT ![j].st = st]

\* delete(m.live, id).
KeptLive(j) == live  \* Mutant: the ended job stays in the live map.
Dropped(j) == [live EXCEPT ![j] = NotLive]

\* SaveImportJob's upsert: stage and queue_seq are written, input_path is not.
Upserted(j, st, s) == [row EXCEPT ![j].st = st, ![j].seq = s]

\* The save lands after the job it describes has ended and been saved as such.
Overtaken(j) == ~Active(j) /\ \A t \in Threads : ~(At(t, "persist") /\ th[t].job = j)

\* A save of an unfinished stage, and its history.
SaveUnfinished(j, st, s) ==
  /\ row' = Upserted(j, st, s)
  /\ revived' = IF Overtaken(j) THEN revived \cup {j} ELSE revived

-----------------------------------------------------------------------------
(* Uploads: Begin, the upload handler, Start / StartPDF / StartArchive.    *)

LiveOf(u) == {j \in Jobs : Live(j) /\ origin[j] = u}

\* Mutant: one more than the cap.
HasRoomForOneMore(u) == Cardinality(LiveOf(u)) <= MaxPerUser
HasRoom(u) == Cardinality(LiveOf(u)) < MaxPerUser

\* Begin's critical section: count, refuse at the cap, claim the slot.
Begin(c, u, j) ==
  /\ up /\ At(c, "idle") /\ Fresh(j)
  /\ HasRoom(u)
  /\ origin' = [origin EXCEPT ![j] = u]
  /\ live' = AtStage(j, "uploading")
  /\ th' = [th EXCEPT ![c] = [@ EXCEPT !.pc = "begin", !.job = j]]
  /\ UNCHANGED <<durable, paused, queue, seq, process, starts, revived>>

BeginSaves(c) ==
  /\ At(c, "begin")
  /\ SaveUnfinished(th[c].job, "uploading", 0)
  /\ Goto(c, "stage")
  /\ UNCHANGED <<storedPause, filed, staged, manager, process, starts, origin>>

\* The row could not be written: the slot is given back.
BeginSaveFails(c) ==
  /\ StoreErrors /\ At(c, "begin")
  /\ live' = Dropped(th[c].job)
  /\ Rest(c)
  /\ UNCHANGED <<durable, paused, queue, seq, process, history>>

\* The handler's MkdirTemp, after which the client's bytes arrive.
StageUpload(c) ==
  /\ At(c, "stage")
  /\ staged' = staged \cup {th[c].job}
  /\ Goto(c, "upload")
  /\ UNCHANGED <<row, storedPause, filed, manager, process, history>>

\* No directory, a malformed part, an oversized file, a client gone: Fail, and
\* the deferred removal of the directory, through finish below.
UploadFails(c) ==
  /\ At(c, "stage") \/ At(c, "upload")
  /\ GotoEnding(c, "mark", "failed")
  /\ UNCHANGED <<durable, manager, process, history>>

\* enqueueUploaded's critical section.
EnqueueUploaded(c) ==
  /\ At(c, "upload")
  /\ LET j == th[c].job IN
       /\ Live(j)
       /\ live' = [live EXCEPT ![j] = [@ EXCEPT !.st = "queued", !.seq = seq, !.input = TRUE]]
       /\ queue' = Append(queue, j)
  /\ seq' = seq + 1
  /\ \E woken \in Signalled :
       th' = WithWoken([th EXCEPT ![c] = [@ EXCEPT !.pc = "setInput", !.st = "queued",
                                                   !.seq = seq]], woken)
  /\ UNCHANGED <<durable, paused, process, history>>

\* SetImportJobInput: an UPDATE, so nothing happens without a row.
SetInput(c) ==
  /\ At(c, "setInput")
  /\ LET j == th[c].job IN
       /\ row' = [row EXCEPT ![j].input = @ \/ row[j].st # "none"]
       /\ IF IsUpload(j) THEN Goto(c, "saveQueued") ELSE Rest(c)
  /\ UNCHANGED <<storedPause, filed, staged, manager, process, history>>

\* Mutant: the handler returns without setting started, and its deferred
\* cleanup removes what the job is to run from.
SaveQueuedThenCleanup(c) ==
  /\ At(c, "saveQueued")
  /\ SaveUnfinished(th[c].job, "queued", th[c].seq)
  /\ staged' = staged \ {th[c].job}
  /\ Rest(c)
  /\ UNCHANGED <<storedPause, filed, manager, process, starts, origin>>

\* enqueueUploaded's save, of the copy made under the lock.
SaveQueued(c) ==
  /\ At(c, "saveQueued")
  /\ SaveUnfinished(th[c].job, "queued", th[c].seq)
  /\ Rest(c)
  /\ UNCHANGED <<storedPause, filed, staged, manager, process, starts, origin>>

-----------------------------------------------------------------------------
(* Library files: enqueueLibraryConvert.                                   *)

AlreadyLive(f) == \E j \in Jobs : Active(j) /\ live[j].input /\ origin[j] = f
HasUnfinishedImportJobForInput(f) ==
  \E j \in Jobs : Unfinished(j) /\ row[j].input /\ origin[j] = f
HasImportedInput(f) ==
  \E j \in Jobs : row[j].st = "done" /\ row[j].input /\ origin[j] = f

\* The checks and the enqueue share one critical section.
EnqueueLibraryConvert(c, f, j) ==
  /\ up /\ At(c, "idle") /\ Fresh(j)
  /\ ~AlreadyLive(f)
  /\ ~HasUnfinishedImportJobForInput(f)
  /\ ~HasImportedInput(f)
  /\ origin' = [origin EXCEPT ![j] = f]
  /\ live' = [live EXCEPT ![j] = [@ EXCEPT !.st = "queued", !.seq = seq, !.input = TRUE]]
  /\ queue' = Append(queue, j)
  /\ seq' = seq + 1
  /\ \E woken \in Signalled :
       th' = WithWoken([th EXCEPT ![c] = [@ EXCEPT !.pc = "insert", !.job = j, !.st = "queued",
                                                   !.seq = seq]], woken)
  /\ UNCHANGED <<durable, paused, process, starts, revived>>

LibrarySaves(c) ==
  /\ At(c, "insert")
  /\ SaveUnfinished(th[c].job, "queued", th[c].seq)
  /\ Goto(c, "setInput")
  /\ UNCHANGED <<storedPause, filed, staged, manager, process, starts, origin>>

\* The places of a job in the queue: none or one, as the loop that splices
\* a job out stops at the first.
PlacesOf(j) == {i \in DOMAIN queue : queue[i] = j}

\* A worker that has the job already may have written its row, which nobody
\* will end: finish finds no live job.
LibrarySaveFails(c) ==
  /\ StoreErrors /\ At(c, "insert")
  /\ LET j == th[c].job IN
       /\ live' = Dropped(j)
       /\ \/ \E i \in PlacesOf(j) : queue' = RemoveAt(queue, i)
          \/ PlacesOf(j) = {} /\ queue' = queue
       /\ revived' = IF Unfinished(j) THEN revived \cup {j} ELSE revived
  /\ Rest(c)
  /\ UNCHANGED <<durable, paused, seq, process, starts, origin>>

-----------------------------------------------------------------------------
(* The queue's controls: Cancel, Pause, Resume, Reorder, clear.            *)

\* cancelJob on a queued job.  CancelAny takes any id, and Cancel those the
\* store lists for the caller: every cancel of an owner is one an admin may make.
CancelQueued(c, j) ==
  /\ up /\ At(c, "idle")
  /\ \E i \in PlacesOf(j) : queue' = RemoveAt(queue, i)
  /\ th' = [th EXCEPT ![c] = [@ EXCEPT !.pc = IF IsUpload(j) THEN "clean" ELSE "mark",
                                       !.job = j, !.st = "cancelled"]]
  /\ UNCHANGED <<durable, paused, live, seq, process, starts, origin, revived>>

\* cancelJob on a job a worker has: its context is cancelled and the worker
\* is left to end it.  Without a context the caller is told ErrNotRunning.
CancelRunning(c, j) ==
  /\ up /\ At(c, "idle") /\ PlacesOf(j) = {}
  /\ live[j].ctx # "nil"
  /\ live' = [live EXCEPT ![j].ctx = "cancelled"]
  /\ UNCHANGED <<durable, paused, queue, seq, process, th, starts, origin, revived>>

\* setPaused: the field, then (below) the meta row.
SetPaused(c, flag) ==
  /\ up /\ At(c, "idle")
  /\ paused' = flag
  /\ th' = WithWoken([th EXCEPT ![c] = [@ EXCEPT !.pc = IF flag THEN "storePause" ELSE "storeResume"]],
                     Waiting)
  /\ UNCHANGED <<durable, live, queue, seq, process, history>>

StorePaused(c) ==
  /\ At(c, "storePause") \/ At(c, "storeResume")
  /\ storedPause' = At(c, "storePause")
  /\ Rest(c)
  /\ UNCHANGED <<row, filed, staged, manager, process, history>>

\* The id lists a client may send, duplicates left out: only an id's first
\* occurrence counts.
IdLists == UNION {{l \in [1..n -> Jobs] : IsInjective(l)} : n \in 0..Cardinality(Jobs)}

Rearrangements(q) ==
  {[i \in DOMAIN q |-> q[p[i]]] : p \in {f \in [DOMAIN q -> DOMAIN q] : IsInjective(f)}}

Before(s, a, b) == \E i, k \in DOMAIN s : i < k /\ s[i] = a /\ s[k] = b

\* The listed jobs in the list's order, then the others in the queue's.
Follows(new, old, ids) ==
  \A a, b \in ToSet(old) :
    Before(new, a, b) <=>
      IF a \in ToSet(ids) THEN b \notin ToSet(ids) \/ Before(ids, a, b)
                          ELSE b \notin ToSet(ids) /\ Before(old, a, b)

PlaceIn(s, j) == CHOOSE i \in DOMAIN s : s[i] = j

AfterOrderKept == seq  \* Mutant: the counter is not moved past the new numbers.
AfterOrder == seq + Len(queue)

Reorder(c, ids) ==
  /\ up /\ At(c, "idle") /\ AfterOrder <= MaxSeq
  /\ \E new \in Rearrangements(queue) :
       /\ Follows(new, queue, ids)
       /\ queue' = new
       /\ live' = [j \in Jobs |->
            IF j \in ToSet(new) /\ Live(j)
            THEN [live[j] EXCEPT !.seq = seq + PlaceIn(new, j) - 1]
            ELSE live[j]]
       /\ th' = [th EXCEPT ![c] = [@ EXCEPT !.pc = "storeOrder", !.seq = seq, !.ids = new]]
  /\ seq' = AfterOrder
  /\ UNCHANGED <<durable, paused, process, history>>

\* Mutant: the rows are saved whole, from the copies made under the lock.
StoreOrderWhole(c) ==
  /\ At(c, "storeOrder")
  /\ row' = [j \in Jobs |->
       IF j \in ToSet(th[c].ids) /\ row[j].st # "none"
       THEN [row[j] EXCEPT !.st = "queued", !.seq = th[c].seq + PlaceIn(th[c].ids, j) - 1]
       ELSE row[j]]
  /\ Rest(c)
  /\ UNCHANGED <<storedPause, filed, staged, manager, process, history>>

\* ReorderImportJobs: one transaction of UPDATEs.
StoreOrder(c) ==
  /\ At(c, "storeOrder")
  /\ row' = [j \in Jobs |->
       IF j \in ToSet(th[c].ids) /\ row[j].st # "none"
       THEN [row[j] EXCEPT !.seq = th[c].seq + PlaceIn(th[c].ids, j) - 1]
       ELSE row[j]]
  /\ Rest(c)
  /\ UNCHANGED <<storedPause, filed, staged, manager, process, history>>

\* DeleteFinishedImportJobs: an admin clears every finished row, a user their
\* own; a library conversion that made a comic is kept.
Clearable(j) == Finished(j) /\ ~(origin[j] \in Files /\ row[j].st = "done")

ClearFinished(c, scope) ==
  /\ up /\ At(c, "idle")
  /\ \E j \in Jobs : Clearable(j) /\ origin[j] \in scope
  /\ row' = [j \in Jobs |-> IF Clearable(j) /\ origin[j] \in scope THEN NoRow ELSE row[j]]
  /\ UNCHANGED <<storedPause, filed, staged, manager, process, th, history>>

-----------------------------------------------------------------------------
(* Ending a job: finish, and the removal of what was staged.               *)

\* cleanInput and the RemoveAll before a Fail: the directory goes first.
CleanInput(t) ==
  /\ At(t, "clean")
  /\ staged' = staged \ {th[t].job}
  /\ Goto(t, "mark")
  /\ UNCHANGED <<row, storedPause, filed, manager, process, history>>

\* finish's first critical section.
FinishMarks(t) ==
  /\ At(t, "mark")
  /\ LET j == th[t].job IN
       IF Live(j)
       THEN /\ live' = AtStage(j, th[t].st)
            /\ GotoSaving(t, "persist", th[t].st, live[j].seq)
       ELSE /\ Goto(t, "sweep")
            /\ UNCHANGED live
  /\ UNCHANGED <<durable, paused, queue, seq, process, history>>

FinishSaves(t) ==
  /\ At(t, "persist")
  /\ row' = Upserted(th[t].job, th[t].st, th[t].seq)
  /\ Goto(t, "drop")
  /\ UNCHANGED <<storedPause, filed, staged, manager, process, history>>

\* finish's second critical section.
FinishDrops(t) ==
  /\ At(t, "drop")
  /\ live' = Dropped(th[t].job)
  /\ Goto(t, "sweep")
  /\ UNCHANGED <<durable, paused, queue, seq, process, history>>

\* The RemoveAll after a success, and the handler's deferred one; on the other
\* paths the directory is gone already, or the input is a library file.
Sweep(t) ==
  /\ At(t, "sweep")
  /\ staged' = staged \ {th[t].job}
  /\ Rest(t)
  /\ UNCHANGED <<row, storedPause, filed, manager, process, history>>

-----------------------------------------------------------------------------
(* A queue worker.                                                         *)

\* The worker's critical section: the front of the queue, unless held.
Pick(w) ==
  /\ boot.pc = "done" /\ At(w, "idle")
  /\ ~draining /\ ~paused /\ queue # <<>>
  /\ queue' = Tail(queue)
  /\ LET j == Head(queue) IN
       IF Live(j)
       THEN /\ live' = [live EXCEPT ![j] = [@ EXCEPT !.st = "reading", !.ctx = "running"]]
            /\ th' = [th EXCEPT ![w] = [@ EXCEPT !.pc = "announce", !.job = j,
                                                 !.st = "reading", !.seq = live[j].seq]]
       ELSE UNCHANGED <<live, th>>
  /\ UNCHANGED <<durable, paused, seq, process, history>>

WorkerWaits(w) ==
  /\ boot.pc = "done" /\ At(w, "idle")
  /\ ~draining /\ (paused \/ queue = <<>>)
  /\ Goto(w, "waiting")
  /\ UNCHANGED <<durable, manager, process, history>>

WorkerReturns(w) ==
  /\ boot.pc = "done" /\ At(w, "idle") /\ draining
  /\ Goto(w, "returned")
  /\ UNCHANGED <<durable, manager, process, history>>

\* The save of a stage the worker's job has reached.
SaveStage(w) ==
  /\ At(w, "announce") \/ At(w, "tick")
  /\ SaveUnfinished(th[w].job, th[w].st, th[w].seq)
  /\ Goto(w, IF At(w, "announce") THEN "extract" ELSE "build")
  /\ UNCHANGED <<storedPause, filed, staged, manager, process, starts, origin>>

\* tick on a stage change: the live job under the lock, its row after it.
Tick(w) ==
  /\ At(w, "extract")
  /\ LET j == th[w].job IN
       IF Live(j)
       THEN /\ live' = AtStage(j, "packing")
            /\ GotoSaving(w, "tick", "packing", live[j].seq)
       ELSE /\ Goto(w, "build")
            /\ UNCHANGED live
  /\ UNCHANGED <<durable, paused, queue, seq, process, history>>

\* Unpacking or packing failed of itself.
EndsWith(w, st) == GotoEnding(w, IF IsUpload(th[w].job) THEN "clean" ELSE "mark", st)

PipelineFails(w) ==
  /\ At(w, "extract") \/ At(w, "build")
  /\ EndsWith(w, "failed")
  /\ UNCHANGED <<durable, manager, process, history>>

\* The pipeline looked at its context and found it cancelled.  It looks between
\* pages, so a job near its end may complete instead.
PipelineCancelled(w) ==
  /\ At(w, "extract") \/ At(w, "build")
  /\ ctxDone \/ live[th[w].job].ctx = "cancelled"
  /\ Goto(w, "cancelled")
  /\ UNCHANGED <<durable, manager, process, history>>

\* drained says no: the cancellation is taken for a user's.
CancelEnds(w) ==
  /\ At(w, "cancelled") /\ ~draining
  /\ EndsWith(w, "cancelled")
  /\ UNCHANGED <<durable, manager, process, history>>

\* drained says yes: requeueForRestart's critical section, then its save.
RequeueForRestart(w) ==
  /\ At(w, "cancelled") /\ draining
  /\ LET j == th[w].job IN
       IF Live(j)
       THEN /\ GotoSaving(w, "requeue", "queued", live[j].seq)
            /\ live' = Dropped(j)
       ELSE /\ Rest(w)
            /\ UNCHANGED live
  /\ UNCHANGED <<durable, paused, queue, seq, process, history>>

SaveRequeued(w) ==
  /\ At(w, "requeue")
  /\ row' = Upserted(th[w].job, "queued", th[w].seq)
  /\ Rest(w)
  /\ UNCHANGED <<storedPause, filed, staged, manager, process, history>>

\* Mutant: the job is finished before its comic is filed.
PipelineEnds(w) ==
  /\ At(w, "build")
  /\ GotoEnding(w, "mark", "done")
  /\ UNCHANGED <<durable, manager, process, history>>

\* The CBZ exists.  An upload is filed; a library file is looked up first.
PipelineBuilds(w) ==
  /\ At(w, "build")
  /\ Goto(w, IF IsUpload(th[w].job) THEN "file" ELSE "lookup")
  /\ UNCHANGED <<durable, manager, process, history>>

\* ServerWideComicByHash.
NoCopies(h) == {}  \* Mutant: no look-up by content.
Copies(h) == {j \in Jobs : origin[j] \in Files /\ filed[j] > 0 /\ Content[origin[j]] = h}

LookUp(w) ==
  /\ At(w, "lookup")
  /\ IF Copies(Content[origin[th[w].job]]) # {}
     THEN GotoEnding(w, "mark", "done")
     ELSE Goto(w, "file")
  /\ UNCHANGED <<durable, manager, process, history>>

\* Mutant: the upsert is tried again after it has taken effect.
FileComicAgain(w) ==
  /\ At(w, "file")
  /\ filed' = [filed EXCEPT ![th[w].job] = @ + 1]
  /\ filed[th[w].job] <= starts
  /\ UNCHANGED <<row, storedPause, staged, manager, process, th, history>>

\* UpsertComic, of a row with a new id; then finish.
FileComic(w) ==
  /\ At(w, "file")
  /\ filed' = [filed EXCEPT ![th[w].job] = @ + 1]
  /\ GotoEnding(w, "mark", "done")
  /\ UNCHANGED <<row, storedPause, staged, manager, process, history>>

FilingFails(w) ==
  /\ At(w, "lookup") \/ At(w, "file")
  /\ EndsWith(w, "failed")
  /\ UNCHANGED <<durable, manager, process, history>>

-----------------------------------------------------------------------------
(* The process: NewManager, Run with recover, a signal, a crash.           *)

\* MaxImportQueueSeq; an empty table's is 0.
MaxImportQueueSeq ==
  {m \in {0} \cup {row[j].seq : j \in Jobs} : \A j \in Jobs : row[j].seq <= m}

SeedAtMax(m) == m         \* Mutant: the largest number is given out again.
SeedBelowMax(m) == m - 1  \* Mutant: the step the wrong way.
Seed(m) == m + 1

\* NewManager, and the goroutines main starts: the counter is seeded past every
\* row, the paused flag read back.
Start ==
  /\ ~up /\ starts < MaxStarts
  /\ up' = TRUE
  /\ starts' = starts + 1
  /\ \E m \in MaxImportQueueSeq : seq' = Seed(m)
  /\ paused' = storedPause
  /\ boot' = [BootOff EXCEPT !.pc = "list"]
  /\ UNCHANGED <<durable, live, queue, ctxDone, draining, th, origin, revived>>

\* ListRecoverableImportJobs, sorted by queue_seq.  Equal numbers may come in
\* any order.
Recoverable(s) ==
  /\ ToSet(s) = {j \in Jobs : Unfinished(j)}
  /\ \A i, k \in DOMAIN s : i < k => row[s[i]].seq <= row[s[k]].seq

RecoverLists ==
  /\ boot.pc = "list"
  /\ \E s \in SetToSeqs({j \in Jobs : Unfinished(j)}) :
       /\ Recoverable(s)
       /\ boot' = [pc |-> "each", seq |-> 0, todo |->
            [i \in DOMAIN s |-> [job |-> s[i], seq |-> row[s[i]].seq, input |-> row[s[i]].input]]]
  /\ UNCHANGED <<durable, manager, up, ctxDone, draining, th, history>>

\* pathExists: an upload's staging directory; a library file may have gone.
MayExist(r) == r.input /\ (IsUpload(r.job) => r.job \in staged)
MayBeGone(r) == r.input => ~(IsUpload(r.job) /\ r.job \in staged)

NextNotTaken == [boot EXCEPT !.pc = "each"]  \* Mutant: the same row again.
NextRecovered == [boot EXCEPT !.todo = Tail(boot.todo), !.pc = "each"]
RecoverGoto(pc) == boot' = [boot EXCEPT !.pc = pc]

RecoverLooks ==
  /\ boot.pc = "each" /\ boot.todo # <<>>
  /\ \/ MayExist(Head(boot.todo)) /\ RecoverGoto("take")
     \/ MayBeGone(Head(boot.todo)) /\ RecoverGoto("fail")
  /\ UNCHANGED <<durable, manager, up, ctxDone, draining, th, history>>

\* Already taken by an upload or a library hand-off since the list was read.
NeverTaken(r) == FALSE  \* Mutant: recovery does not look.
Taken(r) == Live(r.job)

RecoverSkips ==
  /\ boot.pc = "take" /\ Taken(Head(boot.todo))
  /\ boot' = NextRecovered
  /\ UNCHANGED <<durable, manager, up, ctxDone, draining, th, history>>

\* The list may be out of date: the job may have ended since it was read.
RecoverQueues ==
  /\ boot.pc = "take" /\ ~Taken(Head(boot.todo))
  /\ LET j == Head(boot.todo).job IN
       /\ live' = [live EXCEPT ![j] = [st |-> "queued", seq |-> seq, input |-> TRUE, ctx |-> "nil"]]
       /\ queue' = Append(queue, j)
       /\ revived' = IF Unfinished(j) THEN revived ELSE revived \cup {j}
  /\ seq' = seq + 1
  /\ boot' = [boot EXCEPT !.pc = "save", !.seq = seq]
  /\ UNCHANGED <<durable, paused, up, ctxDone, draining, th, starts, origin>>

RecoverSaves ==
  /\ boot.pc = "save"
  /\ SaveUnfinished(Head(boot.todo).job, "queued", boot.seq)
  /\ boot' = NextRecovered
  /\ UNCHANGED <<storedPause, filed, staged, manager, up, ctxDone, draining, th,
                 starts, origin>>

\* Mutant: what cannot be resumed is left as it is.
RecoverPassesOver ==
  /\ boot.pc = "fail"
  /\ boot' = NextRecovered
  /\ UNCHANGED <<durable, manager, up, ctxDone, draining, th, history>>

\* Nothing to resume from: the row is failed, whatever the live map holds.
RecoverFails ==
  /\ boot.pc = "fail"
  /\ row' = Upserted(Head(boot.todo).job, "failed", Head(boot.todo).seq)
  /\ boot' = NextRecovered
  /\ UNCHANGED <<storedPause, filed, staged, manager, up, ctxDone, draining, th, history>>

\* The workers start.
RecoverEnds ==
  /\ boot.pc = "each" /\ boot.todo = <<>>
  /\ boot' = [BootOff EXCEPT !.pc = "done"]
  /\ UNCHANGED <<durable, manager, up, ctxDone, draining, th, history>>

\* SIGTERM cancels the base context; the goroutine Run starts after recover
\* sees it some time later and sets draining.
Stop ==
  /\ up /\ ~ctxDone
  /\ ctxDone' = TRUE
  /\ UNCHANGED <<durable, manager, up, draining, boot, th, history>>

\* Mutant: nobody waiting is woken.
DrainQuietly ==
  /\ ctxDone /\ ~draining /\ boot.pc = "done"
  /\ draining' = TRUE
  /\ UNCHANGED <<durable, manager, up, ctxDone, boot, th, history>>

Drain ==
  /\ ctxDone /\ ~draining /\ boot.pc = "done"
  /\ draining' = TRUE
  /\ th' = WithWoken(th, Waiting)
  /\ UNCHANGED <<durable, manager, up, ctxDone, boot, history>>

\* The process is gone: killed, or main returned after Shutdown, which waits
\* for no worker.
Exit ==
  /\ up
  /\ up' = FALSE /\ ctxDone' = FALSE /\ draining' = FALSE /\ boot' = BootOff
  /\ live' = [j \in Jobs |-> NotLive]
  /\ queue' = <<>> /\ seq' = 0 /\ paused' = FALSE
  /\ th' = [t \in Threads |-> Idle]
  /\ UNCHANGED <<durable, history>>

-----------------------------------------------------------------------------

Init ==
  /\ row = [j \in Jobs |-> NoRow] /\ storedPause = FALSE
  /\ filed = [j \in Jobs |-> 0] /\ staged = {}
  /\ up = FALSE /\ ctxDone = FALSE /\ draining = FALSE /\ boot = BootOff
  /\ paused = FALSE /\ live = [j \in Jobs |-> NotLive] /\ queue = <<>> /\ seq = 0
  /\ th = [t \in Threads |-> Idle]
  /\ starts = 0 /\ origin = [j \in Jobs |-> None] /\ revived = {}

FinishStep(t) ==
  CleanInput(t) \/ FinishMarks(t) \/ FinishSaves(t) \/ FinishDrops(t) \/ Sweep(t)

WorkerStep(w) ==
  \/ Pick(w) \/ WorkerWaits(w) \/ WorkerReturns(w)
  \/ SaveStage(w) \/ Tick(w)
  \/ PipelineFails(w) \/ PipelineCancelled(w) \/ PipelineBuilds(w)
  \/ CancelEnds(w) \/ RequeueForRestart(w) \/ SaveRequeued(w)
  \/ LookUp(w) \/ FileComic(w) \/ FilingFails(w)
  \/ FinishStep(w)

\* What a request or a hand-off does once it has begun.
ClientStep(c) ==
  \/ BeginSaves(c) \/ BeginSaveFails(c) \/ StageUpload(c)
  \/ SetInput(c) \/ SaveQueued(c)
  \/ LibrarySaves(c) \/ LibrarySaveFails(c)
  \/ StorePaused(c) \/ StoreOrder(c)
  \/ FinishStep(c)

\* What users, the admin and the library decide to do.
ClientCall(c) ==
  \/ /\ "upload" \in Calls
     /\ \E j \in Jobs : \E u \in Users : Begin(c, u, j)
  \/ "upload" \in Calls /\ (EnqueueUploaded(c) \/ UploadFails(c))
  \/ /\ "library" \in Calls
     /\ \E j \in Jobs : \E f \in Files : EnqueueLibraryConvert(c, f, j)
  \/ "cancel" \in Calls /\ \E j \in Jobs : CancelQueued(c, j) \/ CancelRunning(c, j)
  \/ "pause" \in Calls /\ \E flag \in BOOLEAN : SetPaused(c, flag)
  \/ "reorder" \in Calls /\ \E ids \in IdLists : Reorder(c, ids)
  \/ /\ "clear" \in Calls
     /\ ClearFinished(c, Users \cup Files) \/ \E u \in Users : ClearFinished(c, {u})

RecoverStep ==
  RecoverLists \/ RecoverLooks \/ RecoverSkips \/ RecoverQueues \/ RecoverSaves \/ RecoverFails \/ RecoverEnds

Next ==
  \/ \E w \in Workers : WorkerStep(w)
  \/ \E c \in Clients : ClientStep(c) \/ ClientCall(c)
  \/ RecoverStep
  \/ Start \/ Stop \/ Drain \/ Exit

Spec == Init /\ [][Next]_vars

(***************************************************************************)
(* Fairness.  A goroutine that can run does, statements and file removals  *)
(* return, and a pipeline over finitely many pages ends.  Nobody has to    *)
(* upload, cancel, resume, restart or stop the process.                    *)
(***************************************************************************)
Fairness ==
  /\ \A w \in Workers : WF_vars(WorkerStep(w))
  /\ \A c \in Clients : WF_vars(ClientStep(c))
  /\ WF_vars(RecoverStep) /\ WF_vars(Drain)

FairSpec == Spec /\ Fairness

-----------------------------------------------------------------------------
(* Types.                                                                  *)

ClientPCs == {"begin", "stage", "upload", "setInput", "saveQueued", "insert",
              "storePause", "storeResume", "storeOrder"}
WorkerPCs == {"waiting", "announce", "extract", "tick", "build", "cancelled", "requeue",
              "lookup", "file", "returned"}
FinishPCs == {"clean", "mark", "persist", "drop", "sweep"}
PCs == {"idle"} \cup ClientPCs \cup WorkerPCs \cup FinishPCs

RowType == [st : Stages, seq : Nat, input : BOOLEAN]
LiveType == [st : Stages, seq : Nat, input : BOOLEAN, ctx : {"nil", "running", "cancelled"}]
ThreadType == [pc : PCs, job : Jobs \cup {NoJob}, st : Stages, seq : Nat, ids : Seq(Jobs)]
BootType == [pc : {"off", "list", "each", "take", "save", "fail", "done"}, seq : Nat,
             todo : Seq([job : Jobs, seq : Nat, input : BOOLEAN])]

DurableTypes ==
  /\ row \in [Jobs -> RowType] /\ storedPause \in BOOLEAN
  /\ filed \in [Jobs -> Nat] /\ staged \subseteq Jobs
ManagerTypes ==
  /\ paused \in BOOLEAN /\ live \in [Jobs -> LiveType]
  /\ queue \in Seq(Jobs) /\ seq \in Nat
ProcessTypes ==
  /\ up \in BOOLEAN /\ ctxDone \in BOOLEAN /\ draining \in BOOLEAN
  /\ boot \in BootType
HistoryTypes ==
  /\ starts \in Nat /\ origin \in [Jobs -> Users \cup Files \cup {None}]
  /\ revived \subseteq Jobs

\* The fields and rows hold what the Go types and columns can, and no number
\* handed out is negative.
TypeOK ==
  /\ DurableTypes /\ ManagerTypes /\ ProcessTypes /\ HistoryTypes
  /\ th \in [Threads -> ThreadType]

-----------------------------------------------------------------------------
(* Safety.                                                                 *)

\* No job is queued twice, and every queued job is live, in stage queued and
\* without a context: the worker's "not in the live map" branch is never taken,
\* and a job handed to a worker is not handed to another.
QueueIsLive ==
  /\ \A i, k \in DOMAIN queue : queue[i] = queue[k] => i = k
  /\ \A i \in DOMAIN queue : live[queue[i]].st = "queued" /\ live[queue[i]].ctx = "nil"

\* The queue is in the order of its jobs' queue_seq, and the counter is past
\* them all, through enqueues, reorders, cancels and restarts.
QueueIsOrdered ==
  /\ \A i, k \in DOMAIN queue : i < k => live[queue[i]].seq < live[queue[k]].seq
  /\ \A i \in DOMAIN queue : live[queue[i]].seq < seq

\* The counter is past every row, so a job queued now comes after whatever a
\* restart finds, however many late saves and reorders were cut short.
CounterIsAhead == up => \A j \in Jobs : row[j].st # "none" => row[j].seq < seq

\* The goroutines that have a job in hand, and will end it or queue it.
OwningPCs == {"begin", "stage", "upload", "announce", "extract", "tick", "build",
              "cancelled", "lookup", "file", "clean", "mark", "persist", "drop"}
Owners(j) == {t \in Threads : th[t].job = j /\ th[t].pc \in OwningPCs}

\* Every live job is in the queue or in the hands of one goroutine, never both
\* and never neither: none is run twice, and none is a spinner nobody will end.
OneOwner ==
  \A j \in Jobs :
    /\ Cardinality(Owners(j)) <= 1
    /\ Live(j) => (j \in ToSet(queue) <=> Owners(j) = {})

\* The queue, the workers and the requests together are a work queue: the line
\* is Manager.queue, and a job is in the hands of the goroutine that owns it.
\* No crash, recovery, cancel or failed save makes a job jump the line, takes
\* it from one goroutine to another, or gives it to two (manager.go: recover,
\* "skip it rather than queue it twice").
HolderOf(j) == IF Owners(j) = {} THEN None ELSE CHOOSE t \in Threads : t \in Owners(j)
Line == INSTANCE WorkQueue WITH
  Items <- Jobs, Callers <- Clients, Nobody <- None, line <- queue,
  holder <- [j \in Jobs |-> HolderOf(j)]
IsWorkQueue == Line!Spec

\* An upload waiting for a worker, or being worked on, has its staging
\* directory, unless a stale recovery list brought it back after its end.
WorkingPCs == {"announce", "extract", "tick", "build", "cancelled", "lookup", "file"}
KeepsInput ==
  \A j \in Jobs :
    /\ IsUpload(j)
    /\ j \in ToSet(queue) \/ \E w \in Workers : th[w].job = j /\ th[w].pc \in WorkingPCs
    => j \in staged \cup revived

\* A job whose row says done has its comic: an upload one of its own, a library
\* file one with its content.
DoneHasComic ==
  \A j \in Jobs : row[j].st = "done" =>
    IF IsUpload(j) THEN filed[j] > 0 ELSE Copies(Content[origin[j]]) # {}

\* Once recovery is over, an unfinished row is one the process is working on.
\* The exceptions are what a drain set aside, with its input in place, and the
\* rows a late save brought back.
NoOrphanRow ==
  boot.pc = "done" =>
    \A j \in Jobs : Unfinished(j) /\ ~Live(j) =>
      \/ j \in revived
      \/ draining /\ row[j].st \notin {"uploading"} /\ (IsUpload(j) => j \in staged)

\* A job makes at most one comic in the life of one process.
FiledOncePerStart == \A j \in Jobs : filed[j] <= starts

\* One library file's content becomes one server-wide comic, whatever crashes,
\* cancels and clears of the history come between its hand-offs.
OneServerWideCopy ==
  \A j, k \in Jobs :
    /\ origin[j] \in Files /\ filed[j] > 0
    => /\ filed[j] = 1
       /\ origin[k] \in Files /\ filed[k] > 0 /\ Content[origin[k]] = Content[origin[j]]
          => j = k

\* A user holds no more of the live map than the cap, in the first process:
\* later ones take back whatever rows they find.  What a stale recovery list
\* brought back is not counted either.
CapHolds ==
  starts = 1 => \A u \in Users : Cardinality(LiveOf(u) \ revived) <= MaxPerUser

\* A finished row is taken back to unfinished only by an enqueue's late save, by
\* recovery's own, or by a worker announcing a job recovery had failed too soon:
\* not by a tick, a requeue or a later recovery.
OnlyLateSavesRevive ==
  [][\A j \in Jobs : Finished(j) /\ Unfinished(j)' =>
       \/ \E t \in Threads : th[t].job = j /\ th[t].pc \in {"saveQueued", "insert", "announce"}
       \/ boot.pc = "save"]_vars

-----------------------------------------------------------------------------
(* What the comments and tests of the code say, and the runs refute.       *)

\* queue_test.go:270: "when the base context is cancelled (shutdown), an
\* in-flight or queued job is never marked failed".  A worker that is ending a
\* job as cancelled has been asked to.
ShutdownIsNotCancel ==
  \A w \in Workers : th[w].pc \in FinishPCs \ {"sweep"} /\ th[w].st = "cancelled"
                     => live[th[w].job].ctx = "cancelled"

-----------------------------------------------------------------------------
(* Liveness.                                                               *)

Held == paused \/ ctxDone \/ ~up

\* A queued job ends, unless the queue is held, the process is
\* stopping, or a late save brought its row back.
QueuedJobsEnd ==
  \A j \in Jobs : (j \in ToSet(queue)) ~> (Finished(j) \/ Held \/ j \in revived)

\* Recovery ends, so the workers start.
RecoveryEnds == (boot.pc = "list") ~> (boot.pc \in {"done", "off"})

\* A draining worker returns, and leaves its job to the next start.
WorkersReturn ==
  draining ~> (~up \/ \A w \in Workers : At(w, "returned"))
=============================================================================
