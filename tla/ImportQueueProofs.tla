------------------------- MODULE ImportQueueProofs -------------------------
(***************************************************************************)
(* Invariants of ImportQueue, for every set of jobs, users, files, workers *)
(* and clients, every cap and every bound: its types, and the counter;     *)
(* that every live job is in the queue once or in the hands of one         *)
(* goroutine, that the queue is in the order of its numbers, and that the  *)
(* import queue is a work queue.                                           *)
(*                                                                         *)
(* TInv and CInv hold the types and the counts.  OInv is the invariant of  *)
(* the owners: that a live job has one owner does not follow from the      *)
(* queue and the owners alone, for a save that fails takes a job back that *)
(* a cancel or recovery may have in hand, and recovery queues jobs from a  *)
(* list it has read earlier.  So OInv also says who brings a job, and what *)
(* recovery will still come to.                                            *)
(*                                                                         *)
(* For OInv the steps are sorted first: most are a goroutine's going on    *)
(* with its job (WorksOn), its letting go of it (LetsGo), or nobody's      *)
(* (Passes); the others are actions by name (lemma Steps).  Then each kind *)
(* is shown to keep OInv, to be a step of WorkQueue or a stutter, and to   *)
(* keep the queue in order.                                                *)
(***************************************************************************)
EXTENDS ImportQueue, TLAPS, SequenceTheorems, FiniteSetTheorems

-----------------------------------------------------------------------------
(* Sequences.                                                              *)

LEMMA RemoveAtProperties ==
  ASSUME NEW S, NEW s \in Seq(S), NEW i \in DOMAIN s
  PROVE  /\ RemoveAt(s, i) \in Seq(S)
         /\ Len(RemoveAt(s, i)) = Len(s) - 1
         /\ \A k \in 1..Len(s) - 1 :
              RemoveAt(s, i)[k] = IF k < i THEN s[k] ELSE s[k + 1]
<1>1. DOMAIN s = 1..Len(s) /\ Len(s) \in Nat
  BY LenProperties
<1>2. /\ SubSeq(s, 1, i - 1) \in Seq(S)
      /\ Len(SubSeq(s, 1, i - 1)) = i - 1
      /\ \A k \in 1..i - 1 : SubSeq(s, 1, i - 1)[k] = s[k]
  <2>1. \A k \in 1..i - 1 : s[k] \in S
    BY <1>1, ElementOfSeq
  <2>. QED
    BY <1>1, <2>1, SubSeqProperties
<1>3. /\ SubSeq(s, i + 1, Len(s)) \in Seq(S)
      /\ Len(SubSeq(s, i + 1, Len(s))) = Len(s) - i
      /\ \A k \in 1..Len(s) - i : SubSeq(s, i + 1, Len(s))[k] = s[i + k]
  <2>1. \A k \in i + 1..Len(s) : s[k] \in S
    BY <1>1, ElementOfSeq
  <2>. QED
    BY <1>1, <2>1, SubSeqProperties
<1>4. ASSUME NEW a \in Seq(S), NEW b \in Seq(S), Len(a) = i - 1, Len(b) = Len(s) - i,
              \A k \in 1..i - 1 : a[k] = s[k], \A k \in 1..Len(s) - i : b[k] = s[i + k]
      PROVE  /\ a \o b \in Seq(S)
             /\ Len(a \o b) = Len(s) - 1
             /\ \A k \in 1..Len(s) - 1 : (a \o b)[k] = IF k < i THEN s[k] ELSE s[k + 1]
  <2>1. /\ a \o b \in Seq(S)
        /\ Len(a \o b) = Len(a) + Len(b)
        /\ \A k \in 1..Len(a) + Len(b) : (a \o b)[k] = IF k <= Len(a) THEN a[k] ELSE b[k - Len(a)]
    BY ConcatProperties, Zenon
  <2>0. i \in 1..Len(s) /\ Len(a) + Len(b) = Len(s) - 1
    BY <1>1, <1>4
  <2>2. ASSUME NEW k \in 1..Len(s) - 1
        PROVE  (a \o b)[k] = IF k < i THEN s[k] ELSE s[k + 1]
    <3>1. CASE k < i
      <4>1. k <= Len(a) /\ k \in 1..i - 1 /\ k \in 1..Len(a) + Len(b)
        BY <1>1, <1>4, <2>0, <3>1
      <4>. QED
        BY <1>4, <2>1, <3>1, <4>1
    <3>2. CASE k >= i
      <4>1. /\ k - (i - 1) \in 1..Len(s) - i
            /\ i + (k - (i - 1)) = k + 1
            /\ k \in 1..Len(a) + Len(b) /\ ~(k <= Len(a)) /\ ~(k < i)
            /\ Len(a) = i - 1
        BY <1>1, <1>4, <2>0, <3>2
      <4>. QED
        BY <1>4, <2>1, <4>1
    <3>. QED
      BY <1>1, <2>0, <3>1, <3>2
  <2>. QED
    BY <2>0, <2>1, <2>2
<1>. QED
  BY <1>2, <1>3, <1>4 DEF RemoveAt

LEMMA RearrangementProperties ==
  ASSUME NEW S, NEW s \in Seq(S), NEW new \in Rearrangements(s)
  PROVE  /\ new \in Seq(S)
         /\ Len(new) = Len(s) /\ DOMAIN new = DOMAIN s
         /\ \E p \in [DOMAIN s -> DOMAIN s] :
              IsInjective(p) /\ \A i \in DOMAIN s : new[i] = s[p[i]]
<1>1. DOMAIN s = 1..Len(s) /\ Len(s) \in Nat
  BY LenProperties
<1>2. PICK p \in [DOMAIN s -> DOMAIN s] :
        IsInjective(p) /\ new = [i \in DOMAIN s |-> s[p[i]]]
  BY DEF Rearrangements
<1>3. \A i \in 1..Len(s) : s[p[i]] \in S
  BY <1>1, ElementOfSeq
<1>4. new \in Seq(S) /\ Len(new) = Len(s) /\ DOMAIN new = DOMAIN s
  BY <1>1, <1>2, <1>3
<1>. QED
  BY <1>2, <1>4

LEMMA PlaceInSequence ==
  ASSUME NEW S, NEW s \in Seq(S), NEW e \in ToSet(s)
  PROVE  PlaceIn(s, e) \in 1..Len(s) /\ s[PlaceIn(s, e)] = e
<1>1. \E i \in DOMAIN s : s[i] = e
  BY DEF ToSet
<1>2. PlaceIn(s, e) \in DOMAIN s /\ s[PlaceIn(s, e)] = e
  BY <1>1 DEF PlaceIn
<1>. QED
  BY <1>2, LenProperties

-----------------------------------------------------------------------------
(* Types.  A goroutine that has a job in hand has one that exists, and     *)
(* recovery handles a row only when one is left: both are needed for the   *)
(* types to be kept.                                                       *)

JobPCs == {"begin", "stage", "upload", "setInput", "saveQueued", "insert",
           "announce", "extract", "tick", "build", "cancelled", "requeue", "lookup", "file",
           "clean", "mark", "persist", "drop", "sweep"}

ThreadOK(r) == r \in ThreadType /\ (r.pc \in JobPCs => r.job \in Jobs)
ThreadsOK(f) == f = [t \in Threads |-> f[t]] /\ \A t \in Threads : ThreadOK(f[t])

BootHasRow == boot.pc \in {"take", "save", "fail"} => boot.todo # <<>>

TInv == TypeOK /\ ThreadsOK(th) /\ BootHasRow

LEMMA Constants ==
  /\ \A pc \in JobPCs \cup {"idle", "waiting", "returned", "storePause", "storeResume", "storeOrder"} :
       pc \in PCs
  /\ \A st \in {"none", "uploading", "queued", "reading", "packing", "done", "failed", "cancelled"} :
       st \in Stages
BY DEF JobPCs, PCs, ClientPCs, WorkerPCs, FinishPCs, Stages, Running, Terminal

LEMMA ThreadMoves ==
  ASSUME NEW f, ThreadsOK(f), NEW t \in Threads, NEW r, ThreadOK(r)
  PROVE  ThreadsOK([f EXCEPT ![t] = r])
BY DEF ThreadsOK

LEMMA IdleOK == ThreadOK(Idle)
BY Constants DEF ThreadOK, Idle, ThreadType, JobPCs

LEMMA ThreadsWoken ==
  ASSUME NEW f, ThreadsOK(f), NEW woken
  PROVE  ThreadsOK(WithWoken(f, woken))
BY IdleOK DEF ThreadsOK, WithWoken

LEMMA ThreadTyped ==
  ASSUME NEW f, ThreadsOK(f) PROVE f \in [Threads -> ThreadType]
BY DEF ThreadsOK, ThreadOK

LEMMA Moves ==
  ASSUME ThreadsOK(th), NEW t \in Threads, NEW pc \in PCs, pc \in JobPCs => th[t].job \in Jobs,
         NEW st \in Stages, NEW s \in Nat
  PROVE  /\ Goto(t, pc) => ThreadsOK(th')
         /\ GotoEnding(t, pc, st) => ThreadsOK(th')
         /\ GotoSaving(t, pc, st, s) => ThreadsOK(th')
<1>1. ThreadOK(th[t])
  BY DEF ThreadsOK
<1>2. /\ ThreadOK([th[t] EXCEPT !.pc = pc])
      /\ ThreadOK([th[t] EXCEPT !.pc = pc, !.st = st])
      /\ ThreadOK([th[t] EXCEPT !.pc = pc, !.st = st, !.seq = s])
  BY <1>1 DEF ThreadOK, ThreadType
<1>. QED
  BY <1>2, ThreadMoves DEF Goto, GotoEnding, GotoSaving

LEMMA Rests == ASSUME ThreadsOK(th), NEW t \in Threads, Rest(t) PROVE ThreadsOK(th')
BY IdleOK, ThreadMoves DEF Rest

\* A live or stored job is rewritten with values of the right type.
LEMMA RowUpdates ==
  ASSUME DurableTypes, NEW j, NEW st \in Stages, NEW s \in Nat
  PROVE  /\ Upserted(j, st, s) \in [Jobs -> RowType]
         /\ HistoryTypes /\ j \in Jobs /\ SaveUnfinished(j, st, s)
            => row' \in [Jobs -> RowType] /\ revived' \subseteq Jobs
<1>1. Upserted(j, st, s) \in [Jobs -> RowType]
  BY DEF DurableTypes, RowType, Upserted
<1>. QED
  BY <1>1 DEF SaveUnfinished, HistoryTypes

LEMMA LiveUpdates ==
  ASSUME ManagerTypes, NEW j, NEW st \in Stages
  PROVE  /\ AtStage(j, st) \in [Jobs -> LiveType]
         /\ Dropped(j) \in [Jobs -> LiveType]
         /\ j \in Jobs => live[j].seq \in Nat
BY Constants DEF ManagerTypes, LiveType, AtStage, Dropped, NotLive

LEMMA InHand ==
  ASSUME TInv, NEW t \in Threads
  PROVE  /\ ThreadOK(th[t]) /\ th[t].st \in Stages /\ th[t].seq \in Nat /\ th[t].ids \in Seq(Jobs)
         /\ th[t].pc \in JobPCs => th[t].job \in Jobs
         /\ DurableTypes /\ ManagerTypes /\ ProcessTypes /\ HistoryTypes /\ ThreadsOK(th)
<1>1. ThreadsOK(th) /\ TypeOK
  BY DEF TInv
<1>2. ThreadOK(th[t])
  BY <1>1 DEF ThreadsOK
<1>3. /\ th[t].st \in Stages /\ th[t].seq \in Nat /\ th[t].ids \in Seq(Jobs)
      /\ th[t].pc \in JobPCs => th[t].job \in Jobs
  BY <1>2 DEF ThreadOK, ThreadType
<1>. QED
  BY <1>1, <1>2, <1>3 DEF TypeOK

LEMMA Takes ==
  ASSUME NEW r, ThreadOK(r), NEW pc \in PCs, NEW j \in Jobs, NEW st \in Stages, NEW s \in Nat
  PROVE  /\ ThreadOK([r EXCEPT !.pc = pc, !.job = j])
         /\ ThreadOK([r EXCEPT !.pc = pc, !.job = j, !.st = st])
         /\ ThreadOK([r EXCEPT !.pc = pc, !.job = j, !.st = st, !.seq = s])
<1>1. r \in ThreadType
  BY DEF ThreadOK
<1>2. ThreadOK([r EXCEPT !.pc = pc, !.job = j])
  BY <1>1 DEF ThreadOK, ThreadType
<1>3. ThreadOK([r EXCEPT !.pc = pc, !.job = j, !.st = st])
  BY <1>1 DEF ThreadOK, ThreadType
<1>4. ThreadOK([r EXCEPT !.pc = pc, !.job = j, !.st = st, !.seq = s])
  BY <1>1 DEF ThreadOK, ThreadType
<1>. QED
  BY <1>2, <1>3, <1>4

LEMMA FinishTypes ==
  ASSUME TInv, NEW t \in Threads, FinishStep(t)
  PROVE  TInv'
<1>. USE InHand, Constants DEF TInv
<1>1. CASE CleanInput(t)
  <2>1. ThreadsOK(th') /\ staged' \subseteq Jobs
    BY <1>1, Moves DEF CleanInput, DurableTypes, At, JobPCs
  <2>. QED
    BY <1>1, <2>1, ThreadTyped DEF CleanInput, TypeOK, DurableTypes, ManagerTypes,
       ProcessTypes, HistoryTypes, BootHasRow, durable, manager, process, history
<1>2. CASE FinishMarks(t)
  <2>1. ThreadsOK(th') /\ live' \in [Jobs -> LiveType]
    <3>1. th[t].job \in Jobs /\ live[th[t].job].seq \in Nat /\ \A pc \in JobPCs : pc \in PCs
      BY <1>2, LiveUpdates DEF FinishMarks, At, JobPCs
    <3>2. CASE Live(th[t].job)
      <4>1. live' \in [Jobs -> LiveType]
        BY <1>2, <3>2, LiveUpdates DEF FinishMarks
      <4>2. GotoSaving(t, "persist", th[t].st, live[th[t].job].seq)
        BY <1>2, <3>2 DEF FinishMarks
      <4>. QED
        BY <3>1, <4>1, <4>2, Moves DEF JobPCs
    <3>3. CASE ~Live(th[t].job)
      BY <1>2, <3>1, <3>3, Moves DEF FinishMarks, JobPCs, ManagerTypes
    <3>. QED
      BY <3>2, <3>3
  <2>. QED
    BY <1>2, <2>1, ThreadTyped DEF FinishMarks, TypeOK, DurableTypes, ManagerTypes,
       ProcessTypes, HistoryTypes, BootHasRow, durable, manager, process, history
<1>3. CASE FinishSaves(t)
  <2>1. ThreadsOK(th') /\ row' \in [Jobs -> RowType]
    BY <1>3, Moves, RowUpdates DEF FinishSaves, At, JobPCs
  <2>. QED
    BY <1>3, <2>1, ThreadTyped DEF FinishSaves, TypeOK, DurableTypes, ManagerTypes,
       ProcessTypes, HistoryTypes, BootHasRow, durable, manager, process, history
<1>4. CASE FinishDrops(t)
  <2>1. ThreadsOK(th') /\ live' \in [Jobs -> LiveType]
    BY <1>4, Moves, LiveUpdates DEF FinishDrops, At, JobPCs
  <2>. QED
    BY <1>4, <2>1, ThreadTyped DEF FinishDrops, TypeOK, DurableTypes, ManagerTypes,
       ProcessTypes, HistoryTypes, BootHasRow, durable, manager, process, history
<1>5. CASE Sweep(t)
  <2>1. ThreadsOK(th') /\ staged' \subseteq Jobs
    BY <1>5, Rests DEF Sweep, DurableTypes, At, JobPCs
  <2>. QED
    BY <1>5, <2>1, ThreadTyped DEF Sweep, TypeOK, DurableTypes, ManagerTypes,
       ProcessTypes, HistoryTypes, BootHasRow, durable, manager, process, history
<1>. QED
  BY <1>1, <1>2, <1>3, <1>4, <1>5 DEF FinishStep

LEMMA WorkerTypes ==
  ASSUME TInv, NEW w \in Workers, WorkerStep(w)
  PROVE  TInv'
<1>. USE InHand, Constants DEF TInv
<1>. w \in Threads
  BY DEF Threads
<1>1. CASE Pick(w)
  <2>1. ThreadsOK(th') /\ live' \in [Jobs -> LiveType] /\ queue' \in Seq(Jobs)
    <3>1. Head(queue) \in Jobs /\ queue' \in Seq(Jobs)
      BY <1>1, HeadTailProperties DEF Pick, ManagerTypes
    <3>2. CASE Live(Head(queue))
      <4>1. ThreadOK([th[w] EXCEPT !.pc = "announce", !.job = Head(queue), !.st = "reading",
                                   !.seq = live[Head(queue)].seq])
        BY <3>1, Takes, LiveUpdates DEF JobPCs
      <4>2. live' \in [Jobs -> LiveType]
        <5>1. [live[Head(queue)] EXCEPT !.st = "reading", !.ctx = "running"] \in LiveType
          BY <3>1 DEF ManagerTypes, LiveType
        <5>. QED
          BY <1>1, <3>1, <3>2, <5>1 DEF Pick, ManagerTypes
      <4>. QED
        BY <1>1, <3>1, <3>2, <4>1, <4>2, ThreadMoves DEF Pick
    <3>3. CASE ~Live(Head(queue))
      BY <1>1, <3>1, <3>3 DEF Pick, ManagerTypes
    <3>. QED
      BY <3>1, <3>2, <3>3
  <2>. QED
    BY <1>1, <2>1, ThreadTyped DEF Pick, TypeOK, DurableTypes, ManagerTypes,
       ProcessTypes, HistoryTypes, BootHasRow, durable, manager, process, history
<1>2. CASE WorkerWaits(w)
  <2>1. ThreadsOK(th')
    BY <1>2, Moves DEF WorkerWaits, JobPCs
  <2>. QED
    BY <1>2, <2>1, ThreadTyped DEF WorkerWaits, TypeOK, DurableTypes, ManagerTypes,
       ProcessTypes, HistoryTypes, BootHasRow, durable, manager, process, history
<1>3. CASE WorkerReturns(w)
  <2>1. ThreadsOK(th')
    BY <1>3, Moves DEF WorkerReturns, JobPCs
  <2>. QED
    BY <1>3, <2>1, ThreadTyped DEF WorkerReturns, TypeOK, DurableTypes, ManagerTypes,
       ProcessTypes, HistoryTypes, BootHasRow, durable, manager, process, history
<1>4. CASE SaveStage(w)
  <2>1. ThreadsOK(th') /\ row' \in [Jobs -> RowType] /\ revived' \subseteq Jobs
    BY <1>4, Moves, RowUpdates DEF SaveStage, At, JobPCs
  <2>. QED
    BY <1>4, <2>1, ThreadTyped DEF SaveStage, TypeOK, DurableTypes, ManagerTypes,
       ProcessTypes, HistoryTypes, BootHasRow, durable, manager, process, history
<1>5. CASE Tick(w)
  <2>1. ThreadsOK(th') /\ live' \in [Jobs -> LiveType]
    <3>1. th[w].job \in Jobs /\ live[th[w].job].seq \in Nat /\ \A pc \in JobPCs : pc \in PCs
      BY <1>5, LiveUpdates DEF Tick, At, JobPCs
    <3>2. CASE Live(th[w].job)
      <4>1. live' \in [Jobs -> LiveType]
        BY <1>5, <3>2, LiveUpdates DEF Tick
      <4>2. GotoSaving(w, "tick", "packing", live[th[w].job].seq)
        BY <1>5, <3>2 DEF Tick
      <4>. QED
        BY <3>1, <4>1, <4>2, Moves DEF JobPCs
    <3>3. CASE ~Live(th[w].job)
      BY <1>5, <3>1, <3>3, Moves DEF Tick, JobPCs, ManagerTypes
    <3>. QED
      BY <3>2, <3>3
  <2>. QED
    BY <1>5, <2>1, ThreadTyped DEF Tick, TypeOK, DurableTypes, ManagerTypes,
       ProcessTypes, HistoryTypes, BootHasRow, durable, manager, process, history
<1>6. CASE PipelineFails(w)
  <2>1. ThreadsOK(th')
    BY <1>6, Moves DEF PipelineFails, EndsWith, At, JobPCs
  <2>. QED
    BY <1>6, <2>1, ThreadTyped DEF PipelineFails, TypeOK, DurableTypes, ManagerTypes,
       ProcessTypes, HistoryTypes, BootHasRow, durable, manager, process, history
<1>7. CASE PipelineCancelled(w)
  <2>1. ThreadsOK(th')
    BY <1>7, Moves DEF PipelineCancelled, At, JobPCs
  <2>. QED
    BY <1>7, <2>1, ThreadTyped DEF PipelineCancelled, TypeOK, DurableTypes, ManagerTypes,
       ProcessTypes, HistoryTypes, BootHasRow, durable, manager, process, history
<1>8. CASE PipelineBuilds(w)
  <2>1. ThreadsOK(th')
    BY <1>8, Moves DEF PipelineBuilds, At, JobPCs
  <2>. QED
    BY <1>8, <2>1, ThreadTyped DEF PipelineBuilds, TypeOK, DurableTypes, ManagerTypes,
       ProcessTypes, HistoryTypes, BootHasRow, durable, manager, process, history
<1>9. CASE CancelEnds(w)
  <2>1. ThreadsOK(th')
    BY <1>9, Moves DEF CancelEnds, EndsWith, At, JobPCs
  <2>. QED
    BY <1>9, <2>1, ThreadTyped DEF CancelEnds, TypeOK, DurableTypes, ManagerTypes,
       ProcessTypes, HistoryTypes, BootHasRow, durable, manager, process, history
<1>10. CASE RequeueForRestart(w)
  <2>1. ThreadsOK(th') /\ live' \in [Jobs -> LiveType]
    BY <1>10, Moves, LiveUpdates, Rests DEF RequeueForRestart, At, JobPCs, ManagerTypes
  <2>. QED
    BY <1>10, <2>1, ThreadTyped DEF RequeueForRestart, TypeOK, DurableTypes, ManagerTypes,
       ProcessTypes, HistoryTypes, BootHasRow, durable, manager, process, history
<1>11. CASE SaveRequeued(w)
  <2>1. ThreadsOK(th') /\ row' \in [Jobs -> RowType]
    BY <1>11, Rests, RowUpdates DEF SaveRequeued, At, JobPCs
  <2>. QED
    BY <1>11, <2>1, ThreadTyped DEF SaveRequeued, TypeOK, DurableTypes, ManagerTypes,
       ProcessTypes, HistoryTypes, BootHasRow, durable, manager, process, history
<1>12. CASE LookUp(w)
  <2>1. ThreadsOK(th')
    BY <1>12, Moves DEF LookUp, At, JobPCs
  <2>. QED
    BY <1>12, <2>1, ThreadTyped DEF LookUp, TypeOK, DurableTypes, ManagerTypes,
       ProcessTypes, HistoryTypes, BootHasRow, durable, manager, process, history
<1>13. CASE FileComic(w)
  <2>1. ThreadsOK(th') /\ filed' \in [Jobs -> Nat]
    BY <1>13, Moves DEF FileComic, DurableTypes, At, JobPCs
  <2>. QED
    BY <1>13, <2>1, ThreadTyped DEF FileComic, TypeOK, DurableTypes, ManagerTypes,
       ProcessTypes, HistoryTypes, BootHasRow, durable, manager, process, history
<1>14. CASE FilingFails(w)
  <2>1. ThreadsOK(th')
    BY <1>14, Moves DEF FilingFails, EndsWith, At, JobPCs
  <2>. QED
    BY <1>14, <2>1, ThreadTyped DEF FilingFails, TypeOK, DurableTypes, ManagerTypes,
       ProcessTypes, HistoryTypes, BootHasRow, durable, manager, process, history
<1>15. CASE FinishStep(w)
  <2>1. TInv'
    BY <1>15, FinishTypes DEF FinishStep
  <2>. QED
    BY <1>15, <2>1, ThreadTyped DEF FinishStep, TypeOK, DurableTypes, ManagerTypes,
       ProcessTypes, HistoryTypes, BootHasRow, durable, manager, process, history
<1>. QED
  BY <1>1, <1>2, <1>3, <1>4, <1>5, <1>6, <1>7, <1>8, <1>9, <1>10, <1>11, <1>12, <1>13, <1>14, <1>15 DEF WorkerStep

LEMMA ClientTypes ==
  ASSUME TInv, NEW c \in Clients, ClientStep(c)
  PROVE  TInv'
<1>. USE InHand, Constants DEF TInv
<1>. c \in Threads
  BY DEF Threads
<1>1. CASE BeginSaves(c)
  <2>1. ThreadsOK(th') /\ row' \in [Jobs -> RowType] /\ revived' \subseteq Jobs
    BY <1>1, Moves, RowUpdates DEF BeginSaves, At, JobPCs
  <2>. QED
    BY <1>1, <2>1, ThreadTyped DEF BeginSaves, TypeOK, DurableTypes, ManagerTypes,
       ProcessTypes, HistoryTypes, BootHasRow, durable, manager, process, history
<1>2. CASE BeginSaveFails(c)
  <2>1. ThreadsOK(th') /\ live' \in [Jobs -> LiveType]
    BY <1>2, Rests, LiveUpdates DEF BeginSaveFails, At, JobPCs
  <2>. QED
    BY <1>2, <2>1, ThreadTyped DEF BeginSaveFails, TypeOK, DurableTypes, ManagerTypes,
       ProcessTypes, HistoryTypes, BootHasRow, durable, manager, process, history
<1>3. CASE StageUpload(c)
  <2>1. ThreadsOK(th') /\ staged' \subseteq Jobs
    BY <1>3, Moves DEF StageUpload, DurableTypes, At, JobPCs
  <2>. QED
    BY <1>3, <2>1, ThreadTyped DEF StageUpload, TypeOK, DurableTypes, ManagerTypes,
       ProcessTypes, HistoryTypes, BootHasRow, durable, manager, process, history
<1>4. CASE SetInput(c)
  <2>1. ThreadsOK(th') /\ row' \in [Jobs -> RowType]
    BY <1>4, Moves, Rests DEF SetInput, DurableTypes, RowType, At, JobPCs
  <2>. QED
    BY <1>4, <2>1, ThreadTyped DEF SetInput, TypeOK, DurableTypes, ManagerTypes,
       ProcessTypes, HistoryTypes, BootHasRow, durable, manager, process, history
<1>5. CASE SaveQueued(c)
  <2>1. ThreadsOK(th') /\ row' \in [Jobs -> RowType] /\ revived' \subseteq Jobs
    BY <1>5, Rests, RowUpdates DEF SaveQueued, At, JobPCs
  <2>. QED
    BY <1>5, <2>1, ThreadTyped DEF SaveQueued, TypeOK, DurableTypes, ManagerTypes,
       ProcessTypes, HistoryTypes, BootHasRow, durable, manager, process, history
<1>6. CASE LibrarySaves(c)
  <2>1. ThreadsOK(th') /\ row' \in [Jobs -> RowType] /\ revived' \subseteq Jobs
    BY <1>6, Moves, RowUpdates DEF LibrarySaves, At, JobPCs
  <2>. QED
    BY <1>6, <2>1, ThreadTyped DEF LibrarySaves, TypeOK, DurableTypes, ManagerTypes,
       ProcessTypes, HistoryTypes, BootHasRow, durable, manager, process, history
<1>7. CASE LibrarySaveFails(c)
  <2>1. ThreadsOK(th') /\ live' \in [Jobs -> LiveType] /\ queue' \in Seq(Jobs)
    <3>1. ThreadsOK(th') /\ live' \in [Jobs -> LiveType]
      BY <1>7, Rests, LiveUpdates DEF LibrarySaveFails
    <3>2. ASSUME NEW i \in PlacesOf(th[c].job) PROVE RemoveAt(queue, i) \in Seq(Jobs)
      BY RemoveAtProperties DEF PlacesOf, ManagerTypes
    <3>3. queue' \in Seq(Jobs)
      BY <1>7, <3>2 DEF LibrarySaveFails, ManagerTypes
    <3>. QED
      BY <3>1, <3>3
  <2>2. revived' \subseteq Jobs
    <3>1. th[c].job \in Jobs
      BY <1>7, InHand DEF LibrarySaveFails, At, JobPCs
    <3>. QED
      BY <1>7, <3>1 DEF LibrarySaveFails, HistoryTypes
  <2>. QED
    BY <1>7, <2>1, <2>2, ThreadTyped DEF LibrarySaveFails, TypeOK, DurableTypes, ManagerTypes,
       ProcessTypes, HistoryTypes, BootHasRow, durable, manager, process, history
<1>8. CASE StorePaused(c)
  <2>1. ThreadsOK(th') /\ storedPause' \in BOOLEAN
    BY <1>8, Rests DEF StorePaused, At, JobPCs
  <2>. QED
    BY <1>8, <2>1, ThreadTyped DEF StorePaused, TypeOK, DurableTypes, ManagerTypes,
       ProcessTypes, HistoryTypes, BootHasRow, durable, manager, process, history
<1>9. CASE StoreOrder(c)
  <2>1. ThreadsOK(th') /\ row' \in [Jobs -> RowType]
    <3>1. ThreadsOK(th')
      BY <1>9, Rests DEF StoreOrder
    <3>2. ASSUME NEW j \in Jobs, j \in ToSet(th[c].ids)
          PROVE  th[c].seq + PlaceIn(th[c].ids, j) - 1 \in Nat
      BY <3>2, PlaceInSequence
    <3>3. ASSUME NEW j \in Jobs PROVE row'[j] \in RowType
      BY <1>9, <3>2 DEF StoreOrder, DurableTypes, RowType
    <3>4. row' \in [Jobs -> RowType]
      BY <1>9, <3>3 DEF StoreOrder
    <3>. QED
      BY <3>1, <3>4
  <2>. QED
    BY <1>9, <2>1, ThreadTyped DEF StoreOrder, TypeOK, DurableTypes, ManagerTypes,
       ProcessTypes, HistoryTypes, BootHasRow, durable, manager, process, history
<1>10. CASE FinishStep(c)
  <2>1. TInv'
    BY <1>10, FinishTypes DEF FinishStep
  <2>. QED
    BY <1>10, <2>1, ThreadTyped DEF FinishStep, TypeOK, DurableTypes, ManagerTypes,
       ProcessTypes, HistoryTypes, BootHasRow, durable, manager, process, history
<1>. QED
  BY <1>1, <1>2, <1>3, <1>4, <1>5, <1>6, <1>7, <1>8, <1>9, <1>10 DEF ClientStep

LEMMA CallTypes ==
  ASSUME TInv, NEW c \in Clients, ClientCall(c)
  PROVE  TInv'
<1>. USE InHand, Constants DEF TInv
<1>. c \in Threads
  BY DEF Threads
<1>1. ASSUME NEW j \in Jobs, NEW u \in Users, Begin(c, u, j) PROVE TInv'
  <2>1. ThreadsOK(th')
    BY <1>1, Takes, ThreadMoves DEF Begin, JobPCs
  <2>2. live' \in [Jobs -> LiveType] /\ origin' \in [Jobs -> Users \cup Files \cup {None}]
    BY <1>1, LiveUpdates DEF Begin, HistoryTypes
  <2>. QED
    BY <1>1, <2>1, <2>2, ThreadTyped DEF Begin, TypeOK, DurableTypes, ManagerTypes,
       ProcessTypes, HistoryTypes, BootHasRow, durable, manager, process, history
<1>2. CASE EnqueueUploaded(c)
  <2>1. th[c].job \in Jobs /\ seq \in Nat
    BY <1>2 DEF EnqueueUploaded, At, JobPCs, ManagerTypes
  <2>2. ThreadOK([th[c] EXCEPT !.pc = "setInput", !.st = "queued", !.seq = seq])
    BY <2>1 DEF ThreadOK, ThreadType, JobPCs
  <2>3. ThreadsOK(th')
    BY <1>2, <2>2, ThreadMoves, ThreadsWoken DEF EnqueueUploaded
  <2>4. [live[th[c].job] EXCEPT !.st = "queued", !.seq = seq, !.input = TRUE] \in LiveType
    BY <2>1 DEF ManagerTypes, LiveType
  <2>5. live' \in [Jobs -> LiveType] /\ queue' \in Seq(Jobs) /\ seq' \in Nat
    BY <1>2, <2>1, <2>4, AppendProperties DEF EnqueueUploaded, ManagerTypes
  <2>. QED
    BY <1>2, <2>3, <2>5, ThreadTyped DEF EnqueueUploaded, TypeOK, DurableTypes, ManagerTypes,
       ProcessTypes, HistoryTypes, BootHasRow, durable, manager, process, history
<1>3. CASE UploadFails(c)
  <2>1. ThreadsOK(th')
    BY <1>3, Moves DEF UploadFails, At, JobPCs
  <2>. QED
    BY <1>3, <2>1, ThreadTyped DEF UploadFails, TypeOK, DurableTypes, ManagerTypes,
       ProcessTypes, HistoryTypes, BootHasRow, durable, manager, process, history
<1>4. ASSUME NEW j \in Jobs, NEW f \in Files, EnqueueLibraryConvert(c, f, j) PROVE TInv'
  <2>1. seq \in Nat
    BY DEF ManagerTypes
  <2>2. ThreadOK([th[c] EXCEPT !.pc = "insert", !.job = j, !.st = "queued", !.seq = seq])
    BY <2>1, Takes DEF JobPCs
  <2>3. ThreadsOK(th')
    BY <1>4, <2>2, ThreadMoves, ThreadsWoken DEF EnqueueLibraryConvert
  <2>4. [live[j] EXCEPT !.st = "queued", !.seq = seq, !.input = TRUE] \in LiveType
    BY <2>1 DEF ManagerTypes, LiveType
  <2>5. live' \in [Jobs -> LiveType] /\ queue' \in Seq(Jobs) /\ seq' \in Nat
    BY <1>4, <2>1, <2>4, AppendProperties DEF EnqueueLibraryConvert, ManagerTypes
  <2>6. origin' \in [Jobs -> Users \cup Files \cup {None}]
    BY <1>4 DEF EnqueueLibraryConvert, HistoryTypes
  <2>. QED
    BY <1>4, <2>3, <2>5, <2>6, ThreadTyped DEF EnqueueLibraryConvert, TypeOK, DurableTypes, ManagerTypes,
       ProcessTypes, HistoryTypes, BootHasRow, durable, manager, process, history
<1>5. ASSUME NEW j \in Jobs, CancelQueued(c, j) PROVE TInv'
  <2>1. ThreadsOK(th')
    BY <1>5, Takes, ThreadMoves DEF CancelQueued, JobPCs
  <2>2. queue' \in Seq(Jobs)
    BY <1>5, RemoveAtProperties DEF CancelQueued, PlacesOf, ManagerTypes
  <2>. QED
    BY <1>5, <2>1, <2>2, ThreadTyped DEF CancelQueued, TypeOK, DurableTypes, ManagerTypes,
       ProcessTypes, HistoryTypes, BootHasRow, durable, manager, process, history
<1>6. ASSUME NEW j \in Jobs, CancelRunning(c, j) PROVE TInv'
  <2>1. [live[j] EXCEPT !.ctx = "cancelled"] \in LiveType
    BY DEF ManagerTypes, LiveType
  <2>2. live' \in [Jobs -> LiveType]
    BY <1>6, <2>1 DEF CancelRunning, ManagerTypes
  <2>. QED
    BY <1>6, <2>2 DEF CancelRunning, TypeOK, DurableTypes, ManagerTypes,
       ProcessTypes, HistoryTypes, BootHasRow, durable, manager, process, history
<1>7. ASSUME NEW flag \in BOOLEAN, SetPaused(c, flag) PROVE TInv'
  <2>1. ThreadOK([th[c] EXCEPT !.pc = IF flag THEN "storePause" ELSE "storeResume"])
    BY DEF ThreadOK, ThreadType, JobPCs
  <2>2. ThreadsOK(th')
    BY <1>7, <2>1, ThreadMoves, ThreadsWoken DEF SetPaused
  <2>. QED
    BY <1>7, <2>2, ThreadTyped DEF SetPaused, TypeOK, DurableTypes, ManagerTypes,
       ProcessTypes, HistoryTypes, BootHasRow, durable, manager, process, history
<1>8. ASSUME NEW ids \in IdLists, Reorder(c, ids) PROVE TInv'
  <2>1. PICK new \in Rearrangements(queue) :
          /\ queue' = new
          /\ live' = [j \in Jobs |->
               IF j \in ToSet(new) /\ Live(j)
               THEN [live[j] EXCEPT !.seq = seq + PlaceIn(new, j) - 1]
               ELSE live[j]]
          /\ th' = [th EXCEPT ![c] = [@ EXCEPT !.pc = "storeOrder", !.seq = seq, !.ids = new]]
    BY <1>8 DEF Reorder
  <2>2. new \in Seq(Jobs) /\ Len(queue) \in Nat /\ seq \in Nat
    BY RearrangementProperties, LenProperties DEF ManagerTypes
  <2>3. ThreadOK([th[c] EXCEPT !.pc = "storeOrder", !.seq = seq, !.ids = new])
    BY <2>2 DEF ThreadOK, ThreadType, JobPCs
  <2>4. ThreadsOK(th')
    BY <2>1, <2>3, ThreadMoves
  <2>5. ASSUME NEW j \in Jobs, j \in ToSet(new)
        PROVE  seq + PlaceIn(new, j) - 1 \in Nat
    BY <2>2, <2>5, PlaceInSequence
  <2>6. ASSUME NEW j \in Jobs PROVE live'[j] \in LiveType
    BY <2>1, <2>5, <2>6 DEF ManagerTypes, LiveType
  <2>7. live' \in [Jobs -> LiveType]
    BY <2>1, <2>6
  <2>8. queue' \in Seq(Jobs) /\ seq' \in Nat
    BY <1>8, <2>1, <2>2 DEF Reorder, AfterOrder
  <2>. QED
    BY <1>8, <2>4, <2>7, <2>8, ThreadTyped DEF Reorder, TypeOK, DurableTypes, ManagerTypes,
       ProcessTypes, HistoryTypes, BootHasRow, durable, manager, process, history
<1>9. ASSUME NEW scope, ClearFinished(c, scope) PROVE TInv'
  <2>1. NoRow \in RowType
    BY DEF NoRow, RowType
  <2>2. row' \in [Jobs -> RowType]
    BY <1>9, <2>1 DEF ClearFinished, DurableTypes
  <2>. QED
    BY <1>9, <2>2 DEF ClearFinished, TypeOK, DurableTypes, ManagerTypes,
       ProcessTypes, HistoryTypes, BootHasRow, durable, manager, process, history
<1>. QED
  BY <1>1, <1>2, <1>3, <1>4, <1>5, <1>6, <1>7, <1>8, <1>9 DEF ClientCall

LEMMA BootOffTyped ==
  /\ BootOff \in BootType /\ BootOff.pc = "off" /\ BootOff.todo = <<>>
  /\ [BootOff EXCEPT !.pc = "list"] \in BootType /\ [BootOff EXCEPT !.pc = "list"].pc = "list"
  /\ [BootOff EXCEPT !.pc = "done"] \in BootType /\ [BootOff EXCEPT !.pc = "done"].pc = "done"
<1>1. <<>> \in Seq([job : Jobs, seq : Nat, input : BOOLEAN])
  BY EmptySeq
<1>2. BootOff \in BootType
  BY <1>1 DEF BootOff, BootType
<1>. QED
  BY <1>2 DEF BootOff, BootType

LEMMA RecoverTypes ==
  ASSUME TInv, RecoverStep
  PROVE  TInv'
<1>. USE Constants DEF TInv
<1>. DurableTypes /\ ManagerTypes /\ ProcessTypes /\ HistoryTypes
  BY DEF TypeOK
<1>. DEFINE R == [job : Jobs, seq : Nat, input : BOOLEAN]
<1>0. /\ boot.todo \in Seq(R) /\ boot.seq \in Nat
      /\ boot.todo # <<>> => Head(boot.todo) \in R /\ Tail(boot.todo) \in Seq(R)
  BY HeadTailProperties DEF ProcessTypes, BootType
<1>01. boot.todo # <<>> => NextRecovered \in BootType /\ NextRecovered.pc = "each"
  BY <1>0 DEF ProcessTypes, BootType, NextRecovered
<1>1. CASE RecoverLists
  <2>1. PICK s \in SetToSeqs({j \in Jobs : Unfinished(j)}) :
          boot' = [pc |-> "each", seq |-> 0, todo |->
            [i \in DOMAIN s |-> [job |-> s[i], seq |-> row[s[i]].seq, input |-> row[s[i]].input]]]
    BY <1>1 DEF RecoverLists
  <2>2. Cardinality({j \in Jobs : Unfinished(j)}) \in Nat
    BY ImportQueueAssumption, FS_Subset, FS_CardinalityType
  <2>3. PICK n \in Nat : s \in [1..n -> Jobs]
    BY <2>1, <2>2 DEF SetToSeqs
  <2>4. \A i \in 1..n : [job |-> s[i], seq |-> row[s[i]].seq, input |-> row[s[i]].input] \in R
    BY <2>3 DEF DurableTypes, RowType
  <2>5. [i \in DOMAIN s |-> [job |-> s[i], seq |-> row[s[i]].seq, input |-> row[s[i]].input]] \in Seq(R)
    BY <2>3, <2>4
  <2>6. boot' \in BootType
    BY <2>1, <2>5 DEF BootType
  <2>. QED
    BY <1>1, <2>1, <2>6 DEF RecoverLists, TypeOK, DurableTypes, ManagerTypes,
       ProcessTypes, HistoryTypes, BootHasRow, durable, manager, process, history
<1>2. CASE RecoverLooks
  <2>1. boot' \in BootType /\ BootHasRow'
    BY <1>2, <1>0 DEF RecoverLooks, RecoverGoto, ProcessTypes, BootType, BootHasRow
  <2>. QED
    BY <1>2, <2>1 DEF RecoverLooks, TypeOK, DurableTypes, ManagerTypes,
       ProcessTypes, HistoryTypes, BootHasRow, durable, manager, process, history
<1>3. CASE RecoverSkips
  BY <1>01, <1>3 DEF RecoverSkips, TypeOK, DurableTypes, ManagerTypes,
       ProcessTypes, HistoryTypes, BootHasRow, durable, manager, process, history
<1>4. CASE RecoverQueues
  <2>1. Head(boot.todo).job \in Jobs /\ seq \in Nat
    BY <1>0, <1>4 DEF RecoverQueues, BootHasRow, ManagerTypes
  <2>2. /\ live' \in [Jobs -> LiveType] /\ queue' \in Seq(Jobs) /\ seq' \in Nat
        /\ revived' \subseteq Jobs
    BY <1>4, <2>1, AppendProperties DEF RecoverQueues, ManagerTypes, HistoryTypes, LiveType
  <2>3. boot' \in BootType /\ BootHasRow'
    BY <1>4, <2>1 DEF RecoverQueues, ProcessTypes, BootType, BootHasRow
  <2>. QED
    BY <1>4, <2>2, <2>3 DEF RecoverQueues, TypeOK, DurableTypes, ManagerTypes,
       ProcessTypes, HistoryTypes, BootHasRow, durable, manager, process, history
<1>5. CASE RecoverSaves
  <2>1. Head(boot.todo).job \in Jobs
    BY <1>0, <1>5 DEF RecoverSaves, BootHasRow
  <2>2. row' \in [Jobs -> RowType] /\ revived' \subseteq Jobs
    BY <1>0, <1>5, <2>1, RowUpdates DEF RecoverSaves
  <2>. QED
    BY <1>01, <1>5, <2>2 DEF RecoverSaves, TypeOK, DurableTypes, ManagerTypes,
       ProcessTypes, HistoryTypes, BootHasRow, durable, manager, process, history
<1>6. CASE RecoverFails
  <2>1. Head(boot.todo).seq \in Nat
    BY <1>0, <1>6 DEF RecoverFails, BootHasRow
  <2>2. row' \in [Jobs -> RowType]
    BY <1>6, <2>1, RowUpdates DEF RecoverFails
  <2>. QED
    BY <1>01, <1>6, <2>2 DEF RecoverFails, TypeOK, DurableTypes, ManagerTypes,
       ProcessTypes, HistoryTypes, BootHasRow, durable, manager, process, history
<1>7. CASE RecoverEnds
  <2>1. boot' \in BootType /\ BootHasRow'
    BY <1>7, BootOffTyped DEF RecoverEnds, BootHasRow
  <2>. QED
    BY <1>7, <2>1 DEF RecoverEnds, TypeOK, DurableTypes, ManagerTypes,
       ProcessTypes, HistoryTypes, BootHasRow, durable, manager, process, history
<1>. QED
  BY <1>1, <1>2, <1>3, <1>4, <1>5, <1>6, <1>7 DEF RecoverStep

LEMMA ProcessTypesKept ==
  ASSUME TInv, Start \/ Stop \/ Drain \/ Exit
  PROVE  TInv'
<1>. USE DEF TInv
<1>1. CASE Start
  <2>1. seq' \in Nat
    BY <1>1 DEF Start, MaxImportQueueSeq, Seed, TypeOK, DurableTypes, RowType
  <2>2. boot' \in BootType /\ BootHasRow'
    BY <1>1, BootOffTyped DEF Start, BootHasRow
  <2>. QED
    BY <1>1, <2>1, <2>2 DEF Start, TypeOK, DurableTypes, ManagerTypes,
       ProcessTypes, HistoryTypes, BootHasRow, durable, manager, process, history
<1>2. CASE Stop
  BY <1>2 DEF Stop, TypeOK, DurableTypes, ManagerTypes,
       ProcessTypes, HistoryTypes, BootHasRow, durable, manager, process, history
<1>3. CASE Drain
  <2>1. ThreadsOK(th')
    BY <1>3, ThreadsWoken DEF Drain
  <2>. QED
    BY <1>3, <2>1, ThreadTyped DEF Drain, TypeOK, DurableTypes, ManagerTypes,
       ProcessTypes, HistoryTypes, BootHasRow, durable, manager, process, history
<1>4. CASE Exit
  <2>1. ThreadsOK(th')
    BY <1>4, IdleOK DEF Exit, ThreadsOK
  <2>2. boot' \in BootType /\ BootHasRow'
    BY <1>4, BootOffTyped DEF Exit, BootHasRow
  <2>3. live' \in [Jobs -> LiveType] /\ queue' \in Seq(Jobs)
    BY <1>4, Constants DEF Exit, NotLive, LiveType
  <2>. QED
    BY <1>4, <2>1, <2>2, <2>3, ThreadTyped DEF Exit, TypeOK, DurableTypes, ManagerTypes,
       ProcessTypes, HistoryTypes, BootHasRow, durable, manager, process, history
<1>. QED
  BY <1>1, <1>2, <1>3, <1>4

LEMMA InitTypes == Init => TInv
<1>. SUFFICES ASSUME Init PROVE TInv
  OBVIOUS
<1>1. ThreadsOK(th)
  BY IdleOK DEF Init, ThreadsOK
<1>2. boot \in BootType /\ BootHasRow
  BY BootOffTyped DEF Init, BootHasRow
<1>3. row \in [Jobs -> RowType] /\ live \in [Jobs -> LiveType]
  BY Constants DEF Init, NoRow, NotLive, RowType, LiveType
<1>4. DurableTypes /\ HistoryTypes
  BY <1>3 DEF Init, DurableTypes, HistoryTypes
<1>5. ManagerTypes /\ ProcessTypes
  BY <1>2, <1>3, EmptySeq DEF Init, ManagerTypes, ProcessTypes
<1>. QED
  BY <1>1, <1>2, <1>4, <1>5, ThreadTyped DEF TInv, TypeOK

LEMMA StepTypes == ASSUME TInv, [Next]_vars PROVE TInv'
<1>1. CASE UNCHANGED vars
  BY <1>1 DEF vars, TInv, TypeOK, DurableTypes, ManagerTypes,
       ProcessTypes, HistoryTypes, BootHasRow, durable, manager, process, history
<1>2. CASE Next
  BY <1>2, WorkerTypes, ClientTypes, CallTypes, RecoverTypes, ProcessTypesKept DEF Next
<1>. QED
  BY <1>1, <1>2

LEMMA TypesInvariant == Spec => []TInv
BY InitTypes, StepTypes, PTL DEF Spec

\* Every field and row holds a value of its type in every reachable state,
\* through any interleaving of requests, workers, recoveries and crashes.
THEOREM TypeCorrect == Spec => []TypeOK
<1>1. TInv => TypeOK
  BY DEF TInv
<1>. QED
  BY <1>1, TypesInvariant, PTL

-----------------------------------------------------------------------------
(***************************************************************************)
(* The queue's counter stays ahead of every number stored or about to be:  *)
(* CounterIsAhead.  By itself it is not inductive.  A late save writes a   *)
(* number its goroutine copied long before, and recovery one it listed, so *)
(* CInv says the same of every copy a goroutine, the live map or recovery  *)
(* still holds, and that a process that is down holds none.                *)
(***************************************************************************)

\* Where a goroutine has a copy of a number it is going to store.
SavingPCs == {"setInput", "saveQueued", "insert", "announce", "tick", "persist", "requeue"}

Counted(r, n) ==
  /\ r.pc \in SavingPCs => r.seq < n
  /\ r.pc = "storeOrder" => r.seq + Len(r.ids) <= n

RowsCounted == \A j \in Jobs : row[j].st # "none" => row[j].seq < seq
LiveCounted == \A j \in Jobs : live[j].seq < seq
ThreadsCounted == \A t \in Threads : Counted(th[t], seq)
BootCounted ==
  /\ boot.pc = "save" => boot.seq < seq
  /\ \A i \in DOMAIN boot.todo : boot.todo[i].seq < seq

\* A process that is down runs nothing.
DownIsIdle ==
  ~up => /\ boot = BootOff /\ \A t \in Threads : th[t] = Idle
         /\ \A j \in Jobs : live[j] = NotLive

CInv ==
  /\ DownIsIdle
  /\ up => seq > 0 /\ RowsCounted /\ LiveCounted /\ ThreadsCounted /\ BootCounted

-----------------------------------------------------------------------------
(* How the parts are kept.                                                 *)

LEMMA RunningIsUp ==
  ASSUME DownIsIdle, boot.pc # "off" \/ \E t \in Threads : th[t].pc # "idle"
  PROVE  up
BY BootOffTyped DEF DownIsIdle, Idle

LEMMA CountedMoves ==
  ASSUME ThreadsOK(th), NEW n \in Nat, \A u \in Threads : Counted(th[u], n),
         NEW t \in Threads, NEW pc, pc \notin SavingPCs \cup {"storeOrder"}, NEW st
  PROVE  /\ Goto(t, pc) => \A u \in Threads : Counted(th'[u], n)
         /\ GotoEnding(t, pc, st) => \A u \in Threads : Counted(th'[u], n)
<1>1. ThreadOK(th[t]) /\ th[t] \in ThreadType
  BY DEF ThreadsOK, ThreadOK
<1>2. /\ Counted([th[t] EXCEPT !.pc = pc], n)
      /\ Counted([th[t] EXCEPT !.pc = pc, !.st = st], n)
  BY <1>1 DEF Counted, ThreadType
<1>. QED
  BY <1>2 DEF Goto, GotoEnding, ThreadsOK

LEMMA CountedRests ==
  ASSUME ThreadsOK(th), NEW n, \A u \in Threads : Counted(th[u], n), NEW t \in Threads, Rest(t)
  PROVE  \A u \in Threads : Counted(th'[u], n)
<1>1. Counted(Idle, n)
  BY DEF Counted, Idle, SavingPCs
<1>. QED
  BY <1>1 DEF Rest, ThreadsOK

LEMMA CountedStays ==
  ASSUME ThreadsOK(th), NEW n \in Nat, \A u \in Threads : Counted(th[u], n),
         NEW t \in Threads, th[t].pc \in SavingPCs, NEW pc, pc # "storeOrder", Goto(t, pc)
  PROVE  \A u \in Threads : Counted(th'[u], n)
<1>1. ThreadOK(th[t]) /\ th[t] \in ThreadType
  BY DEF ThreadsOK, ThreadOK
<1>2. Counted([th[t] EXCEPT !.pc = pc], n)
  BY <1>1 DEF Counted, ThreadType
<1>. QED
  BY <1>2 DEF Goto, ThreadsOK

LEMMA CountedSaves ==
  ASSUME ThreadsOK(th), NEW n \in Nat, \A u \in Threads : Counted(th[u], n),
         NEW t \in Threads, NEW pc, pc # "storeOrder", NEW st, NEW s \in Nat, s < n,
         GotoSaving(t, pc, st, s)
  PROVE  \A u \in Threads : Counted(th'[u], n)
<1>1. ThreadOK(th[t]) /\ th[t] \in ThreadType
  BY DEF ThreadsOK, ThreadOK
<1>2. Counted([th[t] EXCEPT !.pc = pc, !.st = st, !.seq = s], n)
  BY <1>1 DEF Counted, ThreadType
<1>. QED
  BY <1>2 DEF GotoSaving, ThreadsOK

LEMMA CountedWoken ==
  ASSUME NEW f, ThreadsOK(f), NEW n, \A u \in Threads : Counted(f[u], n), NEW woken
  PROVE  \A u \in Threads : Counted(WithWoken(f, woken)[u], n)
BY DEF Counted, Idle, WithWoken, SavingPCs

\* The counter only grows: what is below it stays below it.
LEMMA CountedLonger ==
  ASSUME TInv, ThreadsCounted, NEW n \in Nat, seq <= n
  PROVE  \A u \in Threads : Counted(th[u], n)
<1>1. ASSUME NEW u \in Threads PROVE Counted(th[u], n)
  <2>1. th[u].seq \in Nat /\ Len(th[u].ids) \in Nat /\ Counted(th[u], seq) /\ seq \in Nat
    BY InHand, LenProperties DEF ThreadsCounted, ManagerTypes
  <2>. QED
    BY <2>1 DEF Counted
<1>. QED
  BY <1>1

LEMMA StoredLonger ==
  ASSUME TInv, RowsCounted, BootCounted, seq' \in Nat, seq <= seq', UNCHANGED <<row, boot>>
  PROVE  RowsCounted' /\ BootCounted'
<1>1. seq \in Nat /\ \A j \in Jobs : row[j].seq \in Nat
  BY DEF TInv, TypeOK, DurableTypes, ManagerTypes, RowType
<1>2. boot.seq \in Nat /\ \A i \in DOMAIN boot.todo : boot.todo[i].seq \in Nat
  <2>1. boot.seq \in Nat /\ boot.todo \in Seq([job : Jobs, seq : Nat, input : BOOLEAN])
    BY DEF TInv, TypeOK, ProcessTypes, BootType
  <2>2. \A i \in DOMAIN boot.todo : boot.todo[i] \in [job : Jobs, seq : Nat, input : BOOLEAN]
    BY <2>1, LenProperties, ElementOfSeq
  <2>. QED
    BY <2>1, <2>2
<1>. QED
  BY <1>1, <1>2 DEF RowsCounted, BootCounted

LEMMA RowsCountedSave ==
  ASSUME TInv, RowsCounted, NEW j, NEW st, NEW s \in Nat, s < seq, row' = Upserted(j, st, s)
  PROVE  UNCHANGED seq => RowsCounted'
BY DEF TInv, TypeOK, DurableTypes, RowType, RowsCounted, Upserted

LEMMA LiveCountedUpdates ==
  ASSUME TInv, LiveCounted, NEW j, NEW st, Live(j), UNCHANGED seq,
         live' = AtStage(j, st)
  PROVE  LiveCounted'
BY DEF TInv, TypeOK, ManagerTypes, LiveType, LiveCounted, Live, AtStage

LEMMA LiveCountedDrop ==
  ASSUME TInv, LiveCounted, seq > 0, NEW j, UNCHANGED seq, live' = Dropped(j)
  PROVE  LiveCounted'
BY DEF TInv, TypeOK, ManagerTypes, LiveType, LiveCounted, Live, Dropped, NotLive

LEMMA FinishCounts ==
  ASSUME TInv, CInv, NEW t \in Threads, FinishStep(t)
  PROVE  CInv'
<1>. t \in Threads /\ ThreadsOK(th) /\ seq \in Nat
  BY DEF Threads, TInv, TypeOK, ManagerTypes
<1>1. CASE CleanInput(t)
  <2>1. /\ up /\ seq > 0 /\ RowsCounted /\ LiveCounted /\ ThreadsCounted /\ BootCounted
        /\ UNCHANGED <<up, boot, seq>>
    BY <1>1, RunningIsUp DEF CleanInput, At, CInv, process, manager
  <2>2. ThreadsCounted'
    BY <1>1, <2>1, CountedMoves DEF CleanInput, ThreadsCounted, SavingPCs
  <2>3. RowsCounted' /\ LiveCounted'
    BY <1>1, <2>1 DEF CleanInput, RowsCounted, LiveCounted, Live, durable, manager
  <2>. QED
    BY <2>1, <2>2, <2>3 DEF CInv, DownIsIdle, BootCounted
<1>2. CASE FinishMarks(t)
  <2>1. /\ up /\ seq > 0 /\ RowsCounted /\ LiveCounted /\ ThreadsCounted /\ BootCounted
        /\ UNCHANGED <<up, boot, seq>> /\ th[t].job \in Jobs
    BY <1>2, RunningIsUp, InHand DEF FinishMarks, At, CInv, process, JobPCs
  <2>2. RowsCounted'
    BY <1>2, <2>1 DEF FinishMarks, RowsCounted, durable
  <2>3. CASE Live(th[t].job)
    <3>1. live[th[t].job].seq \in Nat /\ live[th[t].job].seq < seq
      BY <2>1, <2>3 DEF LiveCounted, TInv, TypeOK, ManagerTypes, LiveType
    <3>2. GotoSaving(t, "persist", th[t].st, live[th[t].job].seq)
      BY <1>2, <2>3 DEF FinishMarks
    <3>3. ThreadsCounted'
      BY <2>1, <3>1, <3>2, CountedSaves DEF ThreadsCounted
    <3>4. LiveCounted'
      BY <1>2, <2>1, <2>3, LiveCountedUpdates DEF FinishMarks
    <3>. QED
      BY <2>1, <2>2, <3>3, <3>4 DEF CInv, DownIsIdle, BootCounted
  <2>4. CASE ~Live(th[t].job)
    <3>1. ThreadsCounted' /\ LiveCounted'
      BY <1>2, <2>1, <2>4, CountedMoves DEF FinishMarks, ThreadsCounted, SavingPCs, LiveCounted, Live
    <3>. QED
      BY <2>1, <2>2, <3>1 DEF CInv, DownIsIdle, BootCounted
  <2>. QED
    BY <2>3, <2>4
<1>3. CASE FinishSaves(t)
  <2>1. /\ up /\ seq > 0 /\ RowsCounted /\ LiveCounted /\ ThreadsCounted /\ BootCounted
        /\ UNCHANGED <<up, boot, seq>>
    BY <1>3, RunningIsUp DEF FinishSaves, At, CInv, process, manager
  <2>2. ThreadsCounted'
    BY <1>3, <2>1, CountedMoves DEF FinishSaves, ThreadsCounted, SavingPCs
  <2>3. RowsCounted'
    <3>1. th[t].seq \in Nat /\ th[t].seq < seq
      BY <1>3, <2>1, InHand DEF FinishSaves, At, ThreadsCounted, Counted, SavingPCs
    <3>2. row' = Upserted(th[t].job, th[t].st, th[t].seq)
      BY <1>3 DEF FinishSaves, SaveUnfinished
    <3>. QED
      BY <2>1, <3>1, <3>2, RowsCountedSave
  <2>4. LiveCounted'
    BY <1>3, <2>1 DEF FinishSaves, LiveCounted, Live, manager
  <2>. QED
    BY <2>1, <2>2, <2>3, <2>4 DEF CInv, DownIsIdle, BootCounted
<1>4. CASE FinishDrops(t)
  <2>1. /\ up /\ seq > 0 /\ RowsCounted /\ LiveCounted /\ ThreadsCounted /\ BootCounted
        /\ UNCHANGED <<up, boot, seq>>
    BY <1>4, RunningIsUp DEF FinishDrops, At, CInv, process, manager
  <2>2. ThreadsCounted'
    BY <1>4, <2>1, CountedMoves DEF FinishDrops, ThreadsCounted, SavingPCs
  <2>3. RowsCounted'
    BY <1>4, <2>1 DEF FinishDrops, RowsCounted, durable
  <2>4. LiveCounted'
    BY <1>4, <2>1, LiveCountedDrop DEF FinishDrops, LiveCounted
  <2>. QED
    BY <2>1, <2>2, <2>3, <2>4 DEF CInv, DownIsIdle, BootCounted
<1>5. CASE Sweep(t)
  <2>1. /\ up /\ seq > 0 /\ RowsCounted /\ LiveCounted /\ ThreadsCounted /\ BootCounted
        /\ UNCHANGED <<up, boot, seq>>
    BY <1>5, RunningIsUp DEF Sweep, At, CInv, process, manager
  <2>2. ThreadsCounted'
    BY <1>5, <2>1, CountedRests DEF Sweep, ThreadsCounted, SavingPCs
  <2>3. RowsCounted' /\ LiveCounted'
    BY <1>5, <2>1 DEF Sweep, RowsCounted, LiveCounted, Live, durable, manager
  <2>. QED
    BY <2>1, <2>2, <2>3 DEF CInv, DownIsIdle, BootCounted
<1>. QED
  BY <1>1, <1>2, <1>3, <1>4, <1>5 DEF FinishStep

LEMMA WorkerCounts ==
  ASSUME TInv, CInv, NEW w \in Workers, WorkerStep(w)
  PROVE  CInv'
<1>. w \in Threads /\ ThreadsOK(th) /\ seq \in Nat
  BY DEF Threads, TInv, TypeOK, ManagerTypes
<1>1. CASE Pick(w)
  <2>1. /\ up /\ seq > 0 /\ RowsCounted /\ LiveCounted /\ ThreadsCounted /\ BootCounted
        /\ UNCHANGED <<up, boot, seq>>
    BY <1>1, RunningIsUp DEF Pick, At, CInv, process, manager
  <2>2. RowsCounted'
    BY <1>1, <2>1 DEF Pick, RowsCounted, durable
  <2>3. Head(queue) \in Jobs
    BY <1>1, HeadTailProperties DEF Pick, TInv, TypeOK, ManagerTypes
  <2>4. CASE Live(Head(queue))
    <3>1. live[Head(queue)].seq \in Nat /\ live[Head(queue)].seq < seq
      BY <2>1, <2>3, <2>4, LiveUpdates, Constants DEF LiveCounted, TInv, TypeOK
    <3>2. Counted([th[w] EXCEPT !.pc = "announce", !.job = Head(queue), !.st = "reading",
                                !.seq = live[Head(queue)].seq], seq)
      BY <3>1, InHand DEF Counted, ThreadOK, ThreadType
    <3>3. ThreadsCounted'
      BY <1>1, <2>1, <2>4, <3>2 DEF Pick, ThreadsCounted, ThreadsOK
    <3>4. LiveCounted'
      BY <1>1, <2>1, <2>3, <2>4, <3>1 DEF Pick, LiveCounted, Live, TInv, TypeOK, ManagerTypes, LiveType
    <3>. QED
      BY <2>1, <2>2, <3>3, <3>4 DEF CInv, DownIsIdle, BootCounted
  <2>5. CASE ~Live(Head(queue))
    BY <1>1, <2>1, <2>2, <2>5 DEF Pick, CInv, DownIsIdle, BootCounted, ThreadsCounted, LiveCounted, Live
  <2>. QED
    BY <2>4, <2>5
<1>2. CASE WorkerWaits(w)
  <2>1. /\ up /\ seq > 0 /\ RowsCounted /\ LiveCounted /\ ThreadsCounted /\ BootCounted
        /\ UNCHANGED <<up, boot, seq>>
    BY <1>2, RunningIsUp DEF WorkerWaits, At, CInv, process, manager
  <2>2. ThreadsCounted'
    BY <1>2, <2>1, CountedMoves DEF WorkerWaits, ThreadsCounted, SavingPCs
  <2>3. RowsCounted' /\ LiveCounted'
    BY <1>2, <2>1 DEF WorkerWaits, RowsCounted, LiveCounted, Live, durable, manager
  <2>. QED
    BY <2>1, <2>2, <2>3 DEF CInv, DownIsIdle, BootCounted
<1>3. CASE WorkerReturns(w)
  <2>1. /\ up /\ seq > 0 /\ RowsCounted /\ LiveCounted /\ ThreadsCounted /\ BootCounted
        /\ UNCHANGED <<up, boot, seq>>
    BY <1>3, RunningIsUp DEF WorkerReturns, At, CInv, process, manager
  <2>2. ThreadsCounted'
    BY <1>3, <2>1, CountedMoves DEF WorkerReturns, ThreadsCounted, SavingPCs
  <2>3. RowsCounted' /\ LiveCounted'
    BY <1>3, <2>1 DEF WorkerReturns, RowsCounted, LiveCounted, Live, durable, manager
  <2>. QED
    BY <2>1, <2>2, <2>3 DEF CInv, DownIsIdle, BootCounted
<1>4. CASE SaveStage(w)
  <2>1. /\ up /\ seq > 0 /\ RowsCounted /\ LiveCounted /\ ThreadsCounted /\ BootCounted
        /\ UNCHANGED <<up, boot, seq>>
    BY <1>4, RunningIsUp DEF SaveStage, At, CInv, process, manager
  <2>2. ThreadsCounted'
    BY <1>4, <2>1, CountedMoves DEF SaveStage, ThreadsCounted, SavingPCs
  <2>3. RowsCounted'
    <3>1. th[w].seq \in Nat /\ th[w].seq < seq
      BY <1>4, <2>1, InHand DEF SaveStage, At, ThreadsCounted, Counted, SavingPCs
    <3>2. row' = Upserted(th[w].job, th[w].st, th[w].seq)
      BY <1>4 DEF SaveStage, SaveUnfinished
    <3>. QED
      BY <2>1, <3>1, <3>2, RowsCountedSave
  <2>4. LiveCounted'
    BY <1>4, <2>1 DEF SaveStage, LiveCounted, Live, manager
  <2>. QED
    BY <2>1, <2>2, <2>3, <2>4 DEF CInv, DownIsIdle, BootCounted
<1>5. CASE Tick(w)
  <2>1. /\ up /\ seq > 0 /\ RowsCounted /\ LiveCounted /\ ThreadsCounted /\ BootCounted
        /\ UNCHANGED <<up, boot, seq>> /\ th[w].job \in Jobs
    BY <1>5, RunningIsUp, InHand DEF Tick, At, CInv, process, JobPCs
  <2>2. RowsCounted'
    BY <1>5, <2>1 DEF Tick, RowsCounted, durable
  <2>3. CASE Live(th[w].job)
    <3>1. live[th[w].job].seq \in Nat /\ live[th[w].job].seq < seq
      BY <2>1, <2>3 DEF LiveCounted, TInv, TypeOK, ManagerTypes, LiveType
    <3>2. GotoSaving(w, "tick", "packing", live[th[w].job].seq)
      BY <1>5, <2>3 DEF Tick
    <3>3. ThreadsCounted'
      BY <2>1, <3>1, <3>2, CountedSaves DEF ThreadsCounted
    <3>4. LiveCounted'
      BY <1>5, <2>1, <2>3, LiveCountedUpdates DEF Tick
    <3>. QED
      BY <2>1, <2>2, <3>3, <3>4 DEF CInv, DownIsIdle, BootCounted
  <2>4. CASE ~Live(th[w].job)
    <3>1. ThreadsCounted' /\ LiveCounted'
      BY <1>5, <2>1, <2>4, CountedMoves DEF Tick, ThreadsCounted, SavingPCs, LiveCounted, Live
    <3>. QED
      BY <2>1, <2>2, <3>1 DEF CInv, DownIsIdle, BootCounted
  <2>. QED
    BY <2>3, <2>4
<1>6. CASE PipelineFails(w)
  <2>1. /\ up /\ seq > 0 /\ RowsCounted /\ LiveCounted /\ ThreadsCounted /\ BootCounted
        /\ UNCHANGED <<up, boot, seq>>
    BY <1>6, RunningIsUp DEF PipelineFails, At, CInv, process, manager
  <2>2. ThreadsCounted'
    BY <1>6, <2>1, CountedMoves DEF PipelineFails, ThreadsCounted, SavingPCs, EndsWith
  <2>3. RowsCounted' /\ LiveCounted'
    BY <1>6, <2>1 DEF PipelineFails, RowsCounted, LiveCounted, Live, durable, manager
  <2>. QED
    BY <2>1, <2>2, <2>3 DEF CInv, DownIsIdle, BootCounted
<1>7. CASE PipelineCancelled(w)
  <2>1. /\ up /\ seq > 0 /\ RowsCounted /\ LiveCounted /\ ThreadsCounted /\ BootCounted
        /\ UNCHANGED <<up, boot, seq>>
    BY <1>7, RunningIsUp DEF PipelineCancelled, At, CInv, process, manager
  <2>2. ThreadsCounted'
    BY <1>7, <2>1, CountedMoves DEF PipelineCancelled, ThreadsCounted, SavingPCs
  <2>3. RowsCounted' /\ LiveCounted'
    BY <1>7, <2>1 DEF PipelineCancelled, RowsCounted, LiveCounted, Live, durable, manager
  <2>. QED
    BY <2>1, <2>2, <2>3 DEF CInv, DownIsIdle, BootCounted
<1>8. CASE PipelineBuilds(w)
  <2>1. /\ up /\ seq > 0 /\ RowsCounted /\ LiveCounted /\ ThreadsCounted /\ BootCounted
        /\ UNCHANGED <<up, boot, seq>>
    BY <1>8, RunningIsUp DEF PipelineBuilds, At, CInv, process, manager
  <2>2. ThreadsCounted'
    BY <1>8, <2>1, CountedMoves DEF PipelineBuilds, ThreadsCounted, SavingPCs
  <2>3. RowsCounted' /\ LiveCounted'
    BY <1>8, <2>1 DEF PipelineBuilds, RowsCounted, LiveCounted, Live, durable, manager
  <2>. QED
    BY <2>1, <2>2, <2>3 DEF CInv, DownIsIdle, BootCounted
<1>9. CASE CancelEnds(w)
  <2>1. /\ up /\ seq > 0 /\ RowsCounted /\ LiveCounted /\ ThreadsCounted /\ BootCounted
        /\ UNCHANGED <<up, boot, seq>>
    BY <1>9, RunningIsUp DEF CancelEnds, At, CInv, process, manager
  <2>2. ThreadsCounted'
    BY <1>9, <2>1, CountedMoves DEF CancelEnds, ThreadsCounted, SavingPCs, EndsWith
  <2>3. RowsCounted' /\ LiveCounted'
    BY <1>9, <2>1 DEF CancelEnds, RowsCounted, LiveCounted, Live, durable, manager
  <2>. QED
    BY <2>1, <2>2, <2>3 DEF CInv, DownIsIdle, BootCounted
<1>10. CASE RequeueForRestart(w)
  <2>1. /\ up /\ seq > 0 /\ RowsCounted /\ LiveCounted /\ ThreadsCounted /\ BootCounted
        /\ UNCHANGED <<up, boot, seq>> /\ th[w].job \in Jobs
    BY <1>10, RunningIsUp, InHand DEF RequeueForRestart, At, CInv, process, JobPCs
  <2>2. RowsCounted'
    BY <1>10, <2>1 DEF RequeueForRestart, RowsCounted, durable
  <2>3. CASE Live(th[w].job)
    <3>1. live[th[w].job].seq \in Nat /\ live[th[w].job].seq < seq
      BY <2>1, <2>3 DEF LiveCounted, TInv, TypeOK, ManagerTypes, LiveType
    <3>2. GotoSaving(w, "requeue", "queued", live[th[w].job].seq)
      BY <1>10, <2>3 DEF RequeueForRestart
    <3>3. ThreadsCounted'
      BY <2>1, <3>1, <3>2, CountedSaves DEF ThreadsCounted
    <3>4. LiveCounted'
      BY <1>10, <2>1, <2>3, LiveCountedDrop DEF RequeueForRestart
    <3>. QED
      BY <2>1, <2>2, <3>3, <3>4 DEF CInv, DownIsIdle, BootCounted
  <2>4. CASE ~Live(th[w].job)
    <3>1. ThreadsCounted' /\ LiveCounted'
      BY <1>10, <2>1, <2>4, CountedRests DEF RequeueForRestart, ThreadsCounted, SavingPCs, LiveCounted, Live
    <3>. QED
      BY <2>1, <2>2, <3>1 DEF CInv, DownIsIdle, BootCounted
  <2>. QED
    BY <2>3, <2>4
<1>11. CASE SaveRequeued(w)
  <2>1. /\ up /\ seq > 0 /\ RowsCounted /\ LiveCounted /\ ThreadsCounted /\ BootCounted
        /\ UNCHANGED <<up, boot, seq>>
    BY <1>11, RunningIsUp DEF SaveRequeued, At, CInv, process, manager
  <2>2. ThreadsCounted'
    BY <1>11, <2>1, CountedRests DEF SaveRequeued, ThreadsCounted, SavingPCs
  <2>3. RowsCounted'
    <3>1. th[w].seq \in Nat /\ th[w].seq < seq
      BY <1>11, <2>1, InHand DEF SaveRequeued, At, ThreadsCounted, Counted, SavingPCs
    <3>2. row' = Upserted(th[w].job, "queued", th[w].seq)
      BY <1>11 DEF SaveRequeued, SaveUnfinished
    <3>. QED
      BY <2>1, <3>1, <3>2, RowsCountedSave
  <2>4. LiveCounted'
    BY <1>11, <2>1 DEF SaveRequeued, LiveCounted, Live, manager
  <2>. QED
    BY <2>1, <2>2, <2>3, <2>4 DEF CInv, DownIsIdle, BootCounted
<1>12. CASE LookUp(w)
  <2>1. /\ up /\ seq > 0 /\ RowsCounted /\ LiveCounted /\ ThreadsCounted /\ BootCounted
        /\ UNCHANGED <<up, boot, seq>>
    BY <1>12, RunningIsUp DEF LookUp, At, CInv, process, manager
  <2>2. ThreadsCounted'
    BY <1>12, <2>1, CountedMoves DEF LookUp, ThreadsCounted, SavingPCs
  <2>3. RowsCounted' /\ LiveCounted'
    BY <1>12, <2>1 DEF LookUp, RowsCounted, LiveCounted, Live, durable, manager
  <2>. QED
    BY <2>1, <2>2, <2>3 DEF CInv, DownIsIdle, BootCounted
<1>13. CASE FileComic(w)
  <2>1. /\ up /\ seq > 0 /\ RowsCounted /\ LiveCounted /\ ThreadsCounted /\ BootCounted
        /\ UNCHANGED <<up, boot, seq>>
    BY <1>13, RunningIsUp DEF FileComic, At, CInv, process, manager
  <2>2. ThreadsCounted'
    BY <1>13, <2>1, CountedMoves DEF FileComic, ThreadsCounted, SavingPCs
  <2>3. RowsCounted' /\ LiveCounted'
    BY <1>13, <2>1 DEF FileComic, RowsCounted, LiveCounted, Live, durable, manager
  <2>. QED
    BY <2>1, <2>2, <2>3 DEF CInv, DownIsIdle, BootCounted
<1>14. CASE FilingFails(w)
  <2>1. /\ up /\ seq > 0 /\ RowsCounted /\ LiveCounted /\ ThreadsCounted /\ BootCounted
        /\ UNCHANGED <<up, boot, seq>>
    BY <1>14, RunningIsUp DEF FilingFails, At, CInv, process, manager
  <2>2. ThreadsCounted'
    BY <1>14, <2>1, CountedMoves DEF FilingFails, ThreadsCounted, SavingPCs, EndsWith
  <2>3. RowsCounted' /\ LiveCounted'
    BY <1>14, <2>1 DEF FilingFails, RowsCounted, LiveCounted, Live, durable, manager
  <2>. QED
    BY <2>1, <2>2, <2>3 DEF CInv, DownIsIdle, BootCounted
<1>15. CASE FinishStep(w)
  BY <1>15, FinishCounts
<1>. QED
  BY <1>1, <1>2, <1>3, <1>4, <1>5, <1>6, <1>7, <1>8, <1>9, <1>10, <1>11, <1>12, <1>13, <1>14, <1>15 DEF WorkerStep

LEMMA ClientCounts ==
  ASSUME TInv, CInv, NEW c \in Clients, ClientStep(c)
  PROVE  CInv'
<1>. c \in Threads /\ ThreadsOK(th) /\ seq \in Nat
  BY DEF Threads, TInv, TypeOK, ManagerTypes
<1>1. CASE BeginSaves(c)
  <2>1. /\ up /\ seq > 0 /\ RowsCounted /\ LiveCounted /\ ThreadsCounted /\ BootCounted
        /\ UNCHANGED <<up, boot, seq>>
    BY <1>1, RunningIsUp DEF BeginSaves, At, CInv, process, manager
  <2>2. ThreadsCounted'
    BY <1>1, <2>1, CountedMoves DEF BeginSaves, ThreadsCounted, SavingPCs
  <2>3. RowsCounted'
    <3>1. 0 \in Nat /\ 0 < seq
      BY <1>1, <2>1, InHand DEF BeginSaves, At, ThreadsCounted, Counted, SavingPCs
    <3>2. row' = Upserted(th[c].job, "uploading", 0)
      BY <1>1 DEF BeginSaves, SaveUnfinished
    <3>. QED
      BY <2>1, <3>1, <3>2, RowsCountedSave
  <2>4. LiveCounted'
    BY <1>1, <2>1 DEF BeginSaves, LiveCounted, Live, manager
  <2>. QED
    BY <2>1, <2>2, <2>3, <2>4 DEF CInv, DownIsIdle, BootCounted
<1>2. CASE BeginSaveFails(c)
  <2>1. /\ up /\ seq > 0 /\ RowsCounted /\ LiveCounted /\ ThreadsCounted /\ BootCounted
        /\ UNCHANGED <<up, boot, seq>>
    BY <1>2, RunningIsUp DEF BeginSaveFails, At, CInv, process, manager
  <2>2. ThreadsCounted'
    BY <1>2, <2>1, CountedRests DEF BeginSaveFails, ThreadsCounted, SavingPCs
  <2>3. RowsCounted'
    BY <1>2, <2>1 DEF BeginSaveFails, RowsCounted, durable
  <2>4. LiveCounted'
    BY <1>2, <2>1, LiveCountedDrop DEF BeginSaveFails, LiveCounted
  <2>. QED
    BY <2>1, <2>2, <2>3, <2>4 DEF CInv, DownIsIdle, BootCounted
<1>3. CASE StageUpload(c)
  <2>1. /\ up /\ seq > 0 /\ RowsCounted /\ LiveCounted /\ ThreadsCounted /\ BootCounted
        /\ UNCHANGED <<up, boot, seq>>
    BY <1>3, RunningIsUp DEF StageUpload, At, CInv, process, manager
  <2>2. ThreadsCounted'
    BY <1>3, <2>1, CountedMoves DEF StageUpload, ThreadsCounted, SavingPCs
  <2>3. RowsCounted' /\ LiveCounted'
    BY <1>3, <2>1 DEF StageUpload, RowsCounted, LiveCounted, Live, durable, manager
  <2>. QED
    BY <2>1, <2>2, <2>3 DEF CInv, DownIsIdle, BootCounted
<1>4. CASE SetInput(c)
  <2>1. /\ up /\ seq > 0 /\ RowsCounted /\ LiveCounted /\ ThreadsCounted /\ BootCounted
        /\ UNCHANGED <<up, boot, seq>>
    BY <1>4, RunningIsUp DEF SetInput, At, CInv, process, manager
  <2>2. ThreadsCounted'
    BY <1>4, <2>1, CountedStays, CountedRests DEF SetInput, At, ThreadsCounted, SavingPCs
  <2>3. RowsCounted' /\ LiveCounted'
    BY <1>4, <2>1 DEF SetInput, RowsCounted, LiveCounted, Live, manager, TInv, TypeOK, DurableTypes, RowType
  <2>. QED
    BY <2>1, <2>2, <2>3 DEF CInv, DownIsIdle, BootCounted
<1>5. CASE SaveQueued(c)
  <2>1. /\ up /\ seq > 0 /\ RowsCounted /\ LiveCounted /\ ThreadsCounted /\ BootCounted
        /\ UNCHANGED <<up, boot, seq>>
    BY <1>5, RunningIsUp DEF SaveQueued, At, CInv, process, manager
  <2>2. ThreadsCounted'
    BY <1>5, <2>1, CountedRests DEF SaveQueued, ThreadsCounted, SavingPCs
  <2>3. RowsCounted'
    <3>1. th[c].seq \in Nat /\ th[c].seq < seq
      BY <1>5, <2>1, InHand DEF SaveQueued, At, ThreadsCounted, Counted, SavingPCs
    <3>2. row' = Upserted(th[c].job, "queued", th[c].seq)
      BY <1>5 DEF SaveQueued, SaveUnfinished
    <3>. QED
      BY <2>1, <3>1, <3>2, RowsCountedSave
  <2>4. LiveCounted'
    BY <1>5, <2>1 DEF SaveQueued, LiveCounted, Live, manager
  <2>. QED
    BY <2>1, <2>2, <2>3, <2>4 DEF CInv, DownIsIdle, BootCounted
<1>6. CASE LibrarySaves(c)
  <2>1. /\ up /\ seq > 0 /\ RowsCounted /\ LiveCounted /\ ThreadsCounted /\ BootCounted
        /\ UNCHANGED <<up, boot, seq>>
    BY <1>6, RunningIsUp DEF LibrarySaves, At, CInv, process, manager
  <2>2. ThreadsCounted'
    BY <1>6, <2>1, CountedStays DEF LibrarySaves, ThreadsCounted, SavingPCs, At
  <2>3. RowsCounted'
    <3>1. th[c].seq \in Nat /\ th[c].seq < seq
      BY <1>6, <2>1, InHand DEF LibrarySaves, At, ThreadsCounted, Counted, SavingPCs
    <3>2. row' = Upserted(th[c].job, "queued", th[c].seq)
      BY <1>6 DEF LibrarySaves, SaveUnfinished
    <3>. QED
      BY <2>1, <3>1, <3>2, RowsCountedSave
  <2>4. LiveCounted'
    BY <1>6, <2>1 DEF LibrarySaves, LiveCounted, Live, manager
  <2>. QED
    BY <2>1, <2>2, <2>3, <2>4 DEF CInv, DownIsIdle, BootCounted
<1>7. CASE LibrarySaveFails(c)
  <2>1. /\ up /\ seq > 0 /\ RowsCounted /\ LiveCounted /\ ThreadsCounted /\ BootCounted
        /\ UNCHANGED <<up, boot, seq>>
    BY <1>7, RunningIsUp DEF LibrarySaveFails, At, CInv, process, manager
  <2>2. ThreadsCounted'
    BY <1>7, <2>1, CountedRests DEF LibrarySaveFails, ThreadsCounted, SavingPCs
  <2>3. RowsCounted'
    BY <1>7, <2>1 DEF LibrarySaveFails, RowsCounted, durable
  <2>4. LiveCounted'
    BY <1>7, <2>1, LiveCountedDrop DEF LibrarySaveFails, LiveCounted
  <2>. QED
    BY <2>1, <2>2, <2>3, <2>4 DEF CInv, DownIsIdle, BootCounted
<1>8. CASE StorePaused(c)
  <2>1. /\ up /\ seq > 0 /\ RowsCounted /\ LiveCounted /\ ThreadsCounted /\ BootCounted
        /\ UNCHANGED <<up, boot, seq>>
    BY <1>8, RunningIsUp DEF StorePaused, At, CInv, process, manager
  <2>2. ThreadsCounted'
    BY <1>8, <2>1, CountedRests DEF StorePaused, ThreadsCounted, SavingPCs
  <2>3. RowsCounted' /\ LiveCounted'
    BY <1>8, <2>1 DEF StorePaused, RowsCounted, LiveCounted, Live, durable, manager
  <2>. QED
    BY <2>1, <2>2, <2>3 DEF CInv, DownIsIdle, BootCounted
<1>9. CASE StoreOrder(c)
  <2>1. /\ up /\ seq > 0 /\ RowsCounted /\ LiveCounted /\ ThreadsCounted /\ BootCounted
        /\ UNCHANGED <<up, boot, seq>>
    BY <1>9, RunningIsUp DEF StoreOrder, At, CInv, process, manager
  <2>2. ThreadsCounted'
    BY <1>9, <2>1, CountedRests DEF StoreOrder, ThreadsCounted
  <2>3. ASSUME NEW j \in ToSet(th[c].ids)
        PROVE  th[c].seq + PlaceIn(th[c].ids, j) - 1 < seq
    <3>1. th[c].seq + Len(th[c].ids) <= seq
      BY <1>9, <2>1 DEF StoreOrder, At, ThreadsCounted, Counted
    <3>2. PlaceIn(th[c].ids, j) \in 1..Len(th[c].ids) /\ Len(th[c].ids) \in Nat /\ th[c].seq \in Nat
      BY InHand, PlaceInSequence, LenProperties
    <3>. QED
      BY <3>1, <3>2
  <2>4. RowsCounted'
    BY <1>9, <2>1, <2>3 DEF StoreOrder, RowsCounted, TInv, TypeOK, DurableTypes, RowType
  <2>5. LiveCounted'
    BY <1>9, <2>1 DEF StoreOrder, LiveCounted, Live, manager
  <2>. QED
    BY <2>1, <2>2, <2>4, <2>5 DEF CInv, DownIsIdle, BootCounted
<1>10. CASE FinishStep(c)
  BY <1>10, FinishCounts
<1>. QED
  BY <1>1, <1>2, <1>3, <1>4, <1>5, <1>6, <1>7, <1>8, <1>9, <1>10 DEF ClientStep

LEMMA CallCounts ==
  ASSUME TInv, CInv, NEW c \in Clients, ClientCall(c)
  PROVE  CInv'
<1>. c \in Threads /\ ThreadsOK(th) /\ seq \in Nat /\ queue \in Seq(Jobs) /\ ThreadOK(th[c])
  BY InHand DEF Threads, TInv, TypeOK, ManagerTypes
<1>. up /\ UNCHANGED <<up, boot>>
  BY RunningIsUp DEF ClientCall, Begin, EnqueueUploaded, UploadFails, EnqueueLibraryConvert,
     CancelQueued, CancelRunning, SetPaused, Reorder, ClearFinished, At, CInv, process
<1>. seq > 0 /\ RowsCounted /\ LiveCounted /\ ThreadsCounted /\ BootCounted
  BY DEF CInv
<1>1. ASSUME NEW j \in Jobs, NEW u \in Users, Begin(c, u, j) PROVE CInv'
  <2>1. Counted([th[c] EXCEPT !.pc = "begin", !.job = j], seq)
    BY DEF Counted, SavingPCs, ThreadOK, ThreadType
  <2>2. ThreadsCounted'
    BY <1>1, <2>1 DEF Begin, ThreadsCounted, ThreadsOK
  <2>3. LiveCounted'
    BY <1>1 DEF Begin, LiveCounted, AtStage, TInv, TypeOK, ManagerTypes, LiveType
  <2>. QED
    BY <1>1, <2>2, <2>3 DEF Begin, CInv, DownIsIdle, BootCounted, RowsCounted, durable
<1>2. CASE EnqueueUploaded(c)
  <2>1. \A u \in Threads : Counted(th[u], seq + 1)
    BY CountedLonger
  <2>2. /\ ThreadOK([th[c] EXCEPT !.pc = "setInput", !.st = "queued", !.seq = seq])
        /\ Counted([th[c] EXCEPT !.pc = "setInput", !.st = "queued", !.seq = seq], seq + 1)
    <3>1. th[c].job \in Jobs
      BY <1>2, InHand DEF EnqueueUploaded, At, JobPCs
    <3>2. ThreadOK([th[c] EXCEPT !.pc = "setInput", !.st = "queued", !.seq = seq])
      BY <3>1, Constants DEF ThreadOK, ThreadType, JobPCs
    <3>. QED
      BY <3>2 DEF ThreadOK, ThreadType, Counted
  <2>3. ASSUME NEW f, f = [th EXCEPT ![c] = [@ EXCEPT !.pc = "setInput", !.st = "queued", !.seq = seq]]
        PROVE  ThreadsOK(f) /\ \A u \in Threads : Counted(f[u], seq + 1)
    BY <2>1, <2>2, <2>3, ThreadMoves DEF ThreadsOK
  <2>4. ThreadsCounted'
    BY <1>2, <2>3, CountedWoken DEF EnqueueUploaded, ThreadsCounted
  <2>5. LiveCounted'
    BY <1>2 DEF EnqueueUploaded, LiveCounted, Live, TInv, TypeOK, ManagerTypes, LiveType
  <2>6. RowsCounted' /\ BootCounted'
    BY <1>2, StoredLonger DEF EnqueueUploaded, durable
  <2>. QED
    BY <1>2, <2>4, <2>5, <2>6 DEF EnqueueUploaded, CInv, DownIsIdle
<1>3. CASE UploadFails(c)
  BY <1>3, CountedMoves DEF UploadFails, CInv, DownIsIdle, BootCounted, RowsCounted, LiveCounted, Live,
     ThreadsCounted, SavingPCs, durable, manager
<1>4. ASSUME NEW j \in Jobs, NEW f \in Files, EnqueueLibraryConvert(c, f, j) PROVE CInv'
  <2>1. \A u \in Threads : Counted(th[u], seq + 1)
    BY CountedLonger
  <2>2. /\ ThreadOK([th[c] EXCEPT !.pc = "insert", !.job = j, !.st = "queued", !.seq = seq])
        /\ Counted([th[c] EXCEPT !.pc = "insert", !.job = j, !.st = "queued", !.seq = seq], seq + 1)
    <3>1. ThreadOK([th[c] EXCEPT !.pc = "insert", !.job = j, !.st = "queued", !.seq = seq])
      BY Takes, Constants DEF JobPCs
    <3>. QED
      BY <3>1 DEF ThreadOK, ThreadType, Counted
  <2>3. ASSUME NEW g, g = [th EXCEPT ![c] = [@ EXCEPT !.pc = "insert", !.job = j, !.st = "queued", !.seq = seq]]
        PROVE  ThreadsOK(g) /\ \A u \in Threads : Counted(g[u], seq + 1)
    BY <2>1, <2>2, <2>3, ThreadMoves DEF ThreadsOK
  <2>4. ThreadsCounted'
    BY <1>4, <2>3, CountedWoken DEF EnqueueLibraryConvert, ThreadsCounted
  <2>5. LiveCounted'
    BY <1>4 DEF EnqueueLibraryConvert, LiveCounted, Live, TInv, TypeOK, ManagerTypes, LiveType
  <2>6. RowsCounted' /\ BootCounted'
    BY <1>4, StoredLonger DEF EnqueueLibraryConvert, durable
  <2>. QED
    BY <1>4, <2>4, <2>5, <2>6 DEF EnqueueLibraryConvert, CInv, DownIsIdle
<1>5. ASSUME NEW j \in Jobs, CancelQueued(c, j) PROVE CInv'
  <2>1. Counted([th[c] EXCEPT !.pc = IF IsUpload(j) THEN "clean" ELSE "mark", !.job = j, !.st = "cancelled"], seq)
    BY DEF Counted, SavingPCs, ThreadOK, ThreadType
  <2>2. ThreadsCounted'
    BY <1>5, <2>1 DEF CancelQueued, ThreadsCounted, ThreadsOK
  <2>. QED
    BY <1>5, <2>2 DEF CancelQueued, CInv, DownIsIdle, BootCounted, RowsCounted, LiveCounted, Live, durable
<1>6. ASSUME NEW j \in Jobs, CancelRunning(c, j) PROVE CInv'
  <2>1. LiveCounted'
    BY <1>6 DEF CancelRunning, LiveCounted, Live, TInv, TypeOK, ManagerTypes, LiveType
  <2>. QED
    BY <1>6, <2>1 DEF CancelRunning, CInv, DownIsIdle, BootCounted, RowsCounted, ThreadsCounted, durable
<1>7. ASSUME NEW flag \in BOOLEAN, SetPaused(c, flag) PROVE CInv'
  <2>1. /\ ThreadOK([th[c] EXCEPT !.pc = IF flag THEN "storePause" ELSE "storeResume"])
        /\ Counted([th[c] EXCEPT !.pc = IF flag THEN "storePause" ELSE "storeResume"], seq)
    BY Constants DEF ThreadOK, ThreadType, JobPCs, Counted, SavingPCs
  <2>2. ASSUME NEW f, f = [th EXCEPT ![c] = [@ EXCEPT !.pc = IF flag THEN "storePause" ELSE "storeResume"]]
        PROVE  ThreadsOK(f) /\ \A u \in Threads : Counted(f[u], seq)
    BY <2>1, <2>2, ThreadMoves DEF ThreadsCounted, ThreadsOK
  <2>3. ThreadsCounted'
    BY <1>7, <2>2, CountedWoken DEF SetPaused, ThreadsCounted
  <2>. QED
    BY <1>7, <2>3 DEF SetPaused, CInv, DownIsIdle, BootCounted, RowsCounted, LiveCounted, Live, durable
<1>8. ASSUME NEW ids \in IdLists, Reorder(c, ids) PROVE CInv'
  <2>1. PICK new \in Rearrangements(queue) :
          /\ queue' = new
          /\ live' = [j \in Jobs |->
               IF j \in ToSet(new) /\ Live(j)
               THEN [live[j] EXCEPT !.seq = seq + PlaceIn(new, j) - 1]
               ELSE live[j]]
          /\ th' = [th EXCEPT ![c] = [@ EXCEPT !.pc = "storeOrder", !.seq = seq, !.ids = new]]
    BY <1>8 DEF Reorder
  <2>2. new \in Seq(Jobs) /\ Len(new) = Len(queue) /\ Len(queue) \in Nat
    BY RearrangementProperties, LenProperties
  <2>3. seq' = seq + Len(queue) /\ seq' \in Nat /\ seq <= seq'
    BY <1>8, <2>2 DEF Reorder, AfterOrder
  <2>4. \A u \in Threads : Counted(th[u], seq')
    BY <2>3, CountedLonger
  <2>5. Counted([th[c] EXCEPT !.pc = "storeOrder", !.seq = seq, !.ids = new], seq')
    BY <2>2, <2>3 DEF ThreadOK, ThreadType, Counted, SavingPCs
  <2>6. ThreadsCounted'
    BY <2>1, <2>4, <2>5 DEF ThreadsCounted, ThreadsOK
  <2>7. ASSUME NEW j \in Jobs
        PROVE  live'[j].seq < seq'
    <3>1. CASE j \in ToSet(new) /\ Live(j)
      <4>1. PlaceIn(new, j) \in 1..Len(queue)
        BY <2>2, <3>1, PlaceInSequence
      <4>2. live'[j].seq = seq + PlaceIn(new, j) - 1
        BY <2>1, <3>1 DEF TInv, TypeOK, ManagerTypes, LiveType
      <4>. QED
        BY <2>2, <2>3, <4>1, <4>2
    <3>2. CASE ~(j \in ToSet(new) /\ Live(j))
      <4>1. live'[j] = live[j]
        BY <2>1, <3>2
      <4>2. live[j].seq < seq /\ live[j].seq \in Nat
        BY <2>7, <4>1 DEF LiveCounted, Live, TInv, TypeOK, ManagerTypes, LiveType
      <4>. QED
        BY <2>3, <4>1, <4>2
    <3>. QED
      BY <3>1, <3>2
  <2>8. RowsCounted' /\ BootCounted'
    BY <1>8, <2>3, StoredLonger DEF Reorder, durable
  <2>. QED
    BY <1>8, <2>3, <2>6, <2>7, <2>8 DEF Reorder, CInv, DownIsIdle, LiveCounted
<1>9. ASSUME NEW scope, ClearFinished(c, scope) PROVE CInv'
  <2>1. RowsCounted'
    BY <1>9 DEF ClearFinished, RowsCounted, NoRow, manager
  <2>. QED
    BY <1>9, <2>1 DEF ClearFinished, CInv, DownIsIdle, BootCounted, LiveCounted, Live, ThreadsCounted, manager
<1>. QED
  BY <1>1, <1>2, <1>3, <1>4, <1>5, <1>6, <1>7, <1>8, <1>9 DEF ClientCall

LEMMA RecoverCounts ==
  ASSUME TInv, CInv, RecoverStep
  PROVE  CInv'
<1>. DEFINE R == [job : Jobs, seq : Nat, input : BOOLEAN]
<1>1. up /\ UNCHANGED up
  BY RunningIsUp DEF RecoverStep, RecoverLists, RecoverLooks, RecoverSkips, RecoverQueues, RecoverSaves,
     RecoverFails, RecoverEnds, CInv
<1>2. seq > 0 /\ RowsCounted /\ LiveCounted /\ ThreadsCounted /\ BootCounted
  BY <1>1 DEF CInv
<1>3. /\ seq \in Nat /\ boot.seq \in Nat /\ boot.todo \in Seq(R) /\ BootHasRow
      /\ row \in [Jobs -> RowType] /\ live \in [Jobs -> LiveType]
  BY DEF TInv, TypeOK, ManagerTypes, DurableTypes, ProcessTypes, BootType
<1>4. boot.todo # <<>> =>
        /\ Head(boot.todo).seq < seq /\ Head(boot.todo) \in R
        /\ NextRecovered.pc = "each"
        /\ \A i \in DOMAIN NextRecovered.todo : NextRecovered.todo[i].seq < seq
  <2>1. SUFFICES ASSUME boot.todo # <<>>
                 PROVE  /\ Head(boot.todo).seq < seq /\ Head(boot.todo) \in R
                        /\ NextRecovered.pc = "each"
                        /\ \A i \in DOMAIN NextRecovered.todo : NextRecovered.todo[i].seq < seq
    OBVIOUS
  <2>2. /\ Head(boot.todo) = boot.todo[1] /\ Head(boot.todo) \in R
        /\ 1 \in DOMAIN boot.todo /\ Len(boot.todo) \in Nat /\ DOMAIN boot.todo = 1..Len(boot.todo)
        /\ DOMAIN Tail(boot.todo) = 1..Len(boot.todo) - 1
        /\ \A i \in 1..Len(boot.todo) - 1 : Tail(boot.todo)[i] = boot.todo[i + 1]
    <3>1. boot.todo \in Seq(R) /\ boot.todo # <<>>
      BY <1>3, <2>1
    <3>. HIDE DEF R
    <3>2. Len(boot.todo) \in Nat \ {0} /\ DOMAIN boot.todo = 1..Len(boot.todo)
      BY <3>1, EmptySeq, LenProperties
    <3>3. Head(boot.todo) = boot.todo[1] /\ Head(boot.todo) \in R
      BY <3>1, HeadTailProperties
    <3>4. /\ Tail(boot.todo) \in Seq(R) /\ Len(Tail(boot.todo)) = Len(boot.todo) - 1
          /\ \A i \in 1..Len(boot.todo) - 1 : Tail(boot.todo)[i] = boot.todo[i + 1]
      BY <3>1, <3>2, HeadTailProperties
    <3>5. DOMAIN Tail(boot.todo) = 1..Len(boot.todo) - 1
      BY <3>4, LenProperties
    <3>. QED
      BY <3>2, <3>3, <3>4, <3>5
  <2>3. NextRecovered.pc = "each" /\ NextRecovered.todo = Tail(boot.todo)
    BY DEF NextRecovered, TInv, TypeOK, ProcessTypes, BootType
  <2>. QED
    BY <1>2, <2>2, <2>3 DEF BootCounted
<1>5. CASE RecoverLists
  <2>1. PICK s \in SetToSeqs({j \in Jobs : Unfinished(j)}) :
          boot' = [pc |-> "each", seq |-> 0, todo |->
            [i \in DOMAIN s |-> [job |-> s[i], seq |-> row[s[i]].seq, input |-> row[s[i]].input]]]
    BY <1>5 DEF RecoverLists
  <2>2. \A i \in DOMAIN s : s[i] \in Jobs /\ row[s[i]].st # "none"
    BY <2>1 DEF SetToSeqs, Unfinished
  <2>3. BootCounted'
    BY <1>2, <1>5, <2>1, <2>2 DEF RecoverLists, BootCounted, RowsCounted, manager
  <2>. QED
    BY <1>1, <1>2, <1>5, <2>3 DEF RecoverLists, CInv, DownIsIdle, RowsCounted, LiveCounted,
       ThreadsCounted, durable, manager
<1>6. CASE RecoverLooks
  <2>1. BootCounted'
    BY <1>2, <1>6 DEF RecoverLooks, RecoverGoto, BootCounted, TInv, TypeOK, ProcessTypes, BootType, manager
  <2>. QED
    BY <1>1, <1>2, <1>6, <2>1 DEF RecoverLooks, CInv, DownIsIdle, RowsCounted, LiveCounted,
       ThreadsCounted, durable, manager
<1>7. CASE RecoverSkips
  <2>1. BootCounted'
    BY <1>3, <1>4, <1>7 DEF RecoverSkips, BootCounted, BootHasRow, manager
  <2>. QED
    BY <1>1, <1>2, <1>7, <2>1 DEF RecoverSkips, CInv, DownIsIdle, RowsCounted, LiveCounted,
       ThreadsCounted, durable, manager
<1>8. CASE RecoverQueues
  <2>1. seq' = seq + 1 /\ UNCHANGED <<row, th>>
    BY <1>8 DEF RecoverQueues, durable
  <2>2. ThreadsCounted'
    BY <1>2, <1>3, <2>1, CountedLonger DEF ThreadsCounted
  <2>3. LiveCounted'
    BY <1>2, <1>3, <1>8 DEF RecoverQueues, LiveCounted, LiveType
  <2>4. RowsCounted'
    BY <1>2, <1>3, <2>1 DEF RowsCounted, RowType
  <2>5. \A i \in DOMAIN boot.todo : boot.todo[i].seq \in Nat
    <3>1. \A i \in DOMAIN boot.todo : boot.todo[i] \in R
      BY <1>3, LenProperties, ElementOfSeq
    <3>. QED
      BY <3>1
  <2>6. BootCounted'
    BY <1>2, <1>3, <1>8, <2>1, <2>5 DEF RecoverQueues, BootCounted, TInv, TypeOK, ProcessTypes, BootType
  <2>. QED
    BY <1>1, <1>2, <1>3, <2>1, <2>2, <2>3, <2>4, <2>6 DEF CInv, DownIsIdle
<1>9. CASE RecoverSaves
  <2>1. RowsCounted'
    BY <1>2, <1>3, <1>9, RowsCountedSave DEF RecoverSaves, SaveUnfinished, BootCounted, manager
  <2>2. BootCounted'
    BY <1>3, <1>4, <1>9 DEF RecoverSaves, BootCounted, BootHasRow, manager
  <2>. QED
    BY <1>1, <1>2, <1>9, <2>1, <2>2 DEF RecoverSaves, CInv, DownIsIdle, LiveCounted, ThreadsCounted, manager
<1>10. CASE RecoverFails
  <2>1. Head(boot.todo).seq \in Nat /\ Head(boot.todo).seq < seq
    BY <1>3, <1>4, <1>10 DEF RecoverFails, BootHasRow
  <2>2. RowsCounted'
    BY <1>2, <1>10, <2>1, RowsCountedSave DEF RecoverFails, manager
  <2>3. BootCounted'
    BY <1>3, <1>4, <1>10 DEF RecoverFails, BootCounted, BootHasRow, manager
  <2>. QED
    BY <1>1, <1>2, <1>10, <2>2, <2>3 DEF RecoverFails, CInv, DownIsIdle, LiveCounted, ThreadsCounted, manager
<1>11. CASE RecoverEnds
  <2>1. [BootOff EXCEPT !.pc = "done"].todo = <<>>
    BY DEF BootOff
  <2>2. BootCounted'
    BY <1>11, <2>1, BootOffTyped, EmptySeq DEF RecoverEnds, BootCounted
  <2>. QED
    BY <1>1, <1>2, <1>11, <2>2 DEF RecoverEnds, CInv, DownIsIdle, RowsCounted, LiveCounted,
       ThreadsCounted, durable, manager
<1>. QED
  BY <1>5, <1>6, <1>7, <1>8, <1>9, <1>10, <1>11 DEF RecoverStep

LEMMA ProcessCounts ==
  ASSUME TInv, CInv, Start \/ Stop \/ Drain \/ Exit
  PROVE  CInv'
<1>1. CASE Start
  <2>1. PICK m \in MaxImportQueueSeq : seq' = m + 1
    BY <1>1 DEF Start, Seed
  <2>2. m \in Nat /\ \A j \in Jobs : row[j].seq <= m /\ row[j].seq \in Nat
    BY <2>1 DEF MaxImportQueueSeq, TInv, TypeOK, DurableTypes, RowType
  <2>3. RowsCounted'
    BY <1>1, <2>1, <2>2 DEF Start, RowsCounted, durable
  <2>4. LiveCounted'
    BY <1>1, <2>1, <2>2 DEF Start, CInv, DownIsIdle, LiveCounted, NotLive
  <2>5. ThreadsCounted'
    BY <1>1 DEF Start, CInv, DownIsIdle, ThreadsCounted, Counted, Idle, SavingPCs
  <2>6. [BootOff EXCEPT !.pc = "list"].todo = <<>>
    BY DEF BootOff
  <2>7. BootCounted'
    BY <1>1, <2>6, BootOffTyped, EmptySeq DEF Start, BootCounted
  <2>. QED
    BY <1>1, <2>1, <2>2, <2>3, <2>4, <2>5, <2>7 DEF Start, CInv, DownIsIdle
<1>2. CASE Stop
  BY <1>2 DEF Stop, CInv, DownIsIdle, RowsCounted, LiveCounted, ThreadsCounted, BootCounted, durable, manager
<1>3. CASE Drain
  <2>1. up /\ UNCHANGED up
    BY <1>3, RunningIsUp DEF Drain, CInv
  <2>2. ThreadsCounted'
    BY <1>3, <2>1, CountedWoken DEF Drain, CInv, TInv, ThreadsCounted, manager
  <2>. QED
    BY <1>3, <2>1, <2>2 DEF Drain, CInv, DownIsIdle, RowsCounted, LiveCounted, BootCounted, durable, manager
<1>4. CASE Exit
  BY <1>4 DEF Exit, CInv, DownIsIdle
<1>. QED
  BY <1>1, <1>2, <1>3, <1>4

LEMMA InitCounts == Init => CInv
BY DEF Init, CInv, DownIsIdle

LEMMA StepCounts == ASSUME TInv, CInv, [Next]_vars PROVE CInv'
<1>1. CASE UNCHANGED vars
  BY <1>1 DEF vars, CInv, DownIsIdle, RowsCounted, LiveCounted, ThreadsCounted, BootCounted,
     durable, manager, process
<1>2. CASE Next
  BY <1>2, WorkerCounts, ClientCounts, CallCounts, RecoverCounts, ProcessCounts DEF Next
<1>. QED
  BY <1>1, <1>2

LEMMA CountsInvariant == Spec => []CInv
BY InitCounts, StepCounts, TypesInvariant, PTL DEF Spec

\* The counter is past every stored number while the process runs, whatever
\* late saves, reorders, crashes and restarts came before.
THEOREM CounterStaysAhead == Spec => []CounterIsAhead
<1>1. CInv => CounterIsAhead
  BY DEF CInv, RowsCounted, CounterIsAhead
<1>. QED
  BY <1>1, CountsInvariant, PTL

-----------------------------------------------------------------------------
(* Queues without repetitions.                                             *)

Distinct(q) == \A i, k \in DOMAIN q : q[i] = q[k] => i = k

LEMMA Appended ==
  ASSUME NEW q \in Seq(Jobs), NEW j \in Jobs, Distinct(q), j \notin ToSet(q)
  PROVE  Distinct(Append(q, j)) /\ ToSet(Append(q, j)) = ToSet(q) \cup {j}
<1> DEFINE a == Append(q, j)
<1>1. /\ DOMAIN q = 1..Len(q) /\ DOMAIN a = 1..(Len(q) + 1) /\ Len(q) \in Nat
      /\ \A i \in 1..Len(q) : a[i] = q[i]
      /\ a[Len(q) + 1] = j
  BY AppendProperties, LenProperties
<1>2. \A i \in 1..Len(q) : q[i] # j
  BY <1>1 DEF ToSet
<1> HIDE DEF a
<1>3. \A i \in 1..(Len(q) + 1) : i \in 1..Len(q) \/ i = Len(q) + 1
  BY <1>1
<1>4. Distinct(a)
  BY <1>1, <1>2, <1>3 DEF Distinct
<1>5. ToSet(a) \subseteq ToSet(q) \cup {j}
  BY <1>1, <1>3 DEF ToSet
<1>6. ToSet(q) \cup {j} \subseteq ToSet(a)
  BY <1>1 DEF ToSet
<1> QED BY <1>4, <1>5, <1>6 DEF a

LEMMA Fronted ==
  ASSUME NEW q \in Seq(Jobs), q # <<>>, Distinct(q)
  PROVE  /\ Distinct(Tail(q)) /\ ToSet(Tail(q)) = ToSet(q) \ {Head(q)}
         /\ Head(q) \in ToSet(q)
<1> DEFINE t == Tail(q)
<1>1. /\ DOMAIN q = 1..Len(q) /\ DOMAIN t = 1..(Len(q) - 1) /\ Len(q) \in Nat \ {0}
      /\ \A i \in 1..(Len(q) - 1) : t[i] = q[i + 1]
      /\ Head(q) = q[1]
  BY HeadTailProperties, LenProperties, EmptySeq
<1> HIDE DEF t
<1>2. \A i \in 1..(Len(q) - 1) : i + 1 \in 1..Len(q) /\ i + 1 # 1
  BY <1>1
<1>3. \A i \in 1..Len(q) : i = 1 \/ (i - 1 \in 1..(Len(q) - 1) /\ (i - 1) + 1 = i)
  BY <1>1
<1>4. Distinct(t)
  <2>1. \A i, k \in 1..(Len(q) - 1) : i + 1 = k + 1 => i = k
    BY <1>1
  <2> QED BY <1>1, <1>2, <2>1 DEF Distinct
<1>5. 1 \in 1..Len(q)
  BY <1>1
<1>6. ToSet(t) \subseteq ToSet(q) \ {Head(q)}
  BY <1>1, <1>2, <1>5 DEF ToSet, Distinct
<1>7. ToSet(q) \ {Head(q)} \subseteq ToSet(t)
  <2> SUFFICES ASSUME NEW i \in 1..Len(q), q[i] # Head(q) PROVE q[i] \in ToSet(t)
    BY <1>1 DEF ToSet
  <2>1. i - 1 \in 1..(Len(q) - 1) /\ (i - 1) + 1 = i
    BY <1>1, <1>3
  <2>2. t[i - 1] = q[i]
    BY <1>1, <2>1
  <2> QED BY <1>1, <2>1, <2>2 DEF ToSet
<1> QED BY <1>1, <1>4, <1>5, <1>6, <1>7 DEF ToSet, t

LEMMA Spliced ==
  ASSUME NEW q \in Seq(Jobs), NEW i \in DOMAIN q, Distinct(q)
  PROVE  /\ Distinct(RemoveAt(q, i)) /\ ToSet(RemoveAt(q, i)) = ToSet(q) \ {q[i]}
<1> DEFINE t == RemoveAt(q, i)
<1>1. /\ DOMAIN q = 1..Len(q) /\ DOMAIN t = 1..(Len(q) - 1) /\ Len(q) \in Nat \ {0}
      /\ i \in 1..Len(q)
  <2>1. DOMAIN q = 1..Len(q) /\ Len(q) \in Nat
    BY LenProperties
  <2>2. t \in Seq(Jobs) /\ Len(t) = Len(q) - 1
    BY RemoveAtProperties
  <2> QED BY <2>1, <2>2, LenProperties
<1>2. \A k \in 1..(Len(q) - 1) : t[k] = IF k < i THEN q[k] ELSE q[k + 1]
  BY RemoveAtProperties
<1> HIDE DEF t
<1> DEFINE At1(k) == IF k < i THEN k ELSE k + 1
<1>3. \A k \in 1..(Len(q) - 1) : At1(k) \in 1..Len(q) /\ At1(k) # i /\ t[k] = q[At1(k)]
  BY <1>1, <1>2
<1>4. \A k, m \in 1..(Len(q) - 1) : At1(k) = At1(m) => k = m
  BY <1>1
<1>5. \A m \in 1..Len(q) : m # i => \E k \in 1..(Len(q) - 1) : At1(k) = m
  <2> SUFFICES ASSUME NEW m \in 1..Len(q), m # i PROVE \E k \in 1..(Len(q) - 1) : At1(k) = m
    OBVIOUS
  <2>1. CASE m < i
    BY <1>1, <2>1
  <2>2. CASE m > i
    <3>1. m - 1 \in 1..(Len(q) - 1) /\ At1(m - 1) = m
      BY <1>1, <2>2
    <3> QED BY <3>1
  <2> QED BY <1>1, <2>1, <2>2
<1> HIDE DEF At1
<1>6. Distinct(t)
  BY <1>1, <1>3, <1>4 DEF Distinct
<1>7. ToSet(t) \subseteq ToSet(q) \ {q[i]}
  BY <1>1, <1>3 DEF ToSet, Distinct
<1>8. ToSet(q) \ {q[i]} \subseteq ToSet(t)
  <2> SUFFICES ASSUME NEW m \in 1..Len(q), q[m] # q[i] PROVE q[m] \in ToSet(t)
    BY <1>1 DEF ToSet
  <2>1. PICK k \in 1..(Len(q) - 1) : At1(k) = m
    BY <1>5
  <2>2. t[k] = q[m]
    BY <1>3, <2>1
  <2> QED BY <1>1, <2>2 DEF ToSet
<1> QED BY <1>6, <1>7, <1>8 DEF t

LEMMA Rearranged ==
  ASSUME NEW q \in Seq(Jobs), NEW new \in Rearrangements(q), Distinct(q)
  PROVE  Distinct(new) /\ ToSet(new) = ToSet(q) /\ DOMAIN new = DOMAIN q /\ new \in Seq(Jobs)
<1>1. DOMAIN q = 1..Len(q) /\ Len(q) \in Nat
  BY LenProperties
<1>2. PICK p \in [DOMAIN q -> DOMAIN q] :
        IsInjective(p) /\ \A i \in DOMAIN q : new[i] = q[p[i]]
  BY RearrangementProperties
<1>3. DOMAIN new = DOMAIN q /\ new \in Seq(Jobs)
  BY RearrangementProperties
<1>4. p \in Injection(DOMAIN q, DOMAIN q)
  BY <1>2 DEF Injection
<1>5. p \in Surjection(DOMAIN q, DOMAIN q)
  <2>1. IsFiniteSet(DOMAIN q)
    BY <1>1, FS_Interval
  <2> QED BY <1>4, <2>1, FS_Injection
<1>6. \A k \in DOMAIN q : \E i \in DOMAIN q : p[i] = k
  BY <1>5 DEF Surjection
<1>7. Distinct(new)
  BY <1>2, <1>3 DEF Distinct, IsInjective
<1>8. ToSet(new) = ToSet(q)
  BY <1>2, <1>3, <1>6 DEF ToSet
<1> QED BY <1>3, <1>7, <1>8

-----------------------------------------------------------------------------
(* The invariant.  A goroutine brings a job from the moment it has its id  *)
(* until the row says so: in that time nobody else brings it, so a save    *)
(* that fails can take it back; and recovery, which has listed the rows of *)
(* earlier, has not heard of it.                                           *)

BringingPCs == {"begin", "stage", "upload", "setInput", "saveQueued", "insert"}
EndingPCs == {"clean", "mark", "persist"}
Early == {"list", "each", "take", "save", "fail"}

Own(r) == r.pc \in OwningPCs
Brings(r) == r.pc \in BringingPCs
New(r) == r.pc \in {"begin", "stage", "upload"}

\* The jobs recovery will come to, or may.
Coming ==
  IF boot.pc = "list" THEN {j \in Jobs : Unfinished(j)}
  ELSE IF boot.pc \in Early THEN {boot.todo[i].job : i \in DOMAIN boot.todo} ELSE {}

Orderly ==
  /\ Distinct(queue)
  /\ \A j \in ToSet(queue) : live[j].st = "queued" /\ live[j].ctx = "nil"
OneHand ==
  /\ \A t, s \in Threads : Own(th[t]) /\ Own(th[s]) /\ th[t].job = th[s].job => t = s
  /\ \A t \in Threads : Own(th[t]) => th[t].job \notin ToSet(queue)
OneBringer ==
  /\ \A t, s \in Threads : Brings(th[t]) /\ Brings(th[s]) /\ th[t].job = th[s].job => t = s
  /\ \A t \in Threads : New(th[t]) => live[th[t].job].ctx = "nil"
  /\ \A t \in Threads : th[t].pc = "insert" => th[t].job \notin Coming

\* A job in hand that is not live was taken back: nobody brings it, and
\* recovery does not know it.
DeadInHand ==
  \A t \in Threads : Own(th[t]) /\ ~Live(th[t].job) =>
    th[t].job \notin Coming /\ \A s \in Threads : Brings(th[s]) => th[s].job # th[t].job
Kept ==
  \A j \in Jobs : Live(j) /\ j \notin ToSet(queue) =>
    \E t \in Threads : Own(th[t]) /\ th[t].job = j
Unheard ==
  \A j \in Jobs : Fresh(j) =>
    live[j] = NotLive /\ row[j].st = "none" /\ j \notin Coming
    /\ \A t \in Threads : th[t].job # j
Endings == \A t \in Threads : th[t].pc \in EndingPCs => th[t].st \in Terminal
RecoversAlone == boot.pc \in Early => \A w \in Workers : th[w].pc = "idle"

OInv ==
  /\ Orderly /\ OneHand /\ OneBringer /\ DeadInHand /\ Kept /\ Unheard /\ Endings
  /\ RecoversAlone

LEMMA Classes ==
  /\ New(Idle) = FALSE /\ Own(Idle) = FALSE /\ Brings(Idle) = FALSE /\ Idle.pc = "idle"
  /\ \A r : New(r) => Own(r) /\ Brings(r)
  /\ \A r : r.pc \in {"idle", "waiting", "returned"} => ~Own(r) /\ ~Brings(r)
  /\ OwningPCs \subseteq JobPCs /\ BringingPCs \subseteq JobPCs
BY DEF Idle, New, Own, Brings, OwningPCs, BringingPCs, JobPCs

-----------------------------------------------------------------------------
(* What a step can be to the queue and the hands: most are a goroutine's   *)
(* going on with its job, some its letting go of it, and the few others    *)
(* are actions by name.                                                    *)

Elsewhere(t) ==
  \A s \in Threads \ {t} : th'[s] = th[s] \/ (th[s].pc = "waiting" /\ th'[s] = Idle)

\* Rows that are not there stay away, and recovery has no more to come to but
\* a row that t brings.
RowsKept(t, j) ==
  /\ \A k \in Jobs \ {j} :
       (row[k].st = "none" => row'[k].st = "none") /\ (Unfinished(k)' => Unfinished(k))
  /\ j \in Jobs /\ boot.pc = "list" /\ Unfinished(j)' => Unfinished(j) \/ Brings(th[t])

LiveKept(t, j) ==
  \/ live' = live
  \/ /\ Own(th[t])
     /\ \A k \in Jobs \ {j} : live'[k] = live[k]
     /\ live'[j].ctx = live[j].ctx
     /\ Live(j)' = Live(j)

\* t goes on with its job j, or comes to the end of what it does with it.
WorksOn(t, j) ==
  /\ th[t].job = j /\ Elsewhere(t)
  /\ th'[t] = Idle \/ th'[t].job = j
  /\ (Own(th'[t]) => Own(th[t])) /\ (Brings(th'[t]) => Brings(th[t])) /\ (New(th'[t]) => New(th[t]))
  /\ th'[t].pc # "insert" /\ (th'[t].pc \in EndingPCs => th'[t].st \in Terminal)
  /\ t \in Workers => th[t].pc # "idle" \/ boot.pc \notin Early
  /\ Own(th[t]) => Own(th'[t]) \/ ~Live(j)
  /\ UNCHANGED <<queue, origin, boot>> /\ LiveKept(t, j) /\ RowsKept(t, j)

\* t gives its job j up: the live map forgets it, and the line.
LetsGo(t, j) ==
  /\ th[t].job = j /\ (Own(th[t]) \/ th[t].pc = "insert")
  /\ Elsewhere(t)
  /\ th'[t] = Idle \/ th'[t].job = j
  /\ ~Own(th'[t]) /\ ~Brings(th'[t])
  /\ \/ queue' = queue /\ PlacesOf(j) = {}
     \/ \E i \in PlacesOf(j) : queue' = RemoveAt(queue, i)
  /\ live' = Dropped(j)
  /\ UNCHANGED <<origin, boot, row>>

\* Recovery's other steps, and the process's: nobody's job changes hands.
Passes ==
  /\ \A s \in Threads : th'[s] = th[s] \/ (th[s].pc = "waiting" /\ th'[s] = Idle)
  /\ UNCHANGED <<queue, origin, live>>
  /\ Coming' \subseteq Coming /\ (boot'.pc \in Early => boot.pc \in Early)
  /\ \A k \in Jobs : row[k].st = "none" => row'[k].st = "none" \/ k \in Coming

LEMMA Marks ==
  /\ \A pc \in BringingPCs : pc \in JobPCs /\ pc \notin {"idle", "waiting", "returned"}
  /\ \A pc \in OwningPCs : pc \in JobPCs /\ pc \notin {"idle", "waiting", "returned"}
BY DEF BringingPCs, OwningPCs, JobPCs

\* The steps of goroutines, in these terms.
LEMMA Going ==
  ASSUME ThreadsOK(th), NEW t \in Threads, NEW pc, NEW st, NEW s
  PROVE  /\ Rest(t) => Elsewhere(t) /\ th'[t] = Idle
         /\ Goto(t, pc) => /\ Elsewhere(t) /\ th'[t].pc = pc
                           /\ th'[t].job = th[t].job /\ th'[t].st = th[t].st
         /\ GotoEnding(t, pc, st) => /\ Elsewhere(t) /\ th'[t].pc = pc
                                     /\ th'[t].job = th[t].job /\ th'[t].st = st
         /\ GotoSaving(t, pc, st, s) => /\ Elsewhere(t) /\ th'[t].pc = pc
                                        /\ th'[t].job = th[t].job /\ th'[t].st = st
<1>1. th[t] \in ThreadType
  BY DEF ThreadsOK, ThreadOK
<1>2. ASSUME NEW r PROVE LET f == [th EXCEPT ![t] = r] IN f[t] = r /\ \A u \in Threads \ {t} : f[u] = th[u]
  BY DEF ThreadsOK
<1>3. /\ [th[t] EXCEPT !.pc = pc].pc = pc /\ [th[t] EXCEPT !.pc = pc].job = th[t].job
      /\ [th[t] EXCEPT !.pc = pc].st = th[t].st
  BY <1>1 DEF ThreadType
<1>4. LET r == [th[t] EXCEPT !.pc = pc, !.st = st] IN r.pc = pc /\ r.job = th[t].job /\ r.st = st
  BY <1>1 DEF ThreadType
<1>5. LET r == [th[t] EXCEPT !.pc = pc, !.st = st, !.seq = s] IN
        r.pc = pc /\ r.job = th[t].job /\ r.st = st
  BY <1>1 DEF ThreadType
<1>6. ASSUME Rest(t) PROVE Elsewhere(t) /\ th'[t] = Idle
  BY <1>2, <1>6 DEF Rest, Elsewhere
<1>7. ASSUME Goto(t, pc)
      PROVE  Elsewhere(t) /\ th'[t].pc = pc /\ th'[t].job = th[t].job /\ th'[t].st = th[t].st
  BY <1>2, <1>3, <1>7 DEF Goto, Elsewhere
<1>8. ASSUME GotoEnding(t, pc, st)
      PROVE  Elsewhere(t) /\ th'[t].pc = pc /\ th'[t].job = th[t].job /\ th'[t].st = st
  BY <1>2, <1>4, <1>8 DEF GotoEnding, Elsewhere
<1>9. ASSUME GotoSaving(t, pc, st, s)
      PROVE  Elsewhere(t) /\ th'[t].pc = pc /\ th'[t].job = th[t].job /\ th'[t].st = st
  BY <1>2, <1>5, <1>9 DEF GotoSaving, Elsewhere
<1> QED BY <1>6, <1>7, <1>8, <1>9

LEMMA Woken ==
  ASSUME ThreadsOK(th), NEW t \in Threads, NEW r, NEW woken \in SUBSET Waiting, t \notin woken,
         th' = WithWoken([th EXCEPT ![t] = r], woken)
  PROVE  Elsewhere(t) /\ th'[t] = r
BY DEF ThreadsOK, WithWoken, Waiting, At, Elsewhere, Threads

-----------------------------------------------------------------------------
(* A goroutine goes on with its job.                                       *)

LEMMA WorkedOn ==
  ASSUME TInv, OInv, NEW t \in Threads, NEW j, WorksOn(t, j)
  PROVE  OInv'
<1>0. th[t].job = j
  BY DEF WorksOn
<1>1. Coming' \subseteq Coming \cup (IF Brings(th[t]) THEN {j} ELSE {})
  <2>1. \A k \in Jobs : boot.pc = "list" /\ Unfinished(k)' => Unfinished(k) \/ (Brings(th[t]) /\ k = j)
    BY DEF WorksOn, RowsKept
  <2> QED BY <2>1 DEF WorksOn, Coming
<1>2. /\ \A s \in Threads : Own(th'[s]) => Own(th[s]) /\ th'[s].job = th[s].job
      /\ \A s \in Threads : Brings(th'[s]) => Brings(th[s]) /\ th'[s].job = th[s].job
      /\ \A s \in Threads : New(th'[s]) => New(th[s]) /\ th'[s].job = th[s].job
      /\ \A s \in Threads :
           th'[s].pc = "insert" => s # t /\ th[s].pc = "insert" /\ th'[s].job = th[s].job
      /\ \A s \in Threads \ {t} : Own(th[s]) => th'[s] = th[s]
  BY Classes DEF WorksOn, Elsewhere
<1>3. /\ \A s \in Threads : Own(th[s]) => th[s].job \in Jobs
      /\ \A s \in Threads : Brings(th[s]) => th[s].job \in Jobs
  BY InHand, Marks DEF Own, Brings
<1>4. \A k \in Jobs : /\ Live(k)' = Live(k)
                      /\ live[k].ctx = "nil" => live'[k].ctx = "nil"
                      /\ k \in ToSet(queue) => live'[k] = live[k]
                      /\ k # j => live'[k] = live[k]
  BY DEF OInv, OneHand, Live, WorksOn, LiveKept
<1>5. Orderly'
  <2>1. \A k \in ToSet(queue) : k \in Jobs
    BY DEF ToSet, TInv, TypeOK, ManagerTypes
  <2> QED BY <1>4, <2>1 DEF OInv, Orderly, WorksOn
<1>6. OneHand'
  BY <1>2 DEF OInv, OneHand, WorksOn
<1>7. OneBringer'
  <2>1. ASSUME NEW s \in Threads, New(th'[s]) PROVE live'[th'[s].job].ctx = "nil"
    <3>1. New(th[s]) /\ th'[s].job = th[s].job /\ th[s].job \in Jobs
      BY <1>2, <1>3, <2>1, Classes
    <3> QED BY <1>4, <3>1 DEF OInv, OneBringer
  <2>2. ASSUME NEW s \in Threads, th'[s].pc = "insert" PROVE th'[s].job \notin Coming'
    <3>1. th[s].pc = "insert" /\ s # t /\ th'[s].job = th[s].job /\ Brings(th[s])
      BY <1>2, <2>2 DEF Brings, BringingPCs
    <3>2. Brings(th[t]) => th[s].job # j
      BY <1>0, <3>1 DEF OInv, OneBringer
    <3> QED BY <1>1, <3>1, <3>2 DEF OInv, OneBringer
  <2> QED BY <1>2, <2>1, <2>2 DEF OInv, OneBringer
<1>8. DeadInHand'
  <2> SUFFICES ASSUME NEW s \in Threads, Own(th'[s]), live'[th'[s].job].st = "none"
               PROVE  /\ th'[s].job \notin Coming'
                      /\ \A u \in Threads : Brings(th'[u]) => th'[u].job # th'[s].job
    BY DEF DeadInHand, Live
  <2>1. Own(th[s]) /\ th'[s].job = th[s].job /\ th[s].job \in Jobs
    BY <1>2, <1>3
  <2>4. ~Live(th[s].job)
    BY <1>4, <2>1 DEF Live
  <2>2. Brings(th[t]) => th[s].job # j
    BY <1>0, <2>1, <2>4 DEF OInv, DeadInHand
  <2>3. th[s].job \notin Coming /\ \A u \in Threads : Brings(th[u]) => th[u].job # th[s].job
    BY <2>1, <2>4 DEF OInv, DeadInHand
  <2> QED BY <1>1, <1>2, <2>1, <2>2, <2>3
<1>9. Kept'
  <2> SUFFICES ASSUME NEW k \in Jobs, Live(k)', k \notin ToSet(queue)
               PROVE  \E s \in Threads : Own(th'[s]) /\ th'[s].job = k
    BY DEF Kept, WorksOn
  <2>1. PICK s \in Threads : Own(th[s]) /\ th[s].job = k
    BY <1>4 DEF OInv, Kept
  <2>2. CASE s = t
    BY <1>4, <2>1, <2>2, Classes DEF WorksOn
  <2> QED BY <1>2, <2>1, <2>2
<1>10. Unheard'
  <2> SUFFICES ASSUME NEW k \in Jobs, Fresh(k)
               PROVE  /\ live'[k] = NotLive /\ row'[k].st = "none" /\ k \notin Coming'
                      /\ \A s \in Threads : th'[s].job # k
    BY DEF Unheard, Fresh, WorksOn
  <2>1. live[k] = NotLive /\ row[k].st = "none" /\ k \notin Coming /\ \A s \in Threads : th[s].job # k
    BY DEF OInv, Unheard
  <2>2. Idle.job # k
    BY ImportQueueAssumption DEF ImportQueueAssumption, Idle
  <2>3. live'[k] = NotLive /\ row'[k].st = "none"
    BY <1>4, <2>1 DEF WorksOn, RowsKept
  <2>4. k \notin Coming'
    BY <1>0, <1>1, <2>1
  <2>5. \A s \in Threads : th'[s].job # k
    BY <2>1, <2>2 DEF WorksOn, Elsewhere
  <2> QED BY <2>3, <2>4, <2>5
<1>11. Endings'
  <2>1. Idle.pc \notin EndingPCs
    BY DEF Idle, EndingPCs
  <2> QED BY <2>1 DEF OInv, Endings, WorksOn, Elsewhere
<1>12. RecoversAlone'
  <2> SUFFICES ASSUME boot.pc \in Early, NEW w \in Workers PROVE th'[w].pc = "idle"
    BY DEF RecoversAlone, WorksOn
  <2>1. th[w].pc = "idle" /\ w \in Threads
    BY DEF OInv, RecoversAlone, Threads
  <2> QED BY <2>1, Classes DEF WorksOn, Elsewhere
<1> QED BY <1>5, <1>6, <1>7, <1>8, <1>9, <1>10, <1>11, <1>12 DEF OInv

-----------------------------------------------------------------------------
(* A goroutine gives its job up.                                           *)

LEMMA InQueue ==
  ASSUME TInv
  PROVE  /\ queue \in Seq(Jobs) /\ ToSet(queue) \subseteq Jobs
         /\ \A j : j \in ToSet(queue) <=> PlacesOf(j) # {}
<1>1. queue \in Seq(Jobs)
  BY DEF TInv, TypeOK, ManagerTypes
<1> QED BY <1>1 DEF ToSet, PlacesOf

LEMMA LetGo ==
  ASSUME TInv, OInv, NEW t \in Threads, NEW j, LetsGo(t, j)
  PROVE  OInv'
<1>0. j \in Jobs /\ th[t].job = j /\ live \in [Jobs -> LiveType]
  BY InHand, Marks DEF LetsGo, Own, JobPCs, ManagerTypes
<1>1. Distinct(queue') /\ ToSet(queue') = ToSet(queue) \ {j}
  <2>1. CASE queue' = queue /\ PlacesOf(j) = {}
    BY <2>1, InQueue DEF OInv, Orderly
  <2>2. CASE \E i \in PlacesOf(j) : queue' = RemoveAt(queue, i)
    <3>1. PICK i \in PlacesOf(j) : queue' = RemoveAt(queue, i)
      BY <2>2
    <3>2. i \in DOMAIN queue /\ queue[i] = j
      BY <3>1 DEF PlacesOf
    <3> QED BY <3>1, <3>2, InQueue, Spliced DEF OInv, Orderly
  <2> QED BY <2>1, <2>2 DEF LetsGo
<1>2. live'[j] = NotLive /\ \A k \in Jobs \ {j} : live'[k] = live[k]
  BY <1>0 DEF LetsGo, Dropped
<1>3. /\ \A s \in Threads : Own(th'[s]) => s # t /\ Own(th[s]) /\ th'[s].job = th[s].job
      /\ \A s \in Threads : Brings(th'[s]) => s # t /\ Brings(th[s]) /\ th'[s].job = th[s].job
      /\ \A s \in Threads : New(th'[s]) => New(th[s]) /\ th'[s].job = th[s].job /\ s # t
      /\ \A s \in Threads : th'[s].pc = "insert" => th[s].pc = "insert" /\ th'[s].job = th[s].job
      /\ \A s \in Threads \ {t} : Own(th[s]) => th'[s] = th[s]
  <2>1. ~New(th'[t]) /\ th'[t].pc # "insert"
    BY Classes DEF LetsGo, Brings, BringingPCs
  <2> QED BY <2>1, Classes DEF LetsGo, Elsewhere
<1>4. /\ \A s \in Threads : Own(th[s]) => th[s].job \in Jobs
      /\ \A s \in Threads : Brings(th[s]) => th[s].job \in Jobs
  BY InHand, Marks DEF Own, Brings
<1>5. Coming' = Coming
  BY DEF LetsGo, Coming, Unfinished
<1>6. Orderly'
  BY <1>1, <1>2, InQueue DEF OInv, Orderly
<1>7. OneHand'
  BY <1>1, <1>3 DEF OInv, OneHand
<1>8. OneBringer'
  <2>1. ASSUME NEW s \in Threads, New(th'[s]) PROVE live'[th'[s].job].ctx = "nil"
    <3>1. New(th[s]) /\ th'[s].job = th[s].job /\ th[s].job \in Jobs
      BY <1>3, <1>4, <2>1, Classes
    <3> QED BY <1>2, <3>1 DEF OInv, OneBringer, NotLive
  <2> QED BY <1>3, <1>5, <2>1 DEF OInv, OneBringer
<1>9. DeadInHand'
  <2> SUFFICES ASSUME NEW s \in Threads, Own(th'[s]), live'[th'[s].job].st = "none"
               PROVE  /\ th'[s].job \notin Coming
                      /\ \A u \in Threads : Brings(th'[u]) => th'[u].job # th'[s].job
    BY <1>5 DEF DeadInHand, Live
  <2>1. s # t /\ Own(th[s]) /\ th'[s].job = th[s].job /\ th[s].job \in Jobs
    BY <1>3, <1>4
  <2>2. CASE th[s].job # j
    <3>1. ~Live(th[s].job)
      BY <1>2, <2>1, <2>2 DEF Live
    <3> QED BY <1>3, <2>1, <3>1 DEF OInv, DeadInHand
  <2>3. CASE th[s].job = j
    <3>1. th[t].pc = "insert" /\ Brings(th[t])
      BY <2>1, <2>3 DEF OInv, OneHand, LetsGo, Brings, BringingPCs
    <3>2. j \notin Coming /\ \A u \in Threads \ {t} : Brings(th[u]) => th[u].job # j
      BY <1>0, <3>1 DEF OInv, OneBringer
    <3> QED BY <1>3, <2>1, <2>3, <3>2
  <2> QED BY <2>2, <2>3
<1>10. Kept'
  <2> SUFFICES ASSUME NEW k \in Jobs, Live(k)', k \notin ToSet(queue')
               PROVE  \E s \in Threads : Own(th'[s]) /\ th'[s].job = k
    BY DEF Kept
  <2>1. k # j /\ Live(k) /\ k \notin ToSet(queue)
    BY <1>1, <1>2 DEF Live, NotLive
  <2>2. PICK s \in Threads : Own(th[s]) /\ th[s].job = k
    BY <2>1 DEF OInv, Kept
  <2> QED BY <1>0, <1>3, <2>1, <2>2
<1>11. Unheard'
  <2> SUFFICES ASSUME NEW k \in Jobs, Fresh(k)
               PROVE  /\ live'[k] = NotLive /\ row'[k].st = "none" /\ k \notin Coming'
                      /\ \A s \in Threads : th'[s].job # k
    BY DEF Unheard, Fresh, LetsGo
  <2>1. live[k] = NotLive /\ row[k].st = "none" /\ k \notin Coming /\ \A s \in Threads : th[s].job # k
    BY DEF OInv, Unheard
  <2>2. Idle.job # k
    BY ImportQueueAssumption DEF ImportQueueAssumption, Idle
  <2>3. \A s \in Threads : th'[s].job # k
    BY <2>1, <2>2 DEF LetsGo, Elsewhere
  <2>4. row' = row
    BY DEF LetsGo
  <2> QED BY <1>2, <1>5, <2>1, <2>3, <2>4
<1>12. Endings' /\ RecoversAlone'
  <2>1. Idle.pc \notin EndingPCs /\ \A pc \in EndingPCs : pc \in OwningPCs
    BY DEF Idle, EndingPCs, OwningPCs
  <2>2. Endings'
    BY <1>3, <2>1 DEF OInv, Endings, Own
  <2>3. RecoversAlone'
    <3> SUFFICES ASSUME boot.pc \in Early, NEW w \in Workers PROVE th'[w].pc = "idle"
      BY DEF RecoversAlone, LetsGo
    <3>1. th[w].pc = "idle" /\ w \in Threads
      BY DEF OInv, RecoversAlone, Threads
    <3>2. w # t
      BY <3>1, Marks DEF LetsGo, Own
    <3> QED BY <3>1, <3>2, Classes DEF LetsGo, Elsewhere
  <2> QED BY <2>2, <2>3
<1> QED BY <1>6, <1>7, <1>8, <1>9, <1>10, <1>11, <1>12 DEF OInv
-----------------------------------------------------------------------------
(* Nobody's job changes hands.                                             *)

LEMMA Passed ==
  ASSUME TInv, OInv, Passes
  PROVE  OInv'
<1>1. /\ \A s \in Threads : Own(th'[s]) \/ Brings(th'[s]) \/ New(th'[s]) \/ th'[s].pc = "insert"
                            \/ th'[s].pc \in EndingPCs => th'[s] = th[s]
      /\ \A s \in Threads : Own(th[s]) => th'[s] = th[s]
      /\ Idle.job = NoJob
  BY Classes DEF Passes, Idle, EndingPCs
<1>2. Orderly' /\ OneHand' /\ Kept'
  BY <1>1 DEF Passes, OInv, Orderly, OneHand, Kept, Live
<1>3. OneBringer'
  BY <1>1 DEF Passes, OInv, OneBringer
<1>4. DeadInHand'
  <2> SUFFICES ASSUME NEW s \in Threads, Own(th'[s]), live'[th'[s].job].st = "none"
               PROVE  /\ th'[s].job \notin Coming'
                      /\ \A u \in Threads : Brings(th'[u]) => th'[u].job # th'[s].job
    BY DEF DeadInHand, Live
  <2>1. th'[s] = th[s] /\ ~Live(th[s].job)
    BY <1>1 DEF Passes, Live
  <2>2. th[s].job \notin Coming /\ \A u \in Threads : Brings(th[u]) => th[u].job # th[s].job
    BY <2>1 DEF OInv, DeadInHand
  <2> QED BY <1>1, <2>1, <2>2 DEF Passes
<1>5. Unheard'
  <2> SUFFICES ASSUME NEW k \in Jobs, Fresh(k)
               PROVE  /\ live'[k] = NotLive /\ row'[k].st = "none" /\ k \notin Coming'
                      /\ \A s \in Threads : th'[s].job # k
    BY DEF Unheard, Fresh, Passes
  <2>1. live[k] = NotLive /\ row[k].st = "none" /\ k \notin Coming /\ \A s \in Threads : th[s].job # k
    BY DEF OInv, Unheard
  <2>2. NoJob # k
    BY ImportQueueAssumption DEF ImportQueueAssumption
  <2> QED BY <1>1, <2>1, <2>2 DEF Passes
<1>6. Endings'
  BY <1>1 DEF OInv, Endings
<1>7. RecoversAlone'
  <2> SUFFICES ASSUME boot'.pc \in Early, NEW w \in Workers PROVE th'[w].pc = "idle"
    BY DEF RecoversAlone
  <2>1. th[w].pc = "idle" /\ w \in Threads
    BY DEF OInv, RecoversAlone, Threads, Passes
  <2> QED BY <2>1, Classes DEF Passes
<1> QED BY <1>2, <1>3, <1>4, <1>5, <1>6, <1>7 DEF OInv

-----------------------------------------------------------------------------
(* A new job.                                                              *)

\* A job nobody has heard of.
LEMMA NewToAll ==
  ASSUME TInv, OInv, NEW j \in Jobs, Fresh(j)
  PROVE  /\ live[j] = NotLive /\ ~Live(j) /\ row[j].st = "none" /\ j \notin Coming
         /\ j \notin ToSet(queue) /\ \A s \in Threads : th[s].job # j
<1>1. live[j] = NotLive /\ row[j].st = "none" /\ j \notin Coming /\ \A s \in Threads : th[s].job # j
  BY DEF OInv, Unheard
<1>2. j \notin ToSet(queue)
  BY <1>1 DEF OInv, Orderly, NotLive
<1> QED BY <1>1, <1>2 DEF Live, NotLive

\* The goroutine c takes job j on, and nobody else moves but to wake.
TakesOn(c, j, pc) ==
  /\ Elsewhere(c) /\ th'[c].pc = pc /\ th'[c].job = j

LEMMA Starting ==
  ASSUME ThreadsOK(th), NEW c \in Threads, NEW j, NEW pc, NEW st, NEW s
  PROVE  /\ th' = [th EXCEPT ![c] = [@ EXCEPT !.pc = pc, !.job = j]] => TakesOn(c, j, pc)
         /\ th' = [th EXCEPT ![c] = [@ EXCEPT !.pc = pc, !.job = j, !.st = st]]
              => TakesOn(c, j, pc) /\ th'[c].st = st
         /\ th' = [th EXCEPT ![c] = [@ EXCEPT !.pc = pc, !.job = j, !.st = st, !.seq = s]]
              => TakesOn(c, j, pc) /\ th'[c].st = st
<1>1. th[c] \in ThreadType
  BY DEF ThreadsOK, ThreadOK
<1>2. ASSUME NEW r PROVE LET f == [th EXCEPT ![c] = r] IN f[c] = r /\ \A u \in Threads \ {c} : f[u] = th[u]
  BY DEF ThreadsOK
<1>3. LET r == [th[c] EXCEPT !.pc = pc, !.job = j] IN r.pc = pc /\ r.job = j
  BY <1>1 DEF ThreadType
<1>4. LET r == [th[c] EXCEPT !.pc = pc, !.job = j, !.st = st] IN r.pc = pc /\ r.job = j /\ r.st = st
  BY <1>1 DEF ThreadType
<1>5. LET r == [th[c] EXCEPT !.pc = pc, !.job = j, !.st = st, !.seq = s] IN
        r.pc = pc /\ r.job = j /\ r.st = st
  BY <1>1 DEF ThreadType
<1>6. ASSUME th' = [th EXCEPT ![c] = [@ EXCEPT !.pc = pc, !.job = j]] PROVE TakesOn(c, j, pc)
  BY <1>2, <1>3, <1>6 DEF TakesOn, Elsewhere
<1>7. ASSUME th' = [th EXCEPT ![c] = [@ EXCEPT !.pc = pc, !.job = j, !.st = st]]
      PROVE  TakesOn(c, j, pc) /\ th'[c].st = st
  BY <1>2, <1>4, <1>7 DEF TakesOn, Elsewhere
<1>8. ASSUME th' = [th EXCEPT ![c] = [@ EXCEPT !.pc = pc, !.job = j, !.st = st, !.seq = s]]
      PROVE  TakesOn(c, j, pc) /\ th'[c].st = st
  BY <1>2, <1>5, <1>8 DEF TakesOn, Elsewhere
<1> QED BY <1>6, <1>7, <1>8

LEMMA Begun ==
  ASSUME TInv, OInv, NEW c \in Clients, NEW u \in Users, NEW j \in Jobs, Begin(c, u, j)
  PROVE  OInv'
<1>0. c \in Threads /\ TakesOn(c, j, "begin")
  BY InHand, Starting DEF Begin, Threads
<1>1. /\ live[j] = NotLive /\ ~Live(j) /\ row[j].st = "none" /\ j \notin Coming
      /\ j \notin ToSet(queue) /\ \A s \in Threads : th[s].job # j
  BY NewToAll DEF Begin
<1>2. /\ Live(j)' /\ live'[j].ctx = "nil" /\ \A k \in Jobs \ {j} : live'[k] = live[k]
  BY <1>1 DEF Begin, Live, AtStage, TInv, TypeOK, ManagerTypes, LiveType, NotLive
<1>3. Coming' = Coming
  BY DEF Begin, Coming, Unfinished, durable, process
<1>4. /\ Own(th'[c]) /\ Brings(th'[c]) /\ New(th'[c]) /\ th'[c].pc \notin {"insert", "idle"} \cup EndingPCs
      /\ th'[c].job = j /\ ~Own(th[c]) /\ ~Brings(th[c])
  BY <1>0 DEF Begin, At, TakesOn, Own, Brings, New, OwningPCs, BringingPCs, EndingPCs
<1>5. /\ \A s \in Threads \ {c} : Own(th'[s]) \/ Brings(th'[s]) \/ New(th'[s]) \/ th'[s].pc = "insert"
                                  \/ th'[s].pc \in EndingPCs => th'[s] = th[s]
      /\ \A s \in Threads \ {c} : Own(th[s]) => th'[s] = th[s]
  BY <1>0, Classes DEF TakesOn, Elsewhere, Idle, EndingPCs
<1>6. /\ \A s \in Threads : Own(th[s]) => th[s].job \in Jobs
  BY InHand, Marks DEF Own
<1>7. queue' = queue /\ boot' = boot /\ row' = row
  BY DEF Begin, process, durable
<1>8. Orderly'
  BY <1>1, <1>2, <1>7, InQueue DEF OInv, Orderly
<1>9. OneHand'
  BY <1>1, <1>4, <1>5, <1>7 DEF OInv, OneHand
<1>10. OneBringer'
  <2>1. ASSUME NEW s \in Threads, New(th'[s]) PROVE live'[th'[s].job].ctx = "nil"
    <3>1. CASE s = c
      BY <1>2, <1>4, <3>1
    <3>2. CASE s # c
      <4>1. New(th[s]) /\ th'[s] = th[s] /\ th[s].job \in Jobs \ {j}
        BY <1>1, <1>5, <1>6, <2>1, <3>2, Classes
      <4> QED BY <1>2, <4>1 DEF OInv, OneBringer
    <3> QED BY <3>1, <3>2
  <2> QED BY <1>1, <1>3, <1>4, <1>5, <2>1 DEF OInv, OneBringer
<1>11. DeadInHand'
  <2> SUFFICES ASSUME NEW s \in Threads, Own(th'[s]), live'[th'[s].job].st = "none"
               PROVE  /\ th'[s].job \notin Coming
                      /\ \A t \in Threads : Brings(th'[t]) => th'[t].job # th'[s].job
    BY <1>3 DEF DeadInHand, Live
  <2>1. s # c
    BY <1>2, <1>4 DEF Live
  <2>2. th'[s] = th[s] /\ Own(th[s]) /\ th[s].job \in Jobs \ {j}
    BY <1>1, <1>5, <1>6, <2>1
  <2>3. ~Live(th[s].job)
    BY <1>2, <2>2 DEF Live
  <2>4. th[s].job \notin Coming /\ \A t \in Threads : Brings(th[t]) => th[t].job # th[s].job
    BY <2>2, <2>3 DEF OInv, DeadInHand
  <2> QED BY <1>4, <1>5, <2>2, <2>4
<1>12. Kept'
  <2> SUFFICES ASSUME NEW k \in Jobs, Live(k)', k \notin ToSet(queue)
               PROVE  \E s \in Threads : Own(th'[s]) /\ th'[s].job = k
    BY <1>7 DEF Kept
  <2>1. CASE k = j
    BY <1>0, <1>4, <2>1
  <2>2. CASE k # j
    <3>1. PICK s \in Threads : Own(th[s]) /\ th[s].job = k
      BY <1>2, <2>2 DEF OInv, Kept, Live
    <3> QED BY <1>4, <1>5, <3>1
  <2> QED BY <2>1, <2>2
<1>13. Unheard'
  <2> SUFFICES ASSUME NEW k \in Jobs, origin'[k] = None
               PROVE  /\ live'[k] = NotLive /\ row[k].st = "none" /\ k \notin Coming
                      /\ \A s \in Threads : th'[s].job # k
    BY <1>3, <1>7 DEF Unheard, Fresh
  <2>1. k # j /\ Fresh(k)
    BY ImportQueueAssumption DEF ImportQueueAssumption, Begin, Fresh, TInv, TypeOK, HistoryTypes
  <2>2. live[k] = NotLive /\ row[k].st = "none" /\ k \notin Coming /\ \A s \in Threads : th[s].job # k
    BY <2>1, NewToAll
  <2>3. NoJob # k
    BY ImportQueueAssumption DEF ImportQueueAssumption
  <2> QED BY <1>0, <1>2, <2>1, <2>2, <2>3 DEF TakesOn, Elsewhere, Idle
<1>14. Endings'
  BY <1>4, <1>5 DEF OInv, Endings
<1>15. RecoversAlone'
  <2> SUFFICES ASSUME boot.pc \in Early, NEW w \in Workers PROVE th'[w].pc = "idle"
    BY <1>7 DEF RecoversAlone
  <2>1. th[w].pc = "idle" /\ w \in Threads /\ w # c
    BY ImportQueueAssumption DEF OInv, RecoversAlone, Threads, ImportQueueAssumption
  <2> QED BY <1>0, <2>1, Classes DEF TakesOn, Elsewhere
<1> QED BY <1>8, <1>9, <1>10, <1>11, <1>12, <1>13, <1>14, <1>15 DEF OInv
-----------------------------------------------------------------------------
(* To the end of the line.                                                 *)

\* No goroutine has j in hand, one that had it has let it go, j is at the end
\* of the line and the others are where they were.
JoinsLine(t, j) ==
  /\ Elsewhere(t) /\ ~Own(th'[t]) /\ th'[t].job = j
  /\ th'[t].pc \in {"insert", "setInput"} /\ (th'[t].pc = "setInput" => Brings(th[t]))
  /\ th[t].pc \in {"idle", "upload"}
  /\ queue' = Append(queue, j) /\ boot' = boot /\ row' = row
  /\ live'[j].st = "queued" /\ live'[j].ctx = "nil" /\ \A k \in Jobs \ {j} : live'[k] = live[k]
  /\ \A k \in Jobs \ {j} : Fresh(k)' => Fresh(k)
  /\ ~Fresh(j)'

LEMMA Joined ==
  ASSUME TInv, OInv, NEW t \in Clients, NEW j \in Jobs, JoinsLine(t, j),
         th[t].pc = "upload" => th[t].job = j,
         th[t].pc # "upload" => \A s \in Threads : th[s].job # j,
         j \notin ToSet(queue), th'[t].pc = "insert" => j \notin Coming
  PROVE  OInv'
<1>0. t \in Threads /\ queue \in Seq(Jobs)
  BY InQueue DEF Threads
<1>1. Distinct(queue') /\ ToSet(queue') = ToSet(queue) \cup {j}
  BY <1>0, Appended DEF JoinsLine, OInv, Orderly
<1>2. Coming' = Coming
  BY DEF JoinsLine, Coming, Unfinished
<1>3. /\ \A s \in Threads : Own(th'[s]) => s # t /\ th'[s] = th[s] /\ Own(th[s])
      /\ \A s \in Threads \ {t} : Own(th[s]) => th'[s] = th[s]
      /\ \A s \in Threads \ {t} : Brings(th'[s]) => th'[s] = th[s]
      /\ \A s \in Threads : New(th'[s]) => s # t /\ th'[s] = th[s] /\ New(th[s])
      /\ \A s \in Threads \ {t} : th'[s].pc = "insert" => th'[s] = th[s]
      /\ \A s \in Threads : th'[s].pc \in EndingPCs => th'[s] = th[s]
  <2>1. ~New(th'[t]) /\ th'[t].pc \notin EndingPCs
    BY Classes DEF JoinsLine, EndingPCs
  <2> QED BY <2>1, Classes DEF JoinsLine, Elsewhere, Idle, EndingPCs
<1>4. \A s \in Threads : Own(th[s]) => th[s].job \in Jobs
  BY InHand, Marks DEF Own
<1>5. \A s \in Threads \ {t} : Own(th[s]) \/ Brings(th[s]) => th[s].job # j
  <2>1. CASE th[t].pc = "upload"
    <3>1. Own(th[t]) /\ Brings(th[t]) /\ th[t].job = j
      BY <2>1 DEF Own, Brings, OwningPCs, BringingPCs
    <3> QED BY <1>0, <3>1 DEF OInv, OneHand, OneBringer
  <2> QED BY <2>1
<1>6. Orderly'
  BY <1>1, InQueue DEF JoinsLine, OInv, Orderly
<1>7. OneHand'
  BY <1>0, <1>1, <1>3, <1>5 DEF OInv, OneHand
<1>8. OneBringer'
  <2>1. ASSUME NEW s \in Threads, New(th'[s]) PROVE live'[th'[s].job].ctx = "nil"
    <3>1. New(th[s]) /\ th'[s] = th[s] /\ th[s].job \in Jobs \ {j}
      BY <1>3, <1>4, <1>5, <2>1, Classes
    <3> QED BY <3>1 DEF OInv, OneBringer, JoinsLine
  <2>2. \A s, u \in Threads : Brings(th'[s]) /\ Brings(th'[u]) /\ th'[s].job = th'[u].job => s = u
    BY <1>3, <1>5 DEF OInv, OneBringer, JoinsLine
  <2>3. \A s \in Threads : th'[s].pc = "insert" => th'[s].job \notin Coming
    BY <1>3 DEF OInv, OneBringer, JoinsLine
  <2> QED BY <1>2, <2>1, <2>2, <2>3 DEF OneBringer
<1>9. DeadInHand'
  <2> SUFFICES ASSUME NEW s \in Threads, Own(th'[s]), live'[th'[s].job].st = "none"
               PROVE  /\ th'[s].job \notin Coming
                      /\ \A u \in Threads : Brings(th'[u]) => th'[u].job # th'[s].job
    BY <1>2 DEF DeadInHand, Live
  <2>1. s # t /\ th'[s] = th[s] /\ Own(th[s]) /\ th[s].job \in Jobs \ {j}
    BY <1>3, <1>4, <1>5
  <2>2. ~Live(th[s].job)
    BY <2>1 DEF Live, JoinsLine
  <2>3. th[s].job \notin Coming /\ \A u \in Threads : Brings(th[u]) => th[u].job # th[s].job
    BY <2>1, <2>2 DEF OInv, DeadInHand
  <2>4. th'[t].job = j
    BY DEF JoinsLine
  <2> QED BY <1>3, <2>1, <2>3, <2>4
<1>10. Kept'
  <2> SUFFICES ASSUME NEW k \in Jobs, Live(k)', k \notin ToSet(queue')
               PROVE  \E s \in Threads : Own(th'[s]) /\ th'[s].job = k
    BY DEF Kept
  <2>1. k # j /\ Live(k) /\ k \notin ToSet(queue)
    BY <1>1 DEF Live, JoinsLine
  <2>2. PICK s \in Threads : Own(th[s]) /\ th[s].job = k
    BY <2>1 DEF OInv, Kept
  <2>3. s # t
    BY <2>1, <2>2, Classes DEF JoinsLine
  <2> QED BY <1>3, <2>2, <2>3
<1>11. Unheard'
  <2> SUFFICES ASSUME NEW k \in Jobs, Fresh(k)'
               PROVE  /\ live'[k] = NotLive /\ row[k].st = "none" /\ k \notin Coming
                      /\ \A s \in Threads : th'[s].job # k
    BY <1>2 DEF Unheard, JoinsLine
  <2>1. k # j /\ Fresh(k)
    BY DEF JoinsLine
  <2>2. live[k] = NotLive /\ row[k].st = "none" /\ k \notin Coming /\ \A s \in Threads : th[s].job # k
    BY <2>1, NewToAll
  <2>3. NoJob # k
    BY ImportQueueAssumption DEF ImportQueueAssumption
  <2> QED BY <2>1, <2>2, <2>3 DEF JoinsLine, Elsewhere, Idle
<1>12. Endings'
  BY <1>3 DEF OInv, Endings
<1>13. RecoversAlone'
  <2> SUFFICES ASSUME boot.pc \in Early, NEW w \in Workers PROVE th'[w].pc = "idle"
    BY DEF RecoversAlone, JoinsLine
  <2>1. th[w].pc = "idle" /\ w \in Threads /\ w # t
    BY ImportQueueAssumption DEF OInv, RecoversAlone, Threads, ImportQueueAssumption
  <2> QED BY <2>1, Classes DEF JoinsLine, Elsewhere
<1> QED BY <1>6, <1>7, <1>8, <1>9, <1>10, <1>11, <1>12, <1>13 DEF OInv

LEMMA Signals == \A woken \in Signalled : woken \in SUBSET Waiting
BY DEF Signalled

LEMMA UploadQueued ==
  ASSUME TInv, OInv, NEW c \in Clients, EnqueueUploaded(c)
  PROVE  /\ OInv'
         /\ \E j \in Jobs :
              th[c].job = j /\ JoinsLine(c, j) /\ Own(th[c]) /\ j \notin ToSet(queue)
         /\ th'[c].pc = "setInput"
<1>1. c \in Threads /\ th[c].pc = "upload" /\ Own(th[c]) /\ Brings(th[c]) /\ New(th[c])
  BY DEF Threads, EnqueueUploaded, At, Own, Brings, New, OwningPCs, BringingPCs
<1>12. th[c].job \in Jobs /\ ThreadsOK(th) /\ live \in [Jobs -> LiveType] /\ th[c] \in ThreadType
  BY <1>1, InHand DEF JobPCs, ManagerTypes, ThreadOK
<1>2. PICK j \in Jobs : j = th[c].job
  BY <1>12
<1> DEFINE r == [th[c] EXCEPT !.pc = "setInput", !.st = "queued", !.seq = seq]
<1>3. PICK woken \in Signalled : th' = WithWoken([th EXCEPT ![c] = r], woken)
  BY DEF EnqueueUploaded
<1>10. r.pc = "setInput" /\ r.job = j
  BY <1>2, <1>12 DEF ThreadType
<1> HIDE DEF r
<1>11. woken \in SUBSET Waiting /\ c \notin woken
  BY <1>1, Signals DEF Waiting, At
<1>4. Elsewhere(c) /\ th'[c] = r
  BY <1>1, <1>3, <1>11, <1>12, Woken
<1>5. th'[c].pc = "setInput" /\ th'[c].job = j /\ ~Own(th'[c])
  BY <1>4, <1>10 DEF Own, OwningPCs
<1>6. live[j].ctx = "nil" /\ j \notin ToSet(queue)
  BY <1>1, <1>2 DEF OInv, OneHand, OneBringer
<1>7. /\ live'[j].st = "queued" /\ live'[j].ctx = "nil" /\ \A k \in Jobs \ {j} : live'[k] = live[k]
  BY <1>2, <1>6, <1>12 DEF EnqueueUploaded, LiveType
<1>8. ~Fresh(j) /\ origin' = origin
  BY <1>1, <1>2 DEF OInv, Unheard, EnqueueUploaded, history
<1>9. JoinsLine(c, j)
  BY <1>1, <1>2, <1>4, <1>5, <1>7, <1>8 DEF JoinsLine, EnqueueUploaded, Fresh, durable, process
<1> QED BY <1>1, <1>2, <1>5, <1>6, <1>9, Joined

LEMMA LibraryQueued ==
  ASSUME TInv, OInv, NEW c \in Clients, NEW f \in Files, NEW j \in Jobs,
         EnqueueLibraryConvert(c, f, j)
  PROVE  /\ OInv' /\ JoinsLine(c, j) /\ ~Own(th[c]) /\ th'[c].pc = "insert"
         /\ j \notin ToSet(queue) /\ \A s \in Threads : th[s].job # j
<1>1. c \in Threads /\ th[c].pc = "idle"
  BY DEF Threads, EnqueueLibraryConvert, At
<1>2. ThreadsOK(th) /\ live \in [Jobs -> LiveType] /\ th[c] \in ThreadType
  BY <1>1, InHand DEF ManagerTypes, ThreadOK
<1> DEFINE r == [th[c] EXCEPT !.pc = "insert", !.job = j, !.st = "queued", !.seq = seq]
<1>3. PICK woken \in Signalled : th' = WithWoken([th EXCEPT ![c] = r], woken)
  BY DEF EnqueueLibraryConvert
<1>10. r.pc = "insert" /\ r.job = j
  BY <1>2 DEF ThreadType
<1> HIDE DEF r
<1>11. woken \in SUBSET Waiting /\ c \notin woken
  BY <1>1, Signals DEF Waiting, At
<1>4. Elsewhere(c) /\ th'[c] = r
  BY <1>1, <1>2, <1>3, <1>11, Woken
<1>5. th'[c].pc = "insert" /\ th'[c].job = j /\ ~Own(th'[c])
  BY <1>4, <1>10 DEF Own, OwningPCs
<1>6. /\ live[j] = NotLive /\ j \notin Coming
      /\ j \notin ToSet(queue) /\ \A s \in Threads : th[s].job # j
  BY NewToAll DEF EnqueueLibraryConvert
<1>7. /\ live'[j].st = "queued" /\ live'[j].ctx = "nil" /\ \A k \in Jobs \ {j} : live'[k] = live[k]
  BY <1>2, <1>6 DEF EnqueueLibraryConvert, LiveType, NotLive
<1>8. ~Fresh(j)' /\ \A k \in Jobs \ {j} : Fresh(k)' => Fresh(k)
  BY ImportQueueAssumption
     DEF ImportQueueAssumption, EnqueueLibraryConvert, Fresh, TInv, TypeOK, HistoryTypes
<1>9. JoinsLine(c, j)
  BY <1>1, <1>4, <1>5, <1>7, <1>8 DEF JoinsLine, EnqueueLibraryConvert, durable, process
<1> QED BY <1>1, <1>5, <1>6, <1>9, Joined, Classes

-----------------------------------------------------------------------------
(* Out of the line.                                                        *)

\* t takes j out of the line, by its live job and in a stage of its own.
LeavesLine(t, j) ==
  /\ Elsewhere(t) /\ Own(th'[t]) /\ ~Brings(th'[t]) /\ th'[t].job = j /\ th[t].pc = "idle"
  /\ th'[t].pc \in EndingPCs => th'[t].st \in Terminal
  /\ t \in Workers => boot.pc \notin Early
  /\ j \in ToSet(queue) /\ Distinct(queue') /\ ToSet(queue') = ToSet(queue) \ {j}
  /\ Live(j)' /\ \A k \in Jobs \ {j} : live'[k] = live[k]
  /\ UNCHANGED <<boot, row, origin>>

LEMMA Left ==
  ASSUME TInv, OInv, NEW t \in Threads, NEW j \in Jobs, LeavesLine(t, j)
  PROVE  OInv'
<1>1. Coming' = Coming
  BY DEF LeavesLine, Coming, Unfinished
<1>2. /\ \A s \in Threads \ {t} : Own(th'[s]) \/ Brings(th'[s]) \/ New(th'[s]) \/ th'[s].pc = "insert"
                                  \/ th'[s].pc \in EndingPCs => th'[s] = th[s]
      /\ \A s \in Threads : Own(th[s]) => s # t /\ th'[s] = th[s]
      /\ ~Brings(th'[t]) /\ ~New(th'[t]) /\ th'[t].pc # "insert" /\ Own(th'[t]) /\ th'[t].job = j
  BY Classes DEF LeavesLine, Elsewhere, Idle, EndingPCs, Brings, BringingPCs
<1>3. \A s \in Threads : Own(th[s]) => th[s].job \in Jobs \ {j}
  BY InHand, Marks DEF Own, OInv, OneHand, LeavesLine
<1>4. Live(j)
  BY DEF LeavesLine, OInv, Orderly, Live
<1>5. Orderly'
  BY InQueue DEF LeavesLine, OInv, Orderly
<1>6. OneHand'
  BY <1>2, <1>3 DEF LeavesLine, OInv, OneHand
<1>7. OneBringer'
  <2>1. ASSUME NEW s \in Threads, New(th'[s]) PROVE live'[th'[s].job].ctx = "nil"
    <3>1. New(th[s]) /\ th'[s] = th[s] /\ th[s].job \in Jobs \ {j}
      BY <1>2, <1>3, <2>1, Classes
    <3> QED BY <3>1 DEF OInv, OneBringer, LeavesLine
  <2> QED BY <1>1, <1>2, <2>1 DEF OInv, OneBringer
<1>8. DeadInHand'
  <2> SUFFICES ASSUME NEW s \in Threads, Own(th'[s]), live'[th'[s].job].st = "none"
               PROVE  /\ th'[s].job \notin Coming
                      /\ \A u \in Threads : Brings(th'[u]) => th'[u].job # th'[s].job
    BY <1>1 DEF DeadInHand, Live
  <2>1. s # t
    BY <1>2 DEF LeavesLine, Live
  <2>2. th'[s] = th[s] /\ Own(th[s]) /\ th[s].job \in Jobs \ {j}
    BY <1>2, <1>3, <2>1
  <2>3. ~Live(th[s].job)
    BY <2>2 DEF Live, LeavesLine
  <2>4. th[s].job \notin Coming /\ \A u \in Threads : Brings(th[u]) => th[u].job # th[s].job
    BY <2>2, <2>3 DEF OInv, DeadInHand
  <2> QED BY <1>2, <2>2, <2>4
<1>9. Kept'
  <2> SUFFICES ASSUME NEW k \in Jobs, Live(k)', k \notin ToSet(queue')
               PROVE  \E s \in Threads : Own(th'[s]) /\ th'[s].job = k
    BY DEF Kept
  <2>1. CASE k = j
    BY <1>2, <2>1
  <2>2. CASE k # j
    <3>1. Live(k) /\ k \notin ToSet(queue)
      BY <2>2 DEF LeavesLine, Live
    <3>2. PICK s \in Threads : Own(th[s]) /\ th[s].job = k
      BY <3>1 DEF OInv, Kept
    <3> QED BY <1>2, <3>2
  <2> QED BY <2>1, <2>2
<1>10. Unheard'
  <2> SUFFICES ASSUME NEW k \in Jobs, Fresh(k)
               PROVE  /\ live'[k] = NotLive /\ row[k].st = "none" /\ k \notin Coming
                      /\ \A s \in Threads : th'[s].job # k
    BY <1>1 DEF Unheard, Fresh, LeavesLine
  <2>2. live[k] = NotLive /\ row[k].st = "none" /\ k \notin Coming /\ \A s \in Threads : th[s].job # k
    BY NewToAll
  <2>1. k # j
    BY <1>4, <2>2 DEF Live, NotLive
  <2>3. NoJob # k
    BY ImportQueueAssumption DEF ImportQueueAssumption
  <2> QED BY <1>2, <2>1, <2>2, <2>3 DEF LeavesLine, Elsewhere, Idle
<1>11. Endings'
  BY <1>2 DEF OInv, Endings, LeavesLine
<1>12. RecoversAlone'
  <2> SUFFICES ASSUME boot.pc \in Early, NEW w \in Workers PROVE th'[w].pc = "idle"
    BY DEF RecoversAlone, LeavesLine
  <2>1. th[w].pc = "idle" /\ w \in Threads /\ w # t
    BY DEF OInv, RecoversAlone, Threads, LeavesLine
  <2> QED BY <2>1, Classes DEF LeavesLine, Elsewhere
<1> QED BY <1>5, <1>6, <1>7, <1>8, <1>9, <1>10, <1>11, <1>12 DEF OInv

LEMMA QueuedCancelled ==
  ASSUME TInv, OInv, NEW c \in Clients, NEW j \in Jobs, CancelQueued(c, j)
  PROVE  OInv' /\ LeavesLine(c, j) /\ \E i \in PlacesOf(j) : queue' = RemoveAt(queue, i)
<1>1. c \in Threads /\ th[c].pc = "idle" /\ ThreadsOK(th)
  BY InHand DEF Threads, CancelQueued, At
<1>2. PICK i \in PlacesOf(j) : queue' = RemoveAt(queue, i)
  BY DEF CancelQueued
<1>3. i \in DOMAIN queue /\ queue[i] = j
  BY <1>2 DEF PlacesOf
<1>4. j \in ToSet(queue) /\ Distinct(queue') /\ ToSet(queue') = ToSet(queue) \ {j}
  BY <1>2, <1>3, InQueue, Spliced DEF OInv, Orderly
<1> DEFINE pc == IF IsUpload(j) THEN "clean" ELSE "mark"
<1>10. th' = [th EXCEPT ![c] = [@ EXCEPT !.pc = pc, !.job = j, !.st = "cancelled"]]
  BY DEF CancelQueued
<1> HIDE DEF pc
<1>11. TakesOn(c, j, pc) /\ th'[c].st = "cancelled"
  BY <1>1, <1>10, Starting
<1>5. /\ Elsewhere(c) /\ th'[c].job = j /\ th'[c].st = "cancelled" /\ th'[c].pc \in {"clean", "mark"}
  BY <1>11 DEF TakesOn, pc
<1>6. Own(th'[c]) /\ ~Brings(th'[c])
  BY <1>5 DEF Own, Brings, OwningPCs, BringingPCs
<1>7. Live(j) /\ live' = live
  BY <1>4 DEF OInv, Orderly, Live, CancelQueued
<1>8. c \notin Workers /\ "cancelled" \in Terminal
  BY ImportQueueAssumption DEF ImportQueueAssumption, Terminal
<1>9. LeavesLine(c, j)
  BY <1>1, <1>4, <1>5, <1>6, <1>7, <1>8 DEF LeavesLine, CancelQueued, Live, durable, process
<1> QED BY <1>1, <1>2, <1>9, Left

LEMMA Picked ==
  ASSUME TInv, OInv, NEW w \in Workers, Pick(w)
  PROVE  OInv' /\ \E j \in Jobs : j = Head(queue) /\ LeavesLine(w, j)
<1>1. w \in Threads /\ th[w].pc = "idle" /\ ThreadsOK(th) /\ live \in [Jobs -> LiveType]
  BY InHand DEF Threads, Pick, At, ManagerTypes
<1>11. /\ Head(queue) \in ToSet(queue) /\ Distinct(queue')
       /\ ToSet(queue') = ToSet(queue) \ {Head(queue)} /\ Head(queue) \in Jobs
  BY InQueue, Fronted DEF Pick, OInv, Orderly
<1>12. PICK j \in Jobs : j = Head(queue)
  BY <1>11
<1>2. j \in ToSet(queue) /\ Distinct(queue') /\ ToSet(queue') = ToSet(queue) \ {j}
  BY <1>11, <1>12
<1>3. Live(j)
  BY <1>2 DEF OInv, Orderly, Live
<1>4. /\ live' = [live EXCEPT ![j] = [@ EXCEPT !.st = "reading", !.ctx = "running"]]
      /\ th' = [th EXCEPT ![w] = [@ EXCEPT !.pc = "announce", !.job = j,
                                           !.st = "reading", !.seq = live[j].seq]]
  BY <1>3, <1>12 DEF Pick
<1>10. TakesOn(w, j, "announce")
  BY <1>1, <1>4, Starting
<1>5. Elsewhere(w) /\ th'[w].job = j /\ th'[w].pc = "announce"
  BY <1>10 DEF TakesOn
<1>6. Own(th'[w]) /\ ~Brings(th'[w]) /\ th'[w].pc \notin EndingPCs
  BY <1>5 DEF Own, Brings, OwningPCs, BringingPCs, EndingPCs
<1>7. Live(j)' /\ \A k \in Jobs \ {j} : live'[k] = live[k]
  <2>1. j \in Jobs /\ [live[j] EXCEPT !.st = "reading", !.ctx = "running"].st = "reading"
    BY <1>1, <1>2 DEF LiveType
  <2>2. live'[j].st = "reading" /\ \A k \in Jobs \ {j} : live'[k] = live[k]
    BY <1>1, <1>4, <2>1
  <2> QED BY <2>2 DEF Live
<1>8. boot.pc \notin Early
  BY DEF Pick, Early
<1>9. LeavesLine(w, j)
  BY <1>1, <1>2, <1>5, <1>6, <1>7, <1>8 DEF LeavesLine, Pick, durable, process, history
<1> QED BY <1>1, <1>9, <1>12, Left
-----------------------------------------------------------------------------
(* The controls that move no job.                                          *)

LEMMA RunningCancelled ==
  ASSUME TInv, OInv, NEW c \in Clients, NEW j \in Jobs, CancelRunning(c, j)
  PROVE  OInv'
<1>1. /\ queue' = queue /\ th' = th /\ boot' = boot /\ row' = row /\ origin' = origin
      /\ live' = [live EXCEPT ![j].ctx = "cancelled"] /\ live[j].ctx # "nil" /\ j \notin ToSet(queue)
  BY InQueue DEF CancelRunning, durable, process
<1>2. live \in [Jobs -> LiveType]
  BY DEF TInv, TypeOK, ManagerTypes
<1>3. \A k \in Jobs : live'[k].st = live[k].st /\ (k # j => live'[k] = live[k])
  BY <1>1, <1>2 DEF LiveType
<1>4. Coming' = Coming
  BY <1>1 DEF Coming, Unfinished
<1>5. \A s \in Threads : Own(th[s]) => th[s].job \in Jobs
  BY InHand, Marks DEF Own
<1>6. Orderly'
  BY <1>1, <1>3, InQueue DEF OInv, Orderly
<1>7. OneHand' /\ Endings' /\ RecoversAlone'
  BY <1>1 DEF OInv, OneHand, Endings, RecoversAlone
<1>8. OneBringer'
  <2>1. ASSUME NEW s \in Threads, New(th[s]) PROVE live'[th[s].job].ctx = "nil"
    <3>1. live[th[s].job].ctx = "nil" /\ th[s].job \in Jobs
      BY <1>5, <2>1, Classes DEF OInv, OneBringer
    <3> QED BY <1>1, <1>3, <3>1
  <2> QED BY <1>1, <1>4, <2>1 DEF OInv, OneBringer
<1>9. DeadInHand' /\ Kept'
  BY <1>1, <1>3, <1>4, <1>5 DEF OInv, DeadInHand, Kept, Live
<1>10. Unheard'
  <2>1. \A k \in Jobs : Fresh(k) => live[k].ctx = "nil"
    BY DEF OInv, Unheard, NotLive
  <2> QED BY <1>1, <1>3, <1>4, <2>1 DEF OInv, Unheard, Fresh
<1> QED BY <1>6, <1>7, <1>8, <1>9, <1>10 DEF OInv

LEMMA Reordered ==
  ASSUME TInv, OInv, NEW c \in Clients, NEW ids, Reorder(c, ids)
  PROVE  OInv' /\ Distinct(queue') /\ ToSet(queue') = ToSet(queue) /\ queue' \in Seq(Jobs)
         /\ \A s \in Threads : th'[s] = th[s] \/ (th'[s].pc = "storeOrder" /\ th[s].pc = "idle")
<1>1. PICK new \in Rearrangements(queue) :
        /\ queue' = new
        /\ live' = [j \in Jobs |->
             IF j \in ToSet(new) /\ Live(j)
             THEN [live[j] EXCEPT !.seq = seq + PlaceIn(new, j) - 1]
             ELSE live[j]]
        /\ th' = [th EXCEPT ![c] = [@ EXCEPT !.pc = "storeOrder", !.seq = seq, !.ids = new]]
  BY DEF Reorder
<1>2. /\ boot' = boot /\ row' = row /\ origin' = origin /\ c \in Threads /\ th[c].pc = "idle"
      /\ live \in [Jobs -> LiveType] /\ ThreadsOK(th) /\ th[c] \in ThreadType
  BY InHand DEF Reorder, durable, process, history, Threads, At, ManagerTypes, ThreadOK
<1>3. Distinct(queue') /\ ToSet(queue') = ToSet(queue) /\ queue' \in Seq(Jobs)
  BY <1>1, InQueue, Rearranged DEF OInv, Orderly
<1>4. \A k \in Jobs : /\ live'[k].st = live[k].st /\ live'[k].ctx = live[k].ctx
                      /\ k \notin ToSet(queue) => live'[k] = live[k]
  <2> SUFFICES ASSUME NEW k \in Jobs
               PROVE  /\ live'[k].st = live[k].st /\ live'[k].ctx = live[k].ctx
                      /\ k \notin ToSet(queue) => live'[k] = live[k]
    OBVIOUS
  <2>1. live[k] \in LiveType
    BY <1>2
  <2>2. \A n : LET r == [live[k] EXCEPT !.seq = n] IN r.st = live[k].st /\ r.ctx = live[k].ctx
    BY <2>1 DEF LiveType
  <2>3. \/ live'[k] = live[k]
        \/ k \in ToSet(queue) /\ live'[k] = [live[k] EXCEPT !.seq = seq + PlaceIn(new, k) - 1]
    BY <1>1, <1>3
  <2> QED BY <2>2, <2>3
<1>5. /\ \A s \in Threads \ {c} : th'[s] = th[s]
      /\ th'[c].pc = "storeOrder" /\ th'[c].job = th[c].job
  <2> DEFINE r == [th[c] EXCEPT !.pc = "storeOrder", !.seq = seq, !.ids = new]
  <2>1. r.pc = "storeOrder" /\ r.job = th[c].job
    BY <1>2 DEF ThreadType
  <2>2. th' = [th EXCEPT ![c] = r]
    BY <1>1
  <2> HIDE DEF r
  <2>3. th'[c] = r /\ \A s \in Threads \ {c} : th'[s] = th[s]
    BY <1>2, <2>2 DEF ThreadsOK
  <2> QED BY <2>1, <2>3
<1>6. /\ ~Own(th[c]) /\ ~Own(th'[c]) /\ ~Brings(th'[c]) /\ ~New(th'[c])
      /\ th'[c].pc \notin EndingPCs \cup {"insert"}
  BY <1>2, <1>5 DEF Own, Brings, New, OwningPCs, BringingPCs, EndingPCs
<1>7. \A s \in Threads : Own(th[s]) => th[s].job \in Jobs
  BY InHand, Marks DEF Own
<1>8. Coming' = Coming
  BY <1>2 DEF Coming, Unfinished
<1>9. Orderly'
  BY <1>3, <1>4, InQueue DEF OInv, Orderly
<1>10. OneHand' /\ Endings'
  BY <1>3, <1>5, <1>6 DEF OInv, OneHand, Endings
<1>11. OneBringer'
  <2>1. ASSUME NEW s \in Threads, New(th'[s]) PROVE live'[th'[s].job].ctx = "nil"
    <3>1. New(th[s]) /\ th'[s] = th[s] /\ th[s].job \in Jobs
      BY <1>5, <1>6, <1>7, <2>1, Classes
    <3> QED BY <1>4, <3>1 DEF OInv, OneBringer
  <2> QED BY <1>5, <1>6, <1>8, <2>1 DEF OInv, OneBringer
<1>12. DeadInHand'
  <2> SUFFICES ASSUME NEW s \in Threads, Own(th'[s]), live'[th'[s].job].st = "none"
               PROVE  /\ th'[s].job \notin Coming
                      /\ \A u \in Threads : Brings(th'[u]) => th'[u].job # th'[s].job
    BY <1>8 DEF DeadInHand, Live
  <2>1. th'[s] = th[s] /\ Own(th[s]) /\ ~Live(th[s].job)
    BY <1>4, <1>5, <1>6, <1>7 DEF Live
  <2>2. th[s].job \notin Coming /\ \A u \in Threads : Brings(th[u]) => th[u].job # th[s].job
    BY <2>1 DEF OInv, DeadInHand
  <2> QED BY <1>5, <1>6, <2>1, <2>2
<1>13. Kept'
  BY <1>3, <1>4, <1>5, <1>6 DEF OInv, Kept, Live
<1>14. Unheard'
  <2> SUFFICES ASSUME NEW k \in Jobs, Fresh(k)
               PROVE  /\ live'[k] = NotLive /\ row[k].st = "none" /\ k \notin Coming
                      /\ \A s \in Threads : th'[s].job # k
    BY <1>2, <1>8 DEF Unheard, Fresh
  <2>1. /\ live[k] = NotLive /\ row[k].st = "none" /\ k \notin Coming /\ k \notin ToSet(queue)
        /\ \A s \in Threads : th[s].job # k
    BY NewToAll
  <2> QED BY <1>4, <1>5, <2>1
<1>15. RecoversAlone'
  <2> SUFFICES ASSUME boot.pc \in Early, NEW w \in Workers PROVE th'[w].pc = "idle"
    BY <1>2 DEF RecoversAlone
  <2>1. th[w].pc = "idle" /\ w \in Threads /\ w # c
    BY ImportQueueAssumption DEF OInv, RecoversAlone, Threads, ImportQueueAssumption
  <2> QED BY <1>5, <2>1
<1>16. \A s \in Threads : th'[s] = th[s] \/ (th'[s].pc = "storeOrder" /\ th[s].pc = "idle")
  BY <1>2, <1>5
<1> QED BY <1>3, <1>9, <1>10, <1>11, <1>12, <1>13, <1>14, <1>15, <1>16 DEF OInv

-----------------------------------------------------------------------------
(* Recovery and the process.                                               *)

LEMMA FirstComes ==
  ASSUME TInv, boot.pc \in {"take", "save", "fail"}
  PROVE  /\ boot.todo \in Seq([job : Jobs, seq : Nat, input : BOOLEAN]) /\ boot.todo # <<>>
         /\ Head(boot.todo).job \in Jobs
         /\ boot.pc \in {"take", "save", "fail"} => Head(boot.todo).job \in Coming
<1>1. boot.todo \in Seq([job : Jobs, seq : Nat, input : BOOLEAN]) /\ boot.todo # <<>>
  BY DEF TInv, TypeOK, ProcessTypes, BootType, BootHasRow
<1>2. Head(boot.todo) = boot.todo[1] /\ 1 \in DOMAIN boot.todo
  BY <1>1, HeadTailProperties, LenProperties, EmptySeq
<1>3. Head(boot.todo) \in [job : Jobs, seq : Nat, input : BOOLEAN]
  BY <1>1, HeadTailProperties
<1> QED BY <1>1, <1>2, <1>3 DEF Coming, Early

LEMMA RecoveryQueued ==
  ASSUME TInv, OInv, RecoverQueues
  PROVE  /\ OInv' /\ th' = th /\ Head(boot.todo).job \in Jobs
         /\ queue' = Append(queue, Head(boot.todo).job) /\ Head(boot.todo).job \notin ToSet(queue)
         /\ \A s \in Threads : Own(th[s]) => th[s].job # Head(boot.todo).job
<1> DEFINE j == Head(boot.todo).job
<1>1. j \in Jobs /\ j \in Coming /\ ~Live(j) /\ queue' = Append(queue, j)
  BY FirstComes DEF RecoverQueues, Taken
<1>2. live' = [live EXCEPT ![j] = [st |-> "queued", seq |-> seq, input |-> TRUE, ctx |-> "nil"]]
  BY DEF RecoverQueues
<1>3. /\ th' = th /\ row' = row /\ origin' = origin
      /\ boot' = [boot EXCEPT !.pc = "save", !.seq = seq] /\ boot.pc = "take"
      /\ boot \in BootType /\ live \in [Jobs -> LiveType]
  BY DEF RecoverQueues, durable, TInv, TypeOK, ProcessTypes, ManagerTypes
<1> HIDE DEF j
<1>4. live'[j].st = "queued" /\ live'[j].ctx = "nil" /\ \A k \in Jobs \ {j} : live'[k] = live[k]
  BY <1>1, <1>2, <1>3
<1>5. Coming' = Coming /\ boot.pc \in Early
  <2>1. boot'.pc = "save" /\ boot'.todo = boot.todo
    BY <1>3 DEF BootType
  <2> QED BY <1>3, <2>1 DEF Coming, Early
<1>6. j \notin ToSet(queue)
  BY <1>1 DEF OInv, Orderly, Live
<1>7. \A s \in Threads : Own(th[s]) => th[s].job \in Jobs \ {j}
  BY <1>1, InHand, Marks DEF Own, OInv, DeadInHand
<1>8. Distinct(queue') /\ ToSet(queue') = ToSet(queue) \cup {j}
  BY <1>1, <1>6, InQueue, Appended DEF OInv, Orderly
<1>9. Orderly'
  BY <1>4, <1>8, InQueue DEF OInv, Orderly
<1>10. OneHand'
  BY <1>3, <1>7, <1>8 DEF OInv, OneHand
<1>11. OneBringer'
  <2>1. ASSUME NEW s \in Threads, New(th[s]) PROVE live'[th[s].job].ctx = "nil"
    BY <1>4, <1>7, <2>1, Classes DEF OInv, OneBringer
  <2> QED BY <1>3, <1>5, <2>1 DEF OInv, OneBringer
<1>12. DeadInHand'
  <2>1. \A s \in Threads : Own(th[s]) => live'[th[s].job] = live[th[s].job]
    BY <1>4, <1>7
  <2> QED BY <1>3, <1>5, <2>1 DEF OInv, DeadInHand, Live
<1>13. Kept'
  BY <1>3, <1>4, <1>8 DEF OInv, Kept, Live
<1>14. Unheard'
  <2> SUFFICES ASSUME NEW k \in Jobs, Fresh(k)
               PROVE  /\ live'[k] = NotLive /\ row[k].st = "none" /\ k \notin Coming
                      /\ \A s \in Threads : th[s].job # k
    BY <1>3, <1>5 DEF Unheard, Fresh
  <2> QED BY <1>1, <1>4, NewToAll
<1>15. Endings' /\ RecoversAlone'
  BY <1>3, <1>5 DEF OInv, Endings, RecoversAlone
<1> QED BY <1>1, <1>3, <1>6, <1>7, <1>9, <1>10, <1>11, <1>12, <1>13, <1>14, <1>15 DEF OInv, j

LEMMA Started ==
  ASSUME TInv, CInv, OInv, Start
  PROVE  OInv' /\ queue' = queue /\ th' = th
<1>1. /\ boot = BootOff /\ (\A t \in Threads : th[t] = Idle) /\ live' = live /\ queue' = queue
      /\ th' = th /\ row' = row /\ origin' = origin
  BY DEF CInv, DownIsIdle, Start, durable
<1>2. \A s \in Threads : ~Own(th[s]) /\ ~Brings(th[s]) /\ ~New(th[s]) /\ th[s].pc = "idle"
  BY <1>1, Classes
<1>3. Unheard'
  <2> SUFFICES ASSUME NEW k \in Jobs, Fresh(k)
               PROVE  /\ live[k] = NotLive /\ row[k].st = "none" /\ k \notin Coming'
                      /\ \A s \in Threads : th[s].job # k
    BY <1>1 DEF Unheard, Fresh
  <2>1. live[k] = NotLive /\ row[k].st = "none" /\ \A s \in Threads : th[s].job # k
    BY NewToAll
  <2>2. boot'.pc = "list"
    BY DEF Start, BootOff
  <2> QED BY <1>1, <2>1, <2>2 DEF Coming, Unfinished
<1>4. Orderly' /\ OneHand' /\ OneBringer' /\ DeadInHand' /\ Kept' /\ Endings' /\ RecoversAlone'
  <2>1. Orderly' /\ OneHand' /\ Kept'
    BY <1>1 DEF OInv, Orderly, OneHand, Kept, Live
  <2>2. OneBringer' /\ DeadInHand'
    BY <1>1, <1>2 DEF OneBringer, DeadInHand
  <2>3. Endings' /\ RecoversAlone'
    BY <1>1, <1>2 DEF Endings, RecoversAlone, EndingPCs, Threads
  <2> QED BY <2>1, <2>2, <2>3
<1> QED BY <1>1, <1>3, <1>4 DEF OInv

LEMMA Exited ==
  ASSUME TInv, OInv, Exit
  PROVE  OInv'
<1>1. /\ boot' = BootOff /\ (\A t \in Threads : th'[t] = Idle) /\ (\A k \in Jobs : live'[k] = NotLive)
      /\ queue' = <<>> /\ row' = row /\ origin' = origin
  BY DEF Exit, durable, history
<1>2. \A s \in Threads : ~Own(th'[s]) /\ ~Brings(th'[s]) /\ ~New(th'[s]) /\ th'[s].pc = "idle"
  BY <1>1, Classes
<1>3. Coming' = {} /\ boot'.pc \notin Early
  BY <1>1 DEF Coming, BootOff, Early
<1>4. Unheard'
  <2>1. \A s \in Threads : th'[s].job = NoJob
    BY <1>1 DEF Idle
  <2>2. \A k \in Jobs : Fresh(k) => row[k].st = "none"
    BY NewToAll
  <2> QED BY <1>1, <1>3, <2>1, <2>2, ImportQueueAssumption
          DEF Unheard, Fresh, ImportQueueAssumption
<1>5. Orderly' /\ OneHand' /\ OneBringer' /\ DeadInHand' /\ Kept' /\ Endings' /\ RecoversAlone'
  <2>1. DOMAIN queue' = {} /\ ToSet(queue') = {}
    BY <1>1 DEF ToSet
  <2>2. Orderly' /\ OneHand'
    BY <1>2, <2>1 DEF Orderly, OneHand, Distinct
  <2>3. OneBringer' /\ DeadInHand' /\ Kept'
    BY <1>1, <1>2 DEF OneBringer, DeadInHand, Kept, Live, NotLive
  <2>4. Endings' /\ RecoversAlone'
    BY <1>2, <1>3 DEF Endings, RecoversAlone, EndingPCs
  <2> QED BY <2>2, <2>3, <2>4
<1> QED BY <1>4, <1>5 DEF OInv
-----------------------------------------------------------------------------
(* Which steps go on with a job and which let it go.                       *)

LEMMA Saved ==
  ASSUME TInv, NEW j \in Jobs, NEW st, NEW s, row' = Upserted(j, st, s)
  PROVE  row'[j].st = st /\ \A k \in Jobs \ {j} : row'[k] = row[k]
BY DEF TInv, TypeOK, DurableTypes, RowType, Upserted

LEMMA Staged ==
  ASSUME TInv, NEW j \in Jobs, NEW st, live' = AtStage(j, st)
  PROVE  /\ live'[j].st = st /\ live'[j].ctx = live[j].ctx /\ live'[j].seq = live[j].seq
         /\ \A k \in Jobs \ {j} : live'[k] = live[k]
BY DEF TInv, TypeOK, ManagerTypes, LiveType, AtStage

LEMMA RowsStay ==
  ASSUME NEW t, NEW j, \A k \in Jobs : row'[k].st = row[k].st
  PROVE  RowsKept(t, j)
BY DEF RowsKept, Unfinished

LEMMA RowMoves ==
  ASSUME TInv, NEW t, NEW j \in Jobs, NEW st, NEW s, row' = Upserted(j, st, s),
         st \in Terminal \/ Brings(th[t]) \/ boot.pc # "list"
  PROVE  RowsKept(t, j)
BY Saved DEF RowsKept, Unfinished

\* What a goroutine is doing and with which job.
LEMMA AtWork ==
  ASSUME TInv, OInv, NEW t \in Threads, th[t].pc \in JobPCs
  PROVE  /\ ThreadsOK(th) /\ (\E j \in Jobs : j = th[t].job) /\ th[t].pc # "idle"
         /\ t \in Workers => boot.pc # "list" /\ boot.pc \notin Early
         /\ Own(Idle) = FALSE /\ Brings(Idle) = FALSE /\ New(Idle) = FALSE
         /\ Idle.pc \notin EndingPCs \cup {"insert"}
<1>1. th[t].pc # "idle"
  BY DEF JobPCs
<1>2. t \in Workers => boot.pc # "list" /\ boot.pc \notin Early
  BY <1>1 DEF OInv, RecoversAlone, Early
<1> QED BY <1>1, <1>2, InHand, Classes DEF Idle, EndingPCs

LEMMA Does ==
  ASSUME TInv, OInv, NEW t \in Threads, NEW j \in Jobs, th[t].job = j, th[t].pc \in JobPCs,
         Elsewhere(t), th'[t].job = j \/ th'[t] = Idle,
         Own(th'[t]) => Own(th[t]), Brings(th'[t]) => Brings(th[t]), New(th'[t]) => New(th[t]),
         th'[t].pc # "insert", th'[t].pc \in EndingPCs => th'[t].st \in Terminal,
         Own(th[t]) => Own(th'[t]) \/ ~Live(j),
         UNCHANGED <<queue, origin, boot>>, LiveKept(t, j), RowsKept(t, j)
  PROVE  WorksOn(t, j)
BY AtWork DEF WorksOn

LEMMA FinishWorks ==
  ASSUME TInv, OInv, NEW t \in Threads, FinishStep(t)
  PROVE  \E j : WorksOn(t, j) \/ LetsGo(t, j)
<1>1. th[t].pc \in {"clean", "mark", "persist", "drop", "sweep"} /\ th[t].pc \in JobPCs
  BY DEF FinishStep, CleanInput, FinishMarks, FinishSaves, FinishDrops, Sweep, At, JobPCs
<1>2. PICK j \in Jobs : j = th[t].job
  BY <1>1, AtWork
<1>3. ThreadsOK(th)
  BY <1>1, AtWork
<1> USE DEF At
<1>4. CASE CleanInput(t)
  <2>1. /\ Elsewhere(t) /\ th'[t].pc = "mark" /\ th'[t].job = j /\ th'[t].st = th[t].st
        /\ th[t].pc = "clean"
    BY <1>2, <1>3, <1>4, Going DEF CleanInput
  <2>2. Own(th[t]) /\ Own(th'[t]) /\ ~Brings(th'[t]) /\ ~New(th'[t]) /\ th'[t].st \in Terminal
    BY <2>1 DEF Own, Brings, New, OwningPCs, BringingPCs, OInv, Endings, EndingPCs
  <2>3. UNCHANGED <<queue, origin, boot, row>> /\ LiveKept(t, j)
    BY <1>4 DEF CleanInput, LiveKept, manager, process, history
  <2> QED BY <1>1, <1>2, <2>1, <2>2, <2>3, RowsStay, Does
<1>5. CASE FinishMarks(t)
  <2>0. th[t].pc = "mark" /\ th[t].st \in Terminal /\ Own(th[t])
    BY <1>5 DEF FinishMarks, OInv, Endings, EndingPCs, Own, OwningPCs
  <2>3. UNCHANGED <<queue, origin, boot, row>>
    BY <1>5 DEF FinishMarks, durable, process, history
  <2>1. CASE Live(j)
    <3>1. live' = AtStage(j, th[t].st) /\ GotoSaving(t, "persist", th[t].st, live[j].seq)
      BY <1>2, <1>5, <2>1 DEF FinishMarks
    <3>2. Elsewhere(t) /\ th'[t].pc = "persist" /\ th'[t].job = j /\ th'[t].st = th[t].st
      BY <1>2, <1>3, <3>1, Going
    <3>3. LiveKept(t, j)
      BY <2>0, <2>1, <3>1, Staged DEF LiveKept, Live, Terminal
    <3>4. Own(th'[t]) /\ ~Brings(th'[t]) /\ ~New(th'[t])
      BY <3>2 DEF Own, Brings, New, OwningPCs, BringingPCs
    <3> QED BY <1>1, <1>2, <2>0, <2>3, <3>2, <3>3, <3>4, RowsStay, Does
  <2>2. CASE ~Live(j)
    <3>1. live' = live /\ Goto(t, "sweep")
      BY <1>2, <1>5, <2>2 DEF FinishMarks
    <3>2. Elsewhere(t) /\ th'[t].pc = "sweep" /\ th'[t].job = j
      BY <1>2, <1>3, <3>1, Going
    <3>3. ~Own(th'[t]) /\ ~Brings(th'[t]) /\ ~New(th'[t]) /\ th'[t].pc \notin EndingPCs
      BY <3>2 DEF Own, Brings, New, OwningPCs, BringingPCs, EndingPCs
    <3> QED BY <1>1, <1>2, <2>2, <2>3, <3>1, <3>2, <3>3, RowsStay, Does DEF LiveKept
  <2> QED BY <2>1, <2>2
<1>6. CASE FinishSaves(t)
  <2>1. /\ Elsewhere(t) /\ th'[t].pc = "drop" /\ th'[t].job = j /\ th[t].pc = "persist"
    BY <1>2, <1>3, <1>6, Going DEF FinishSaves
  <2>2. Own(th[t]) /\ Own(th'[t]) /\ ~Brings(th'[t]) /\ ~New(th'[t]) /\ th[t].st \in Terminal
        /\ th'[t].pc \notin EndingPCs
    BY <2>1 DEF Own, Brings, New, OwningPCs, BringingPCs, OInv, Endings, EndingPCs
  <2>3. UNCHANGED <<queue, origin, boot>> /\ LiveKept(t, j)
    BY <1>6 DEF FinishSaves, LiveKept, manager, process, history
  <2>4. RowsKept(t, j)
    BY <1>2, <1>6, <2>2, RowMoves DEF FinishSaves
  <2> QED BY <1>1, <1>2, <2>1, <2>2, <2>3, <2>4, Does
<1>7. CASE FinishDrops(t)
  <2>1. Elsewhere(t) /\ th'[t].pc = "sweep" /\ th'[t].job = j /\ th[t].pc = "drop"
    BY <1>2, <1>3, <1>7, Going DEF FinishDrops
  <2>2. Own(th[t]) /\ ~Own(th'[t]) /\ ~Brings(th'[t])
    BY <2>1 DEF Own, Brings, OwningPCs, BringingPCs
  <2>3. queue' = queue /\ PlacesOf(j) = {}
    BY <1>2, <1>7, <2>2, InQueue DEF FinishDrops, OInv, OneHand
  <2>4. LetsGo(t, j)
    BY <1>2, <1>7, <2>1, <2>2, <2>3 DEF LetsGo, FinishDrops, durable, process, history
  <2> QED BY <2>4
<1>8. CASE Sweep(t)
  <2>1. Elsewhere(t) /\ th'[t] = Idle /\ th[t].pc = "sweep"
    BY <1>3, <1>8, Going DEF Sweep
  <2>2. ~Own(th[t])
    BY <2>1 DEF Own, OwningPCs
  <2>3. UNCHANGED <<queue, origin, boot, row>> /\ LiveKept(t, j)
    BY <1>8 DEF Sweep, LiveKept, manager, process, history
  <2> QED BY <1>1, <1>2, <2>1, <2>2, <2>3, AtWork, RowsStay, Does
<1> QED BY <1>4, <1>5, <1>6, <1>7, <1>8 DEF FinishStep
LEMMA WorkerWorks ==
  ASSUME TInv, OInv, NEW w \in Workers, WorkerStep(w)
  PROVE  Pick(w) \/ \E j : WorksOn(w, j) \/ LetsGo(w, j)
<1>0. w \in Threads /\ ThreadsOK(th)
  BY InHand DEF Threads
<1> USE <1>0 DEF At
\* A worker that moves to pc with its job in hand, and to a terminal stage if
\* it is to end it.
<1>1. ASSUME NEW pc \in OwningPCs \ BringingPCs, Own(th[w]), NEW st,
             \/ Goto(w, pc) /\ pc \notin EndingPCs
             \/ GotoEnding(w, pc, st) /\ st \in Terminal
             \/ \E s : GotoSaving(w, pc, st, s) /\ pc \notin EndingPCs,
             UNCHANGED <<queue, origin, boot>>, \A j \in Jobs : j = th[w].job => LiveKept(w, j) /\ RowsKept(w, j)
      PROVE  \E j : WorksOn(w, j)
  <2>1. th[w].pc \in JobPCs
    BY <1>1, Marks DEF Own
  <2>2. PICK j \in Jobs : j = th[w].job
    BY <2>1, AtWork
  <2>3. /\ Elsewhere(w) /\ th'[w].pc = pc /\ th'[w].job = j
        /\ pc \in EndingPCs => th'[w].st \in Terminal
    BY <1>1, <2>2, Going
  <2>4. Own(th'[w]) /\ ~Brings(th'[w]) /\ ~New(th'[w]) /\ th'[w].pc # "insert"
    BY <1>1, <2>3, Classes DEF Own, Brings, BringingPCs
  <2>5. LiveKept(w, j) /\ RowsKept(w, j)
    BY <1>1, <2>2
  <2> QED BY <1>1, <2>1, <2>2, <2>3, <2>4, <2>5, Does
<1>2. ASSUME live' = live, row' = row PROVE \A j \in Jobs : LiveKept(w, j) /\ RowsKept(w, j)
  BY <1>2, RowsStay DEF LiveKept
<1>3. ASSUME NEW st \in {"failed", "cancelled"}, EndsWith(w, st), Own(th[w]),
             UNCHANGED <<queue, origin, boot, live, row>>
      PROVE  \E j : WorksOn(w, j)
  <2>1. PICK pc \in {"clean", "mark"} : GotoEnding(w, pc, st)
    BY <1>3 DEF EndsWith
  <2>2. pc \in OwningPCs \ BringingPCs /\ st \in Terminal
    BY <1>3 DEF OwningPCs, BringingPCs, Terminal
  <2> QED BY <1>1, <1>2, <1>3, <2>1, <2>2
<1>4. ASSUME NEW pc \in {"waiting", "returned"}, Goto(w, pc), th[w].pc = "idle", boot.pc = "done",
             UNCHANGED <<queue, origin, boot, live, row>>
      PROVE  \E j : WorksOn(w, j)
  <2>1. PICK j : j = th[w].job
    OBVIOUS
  <2>2. Elsewhere(w) /\ th'[w].pc = pc /\ th'[w].job = j
    BY <1>4, <2>1, Going
  <2>3. /\ ~Own(th'[w]) /\ ~Brings(th'[w]) /\ ~New(th'[w]) /\ ~Own(th[w])
        /\ th'[w].pc \notin EndingPCs \cup {"insert"}
    BY <1>4, <2>2 DEF Own, Brings, New, OwningPCs, BringingPCs, EndingPCs
  <2> QED BY <1>4, <2>1, <2>2, <2>3, RowsStay DEF WorksOn, LiveKept, Early
<1>5. CASE WorkerWaits(w) \/ WorkerReturns(w)
  BY <1>4, <1>5 DEF WorkerWaits, WorkerReturns, durable, manager, process, history
<1>6. CASE SaveStage(w)
  <2>1. Own(th[w]) /\ th[w].pc \in JobPCs
    BY <1>6 DEF SaveStage, Own, OwningPCs, JobPCs
  <2>2. PICK pc \in {"extract", "build"} : Goto(w, pc)
    BY <1>6 DEF SaveStage
  <2>3. \A j \in Jobs : j = th[w].job => LiveKept(w, j) /\ RowsKept(w, j)
    BY <1>6, <2>1, AtWork, RowMoves DEF SaveStage, SaveUnfinished, LiveKept, manager
  <2>4. pc \in OwningPCs \ BringingPCs /\ pc \notin EndingPCs
    BY DEF OwningPCs, BringingPCs, EndingPCs
  <2> QED BY <1>1, <1>6, <2>1, <2>2, <2>3, <2>4 DEF SaveStage, manager, process
<1>7. CASE Tick(w)
  <2>1. Own(th[w]) /\ th[w].pc \in JobPCs
    BY <1>7 DEF Tick, Own, OwningPCs, JobPCs
  <2>2. PICK j \in Jobs : j = th[w].job
    BY <2>1, AtWork
  <2>3. UNCHANGED <<queue, origin, boot, row>>
    BY <1>7 DEF Tick, durable, process, history
  <2>4. /\ {"tick", "build"} \subseteq OwningPCs \ BringingPCs
        /\ "tick" \notin EndingPCs /\ "build" \notin EndingPCs
    BY DEF OwningPCs, BringingPCs, EndingPCs
  <2>5. CASE Live(j)
    <3>1. live' = AtStage(j, "packing") /\ GotoSaving(w, "tick", "packing", live[j].seq)
      BY <1>7, <2>2, <2>5 DEF Tick
    <3>2. LiveKept(w, j)
      BY <2>1, <2>5, <3>1, Staged DEF LiveKept, Live
    <3> QED BY <1>1, <2>1, <2>2, <2>3, <2>4, <3>1, <3>2, RowsStay
  <2>6. CASE ~Live(j)
    <3>1. live' = live /\ Goto(w, "build")
      BY <1>7, <2>2, <2>6 DEF Tick
    <3> QED BY <1>1, <1>2, <2>1, <2>3, <2>4, <3>1
  <2> QED BY <2>5, <2>6
<1>8. CASE PipelineFails(w) \/ FilingFails(w) \/ CancelEnds(w)
  <2>1. Own(th[w]) /\ \E st \in {"failed", "cancelled"} : EndsWith(w, st)
    BY <1>8 DEF PipelineFails, FilingFails, CancelEnds, Own, OwningPCs
  <2> QED BY <1>3, <1>8, <2>1
          DEF PipelineFails, FilingFails, CancelEnds, durable, manager, process, history
<1>9. CASE PipelineCancelled(w) \/ PipelineBuilds(w)
  <2>1. Own(th[w]) /\ \E pc \in {"cancelled", "file", "lookup"} : Goto(w, pc)
    BY <1>9 DEF PipelineCancelled, PipelineBuilds, Own, OwningPCs
  <2>2. UNCHANGED <<queue, origin, boot, live, row>>
    BY <1>9 DEF PipelineCancelled, PipelineBuilds, durable, manager, process, history
  <2>3. \A pc \in {"cancelled", "file", "lookup"} : pc \in OwningPCs \ BringingPCs /\ pc \notin EndingPCs
    BY DEF OwningPCs, BringingPCs, EndingPCs
  <2> QED BY <1>1, <1>2, <2>1, <2>2, <2>3
<1>10. CASE RequeueForRestart(w)
  <2>0. th[w].pc = "cancelled" /\ Own(th[w]) /\ th[w].pc \in JobPCs
    BY <1>10 DEF RequeueForRestart, Own, OwningPCs, JobPCs
  <2>1. PICK j \in Jobs : j = th[w].job
    BY <2>0, AtWork
  <2>2. UNCHANGED <<queue, origin, boot, row>>
    BY <1>10 DEF RequeueForRestart, durable, process, history
  <2>3. CASE Live(j)
    <3>1. live' = Dropped(j) /\ GotoSaving(w, "requeue", "queued", live[j].seq)
      BY <1>10, <2>1, <2>3 DEF RequeueForRestart
    <3>2. Elsewhere(w) /\ th'[w].pc = "requeue" /\ th'[w].job = j
      BY <2>1, <3>1, Going
    <3>3. ~Own(th'[w]) /\ ~Brings(th'[w])
      BY <3>2 DEF Own, Brings, OwningPCs, BringingPCs
    <3>4. PlacesOf(j) = {}
      BY <2>0, <2>1, InQueue DEF OInv, OneHand
    <3> QED BY <2>0, <2>1, <2>2, <3>1, <3>2, <3>3, <3>4 DEF LetsGo
  <2>4. CASE ~Live(j)
    <3>1. live' = live /\ Rest(w)
      BY <1>10, <2>1, <2>4 DEF RequeueForRestart
    <3>2. Elsewhere(w) /\ th'[w] = Idle
      BY <3>1, Going
    <3> QED BY <2>0, <2>1, <2>2, <2>4, <3>1, <3>2, AtWork, RowsStay, Does DEF LiveKept
  <2> QED BY <2>3, <2>4
<1>11. CASE SaveRequeued(w)
  <2>0. th[w].pc = "requeue" /\ ~Own(th[w]) /\ th[w].pc \in JobPCs
    BY <1>11 DEF SaveRequeued, Own, OwningPCs, JobPCs
  <2>1. PICK j \in Jobs : j = th[w].job
    BY <2>0, AtWork
  <2>2. Elsewhere(w) /\ th'[w] = Idle
    BY <1>11, Going DEF SaveRequeued
  <2>3. UNCHANGED <<queue, origin, boot>> /\ LiveKept(w, j)
    BY <1>11 DEF SaveRequeued, LiveKept, manager, process, history
  <2>4. RowsKept(w, j)
    BY <1>11, <2>0, <2>1, AtWork, RowMoves DEF SaveRequeued
  <2> QED BY <2>0, <2>1, <2>2, <2>3, <2>4, AtWork, Does
<1>12. CASE LookUp(w) \/ FileComic(w)
  <2>1. Own(th[w]) /\ (GotoEnding(w, "mark", "done") \/ Goto(w, "file"))
    BY <1>12 DEF LookUp, FileComic, Own, OwningPCs
  <2>2. UNCHANGED <<queue, origin, boot, live, row>>
    BY <1>12 DEF LookUp, FileComic, durable, manager, process, history
  <2>3. {"mark", "file"} \subseteq OwningPCs \ BringingPCs /\ "file" \notin EndingPCs /\ "done" \in Terminal
    BY DEF OwningPCs, BringingPCs, EndingPCs, Terminal
  <2> QED BY <1>1, <1>2, <2>1, <2>2, <2>3
<1> QED BY <1>5, <1>6, <1>7, <1>8, <1>9, <1>10, <1>11, <1>12, FinishWorks DEF WorkerStep

LEMMA ClientWorks ==
  ASSUME TInv, OInv, NEW c \in Clients, ClientStep(c)
  PROVE  \E j : WorksOn(c, j) \/ LetsGo(c, j)
<1>0. c \in Threads /\ ThreadsOK(th)
  BY InHand DEF Threads
<1>1. c \notin Workers
  BY ImportQueueAssumption DEF ImportQueueAssumption
<1> USE <1>0 DEF At
<1>2. CASE BeginSaves(c)
  <2>1. th[c].pc = "begin" /\ Own(th[c]) /\ Brings(th[c]) /\ New(th[c]) /\ th[c].pc \in JobPCs
    BY <1>2 DEF BeginSaves, Own, Brings, New, OwningPCs, BringingPCs, JobPCs
  <2>2. PICK j \in Jobs : j = th[c].job
    BY <2>1, AtWork
  <2>3. Elsewhere(c) /\ th'[c].pc = "stage" /\ th'[c].job = j
    BY <1>2, <2>2, Going DEF BeginSaves
  <2>4. Own(th'[c]) /\ th'[c].pc \notin EndingPCs \cup {"insert"}
    BY <2>3 DEF Own, OwningPCs, EndingPCs
  <2>5. UNCHANGED <<queue, origin, boot>> /\ LiveKept(c, j)
    BY <1>2 DEF BeginSaves, LiveKept, manager, process
  <2>6. RowsKept(c, j)
    BY <1>2, <2>1, <2>2, RowMoves DEF BeginSaves, SaveUnfinished
  <2> QED BY <2>1, <2>2, <2>3, <2>4, <2>5, <2>6, Does
<1>3. CASE BeginSaveFails(c)
  <2>1. th[c].pc = "begin" /\ Own(th[c]) /\ th[c].pc \in JobPCs
    BY <1>3 DEF BeginSaveFails, Own, OwningPCs, JobPCs
  <2>2. PICK j \in Jobs : j = th[c].job
    BY <2>1, AtWork
  <2>3. Elsewhere(c) /\ th'[c] = Idle
    BY <1>3, Going DEF BeginSaveFails
  <2>4. queue' = queue /\ PlacesOf(j) = {}
    BY <1>3, <2>1, <2>2, InQueue DEF BeginSaveFails, OInv, OneHand
  <2> QED BY <1>3, <2>1, <2>2, <2>3, <2>4, AtWork
          DEF LetsGo, BeginSaveFails, durable, process, history
<1>4. CASE StageUpload(c)
  <2>1. th[c].pc = "stage" /\ Own(th[c]) /\ Brings(th[c]) /\ New(th[c]) /\ th[c].pc \in JobPCs
    BY <1>4 DEF StageUpload, Own, Brings, New, OwningPCs, BringingPCs, JobPCs
  <2>2. PICK j \in Jobs : j = th[c].job
    BY <2>1, AtWork
  <2>3. Elsewhere(c) /\ th'[c].pc = "upload" /\ th'[c].job = j
    BY <1>4, <2>2, Going DEF StageUpload
  <2>4. Own(th'[c]) /\ th'[c].pc \notin EndingPCs \cup {"insert"}
    BY <2>3 DEF Own, OwningPCs, EndingPCs
  <2>5. UNCHANGED <<queue, origin, boot, row>> /\ LiveKept(c, j)
    BY <1>4 DEF StageUpload, LiveKept, manager, process, history
  <2> QED BY <2>1, <2>2, <2>3, <2>4, <2>5, RowsStay, Does
<1>5. CASE SetInput(c)
  <2>1. th[c].pc = "setInput" /\ ~Own(th[c]) /\ Brings(th[c]) /\ th[c].pc \in JobPCs
    BY <1>5 DEF SetInput, Own, Brings, OwningPCs, BringingPCs, JobPCs
  <2>2. PICK j \in Jobs : j = th[c].job
    BY <2>1, AtWork
  <2>3. Elsewhere(c) /\ ((th'[c].pc = "saveQueued" /\ th'[c].job = j) \/ th'[c] = Idle)
    BY <1>5, <2>2, Going DEF SetInput
  <2>4. ~Own(th'[c]) /\ ~New(th'[c]) /\ th'[c].pc \notin EndingPCs \cup {"insert"}
    BY <2>1, <2>3, AtWork DEF Own, OwningPCs, New, EndingPCs
  <2>5. UNCHANGED <<queue, origin, boot>> /\ LiveKept(c, j)
    BY <1>5 DEF SetInput, LiveKept, manager, process, history
  <2>6. \A k \in Jobs : row'[k].st = row[k].st
    BY <1>5, <2>2 DEF SetInput, TInv, TypeOK, DurableTypes, RowType
  <2> QED BY <2>1, <2>2, <2>3, <2>4, <2>5, <2>6, RowsStay, Does
<1>6. CASE SaveQueued(c)
  <2>1. th[c].pc = "saveQueued" /\ ~Own(th[c]) /\ Brings(th[c]) /\ th[c].pc \in JobPCs
    BY <1>6 DEF SaveQueued, Own, Brings, OwningPCs, BringingPCs, JobPCs
  <2>2. PICK j \in Jobs : j = th[c].job
    BY <2>1, AtWork
  <2>3. Elsewhere(c) /\ th'[c] = Idle
    BY <1>6, Going DEF SaveQueued
  <2>5. UNCHANGED <<queue, origin, boot>> /\ LiveKept(c, j)
    BY <1>6 DEF SaveQueued, LiveKept, manager, process
  <2>6. RowsKept(c, j)
    BY <1>6, <2>1, <2>2, RowMoves DEF SaveQueued, SaveUnfinished
  <2> QED BY <2>1, <2>2, <2>3, <2>5, <2>6, AtWork, Does
<1>7. CASE LibrarySaves(c)
  <2>1. th[c].pc = "insert" /\ ~Own(th[c]) /\ Brings(th[c]) /\ th[c].pc \in JobPCs
    BY <1>7 DEF LibrarySaves, Own, Brings, OwningPCs, BringingPCs, JobPCs
  <2>2. PICK j \in Jobs : j = th[c].job
    BY <2>1, AtWork
  <2>3. Elsewhere(c) /\ th'[c].pc = "setInput" /\ th'[c].job = j
    BY <1>7, <2>2, Going DEF LibrarySaves
  <2>4. ~Own(th'[c]) /\ ~New(th'[c]) /\ th'[c].pc \notin EndingPCs \cup {"insert"}
    BY <2>3 DEF Own, OwningPCs, New, EndingPCs
  <2>5. UNCHANGED <<queue, origin, boot>> /\ LiveKept(c, j)
    BY <1>7 DEF LibrarySaves, LiveKept, manager, process
  <2>6. RowsKept(c, j)
    BY <1>7, <2>1, <2>2, RowMoves DEF LibrarySaves, SaveUnfinished
  <2> QED BY <2>1, <2>2, <2>3, <2>4, <2>5, <2>6, Does
<1>8. CASE LibrarySaveFails(c)
  <2>1. th[c].pc = "insert" /\ th[c].pc \in JobPCs
    BY <1>8 DEF LibrarySaveFails, JobPCs
  <2>2. PICK j \in Jobs : j = th[c].job
    BY <2>1, AtWork
  <2>3. Elsewhere(c) /\ th'[c] = Idle
    BY <1>8, Going DEF LibrarySaveFails
  <2>4. \/ queue' = queue /\ PlacesOf(j) = {}
        \/ \E i \in PlacesOf(j) : queue' = RemoveAt(queue, i)
    BY <1>8, <2>2 DEF LibrarySaveFails
  <2>5. live' = Dropped(j)
    BY <1>8, <2>2 DEF LibrarySaveFails
  <2> QED BY <1>8, <2>1, <2>2, <2>3, <2>4, <2>5, AtWork
          DEF LetsGo, LibrarySaveFails, durable, process, history
<1>9. CASE StorePaused(c) \/ StoreOrder(c)
  <2>1. th[c].pc \in {"storePause", "storeResume", "storeOrder"}
    BY <1>9 DEF StorePaused, StoreOrder
  <2>2. ~Own(th[c])
    BY <2>1 DEF Own, OwningPCs
  <2>3. PICK j : j = th[c].job
    OBVIOUS
  <2>4. Elsewhere(c) /\ th'[c] = Idle
    BY <1>9, Going DEF StorePaused, StoreOrder
  <2>5. UNCHANGED <<queue, origin, boot>> /\ LiveKept(c, j)
    BY <1>9 DEF StorePaused, StoreOrder, LiveKept, manager, process, history
  <2>6. \A k \in Jobs : row'[k].st = row[k].st
    <3>1. CASE StorePaused(c)
      BY <3>1 DEF StorePaused
    <3>2. CASE StoreOrder(c)
      <4> SUFFICES ASSUME NEW k \in Jobs PROVE row'[k].st = row[k].st
        OBVIOUS
      <4>1. row'[k] = row[k] \/ \E n : row'[k] = [row[k] EXCEPT !.seq = n]
        BY <3>2 DEF StoreOrder
      <4>2. \A n : [row[k] EXCEPT !.seq = n].st = row[k].st
        BY DEF TInv, TypeOK, DurableTypes, RowType
      <4> QED BY <4>1, <4>2
    <3> QED BY <1>9, <3>1, <3>2
  <2>7. /\ ~Own(Idle) /\ ~Brings(Idle) /\ ~New(Idle) /\ Idle.pc \notin EndingPCs \cup {"insert"}
    BY Classes DEF EndingPCs
  <2> QED BY <1>1, <2>2, <2>3, <2>4, <2>5, <2>6, <2>7, RowsStay DEF WorksOn
<1> QED BY <1>2, <1>3, <1>4, <1>5, <1>6, <1>7, <1>8, <1>9, FinishWorks DEF ClientStep
LEMMA CallWorks ==
  ASSUME TInv, OInv, NEW c \in Clients, ClientCall(c)
  PROVE  \/ \E u \in Users, j \in Jobs : Begin(c, u, j)
         \/ EnqueueUploaded(c)
         \/ \E f \in Files, j \in Jobs : EnqueueLibraryConvert(c, f, j)
         \/ \E j \in Jobs : CancelQueued(c, j)
         \/ \E j \in Jobs : CancelRunning(c, j)
         \/ \E ids : Reorder(c, ids)
         \/ \E j : WorksOn(c, j)
<1>0. c \in Threads /\ ThreadsOK(th)
  BY InHand DEF Threads
<1>1. c \notin Workers
  BY ImportQueueAssumption DEF ImportQueueAssumption
<1> USE <1>0 DEF At
<1>2. CASE UploadFails(c)
  <2>1. th[c].pc \in {"stage", "upload"} /\ Own(th[c]) /\ th[c].pc \in JobPCs
    BY <1>2 DEF UploadFails, Own, OwningPCs, JobPCs
  <2>2. PICK j \in Jobs : j = th[c].job
    BY <2>1, AtWork
  <2>3. Elsewhere(c) /\ th'[c].pc = "mark" /\ th'[c].job = j /\ th'[c].st = "failed"
    BY <1>2, <2>2, Going DEF UploadFails
  <2>4. /\ Own(th'[c]) /\ ~Brings(th'[c]) /\ ~New(th'[c]) /\ th'[c].pc # "insert"
        /\ th'[c].st \in Terminal
    BY <2>3 DEF Own, Brings, New, OwningPCs, BringingPCs, Terminal
  <2>5. UNCHANGED <<queue, origin, boot, row>> /\ LiveKept(c, j)
    BY <1>2 DEF UploadFails, LiveKept, durable, manager, process, history
  <2> QED BY <2>1, <2>2, <2>3, <2>4, <2>5, RowsStay, Does
<1>3. ASSUME NEW flag \in BOOLEAN, SetPaused(c, flag) PROVE \E j : WorksOn(c, j)
  <2> DEFINE r == [th[c] EXCEPT !.pc = IF flag THEN "storePause" ELSE "storeResume"]
  <2>1. th[c] \in ThreadType /\ th[c].pc = "idle"
    BY <1>3, InHand DEF ThreadOK, SetPaused
  <2>2. r.pc \in {"storePause", "storeResume"} /\ r.job = th[c].job
    BY <2>1 DEF ThreadType
  <2>3. th' = WithWoken([th EXCEPT ![c] = r], Waiting)
    BY <1>3 DEF SetPaused
  <2> HIDE DEF r
  <2>4. Waiting \in SUBSET Waiting /\ c \notin Waiting
    BY <2>1 DEF Waiting
  <2>5. Elsewhere(c) /\ th'[c] = r
    BY <2>3, <2>4, Woken
  <2>6. /\ ~Own(th'[c]) /\ ~Brings(th'[c]) /\ ~New(th'[c]) /\ ~Own(th[c])
        /\ th'[c].pc \notin EndingPCs \cup {"insert"}
    BY <2>1, <2>2, <2>5 DEF Own, Brings, New, OwningPCs, BringingPCs, EndingPCs
  <2>7. PICK j : j = th[c].job
    OBVIOUS
  <2>8. UNCHANGED <<queue, origin, boot, row>> /\ LiveKept(c, j)
    BY <1>3 DEF SetPaused, LiveKept, durable, process, history
  <2> QED BY <1>1, <2>2, <2>5, <2>6, <2>7, <2>8, RowsStay DEF WorksOn
<1>4. ASSUME NEW scope, ClearFinished(c, scope) PROVE \E j : WorksOn(c, j)
  <2>1. PICK j : j = th[c].job
    OBVIOUS
  <2>2. th' = th /\ UNCHANGED <<queue, origin, boot>> /\ LiveKept(c, j) /\ th[c].pc = "idle"
    BY <1>4 DEF ClearFinished, LiveKept, manager, process, history
  <2>3. \A k \in Jobs : row'[k] = row[k] \/ row'[k] = NoRow
    BY <1>4 DEF ClearFinished
  <2>4. RowsKept(c, j)
    BY <2>3 DEF RowsKept, Unfinished, NoRow
  <2>5. Elsewhere(c) /\ th'[c].job = j
    BY <2>1, <2>2 DEF Elsewhere
  <2>6. ~Own(th[c]) /\ ~Brings(th[c]) /\ ~New(th[c]) /\ th[c].pc \notin EndingPCs \cup {"insert"}
    BY <2>2 DEF Own, Brings, New, OwningPCs, BringingPCs, EndingPCs
  <2> QED BY <1>1, <2>1, <2>2, <2>4, <2>5, <2>6 DEF WorksOn
<1> QED BY <1>2, <1>3, <1>4 DEF ClientCall

LEMMA RecoveryWorks ==
  ASSUME TInv, OInv, RecoverStep \/ Stop \/ Drain \/ UNCHANGED vars
  PROVE  Passes \/ RecoverQueues
<1>0. ThreadsOK(th) /\ boot \in BootType
  BY DEF TInv, TypeOK, ProcessTypes
<1>1. ASSUME UNCHANGED <<th, queue, origin, live>>, boot' = NextRecovered, boot.pc \in {"take", "save", "fail"},
             \A k \in Jobs : row[k].st = "none" => row'[k].st = "none" \/ k = Head(boot.todo).job
      PROVE  Passes
  <2>1. /\ boot.todo \in Seq([job : Jobs, seq : Nat, input : BOOLEAN]) /\ boot.todo # <<>>
        /\ Head(boot.todo).job \in Coming
    BY <1>1, FirstComes
  <2>2. boot'.pc = "each" /\ boot'.todo = Tail(boot.todo)
    BY <1>0, <1>1 DEF NextRecovered, BootType
  <2>3. \A i \in DOMAIN boot'.todo : i + 1 \in DOMAIN boot.todo /\ boot'.todo[i] = boot.todo[i + 1]
    BY <2>1, <2>2, HeadTailProperties, LenProperties, EmptySeq
  <2>4. Coming' \subseteq Coming /\ boot.pc \in Early
    BY <1>1, <2>2, <2>3 DEF Coming, Early
  <2> QED BY <1>1, <2>1, <2>4 DEF Passes
<1>2. ASSUME UNCHANGED <<th, queue, origin, live, row>>, boot' = boot PROVE Passes
  BY <1>2 DEF Passes, Coming, Unfinished
<1>3. CASE RecoverLists
  <2>1. boot.pc = "list" /\ UNCHANGED <<th, queue, origin, live, row>>
    BY <1>3 DEF RecoverLists, durable, manager, history
  <2>2. PICK s \in SetToSeqs({j \in Jobs : Unfinished(j)}) :
          /\ Recoverable(s)
          /\ boot' = [pc |-> "each", seq |-> 0, todo |->
               [i \in DOMAIN s |-> [job |-> s[i], seq |-> row[s[i]].seq, input |-> row[s[i]].input]]]
    BY <1>3 DEF RecoverLists
  <2>3. \A i \in DOMAIN s : s[i] \in {j \in Jobs : Unfinished(j)}
    BY <2>2 DEF Recoverable, ToSet
  <2>4. /\ boot'.pc = "each" /\ DOMAIN boot'.todo = DOMAIN s
        /\ \A i \in DOMAIN s : boot'.todo[i].job = s[i]
    BY <2>2
  <2>5. Coming' \subseteq Coming /\ boot.pc \in Early
    BY <2>1, <2>3, <2>4 DEF Coming, Early
  <2> QED BY <2>1, <2>5 DEF Passes
<1>4. CASE RecoverLooks
  <2>1. boot.pc = "each" /\ UNCHANGED <<th, queue, origin, live, row>>
    BY <1>4 DEF RecoverLooks, durable, manager, history
  <2>2. boot'.pc \in {"take", "fail"} /\ boot'.todo = boot.todo
    BY <1>0, <1>4 DEF RecoverLooks, RecoverGoto, BootType
  <2>3. Coming' = Coming /\ boot.pc \in Early
    BY <2>1, <2>2 DEF Coming, Early
  <2> QED BY <2>1, <2>3 DEF Passes
<1>5. CASE RecoverSkips
  BY <1>1, <1>5 DEF RecoverSkips, durable, manager, history
<1>6. CASE RecoverSaves \/ RecoverFails
  <2>1. /\ UNCHANGED <<th, queue, origin, live>> /\ boot' = NextRecovered /\ boot.pc \in {"save", "fail"}
        /\ \E st, s : row' = Upserted(Head(boot.todo).job, st, s)
    BY <1>6 DEF RecoverSaves, RecoverFails, SaveUnfinished, manager, history
  <2>2. PICK j \in Jobs : j = Head(boot.todo).job
    BY <2>1, FirstComes
  <2>3. \A k \in Jobs \ {j} : row'[k] = row[k]
    BY <2>1, <2>2, Saved
  <2> QED BY <1>1, <2>1, <2>2, <2>3
<1>7. CASE RecoverEnds
  <2>1. UNCHANGED <<th, queue, origin, live, row>> /\ boot'.pc = "done" /\ boot'.todo = <<>>
    BY <1>7 DEF RecoverEnds, durable, manager, history, BootOff
  <2>2. Coming' = {} /\ boot'.pc \notin Early
    BY <2>1 DEF Coming, Early
  <2> QED BY <2>1, <2>2 DEF Passes
<1>8. CASE Stop \/ UNCHANGED vars
  BY <1>2, <1>8 DEF Stop, vars, durable, manager, process, history
<1>9. CASE Drain
  <2>1. UNCHANGED <<queue, origin, live, row, boot>> /\ th' = WithWoken(th, Waiting)
    BY <1>9 DEF Drain, durable, manager, history
  <2>2. \A s \in Threads : th'[s] = th[s] \/ (th[s].pc = "waiting" /\ th'[s] = Idle)
    BY <1>0, <2>1 DEF WithWoken, Waiting, At
  <2> QED BY <2>1, <2>2 DEF Passes, Coming, Unfinished
<1> QED BY <1>3, <1>4, <1>5, <1>6, <1>7, <1>8, <1>9 DEF RecoverStep

\* What a step can be.
LEMMA Steps ==
  ASSUME TInv, OInv, [Next]_vars
  PROVE  \/ \E t \in Threads : \E j : WorksOn(t, j) \/ LetsGo(t, j)
         \/ Passes \/ RecoverQueues \/ Start \/ Exit
         \/ \E w \in Workers : Pick(w)
         \/ \E c \in Clients :
              \/ \E u \in Users, j \in Jobs : Begin(c, u, j)
              \/ EnqueueUploaded(c)
              \/ \E f \in Files, j \in Jobs : EnqueueLibraryConvert(c, f, j)
              \/ \E j \in Jobs : CancelQueued(c, j) \/ CancelRunning(c, j)
              \/ \E ids : Reorder(c, ids)
<1>1. ASSUME NEW w \in Workers, WorkerStep(w)
      PROVE  Pick(w) \/ \E t \in Threads : \E j : WorksOn(t, j) \/ LetsGo(t, j)
  BY <1>1, WorkerWorks DEF Threads
<1>2. ASSUME NEW c \in Clients, ClientStep(c)
      PROVE  \E t \in Threads : \E j : WorksOn(t, j) \/ LetsGo(t, j)
  BY <1>2, ClientWorks DEF Threads
<1>3. ASSUME NEW c \in Clients, ClientCall(c)
      PROVE  \/ \E t \in Threads : \E j : WorksOn(t, j) \/ LetsGo(t, j)
             \/ \E u \in Users, j \in Jobs : Begin(c, u, j)
             \/ EnqueueUploaded(c)
             \/ \E f \in Files, j \in Jobs : EnqueueLibraryConvert(c, f, j)
             \/ \E j \in Jobs : CancelQueued(c, j) \/ CancelRunning(c, j)
             \/ \E ids : Reorder(c, ids)
  BY <1>3, CallWorks DEF Threads
<1>4. ASSUME RecoverStep \/ Stop \/ Drain \/ UNCHANGED vars PROVE Passes \/ RecoverQueues
  BY <1>4, RecoveryWorks
<1>5. Next => \/ \E w \in Workers : WorkerStep(w)
              \/ \E c \in Clients : ClientStep(c) \/ ClientCall(c)
              \/ RecoverStep \/ Start \/ Stop \/ Drain \/ Exit
  BY DEF Next
<1> QED BY <1>1, <1>2, <1>3, <1>4, <1>5

LEMMA StepOwns == ASSUME TInv, CInv, OInv, [Next]_vars PROVE OInv'
<1>1. ASSUME NEW c \in Clients,
             \/ \E u \in Users, j \in Jobs : Begin(c, u, j)
             \/ EnqueueUploaded(c)
             \/ \E f \in Files, j \in Jobs : EnqueueLibraryConvert(c, f, j)
             \/ \E j \in Jobs : CancelQueued(c, j) \/ CancelRunning(c, j)
             \/ \E ids : Reorder(c, ids)
      PROVE  OInv'
  BY <1>1, Begun, UploadQueued, LibraryQueued, QueuedCancelled, RunningCancelled, Reordered
<1>2. ASSUME NEW t \in Threads, NEW j, WorksOn(t, j) \/ LetsGo(t, j) PROVE OInv'
  BY <1>2, WorkedOn, LetGo
<1>3. ASSUME Passes \/ RecoverQueues \/ Start \/ Exit PROVE OInv'
  BY <1>3, Passed, RecoveryQueued, Started, Exited
<1>4. ASSUME NEW w \in Workers, Pick(w) PROVE OInv'
  BY <1>4, Picked
<1> QED BY <1>1, <1>2, <1>3, <1>4, Steps

LEMMA InitOwns == Init => OInv
<1> SUFFICES ASSUME Init PROVE OInv
  OBVIOUS
<1>1. /\ boot = BootOff /\ (\A t \in Threads : th[t] = Idle) /\ (\A k \in Jobs : live[k] = NotLive)
      /\ queue = <<>> /\ \A k \in Jobs : row[k] = NoRow
  BY DEF Init
<1>2. \A s \in Threads : ~Own(th[s]) /\ ~Brings(th[s]) /\ ~New(th[s]) /\ th[s].pc = "idle" /\ th[s].job = NoJob
  BY <1>1, Classes DEF Idle
<1>3. Coming = {} /\ boot.pc \notin Early
  BY <1>1 DEF Coming, BootOff, Early
<1>4. DOMAIN queue = {} /\ ToSet(queue) = {}
  BY <1>1 DEF ToSet
<1>5. Unheard
  BY <1>1, <1>2, <1>3, ImportQueueAssumption DEF Unheard, ImportQueueAssumption, NoRow
<1>6. Orderly /\ OneHand
  BY <1>2, <1>4 DEF Orderly, OneHand, Distinct
<1>7. OneBringer /\ DeadInHand /\ Kept
  BY <1>1, <1>2 DEF OneBringer, DeadInHand, Kept, Live, NotLive
<1>8. Endings /\ RecoversAlone
  BY <1>2, <1>3 DEF Endings, RecoversAlone, EndingPCs
<1> QED BY <1>5, <1>6, <1>7, <1>8 DEF OInv

LEMMA OwnersInvariant == Spec => [](TInv /\ CInv /\ OInv)
<1>1. TInv /\ CInv /\ OInv /\ [Next]_vars => OInv'
  BY StepOwns
<1> QED BY <1>1, InitOwns, TypesInvariant, CountsInvariant, PTL DEF Spec

\* The queue holds live jobs that nobody runs, none twice (manager.go:
\* enqueueUploaded, cancelJob, worker), however requests, workers, recoveries
\* and crashes interleave.
THEOREM QueueStaysLive == Spec => []QueueIsLive
<1>1. ASSUME OInv PROVE QueueIsLive
  <2>1. \A i \in DOMAIN queue : queue[i] \in ToSet(queue)
    BY DEF ToSet
  <2> QED BY <1>1, <2>1 DEF OInv, Orderly, Distinct, QueueIsLive
<1>2. OInv => QueueIsLive
  BY <1>1
<1> QED BY <1>2, OwnersInvariant, PTL

\* A live job is in the queue or in the hands of exactly one goroutine: none is
\* run twice and none is left to nobody.
THEOREM OneOwnerAlways == Spec => []OneOwner
<1>1. ASSUME TInv, OInv, NEW j \in Jobs
      PROVE  /\ Cardinality(Owners(j)) <= 1
             /\ Live(j) => (j \in ToSet(queue) <=> Owners(j) = {})
  <2>1. \A t \in Threads : t \in Owners(j) <=> Own(th[t]) /\ th[t].job = j
    BY DEF Owners, Own
  <2>2. Owners(j) \subseteq Threads
    BY DEF Owners
  <2>3. Owners(j) = {} \/ \E t \in Threads : Owners(j) = {t}
    BY <1>1, <2>1, <2>2 DEF OInv, OneHand
  <2>4. Cardinality(Owners(j)) <= 1
    <3>1. Cardinality({}) = 0 /\ \A t : Cardinality({t}) = 1
      BY FS_EmptySet, FS_Singleton
    <3> QED BY <2>3, <3>1
  <2>5. Live(j) => (j \in ToSet(queue) <=> Owners(j) = {})
    BY <1>1, <2>1, <2>2 DEF OInv, OneHand, Kept
  <2> QED BY <2>4, <2>5
<1>2. TInv /\ OInv => OneOwner
  BY <1>1 DEF OneOwner
<1> QED BY <1>2, OwnersInvariant, PTL
-----------------------------------------------------------------------------
(* The import queue is a work queue.                                       *)

Holder == [j \in Jobs |-> HolderOf(j)]

\* The one goroutine of a set of one, as HolderOf picks it.
TheOne(S) == IF S = {} THEN None ELSE CHOOSE t \in Threads : t \in S

LEMMA OneIsPicked ==
  ASSUME NEW S \in SUBSET Threads, \A t, s \in S : t = s
  PROVE  /\ \A t \in Threads : TheOne(S) = t <=> t \in S
         /\ TheOne(S) = None <=> S = {}
         /\ TheOne(S) \in Threads \cup {None} /\ None \notin Threads
<1>1. None \notin Threads
  BY ImportQueueAssumption DEF ImportQueueAssumption
<1>2. CASE S = {}
  BY <1>1, <1>2 DEF TheOne
<1>3. CASE S # {}
  <2>1. \E t \in Threads : t \in S
    BY <1>3
  <2>2. TheOne(S) \in Threads /\ TheOne(S) \in S
    BY <1>3, <2>1 DEF TheOne
  <2> QED BY <1>1, <1>3, <2>2
<1> QED BY <1>2, <1>3

LEMMA HolderPicks ==
  ASSUME NEW j
  PROVE  /\ HolderOf(j) = TheOne(Owners(j))
         /\ Owners(j) \in SUBSET Threads
         /\ \A t \in Threads : t \in Owners(j) <=> Own(th[t]) /\ th[t].job = j
BY DEF HolderOf, TheOne, Owners, Own

LEMMA HolderPicksNext ==
  ASSUME NEW j
  PROVE  /\ HolderOf(j)' = TheOne(Owners(j)')
         /\ Owners(j)' \in SUBSET Threads
         /\ \A t \in Threads : t \in Owners(j)' <=> Own(th'[t]) /\ th'[t].job = j
BY DEF HolderOf, TheOne, Owners, Own

\* In whose hands a job is.
LEMMA Hands ==
  ASSUME OInv, NEW j \in Jobs
  PROVE  /\ \A t \in Threads : HolderOf(j) = t <=> Own(th[t]) /\ th[t].job = j
         /\ HolderOf(j) = None <=> \A t \in Threads : ~(Own(th[t]) /\ th[t].job = j)
         /\ HolderOf(j) \in Threads \cup {None} /\ None \notin Threads
<1>1. \A t, s \in Owners(j) : t = s
  BY HolderPicks DEF OInv, OneHand
<1> QED BY <1>1, HolderPicks, OneIsPicked

LEMMA HandsNext ==
  ASSUME OInv', NEW j \in Jobs
  PROVE  /\ \A t \in Threads : HolderOf(j)' = t <=> Own(th'[t]) /\ th'[t].job = j
         /\ HolderOf(j)' = None <=> \A t \in Threads : ~(Own(th'[t]) /\ th'[t].job = j)
         /\ HolderOf(j)' \in Threads \cup {None}
<1>1. \A t, s \in Owners(j)' : t = s
  BY HolderPicksNext DEF OInv, OneHand
<1> QED BY <1>1, HolderPicksNext, OneIsPicked

\* Every other job stays where it is.
OthersStay(j) ==
  \A k \in Jobs \ {j} : \A t \in Threads :
    (Own(th'[t]) /\ th'[t].job = k) <=> (Own(th[t]) /\ th[t].job = k)

LEMMA HandOver ==
  ASSUME OInv, OInv', NEW j \in Jobs, OthersStay(j), NEW h \in Threads \cup {None},
         h \in Threads => Own(th'[h]) /\ th'[h].job = j,
         h = None => \A t \in Threads : ~(Own(th'[t]) /\ th'[t].job = j)
  PROVE  Holder' = [Holder EXCEPT ![j] = h]
<1>1. HolderOf(j)' = h
  BY HandsNext
<1>2. ASSUME NEW k \in Jobs \ {j} PROVE HolderOf(k)' = HolderOf(k)
  BY Hands, HandsNext DEF OthersStay
<1> QED BY <1>1, <1>2 DEF Holder

LEMMA HandsStay ==
  ASSUME OInv, OInv',
         \A t \in Threads : \/ Own(th'[t]) /\ Own(th[t]) /\ th'[t].job = th[t].job
                            \/ ~Own(th'[t]) /\ ~Own(th[t])
  PROVE  Holder' = Holder
<1>1. ASSUME NEW k \in Jobs PROVE HolderOf(k)' = HolderOf(k)
  BY Hands, HandsNext
<1> QED BY <1>1 DEF Holder

LEMMA WorkIsOne ==
  ASSUME TInv, OInv, OInv', NEW t \in Threads, NEW j, WorksOn(t, j)
  PROVE  [Line!Next]_(Line!vars)
<1>1. \A s \in Threads \ {t} : \/ Own(th'[s]) /\ Own(th[s]) /\ th'[s].job = th[s].job
                               \/ ~Own(th'[s]) /\ ~Own(th[s])
  BY Classes DEF WorksOn, Elsewhere
<1>2. queue' = queue /\ th[t].job = j
  BY DEF WorksOn
<1>3. CASE Own(th[t]) /\ ~Own(th'[t])
  <2>1. j \in Jobs
    BY <1>2, <1>3, InHand, Marks DEF Own
  <2>2. OthersStay(j) /\ \A s \in Threads : ~(Own(th'[s]) /\ th'[s].job = j)
    BY <1>1, <1>2, <1>3 DEF OthersStay, OInv, OneHand
  <2>3. Holder' = [Holder EXCEPT ![j] = None]
    BY <2>1, <2>2, HandOver, Hands
  <2>4. Holder[j] # None
    BY <1>2, <1>3, <2>1, Hands DEF Holder
  <2>5. Line!Ends(j)
    BY <1>2, <2>3, <2>4 DEF Line!Ends, Line!InHand, Line!Passes, Holder
  <2> QED BY <2>1, <2>5 DEF Line!Next
<1>4. CASE Own(th'[t]) \/ ~Own(th[t])
  <2>1. \/ Own(th'[t]) /\ Own(th[t]) /\ th'[t].job = th[t].job
        \/ ~Own(th'[t]) /\ ~Own(th[t])
    BY <1>4, Classes DEF WorksOn
  <2>2. Holder' = Holder
    BY <1>1, <2>1, HandsStay
  <2> QED BY <1>2, <2>2 DEF Line!vars, Holder
<1> QED BY <1>3, <1>4
LEMMA SameOperators ==
  ASSUME NEW s
  PROVE  /\ Line!ToSet(s) = ToSet(s) /\ Line!IsInjective(s) = IsInjective(s)
         /\ \A i : Line!RemoveAt(s, i) = RemoveAt(s, i)
BY DEF Line!ToSet, ToSet, Line!IsInjective, IsInjective, Line!RemoveAt, RemoveAt

LEMMA LettingGoIsOne ==
  ASSUME TInv, OInv, OInv', NEW t \in Threads, NEW j, LetsGo(t, j)
  PROVE  [Line!Next]_(Line!vars)
<1>1. \A s \in Threads \ {t} : \/ Own(th'[s]) /\ Own(th[s]) /\ th'[s].job = th[s].job
                               \/ ~Own(th'[s]) /\ ~Own(th[s])
  BY Classes DEF LetsGo, Elsewhere
<1>2. th[t].job = j /\ j \in Jobs /\ ~Own(th'[t])
  BY InHand, Marks DEF LetsGo, Own, JobPCs
<1>3. CASE Own(th[t])
  <2>1. OthersStay(j) /\ \A s \in Threads : ~(Own(th'[s]) /\ th'[s].job = j)
    BY <1>1, <1>2, <1>3 DEF OthersStay, OInv, OneHand
  <2>2. Holder' = [Holder EXCEPT ![j] = None]
    BY <1>2, <2>1, HandOver, Hands
  <2>3. Holder[j] # None
    BY <1>2, <1>3, Hands DEF Holder
  <2>4. queue' = queue
    BY <1>2, <1>3, InQueue DEF LetsGo, OInv, OneHand
  <2>5. Line!Ends(j)
    BY <2>2, <2>3, <2>4 DEF Line!Ends, Line!InHand, Line!Passes, Holder
  <2> QED BY <1>2, <2>5 DEF Line!Next
<1>4. CASE ~Own(th[t]) /\ queue' = queue
  <2>1. Holder' = Holder
    BY <1>1, <1>2, <1>4, HandsStay
  <2> QED BY <1>4, <2>1 DEF Line!vars, Holder
<1>5. CASE ~Own(th[t]) /\ \E i \in PlacesOf(j) : queue' = RemoveAt(queue, i)
  <2>1. PICK i \in DOMAIN queue : queue[i] = j /\ queue' = RemoveAt(queue, i)
    BY <1>5 DEF PlacesOf
  <2>2. \A s \in Threads : ~(Own(th[s]) /\ th[s].job = j)
    BY <2>1 DEF OInv, OneHand, ToSet
  <2>3. OthersStay(j) /\ \A s \in Threads : ~(Own(th'[s]) /\ th'[s].job = j)
    BY <1>1, <1>2, <1>5, <2>2 DEF OthersStay
  <2>4. Holder' = [Holder EXCEPT ![queue[i]] = None]
    BY <1>2, <2>1, <2>3, HandOver, Hands
  <2>5. Line!TakesBack(None)
    BY <2>1, <2>4, SameOperators DEF Line!TakesBack, Line!Passes, Holder
  <2> QED BY <2>5 DEF Line!Next
<1> QED BY <1>3, <1>4, <1>5 DEF LetsGo

LEMMA PassingIsOne ==
  ASSUME OInv, OInv', queue' = queue,
         \A s \in Threads : th'[s] = th[s] \/ (th[s].pc = "waiting" /\ th'[s] = Idle)
  PROVE  [Line!Next]_(Line!vars)
<1>1. Holder' = Holder
  BY HandsStay, Classes
<1> QED BY <1>1 DEF Line!vars, Holder

LEMMA BeginningIsOne ==
  ASSUME TInv, OInv, OInv', NEW c \in Clients, NEW u \in Users, NEW j \in Jobs, Begin(c, u, j)
  PROVE  Line!Next
<1>1. c \in Threads /\ TakesOn(c, j, "begin") /\ th[c].pc = "idle"
  BY InHand, Starting DEF Begin, Threads, At
<1>2. j \notin ToSet(queue) /\ \A s \in Threads : th[s].job # j
  BY NewToAll DEF Begin
<1>3. Own(th'[c]) /\ th'[c].job = j /\ ~Own(th[c])
  BY <1>1 DEF TakesOn, Own, OwningPCs
<1>4. OthersStay(j)
  BY <1>1, <1>2, <1>3, Classes DEF OthersStay, TakesOn, Elsewhere
<1>5. Holder' = [Holder EXCEPT ![j] = c]
  BY <1>1, <1>3, <1>4, HandOver, Hands
<1>6. Holder[j] = None /\ queue' = queue
  BY <1>2, Hands DEF Holder, Begin
<1>7. Line!Brings(j, c)
  BY <1>2, <1>5, <1>6, SameOperators DEF Line!Brings, Line!InHand, Line!InLine, Line!Passes, Holder
<1> QED BY <1>7 DEF Line!Next

LEMMA JoiningIsOne ==
  ASSUME TInv, OInv, OInv', NEW j \in Jobs, queue' = Append(queue, j), j \notin ToSet(queue),
         OthersStay(j),
         \A s \in Threads : ~(Own(th'[s]) /\ th'[s].job = j),
         \A s \in Threads : Own(th[s]) /\ th[s].job = j => s \in Clients
  PROVE  Line!Next
<1>1. Holder' = [Holder EXCEPT ![j] = None]
  BY HandOver, Hands
<1>2. Holder[j] \in Clients \cup {None}
  BY Hands DEF Holder
<1>3. Line!Queues(j)
  BY <1>1, <1>2, SameOperators DEF Line!Queues, Line!InLine, Line!Passes, Holder
<1> QED BY <1>3 DEF Line!Next

LEMMA LeavingIsOne ==
  ASSUME OInv, OInv', NEW t \in Threads, NEW j \in Jobs, LeavesLine(t, j)
  PROVE  Holder' = [Holder EXCEPT ![j] = t]
<1>1. Own(th'[t]) /\ th'[t].job = j /\ ~Own(th[t])
  BY Classes DEF LeavesLine
<1>2. \A s \in Threads : ~(Own(th[s]) /\ th[s].job = j)
  BY DEF LeavesLine, OInv, OneHand
<1>3. OthersStay(j)
  <2>1. \A s \in Threads \ {t} : th'[s] = th[s] \/ (~Own(th[s]) /\ ~Own(th'[s]))
    BY Classes DEF LeavesLine, Elsewhere
  <2> QED BY <1>1, <2>1 DEF OthersStay
<1> QED BY <1>1, <1>3, HandOver, Hands

LEMMA ReorderingIsOne ==
  ASSUME TInv, OInv, NEW c \in Clients, NEW ids, Reorder(c, ids)
  PROVE  Line!Next
<1>1. /\ OInv' /\ Distinct(queue') /\ ToSet(queue') = ToSet(queue) /\ queue' \in Seq(Jobs)
      /\ \A s \in Threads : th'[s] = th[s] \/ (th'[s].pc = "storeOrder" /\ th[s].pc = "idle")
  BY Reordered
<1>2. Holder' = Holder
  <2>1. \A r : r.pc = "storeOrder" => ~Own(r)
    BY DEF Own, OwningPCs
  <2> QED BY <1>1, <2>1, HandsStay, Classes
<1>3. IsInjective(queue')
  BY <1>1 DEF Distinct, IsInjective
<1>4. Line!Reorders
  BY <1>1, <1>2, <1>3, SameOperators DEF Line!Reorders, Holder
<1> QED BY <1>4 DEF Line!Next

LEMMA ExitIsOne == ASSUME Exit PROVE Line!Next
<1>1. \A t \in Threads : th'[t] = Idle
  BY DEF Exit
<1>2. \A j : Owners(j)' = {}
  BY <1>1, Classes DEF Owners, Own
<1>3. Holder' = [j \in Jobs |-> None]
  BY <1>2 DEF Holder, HolderOf
<1>4. Line!Stops
  BY <1>3 DEF Line!Stops, Exit, Holder
<1> QED BY <1>4 DEF Line!Next

LEMMA StepIsOne ==
  ASSUME TInv, CInv, OInv, [Next]_vars
  PROVE  [Line!Next]_(Line!vars)
<1>0. OInv'
  BY StepOwns
<1>1. ASSUME NEW t \in Threads, NEW j, WorksOn(t, j) \/ LetsGo(t, j)
      PROVE  [Line!Next]_(Line!vars)
  BY <1>0, <1>1, WorkIsOne, LettingGoIsOne
<1>2. CASE Passes \/ Start \/ \E c \in Clients, j \in Jobs : CancelRunning(c, j)
  <2>1. queue' = queue /\ \A s \in Threads : th'[s] = th[s] \/ (th[s].pc = "waiting" /\ th'[s] = Idle)
    BY <1>2, Started DEF Passes, CancelRunning
  <2> QED BY <1>0, <2>1, PassingIsOne
<1>3. CASE RecoverQueues
  <2>1. PICK j \in Jobs : j = Head(boot.todo).job
    BY <1>3, RecoveryQueued
  <2>2. /\ th' = th /\ queue' = Append(queue, j) /\ j \notin ToSet(queue)
        /\ \A s \in Threads : Own(th[s]) => th[s].job # j
    BY <1>3, <2>1, RecoveryQueued
  <2>3. OthersStay(j)
    BY <2>2 DEF OthersStay
  <2> QED BY <1>0, <2>2, <2>3, JoiningIsOne
<1>4. ASSUME NEW w \in Workers, Pick(w) PROVE Line!Next
  <2>1. PICK j \in Jobs : j = Head(queue) /\ LeavesLine(w, j)
    BY <1>4, Picked
  <2>2. Holder' = [Holder EXCEPT ![Head(queue)] = w]
    BY <1>0, <2>1, LeavingIsOne DEF Threads
  <2>3. Line!Takes(w)
    BY <1>4, <2>2 DEF Line!Takes, Line!Passes, Holder, Pick
  <2> QED BY <2>3 DEF Line!Next
<1>5. ASSUME NEW c \in Clients, NEW j \in Jobs, CancelQueued(c, j) PROVE Line!Next
  <2>1. LeavesLine(c, j) /\ \E i \in PlacesOf(j) : queue' = RemoveAt(queue, i)
    BY <1>5, QueuedCancelled
  <2>2. PICK i \in DOMAIN queue : queue[i] = j /\ queue' = RemoveAt(queue, i)
    BY <2>1 DEF PlacesOf
  <2>3. Holder' = [Holder EXCEPT ![queue[i]] = c]
    BY <1>0, <2>1, <2>2, LeavingIsOne DEF Threads
  <2>4. Line!TakesBack(c)
    BY <2>2, <2>3, SameOperators DEF Line!TakesBack, Line!Passes, Holder
  <2> QED BY <2>4 DEF Line!Next
<1>6. ASSUME NEW c \in Clients, EnqueueUploaded(c) PROVE Line!Next
  <2>1. PICK j \in Jobs : th[c].job = j /\ JoinsLine(c, j) /\ Own(th[c]) /\ j \notin ToSet(queue)
    BY <1>6, UploadQueued
  <2>2. /\ OthersStay(j) /\ \A s \in Threads : ~(Own(th'[s]) /\ th'[s].job = j)
        /\ \A s \in Threads : Own(th[s]) /\ th[s].job = j => s = c
    BY <2>1, Classes DEF OthersStay, JoinsLine, Elsewhere, OInv, OneHand, Threads
  <2> QED BY <1>0, <2>1, <2>2, JoiningIsOne DEF JoinsLine
<1>7. ASSUME NEW c \in Clients, NEW f \in Files, NEW j \in Jobs, EnqueueLibraryConvert(c, f, j)
      PROVE  Line!Next
  <2>1. JoinsLine(c, j) /\ ~Own(th[c]) /\ j \notin ToSet(queue) /\ \A s \in Threads : th[s].job # j
    BY <1>7, LibraryQueued
  <2>2. /\ OthersStay(j) /\ \A s \in Threads : ~(Own(th'[s]) /\ th'[s].job = j)
    BY <2>1, Classes DEF OthersStay, JoinsLine, Elsewhere
  <2> QED BY <1>0, <2>1, <2>2, JoiningIsOne DEF JoinsLine
<1> QED BY <1>0, <1>1, <1>2, <1>3, <1>4, <1>5, <1>6, <1>7, Steps, BeginningIsOne, ReorderingIsOne, ExitIsOne

\* The import queue is a work queue: no crash, recovery, cancel or failed save
\* makes a job jump the line, hands it from one goroutine to another, or gives
\* it to two (manager.go: recover, "skip it rather than queue it twice").
THEOREM ImportQueueIsWorkQueue == Spec => IsWorkQueue
<1>1. Init => Line!Init
  <2> SUFFICES ASSUME Init PROVE Line!Init
    OBVIOUS
  <2>1. \A t \in Threads : th[t] = Idle
    BY DEF Init
  <2>2. \A j : Owners(j) = {}
    BY <2>1, Classes DEF Owners, Own
  <2> QED BY <2>2 DEF Init, Line!Init, HolderOf
<1>2. TInv /\ CInv /\ OInv /\ [Next]_vars => [Line!Next]_(Line!vars)
  BY StepIsOne
<1> QED BY <1>1, <1>2, OwnersInvariant, PTL DEF Spec, IsWorkQueue, Line!Spec
-----------------------------------------------------------------------------
(* The queue is in the order of its numbers.                               *)

InOrder(q) == \A i, k \in DOMAIN q : i < k => live[q[i]].seq < live[q[k]].seq

LEMMA NumbersKept ==
  ASSUME InOrder(queue), queue' = queue, \A k \in ToSet(queue) : live'[k].seq = live[k].seq
  PROVE  InOrder(queue)'
BY DEF InOrder, ToSet

\* A job out of line leaves the others in order.
LEMMA Thinned ==
  ASSUME TInv, InOrder(queue), NEW i \in DOMAIN queue,
         queue' = RemoveAt(queue, i) \/ (queue' = Tail(queue) /\ i = 1),
         \A k \in ToSet(queue') : live'[k].seq = live[k].seq
  PROVE  InOrder(queue)'
<1>1. /\ queue \in Seq(Jobs) /\ DOMAIN queue = 1..Len(queue) /\ Len(queue) \in Nat /\ i \in 1..Len(queue)
  BY InQueue, LenProperties
<1>2. /\ DOMAIN queue' = 1..(Len(queue) - 1)
      /\ \A k \in 1..(Len(queue) - 1) : queue'[k] = IF k < i THEN queue[k] ELSE queue[k + 1]
  <2>1. CASE queue' = RemoveAt(queue, i)
    <3>1. queue' \in Seq(Jobs) /\ Len(queue') = Len(queue) - 1
      BY <1>1, <2>1, RemoveAtProperties
    <3>2. \A k \in 1..(Len(queue) - 1) : queue'[k] = IF k < i THEN queue[k] ELSE queue[k + 1]
      BY <1>1, <2>1, RemoveAtProperties
    <3> QED BY <3>1, <3>2, LenProperties
  <2>2. CASE queue' = Tail(queue) /\ i = 1
    <3>1. queue # <<>>
      BY <1>1, EmptySeq
    <3> QED BY <1>1, <2>2, <3>1, HeadTailProperties, LenProperties
  <2> QED BY <2>1, <2>2
<1>3. ASSUME NEW a \in 1..(Len(queue) - 1), NEW b \in 1..(Len(queue) - 1), a < b
      PROVE  live'[queue'[a]].seq < live'[queue'[b]].seq
  <2>1. live'[queue'[a]].seq = live[queue'[a]].seq /\ live'[queue'[b]].seq = live[queue'[b]].seq
    BY <1>2 DEF ToSet
  <2> DEFINE At2(k) == IF k < i THEN k ELSE k + 1
  <2>2. At2(a) \in 1..Len(queue) /\ At2(b) \in 1..Len(queue) /\ At2(a) < At2(b)
    BY <1>1, <1>3
  <2>3. queue'[a] = queue[At2(a)] /\ queue'[b] = queue[At2(b)]
    BY <1>2
  <2> HIDE DEF At2
  <2> QED BY <1>1, <2>1, <2>2, <2>3 DEF InOrder
<1> QED BY <1>2, <1>3 DEF InOrder

\* A job with the counter's number joins at the end.
LEMMA Lengthened ==
  ASSUME TInv, CInv, OInv, up, InOrder(queue), NEW j \in Jobs, j \notin ToSet(queue), queue' = Append(queue, j),
         live'[j].seq = seq, \A k \in Jobs \ {j} : live'[k] = live[k]
  PROVE  InOrder(queue)'
<1>1. /\ queue \in Seq(Jobs) /\ DOMAIN queue = 1..Len(queue) /\ Len(queue) \in Nat
      /\ DOMAIN queue' = 1..(Len(queue) + 1) /\ queue'[Len(queue) + 1] = j
      /\ \A i \in 1..Len(queue) : queue'[i] = queue[i]
  BY InQueue, AppendProperties, LenProperties
<1>2. \A i \in 1..Len(queue) : queue[i] \in Jobs \ {j}
  BY <1>1, InQueue DEF ToSet
<1>3. \A i \in 1..Len(queue) : live'[queue[i]] = live[queue[i]] /\ live[queue[i]].seq < seq
  BY <1>2 DEF CInv, LiveCounted
<1>4. ASSUME NEW a \in 1..(Len(queue) + 1), NEW b \in 1..(Len(queue) + 1), a < b
      PROVE  live'[queue'[a]].seq < live'[queue'[b]].seq
  <2>1. a \in 1..Len(queue) /\ (b \in 1..Len(queue) \/ b = Len(queue) + 1)
    BY <1>1, <1>4
  <2> QED BY <1>1, <1>3, <1>4, <2>1 DEF InOrder
<1> QED BY <1>1, <1>4 DEF InOrder

LEMMA ReorderOrders ==
  ASSUME TInv, OInv, NEW c \in Clients, NEW ids, Reorder(c, ids)
  PROVE  InOrder(queue)'
<1>1. PICK new \in Rearrangements(queue) :
        /\ queue' = new
        /\ live' = [j \in Jobs |->
             IF j \in ToSet(new) /\ Live(j)
             THEN [live[j] EXCEPT !.seq = seq + PlaceIn(new, j) - 1]
             ELSE live[j]]
  BY DEF Reorder
<1>2. Distinct(new) /\ ToSet(new) = ToSet(queue) /\ new \in Seq(Jobs)
  BY InQueue, Rearranged DEF OInv, Orderly
<1>3. DOMAIN new = 1..Len(new) /\ Len(new) \in Nat /\ seq \in Nat /\ live \in [Jobs -> LiveType]
  BY <1>2, LenProperties DEF TInv, TypeOK, ManagerTypes
<1>4. ASSUME NEW i \in DOMAIN new PROVE live'[new[i]].seq = seq + i - 1
  <2>1. new[i] \in ToSet(new) /\ new[i] \in Jobs
    BY <1>2, InQueue DEF ToSet
  <2>2. Live(new[i])
    BY <1>2, <2>1 DEF OInv, Orderly, Live
  <2>3. PlaceIn(new, new[i]) = i
    <3>1. PlaceIn(new, new[i]) \in DOMAIN new /\ new[PlaceIn(new, new[i])] = new[i]
      BY <1>2, <1>3, <2>1, PlaceInSequence
    <3> QED BY <1>2, <3>1 DEF Distinct
  <2>4. PICK k \in Jobs : k = new[i]
    BY <2>1
  <2>5. live'[k] = [live[k] EXCEPT !.seq = seq + PlaceIn(new, k) - 1]
    BY <1>1, <2>1, <2>2, <2>4
  <2>6. \A n : [live[k] EXCEPT !.seq = n].seq = n
    BY <1>3 DEF LiveType
  <2>7. live'[k].seq = seq + PlaceIn(new, k) - 1
    BY <2>5, <2>6
  <2> QED BY <2>3, <2>4, <2>7
<1>5. ASSUME NEW a \in DOMAIN new, NEW b \in DOMAIN new, a < b
      PROVE  live'[new[a]].seq < live'[new[b]].seq
  <2>1. live'[new[a]].seq = seq + a - 1 /\ live'[new[b]].seq = seq + b - 1
    BY <1>4
  <2>2. a \in Int /\ b \in Int
    BY <1>3
  <2> QED BY <1>3, <1>5, <2>1, <2>2
<1> QED BY <1>1, <1>5 DEF InOrder

LEMMA StepOrders ==
  ASSUME TInv, CInv, OInv, InOrder(queue), [Next]_vars
  PROVE  InOrder(queue)'
<1>0. live \in [Jobs -> LiveType] /\ ToSet(queue) \subseteq Jobs
  BY InQueue DEF TInv, TypeOK, ManagerTypes
<1>1. ASSUME NEW t \in Threads, NEW j, WorksOn(t, j) PROVE InOrder(queue)'
  <2>1. queue' = queue /\ \A k \in ToSet(queue) : live'[k] = live[k]
    BY <1>0, <1>1 DEF WorksOn, LiveKept, OInv, OneHand
  <2> QED BY <2>1, NumbersKept
<1>2. ASSUME NEW t \in Threads, NEW j, LetsGo(t, j) PROVE InOrder(queue)'
  <2>1. th[t].job = j /\ j \in Jobs
    BY <1>2, InHand, Marks DEF LetsGo, Own, JobPCs
  <2>2. \A k \in Jobs \ {j} : live'[k] = live[k]
    BY <1>0, <1>2, <2>1 DEF LetsGo, Dropped
  <2>3. CASE queue' = queue /\ PlacesOf(j) = {}
    <3>1. \A k \in ToSet(queue) : live'[k] = live[k]
      BY <1>0, <2>2, <2>3, InQueue
    <3> QED BY <2>3, <3>1, NumbersKept
  <2>4. CASE \E i \in PlacesOf(j) : queue' = RemoveAt(queue, i)
    <3>1. PICK i \in DOMAIN queue : queue[i] = j /\ queue' = RemoveAt(queue, i)
      BY <2>4 DEF PlacesOf
    <3>2. ToSet(queue') = ToSet(queue) \ {j}
      BY <3>1, InQueue, Spliced DEF OInv, Orderly
    <3> QED BY <1>0, <2>2, <3>1, <3>2, Thinned
  <2> QED BY <1>2, <2>3, <2>4 DEF LetsGo
<1>3. CASE Passes \/ Start \/ \E c \in Clients, u \in Users, j \in Jobs : Begin(c, u, j)
  <2>1. CASE Passes \/ Start
    <3>1. queue' = queue /\ live' = live
      BY <2>1 DEF Passes, Start
    <3> QED BY <3>1, NumbersKept
  <2>2. ASSUME NEW c \in Clients, NEW u \in Users, NEW j \in Jobs, Begin(c, u, j) PROVE InOrder(queue)'
    <3>1. j \notin ToSet(queue)
      BY <2>2, NewToAll DEF Begin
    <3>2. queue' = queue /\ \A k \in ToSet(queue) : live'[k] = live[k]
      BY <1>0, <2>2, <3>1 DEF Begin, AtStage
    <3> QED BY <3>2, NumbersKept
  <2> QED BY <1>3, <2>1, <2>2
<1>4. ASSUME NEW c \in Clients, NEW j \in Jobs, CancelRunning(c, j) PROVE InOrder(queue)'
  <2>1. queue' = queue /\ \A k \in ToSet(queue) : live'[k].seq = live[k].seq
    BY <1>0, <1>4 DEF CancelRunning, LiveType
  <2> QED BY <2>1, NumbersKept
<1>5. ASSUME NEW c \in Clients, NEW j \in Jobs, CancelQueued(c, j) PROVE InOrder(queue)'
  <2>1. PICK i \in DOMAIN queue : queue' = RemoveAt(queue, i)
    BY <1>5 DEF CancelQueued, PlacesOf
  <2>2. live' = live
    BY <1>5 DEF CancelQueued
  <2> QED BY <2>1, <2>2, Thinned
<1>6. ASSUME NEW w \in Workers, Pick(w) PROVE InOrder(queue)'
  <2>1. PICK j \in Jobs : j = Head(queue) /\ LeavesLine(w, j)
    BY <1>6, Picked
  <2>2. queue' = Tail(queue) /\ 1 \in DOMAIN queue
    BY <1>6, InQueue, LenProperties, EmptySeq DEF Pick
  <2>3. \A k \in ToSet(queue') : live'[k] = live[k]
    BY <1>0, <2>1 DEF LeavesLine
  <2> QED BY <2>2, <2>3, Thinned
<1>7. CASE RecoverQueues
  <2>1. PICK j \in Jobs : j = Head(boot.todo).job
    BY <1>7, RecoveryQueued
  <2>2. queue' = Append(queue, j) /\ j \notin ToSet(queue)
    BY <1>7, <2>1, RecoveryQueued
  <2>3. live' = [live EXCEPT ![j] = [st |-> "queued", seq |-> seq, input |-> TRUE, ctx |-> "nil"]]
    BY <1>7, <2>1 DEF RecoverQueues
  <2>4. live'[j].seq = seq /\ \A k \in Jobs \ {j} : live'[k] = live[k]
    BY <1>0, <2>3
  <2>5. up
    BY <1>7, RunningIsUp DEF RecoverQueues, CInv
  <2> QED BY <2>2, <2>4, <2>5, Lengthened
<1>8. ASSUME NEW c \in Clients, EnqueueUploaded(c) PROVE InOrder(queue)'
  <2>1. PICK j \in Jobs : th[c].job = j /\ JoinsLine(c, j) /\ Own(th[c]) /\ j \notin ToSet(queue)
    BY <1>8, UploadQueued
  <2>2. live' = [live EXCEPT ![j] = [@ EXCEPT !.st = "queued", !.seq = seq, !.input = TRUE]]
    BY <1>8, <2>1 DEF EnqueueUploaded
  <2>3. live'[j] = [live[j] EXCEPT !.st = "queued", !.seq = seq, !.input = TRUE]
    BY <1>0, <2>2
  <2>4. live'[j].seq = seq
    BY <1>0, <2>3 DEF LiveType
  <2>5. up
    BY <1>8, RunningIsUp DEF EnqueueUploaded, CInv, At, Threads
  <2> QED BY <2>1, <2>4, <2>5, Lengthened DEF JoinsLine
<1>9. ASSUME NEW c \in Clients, NEW f \in Files, NEW j \in Jobs, EnqueueLibraryConvert(c, f, j)
      PROVE  InOrder(queue)'
  <2>1. JoinsLine(c, j) /\ j \notin ToSet(queue)
    BY <1>9, LibraryQueued
  <2>2. live' = [live EXCEPT ![j] = [@ EXCEPT !.st = "queued", !.seq = seq, !.input = TRUE]]
    BY <1>9 DEF EnqueueLibraryConvert
  <2>3. live'[j] = [live[j] EXCEPT !.st = "queued", !.seq = seq, !.input = TRUE]
    BY <1>0, <2>2
  <2>4. live'[j].seq = seq /\ up
    BY <1>0, <1>9, <2>3 DEF LiveType, EnqueueLibraryConvert
  <2> QED BY <2>1, <2>4, Lengthened DEF JoinsLine
<1>10. CASE Exit
  <2>1. DOMAIN queue' = {}
    BY <1>10 DEF Exit
  <2> QED BY <2>1 DEF InOrder
<1> QED BY <1>1, <1>2, <1>3, <1>4, <1>5, <1>6, <1>7, <1>8, <1>9, <1>10, Steps, ReorderOrders

\* The queue is in the order of its jobs' numbers and the counter is past them
\* all (manager.go: Reorder and every enqueue), whatever enqueues, cancels,
\* reorders and restarts come between.
THEOREM QueueStaysOrdered == Spec => []QueueIsOrdered
<1>1. Init => InOrder(queue)
  <2> SUFFICES ASSUME Init PROVE InOrder(queue)
    OBVIOUS
  <2>1. DOMAIN queue = {}
    BY DEF Init
  <2> QED BY <2>1 DEF InOrder
<1>2. TInv /\ CInv /\ OInv /\ InOrder(queue) /\ [Next]_vars => InOrder(queue)'
  BY StepOrders
<1>3. ASSUME TInv, CInv, OInv, InOrder(queue) PROVE QueueIsOrdered
  <2>1. ASSUME NEW i \in DOMAIN queue PROVE live[queue[i]].seq < seq
    <3>1. queue[i] \in Jobs /\ live[queue[i]].st = "queued"
      BY <1>3, InQueue DEF ToSet, OInv, Orderly
    <3>2. up
      BY <1>3, <3>1 DEF CInv, DownIsIdle, NotLive
    <3> QED BY <1>3, <3>1, <3>2 DEF CInv, LiveCounted
  <2> QED BY <1>3, <2>1 DEF QueueIsOrdered, InOrder
<1>4. TInv /\ CInv /\ OInv /\ InOrder(queue) => QueueIsOrdered
  BY <1>3
<1> QED BY <1>1, <1>2, <1>4, OwnersInvariant, PTL DEF Spec
=============================================================================
