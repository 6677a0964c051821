------------------------ MODULE ImportQueueRowProofs ------------------------
(***************************************************************************)
(* What the rows, the staging area and the comics say of the jobs: an      *)
(* upload in the line has its input, an unfinished row has somebody to     *)
(* finish it, no process files a job twice, a row that says done has its   *)
(* comic, the cap holds, and one worker makes one copy of a file.          *)
(*                                                                         *)
(* None of these is inductive.  A worker that saves "reading" makes a row  *)
(* unfinished, and what makes that harmless is what is known of the worker *)
(* at that line: its job is live, or its staging directory is there still. *)
(* So RInv says of each place in the code what the goroutine there may     *)
(* rely on (Told), of each job what its row, directory and comics may say  *)
(* (JobTold, of which Accounted is NoOrphanRow for every moment of a start *)
(* and not only once recovery is over), and that a job which a drain puts  *)
(* back is in nobody else's hand (Aside).                                  *)
(*                                                                         *)
(* CapHolds and OneServerWideCopy follow step by step under RInv: the      *)
(* first counts the live jobs on both sides of a step, the second needs    *)
(* that a worker about to file has looked, and found nothing, since        *)
(* anybody else filed (LooksFirst).  OnlyLateSavesRevive needs that a      *)
(* worker past its first save has a row that has not ended (PastRows).     *)
(***************************************************************************)
EXTENDS ImportQueueProofs

-----------------------------------------------------------------------------
(* The invariant.                                                          *)

\* A worker is past its first save of the job; a job is to be run yet.
Past == {"extract", "tick", "build", "cancelled", "lookup", "file", "requeue"}
Needing == {"upload", "requeue"} \cup WorkingPCs

HasComic(j) == IF IsUpload(j) THEN filed[j] > 0 ELSE Copies(Content[origin[j]]) # {}

\* What goroutine t may rely on, when it is where r says.
Told(t, r) ==
  /\ r.pc = "begin" => row[r.job].st = "none" /\ r.job \notin Coming
  /\ r.pc \in {"insert", "lookup"} => ~IsUpload(r.job)
  /\ Own(r) /\ (New(r) \/ IsUpload(r.job)) => Live(r.job)
  /\ r.pc = "announce" => r.st = "reading"
  /\ r.pc = "tick" => r.st = "packing"
  /\ r.pc \in Past => row[r.job].st # "uploading"
  /\ r.pc \in Needing /\ IsUpload(r.job) => r.job \in staged \cup revived
  /\ r.pc \in {"persist", "drop"} => ~Active(r.job)
  /\ r.pc = "drop" => ~Unfinished(r.job) \/ r.job \in revived
  /\ r.pc = "requeue" => draining /\ boot.pc = "done" /\ ~Live(r.job)
  /\ r.pc = "sweep" /\ IsUpload(r.job) => r.job \in revived \/ (~Live(r.job) /\ ~Unfinished(r.job))
  /\ r.pc \in EndingPCs /\ r.st = "done" => HasComic(r.job)
  /\ New(r) \/ r.pc \in WorkingPCs => filed[r.job] < starts
  /\ r.pc \in {"lookup", "file"} => t \in Workers

\* Recovery has found j's input and is about to queue it.
NextIs(j) == boot.pc = "take" /\ Head(boot.todo).job = j

\* An unfinished row nobody works on: recovery will come to it, a drain has set
\* it aside, or a late write has brought it back.  In the first process there
\* is nothing else for recovery to come to.
Accounted(j) ==
  Unfinished(j) /\ ~Live(j) /\ j \notin revived =>
    \/ boot.pc = "off" /\ starts # 0
    \/ j \in Coming /\ starts # 1
    \/ boot.pc = "done" /\ draining /\ row[j].st # "uploading" /\ (IsUpload(j) => j \in staged)

JobTold(j) ==
  /\ filed[j] <= starts
  /\ boot.pc \in Early \/ j \in ToSet(queue) => filed[j] < starts
  /\ Fresh(j) => filed[j] = 0
  /\ row[j].st = "done" => HasComic(j)
  /\ j \in ToSet(queue) /\ IsUpload(j) => j \in staged \cup revived
  /\ NextIs(j) /\ IsUpload(j) /\ ~Live(j) /\ Unfinished(j) => j \in staged \cup revived
  /\ Accounted(j)

\* A job a drain sets aside is in nobody else's hand, and nobody sweeps up
\* after it.
Aside ==
  \A s, t \in Threads : th[t].pc = "requeue" /\ th[s].job = th[t].job =>
    ~Own(th[s]) /\ (th[s].pc = "sweep" /\ IsUpload(th[s].job) => th[s].job \in revived)

RInv ==
  /\ \A t \in Threads : Told(t, th[t])
  /\ \A j \in Jobs : JobTold(j)
  /\ Aside
  /\ up => starts > 0 /\ boot.pc # "off"

-----------------------------------------------------------------------------
(* What a step leaves alone.                                               *)

SameJob(k) ==
  /\ row'[k].st = row[k].st \/ (Finished(k) /\ row'[k].st = "none")
  /\ live'[k].st = live[k].st
  /\ k \in staged' <=> k \in staged
  /\ k \in revived' <=> k \in revived
  /\ filed'[k] = filed[k] /\ origin'[k] = origin[k]
  /\ k \in ToSet(queue') <=> k \in ToSet(queue)
  /\ k \in Coming' <=> k \in Coming
  /\ NextIs(k)' => NextIs(k)

SameWorld ==
  /\ starts' = starts /\ (up' => up) /\ (draining => draining')
  /\ boot'.pc \in Early <=> boot.pc \in Early
  /\ boot'.pc = "done" <=> boot.pc = "done"
  /\ boot'.pc = "off" <=> boot.pc = "off"

ComicsKept == \A k \in Jobs : ~Fresh(k) /\ HasComic(k) => HasComic(k)'

\* No goroutine has a job in hand that nobody has asked for, nor has a row.
LEMMA Asked ==
  ASSUME TInv, OInv
  PROVE  /\ \A s \in Threads : th[s].pc \in JobPCs => th[s].job \in Jobs /\ ~Fresh(th[s].job)
         /\ \A k \in Jobs : row[k].st # "none" \/ k \in ToSet(queue) \/ Live(k) \/ k \in Coming => ~Fresh(k)
         /\ \A k \in Jobs : k \in ToSet(queue) => Live(k)
<1>1. \A s \in Threads : th[s].pc \in JobPCs => th[s].job \in Jobs
  BY InHand
<1>2. \A k \in Jobs : Fresh(k) => row[k].st = "none" /\ ~Live(k) /\ k \notin Coming /\ \A s \in Threads : th[s].job # k
  BY DEF OInv, Unheard, Live, NotLive
<1>3. \A k \in Jobs : k \in ToSet(queue) => Live(k)
  BY DEF OInv, Orderly, Live
<1> QED BY <1>1, <1>2, <1>3

LEMMA ToldStays ==
  ASSUME NEW t, NEW r, Told(t, r), SameWorld, r.pc \in JobPCs => SameJob(r.job),
         HasComic(r.job) => HasComic(r.job)'
  PROVE  Told(t, r)'
<1>1. CASE r.pc \notin JobPCs
  BY <1>1, Marks DEF Told, JobPCs, Own, New, Past, Needing, WorkingPCs, EndingPCs
<1>2. CASE r.pc \in JobPCs
  <2>1. SameJob(r.job)
    BY <1>2
  <2>2. Unfinished(r.job)' => Unfinished(r.job)
    BY <2>1 DEF SameJob, Unfinished
  <2>3. Live(r.job)' = Live(r.job) /\ Active(r.job)' = Active(r.job) /\ IsUpload(r.job)' = IsUpload(r.job)
    BY <2>1 DEF SameJob, Live, Active, IsUpload
  <2>4. (row'[r.job].st = "uploading" => row[r.job].st = "uploading")
        /\ (row[r.job].st = "none" => row'[r.job].st = "none")
    BY <2>1 DEF SameJob
  <2> QED BY <2>1, <2>2, <2>3, <2>4 DEF Told, SameJob, SameWorld
<1> QED BY <1>1, <1>2

LEMMA JobStays ==
  ASSUME NEW k, JobTold(k), SameWorld, SameJob(k), row[k].st = "done" /\ HasComic(k) => HasComic(k)'
  PROVE  JobTold(k)'
<1>2. /\ Unfinished(k)' => Unfinished(k) /\ row'[k].st = row[k].st
      /\ row'[k].st = "done" => row[k].st = "done"
  BY DEF SameJob, Unfinished
<1>3. Live(k)' = Live(k) /\ IsUpload(k)' = IsUpload(k) /\ Fresh(k)' = Fresh(k)
  BY DEF SameJob, Live, IsUpload, Fresh
<1>4. Accounted(k)'
  BY <1>2, <1>3 DEF Accounted, JobTold, SameJob, SameWorld
<1> QED BY <1>2, <1>3, <1>4 DEF JobTold, SameJob, SameWorld

LEMMA ComicsStay ==
  ASSUME TInv, RInv, \A k \in Jobs : filed'[k] \in Nat /\ filed'[k] >= filed[k],
         \A k \in Jobs : ~Fresh(k) => origin'[k] = origin[k]
  PROVE  ComicsKept
<1>0. \A k \in Jobs : filed[k] \in Nat /\ (filed[k] > 0 => ~Fresh(k))
  BY DEF TInv, TypeOK, DurableTypes, RInv, JobTold
<1> SUFFICES ASSUME NEW k \in Jobs, ~Fresh(k), HasComic(k) PROVE HasComic(k)'
  BY DEF ComicsKept
<1>1. origin'[k] = origin[k]
  OBVIOUS
<1>2. CASE IsUpload(k)
  BY <1>0, <1>1, <1>2 DEF HasComic, IsUpload
<1>3. CASE ~IsUpload(k)
  <2>1. PICK i \in Jobs : origin[i] \in Files /\ filed[i] > 0 /\ Content[origin[i]] = Content[origin[k]]
    BY <1>3 DEF HasComic, Copies
  <2>2. origin'[i] = origin[i] /\ filed'[i] > 0
    BY <1>0, <2>1
  <2>3. i \in Copies(Content[origin[k]])'
    BY <2>1, <2>2 DEF Copies
  <2> QED BY <1>1, <1>3, <2>3 DEF HasComic, IsUpload
<1> QED BY <1>2, <1>3

LEMMA Untouched ==
  ASSUME TInv, RInv, UNCHANGED <<row, staged, filed, live, queue, boot, origin, revived, starts, up, draining>>
  PROVE  SameWorld /\ ComicsKept /\ \A k \in Jobs : SameJob(k)
<1>1. \A k \in Jobs : filed[k] \in Nat
  BY DEF TInv, TypeOK, DurableTypes
<1>2. ComicsKept
  BY <1>1, ComicsStay
<1>3. Coming' = Coming /\ \A k : NextIs(k)' = NextIs(k)
  BY DEF Coming, Unfinished, NextIs
<1> QED BY <1>2, <1>3 DEF SameWorld, SameJob

-----------------------------------------------------------------------------
(* A goroutine's step touches its own job alone.                           *)

\* Job j apart, which is the step's, and goroutine t apart, all is as it was.
Apart(t, j) ==
  /\ Elsewhere(t) /\ SameWorld /\ ComicsKept
  /\ \A k \in Jobs \ {j} : SameJob(k)
  /\ revived \subseteq revived' /\ origin'[j] = origin[j]

LEMMA Idles == Idle.pc = "idle" /\ \A t : Told(t, Idle) /\ Told(t, Idle)'
<1>1. Idle.pc = "idle" /\ Idle.st = "none"
  BY DEF Idle
<1>2. ~Own(Idle) /\ ~New(Idle)
  BY Classes
<1> QED BY <1>1, <1>2 DEF Told, Past, Needing, WorkingPCs, EndingPCs

LEMMA Moved ==
  ASSUME TInv, OInv, RInv, NEW t \in Threads, NEW j \in Jobs, Apart(t, j),
         NEW q, q = th'[t], Told(t, q)', JobTold(j)', Aside',
         \A s \in Threads \ {t} : th[s].pc \in JobPCs /\ th[s].job = j => Told(s, th[s])'
  PROVE  RInv'
<1>1. ASSUME NEW s \in Threads PROVE Told(s, th[s])'
  <2>1. CASE s = t
    BY <2>1
  <2>2. CASE s # t /\ th'[s] = Idle
    BY <2>2, Idles
  <2>3. CASE s # t /\ th'[s] = th[s]
    <3>1. CASE th[s].pc \in JobPCs /\ th[s].job = j
      BY <2>2, <2>3, <3>1
    <3>2. CASE ~(th[s].pc \in JobPCs /\ th[s].job = j)
      <4>1. PICK r : r = th[s]
        OBVIOUS
      <4>2. Told(s, r) /\ (r.pc \in JobPCs => r.job \in Jobs \ {j} /\ ~Fresh(r.job))
        BY <3>2, <4>1, Asked DEF RInv
      <4>3. CASE r.pc \in JobPCs
        BY <4>2, <4>3, <4>1, <2>3, ToldStays DEF Apart, ComicsKept
      <4>4. CASE r.pc \notin JobPCs
        BY <4>1, <4>4, <2>3, Marks DEF Told, JobPCs, Own, New, Past, Needing, WorkingPCs, EndingPCs
      <4> QED BY <4>3, <4>4
    <3> QED BY <3>1, <3>2
  <2> QED BY <2>1, <2>2, <2>3 DEF Apart, Elsewhere
<1>2. ASSUME NEW k \in Jobs PROVE JobTold(k)'
  <2>1. CASE k = j
    BY <2>1
  <2>2. CASE k # j
    <3>1. row[k].st = "done" => ~Fresh(k)
      BY Asked
    <3>2. JobTold(k) /\ SameWorld /\ SameJob(k)
      BY <2>2 DEF RInv, Apart
    <3>3. row[k].st = "done" /\ HasComic(k) => HasComic(k)'
      BY <3>1 DEF Apart, ComicsKept
    <3> QED BY <3>2, <3>3, JobStays
  <2> QED BY <2>1, <2>2
<1>3. up' => starts' > 0 /\ boot'.pc # "off"
  BY DEF RInv, Apart, SameWorld
<1> QED BY <1>1, <1>2, <1>3 DEF RInv

\* Who else may have to do with a job that t has in hand.
LEMMA Hangers ==
  ASSUME TInv, OInv, RInv, NEW t \in Threads, Own(th[t]), NEW s \in Threads \ {t},
         th[s].pc \in JobPCs, th[s].job = th[t].job
  PROVE  /\ th[s].pc \in {"setInput", "saveQueued", "insert", "sweep"}
         /\ th[s].pc = "sweep" /\ IsUpload(th[s].job) => th[s].job \in revived
<1>1. ~Own(th[s]) /\ th[s].pc # "requeue"
  BY DEF OInv, OneHand, RInv, Aside
<1>2. th[s].pc \in {"setInput", "saveQueued", "insert", "sweep"}
  BY <1>1 DEF Own, OwningPCs, JobPCs
<1>3. Told(s, th[s]) /\ Told(t, th[t])
  BY DEF RInv
<1> QED BY <1>2, <1>3 DEF Told

LEMMA OwnerMoves ==
  ASSUME TInv, OInv, RInv, NEW t \in Threads, NEW j \in Jobs, th[t].job = j, Own(th[t]), Apart(t, j),
         NEW q, q = th'[t], q = Idle \/ q.job = j, Told(t, q)', JobTold(j)',
         q.pc = "requeue" => Live(j)
  PROVE  RInv'
<1>1. ASSUME NEW s \in Threads \ {t}, th[s].pc \in JobPCs, th[s].job = j
      PROVE  Told(s, th[s])'
  <2>1. PICK r : r = th[s]
    OBVIOUS
  <2>2. Told(s, r)
    BY <2>1 DEF RInv
  <2>3. /\ r.pc \in {"setInput", "saveQueued", "insert", "sweep"} /\ r.job = j
        /\ r.pc = "sweep" /\ IsUpload(j) => j \in revived
    BY <1>1, <2>1, Hangers
  <2>4. IsUpload(j)' = IsUpload(j) /\ (j \in revived => j \in revived')
    BY DEF Apart, IsUpload
  <2>5. Told(s, r)'
    BY <2>2, <2>3, <2>4 DEF Told, Own, New, OwningPCs, Past, Needing, WorkingPCs, EndingPCs
  <2>6. th'[s] = r
    BY <2>1, <2>3 DEF Apart, Elsewhere
  <2> QED BY <2>1, <2>2, <2>5, <2>6
<1>2. Aside'
  <2> SUFFICES ASSUME NEW s \in Threads, NEW u \in Threads, th'[u].pc = "requeue", th'[s].job = th'[u].job
               PROVE  ~Own(th'[s]) /\ (th'[s].pc = "sweep" /\ origin'[th'[s].job] \in Users => th'[s].job \in revived')
    BY DEF Aside, IsUpload
  <2>0. Idle.pc # "requeue" /\ ~Own(Idle) /\ Idle.pc # "sweep"
    BY Idles, Classes
  <2>1. \A v \in Threads \ {t} : th'[v] = th[v] \/ th'[v] = Idle
    BY DEF Apart, Elsewhere
  <2>2. CASE s = t /\ u = t
    BY <2>2 DEF Own, OwningPCs
  <2>3. CASE u # t
    <3>1. th'[u] = th[u]
      BY <2>0, <2>1, <2>3
    <3>2. th[u].job # j /\ th[u].job \in Jobs
      BY <3>1, Asked DEF RInv, Aside, JobPCs
    <3>3. CASE s = t
      BY <2>0, <3>1, <3>2, <3>3
    <3>4. CASE s # t
      <4>1. CASE th'[s] = Idle
        BY <2>0, <4>1
      <4>2. CASE th'[s] = th[s]
        <5>1. ~Own(th[s]) /\ (th[s].pc = "sweep" /\ IsUpload(th[s].job) => th[s].job \in revived)
          BY <3>1, <4>2 DEF RInv, Aside
        <5>2. origin'[th[u].job] = origin[th[u].job]
          BY <3>2 DEF Apart, SameJob
        <5> QED BY <3>1, <4>2, <5>1, <5>2 DEF Apart, IsUpload
      <4> QED BY <2>1, <3>4, <4>1, <4>2
    <3> QED BY <3>3, <3>4
  <2>4. CASE u = t /\ s # t
    <3>1. th'[u].job = j
      BY <2>0, <2>4
    <3>2. CASE th'[s] = Idle
      BY <2>0, <3>2
    <3>3. CASE th'[s] = th[s]
      <4>1. ~Own(th[s])
        BY <2>4, <3>1, <3>3 DEF OInv, OneHand
      <4>2. ASSUME th[s].pc = "sweep", IsUpload(j)' PROVE j \in revived'
        <5>1. th[s].pc \in JobPCs /\ IsUpload(j)
          BY <4>2 DEF JobPCs, Apart, IsUpload
        <5> QED BY <2>4, <3>1, <3>3, <4>2, <5>1, Hangers DEF Apart
      <4> QED BY <3>1, <3>3, <4>1, <4>2 DEF IsUpload
    <3> QED BY <2>1, <2>4, <3>2, <3>3
  <2> QED BY <2>2, <2>3, <2>4
<1> QED BY <1>1, <1>2, Moved

\* A step that moves its goroutine alone.
LEMMA OnlyMoves ==
  ASSUME TInv, OInv, RInv, NEW t \in Threads, NEW j \in Jobs, th[t].job = j, Own(th[t]), Elsewhere(t),
         UNCHANGED <<row, staged, filed, live, queue, boot, origin, revived, starts, up, draining>>,
         NEW q, q = th'[t], q = Idle \/ q.job = j, Told(t, q), q.pc = "requeue" => Live(j)
  PROVE  RInv'
<1>1. SameWorld /\ ComicsKept /\ \A k \in Jobs : SameJob(k)
  BY Untouched
<1>2. Apart(t, j)
  BY <1>1 DEF Apart
<1>3. th[t].pc \in JobPCs
  BY Marks DEF Own
<1>4. ~Fresh(j)
  BY <1>3, Asked
<1>5. Told(t, q)'
  <2>1. CASE q = Idle
    BY <2>1, Idles
  <2>2. CASE q.job = j
    BY <1>1, <1>4, <2>2, ToldStays DEF ComicsKept
  <2> QED BY <2>1, <2>2
<1>6. JobTold(j)'
  BY <1>1, <1>4, JobStays DEF RInv, ComicsKept
<1> QED BY <1>2, <1>5, <1>6, OwnerMoves

-----------------------------------------------------------------------------
(* Ending a job.                                                           *)

\* A goroutine that has a job in hand: what is so of it.
LEMMA HasInHand ==
  ASSUME TInv, OInv, RInv, NEW t \in Threads, th[t].pc \in JobPCs
  PROVE  /\ \E j \in Jobs : j = th[t].job
         /\ th[t] \in ThreadType /\ ThreadsOK(th) /\ Told(t, th[t])
         /\ th[t].pc \in OwningPCs => Own(th[t])
         /\ ~Fresh(th[t].job)
BY InHand, Asked DEF Own, RInv, ThreadOK

\* A step that removes the directory of its goroutine's job.
LEMMA Cleared ==
  ASSUME TInv, RInv, NEW j \in Jobs, staged' = staged \ {j},
         UNCHANGED <<row, filed, live, queue, boot, origin, revived, starts, up, draining>>
  PROVE  SameWorld /\ ComicsKept /\ (\A k \in Jobs \ {j} : SameJob(k)) /\ revived \subseteq revived'
<1>1. \A k \in Jobs : filed[k] \in Nat
  BY DEF TInv, TypeOK, DurableTypes
<1>2. ComicsKept
  BY <1>1, ComicsStay
<1>3. Coming' = Coming /\ \A k : NextIs(k)' = NextIs(k)
  BY DEF Coming, Unfinished, NextIs
<1> QED BY <1>2, <1>3 DEF SameWorld, SameJob

LEMMA CleanKeeps ==
  ASSUME TInv, OInv, RInv, NEW t \in Threads, CleanInput(t)
  PROVE  RInv'
<1>0. th[t].pc = "clean" /\ th[t].pc \in JobPCs /\ th[t].pc \in OwningPCs
  BY DEF CleanInput, At, JobPCs, OwningPCs
<1>1. PICK j \in Jobs : j = th[t].job
  BY <1>0, HasInHand
<1>2. Own(th[t]) /\ Told(t, th[t]) /\ ThreadsOK(th) /\ ~Fresh(j)
  BY <1>0, <1>1, HasInHand
<1>3. Elsewhere(t) /\ th'[t].pc = "mark" /\ th'[t].job = j /\ th'[t].st = th[t].st
  BY <1>1, <1>2, Going DEF CleanInput
<1>4. /\ staged' = staged \ {j}
      /\ UNCHANGED <<row, filed, live, queue, boot, origin, revived, starts, up, draining>>
  BY <1>1 DEF CleanInput, manager, process, history
<1>5. Apart(t, j)
  BY <1>3, <1>4, Cleared DEF Apart
<1>6. PICK q : q = th'[t]
  OBVIOUS
<1>7. HasComic(j)' = HasComic(j) /\ Live(j)' = Live(j) /\ IsUpload(j)' = IsUpload(j)
      /\ Unfinished(j)' = Unfinished(j) /\ Fresh(j)' = Fresh(j) /\ Coming' = Coming
  BY <1>4 DEF HasComic, Live, IsUpload, Copies, Unfinished, Fresh, Coming
<1>8. Told(t, q)'
  BY <1>0, <1>1, <1>2, <1>3, <1>4, <1>6, <1>7 DEF Told, Own, New, OwningPCs, EndingPCs, Past, Needing, WorkingPCs
<1>9. IsUpload(j) => Live(j)
  BY <1>1, <1>2 DEF Told
<1>10. j \notin ToSet(queue)
  BY <1>1, <1>2 DEF OInv, OneHand
<1>11. JobTold(j)'
  BY <1>4, <1>7, <1>9, <1>10 DEF RInv, JobTold, Accounted, NextIs
<1> QED BY <1>1, <1>2, <1>3, <1>5, <1>6, <1>8, <1>11, OwnerMoves

LEMMA MarkKeeps ==
  ASSUME TInv, OInv, RInv, NEW t \in Threads, FinishMarks(t)
  PROVE  RInv'
<1>0. th[t].pc = "mark" /\ th[t].pc \in JobPCs /\ th[t].pc \in OwningPCs
  BY DEF FinishMarks, At, JobPCs, OwningPCs
<1>1. PICK j \in Jobs : j = th[t].job
  BY <1>0, HasInHand
<1>2. Own(th[t]) /\ Told(t, th[t]) /\ ThreadsOK(th) /\ ~Fresh(j)
  BY <1>0, <1>1, HasInHand
<1>3. UNCHANGED <<row, staged, filed, queue, boot, origin, revived, starts, up, draining>>
  BY DEF FinishMarks, durable, process, history
<1>6. PICK q : q = th'[t]
  OBVIOUS
<1>4. CASE ~Live(j)
  <2>1. live' = live /\ Elsewhere(t) /\ th'[t].pc = "sweep" /\ th'[t].job = j
    BY <1>1, <1>2, <1>4, Going DEF FinishMarks
  <2>2. Told(t, q)
    BY <1>0, <1>1, <1>2, <1>4, <1>6, <2>1
       DEF Told, Own, New, OwningPCs, EndingPCs, Past, Needing, WorkingPCs
  <2> QED BY <1>1, <1>2, <1>3, <1>6, <2>1, <2>2, OnlyMoves
<1>5. CASE Live(j)
  <2>1. live' = AtStage(j, th[t].st) /\ Elsewhere(t) /\ th'[t].pc = "persist" /\ th'[t].job = j
        /\ th'[t].st = th[t].st
    BY <1>1, <1>2, <1>5, Going DEF FinishMarks
  <2>2. th[t].st \in Terminal
    BY <1>0 DEF OInv, Endings, EndingPCs
  <2>3. /\ live'[j].st = th[t].st /\ Live(j)' /\ ~Active(j)' /\ \A k \in Jobs \ {j} : live'[k] = live[k]
    BY <2>1, <2>2, Staged DEF Live, Active, Terminal
  <2>4. Apart(t, j)
    <3>1. \A k \in Jobs : filed[k] \in Nat
      BY DEF TInv, TypeOK, DurableTypes
    <3>2. Coming' = Coming /\ \A k : NextIs(k)' = NextIs(k)
      BY <1>3 DEF Coming, Unfinished, NextIs
    <3>3. \A k \in Jobs \ {j} : SameJob(k)
      BY <1>3, <2>3, <3>2 DEF SameJob
    <3>4. ComicsKept
      BY <1>3, <3>1, ComicsStay
    <3> QED BY <1>3, <2>1, <3>3, <3>4 DEF Apart, SameWorld
  <2>5. HasComic(j)' = HasComic(j) /\ IsUpload(j)' = IsUpload(j)
        /\ Unfinished(j)' = Unfinished(j) /\ Fresh(j)' = Fresh(j) /\ Coming' = Coming
    BY <1>3 DEF HasComic, IsUpload, Copies, Unfinished, Fresh, Coming
  <2>6. Told(t, q)'
    BY <1>0, <1>1, <1>2, <1>6, <2>1, <2>3, <2>5
       DEF Told, Own, New, OwningPCs, EndingPCs, Past, Needing, WorkingPCs
  <2>7. JobTold(j)'
    BY <1>3, <2>3, <2>5 DEF RInv, JobTold, Accounted, NextIs
  <2> QED BY <1>1, <1>2, <1>6, <2>1, <2>4, <2>6, <2>7, OwnerMoves
<1> QED BY <1>4, <1>5

\* A step that touches what there is of j alone, and no recovery.
LEMMA Touched ==
  ASSUME TInv, RInv, NEW j \in Jobs, UNCHANGED <<boot, origin, starts, up, draining>>,
         \A k \in Jobs \ {j} :
           /\ (k \in ToSet(queue') <=> k \in ToSet(queue))
           /\ row'[k].st = row[k].st /\ live'[k].st = live[k].st
           /\ (k \in staged' <=> k \in staged) /\ (k \in revived' <=> k \in revived)
           /\ filed'[k] = filed[k],
         filed'[j] \in Nat /\ filed'[j] >= filed[j]
  PROVE  /\ SameWorld /\ ComicsKept /\ (\A k \in Jobs \ {j} : SameJob(k))
         /\ IsUpload(j)' = IsUpload(j) /\ Fresh(j)' = Fresh(j)
         /\ (boot.pc # "list" => (j \in Coming' <=> j \in Coming))
<1>1. \A k \in Jobs : filed'[k] \in Nat /\ filed'[k] >= filed[k]
  BY DEF TInv, TypeOK, DurableTypes
<1>2. ComicsKept
  BY <1>1, ComicsStay
<1>3. \A k \in Jobs \ {j} : k \in Coming' <=> k \in Coming
  BY DEF Coming, Unfinished
<1>4. \A k : NextIs(k)' = NextIs(k)
  BY DEF NextIs
<1> QED BY <1>2, <1>3, <1>4 DEF SameWorld, SameJob, IsUpload, Fresh, Coming

LEMMA PersistKeeps ==
  ASSUME TInv, OInv, RInv, NEW t \in Threads, FinishSaves(t)
  PROVE  RInv'
<1>0. th[t].pc = "persist" /\ th[t].pc \in JobPCs /\ th[t].pc \in OwningPCs
  BY DEF FinishSaves, At, JobPCs, OwningPCs
<1>1. PICK j \in Jobs : j = th[t].job
  BY <1>0, HasInHand
<1>2. Own(th[t]) /\ Told(t, th[t]) /\ ThreadsOK(th) /\ ~Fresh(j)
  BY <1>0, <1>1, HasInHand
<1>3. Elsewhere(t) /\ th'[t].pc = "drop" /\ th'[t].job = j /\ th'[t].st = th[t].st
  BY <1>1, <1>2, Going DEF FinishSaves
<1>4. UNCHANGED <<staged, filed, live, queue, boot, origin, revived, starts, up, draining>>
  BY DEF FinishSaves, manager, process, history
<1>5. th[t].st \in Terminal /\ row'[j].st = th[t].st /\ \A k \in Jobs \ {j} : row'[k] = row[k]
  BY <1>0, <1>1, Saved DEF FinishSaves, OInv, Endings, EndingPCs
<1>6. PICK q : q = th'[t]
  OBVIOUS
<1>7. /\ SameWorld /\ ComicsKept /\ (\A k \in Jobs \ {j} : SameJob(k))
      /\ IsUpload(j)' = IsUpload(j) /\ Fresh(j)' = Fresh(j)
  <2>1. filed'[j] \in Nat /\ filed'[j] >= filed[j]
    BY <1>4 DEF TInv, TypeOK, DurableTypes
  <2> QED BY <1>4, <1>5, <2>1, Touched
<1>8. Apart(t, j)
  BY <1>3, <1>4, <1>7 DEF Apart
<1>9. ~Unfinished(j)' /\ Live(j)' = Live(j) /\ Active(j)' = Active(j) /\ HasComic(j)' = HasComic(j)
  BY <1>4, <1>5 DEF Unfinished, Live, Active, HasComic, IsUpload, Copies
<1>10. Told(t, q)'
  BY <1>0, <1>1, <1>2, <1>3, <1>4, <1>6, <1>7, <1>9
     DEF Told, Own, New, OwningPCs, EndingPCs, Past, Needing, WorkingPCs
<1>11. row'[j].st = "done" => HasComic(j)'
  BY <1>0, <1>1, <1>2, <1>5, <1>9 DEF Told, EndingPCs
<1>12. JobTold(j)'
  BY <1>4, <1>7, <1>9, <1>11 DEF RInv, JobTold, Accounted
<1> QED BY <1>1, <1>2, <1>3, <1>6, <1>8, <1>10, <1>12, OwnerMoves

\* The live map forgets a job.
LEMMA Forgotten ==
  ASSUME TInv, NEW j \in Jobs, live' = Dropped(j)
  PROVE  ~Live(j)' /\ ~Active(j)' /\ \A k \in Jobs \ {j} : live'[k] = live[k]
BY DEF TInv, TypeOK, ManagerTypes, Dropped, NotLive, Live, Active

LEMMA DropKeeps ==
  ASSUME TInv, OInv, RInv, NEW t \in Threads, FinishDrops(t)
  PROVE  RInv'
<1>0. th[t].pc = "drop" /\ th[t].pc \in JobPCs /\ th[t].pc \in OwningPCs
  BY DEF FinishDrops, At, JobPCs, OwningPCs
<1>1. PICK j \in Jobs : j = th[t].job
  BY <1>0, HasInHand
<1>2. Own(th[t]) /\ Told(t, th[t]) /\ ThreadsOK(th) /\ ~Fresh(j)
  BY <1>0, <1>1, HasInHand
<1>3. Elsewhere(t) /\ th'[t].pc = "sweep" /\ th'[t].job = j
  BY <1>1, <1>2, Going DEF FinishDrops
<1>4. UNCHANGED <<row, staged, filed, queue, boot, origin, revived, starts, up, draining>>
  BY DEF FinishDrops, durable, process, history
<1>5. ~Live(j)' /\ \A k \in Jobs \ {j} : live'[k] = live[k]
  BY <1>1, Forgotten DEF FinishDrops
<1>6. PICK q : q = th'[t]
  OBVIOUS
<1>7. /\ SameWorld /\ ComicsKept /\ (\A k \in Jobs \ {j} : SameJob(k))
      /\ IsUpload(j)' = IsUpload(j) /\ Fresh(j)' = Fresh(j)
  <2>1. filed'[j] \in Nat /\ filed'[j] >= filed[j]
    BY <1>4 DEF TInv, TypeOK, DurableTypes
  <2> QED BY <1>4, <1>5, <2>1, Touched
<1>8. Apart(t, j)
  BY <1>3, <1>4, <1>7 DEF Apart
<1>9. Unfinished(j)' = Unfinished(j) /\ HasComic(j)' = HasComic(j)
  BY <1>4 DEF Unfinished, HasComic, IsUpload, Copies
<1>10. ~Unfinished(j) \/ j \in revived
  BY <1>0, <1>1, <1>2 DEF Told
<1>11. Told(t, q)'
  BY <1>1, <1>3, <1>4, <1>5, <1>6, <1>9, <1>10
     DEF Told, Own, New, OwningPCs, EndingPCs, Past, Needing, WorkingPCs
<1>12. JobTold(j)'
  BY <1>4, <1>7, <1>9, <1>10 DEF RInv, JobTold, Accounted, NextIs
<1> QED BY <1>1, <1>2, <1>3, <1>6, <1>8, <1>11, <1>12, OwnerMoves

\* A goroutine that takes nothing in hand, and has nothing to sweep up.
LEMMA AsideStays ==
  ASSUME TInv, OInv, RInv, NEW t \in Threads, NEW j \in Jobs, Apart(t, j),
         th'[t].pc \notin {"requeue", "sweep"} /\ ~Own(th'[t])
  PROVE  Aside'
<1> SUFFICES ASSUME NEW s \in Threads, NEW u \in Threads, th'[u].pc = "requeue", th'[s].job = th'[u].job
             PROVE  ~Own(th'[s]) /\ (th'[s].pc = "sweep" /\ origin'[th'[s].job] \in Users => th'[s].job \in revived')
  BY DEF Aside, IsUpload
<1>0. Idle.pc # "requeue" /\ ~Own(Idle) /\ Idle.pc # "sweep"
  BY Idles, Classes
<1>1. \A v \in Threads \ {t} : th'[v] = th[v] \/ th'[v] = Idle
  BY DEF Apart, Elsewhere
<1>2. u # t /\ th'[u] = th[u] /\ th[u].pc \in JobPCs /\ th[u].job \in Jobs
  BY <1>0, <1>1, Asked DEF JobPCs
<1>3. CASE s = t \/ th'[s] = Idle
  BY <1>0, <1>3
<1>4. CASE s # t /\ th'[s] = th[s]
  <2>1. ~Own(th[s]) /\ (th[s].pc = "sweep" /\ IsUpload(th[s].job) => th[s].job \in revived)
    BY <1>2, <1>4 DEF RInv, Aside
  <2>2. origin'[th[u].job] = origin[th[u].job]
    BY <1>2 DEF Apart, SameJob
  <2> QED BY <1>2, <1>4, <2>1, <2>2 DEF Apart, IsUpload
<1> QED BY <1>1, <1>3, <1>4

LEMMA SweepKeeps ==
  ASSUME TInv, OInv, RInv, NEW t \in Threads, Sweep(t)
  PROVE  RInv'
<1>0. th[t].pc = "sweep" /\ th[t].pc \in JobPCs
  BY DEF Sweep, At, JobPCs
<1>1. PICK j \in Jobs : j = th[t].job
  BY <1>0, HasInHand
<1>2. Told(t, th[t]) /\ ThreadsOK(th)
  BY <1>0, <1>1, HasInHand
<1>3. Elsewhere(t) /\ th'[t] = Idle
  BY <1>2, Going DEF Sweep
<1>4. /\ staged' = staged \ {j}
      /\ UNCHANGED <<row, filed, live, queue, boot, origin, revived, starts, up, draining>>
  BY <1>1 DEF Sweep, manager, process, history
<1>5. Apart(t, j)
  BY <1>3, <1>4, Cleared DEF Apart
<1>6. IsUpload(j) => j \in revived \/ (~Live(j) /\ ~Unfinished(j))
  BY <1>0, <1>1, <1>2 DEF Told
<1>7. HasComic(j)' = HasComic(j) /\ Live(j)' = Live(j) /\ IsUpload(j)' = IsUpload(j) /\ Active(j)' = Active(j)
      /\ Unfinished(j)' = Unfinished(j) /\ Fresh(j)' = Fresh(j) /\ Coming' = Coming
  BY <1>4 DEF HasComic, Live, IsUpload, Copies, Unfinished, Fresh, Coming, Active
<1>8. ASSUME NEW s \in Threads \ {t}, th[s].pc \in JobPCs, th[s].job = j
      PROVE  Told(s, th[s])'
  <2>1. PICK r : r = th[s]
    OBVIOUS
  <2>2. th'[s] = r
    BY <1>3, <1>8, <2>1 DEF Elsewhere, JobPCs
  <2>3. Told(s, r) /\ r.job = j
    BY <1>8, <2>1 DEF RInv
  <2>4. r.pc \in Needing /\ IsUpload(j) => j \in revived
    <3>1. r.pc = "requeue" /\ IsUpload(j) => j \in revived
      BY <1>0, <1>1, <2>1, <2>3 DEF RInv, Aside
    <3>2. r.pc \in Needing \ {"requeue"} => Own(r)
      BY DEF Needing, WorkingPCs, Own, OwningPCs
    <3>3. Own(r) /\ IsUpload(j) => Live(j)
      BY <2>3 DEF Told
    <3> QED BY <1>6, <3>1, <3>2, <3>3
  <2>5. Told(s, r)'
    BY <1>4, <1>7, <2>3, <2>4 DEF Told
  <2> QED BY <2>2, <2>5
<1>9. JobTold(j)'
  <2>1. j \in ToSet(queue) => Live(j)
    BY Asked
  <2> QED BY <1>4, <1>6, <1>7, <2>1 DEF RInv, JobTold, Accounted, NextIs
<1>10. Aside'
  BY <1>3, <1>5, AsideStays, Idles, Classes
<1> QED BY <1>3, <1>5, <1>8, <1>9, <1>10, Idles, Moved

-----------------------------------------------------------------------------
(* A queue worker.                                                         *)

\* A save of an unfinished stage: a job that is not live is brought back by it.
LEMMA Lands ==
  ASSUME TInv, OInv, RInv, NEW j \in Jobs, NEW st, NEW s, SaveUnfinished(j, st, s),
         st \in {"uploading", "queued", "reading", "packing"},
         UNCHANGED <<filed, live, origin>>,
         j \in Coming \/ \E t \in Threads : th[t].job = j /\ (Brings(th[t]) \/ (Own(th[t]) /\ th[t].pc # "persist"))
  PROVE  /\ row'[j].st = st /\ \A k \in Jobs \ {j} : row'[k] = row[k]
         /\ revived \subseteq revived' /\ \A k \in Jobs \ {j} : k \in revived' <=> k \in revived
         /\ Live(j)' = Live(j) /\ Active(j)' = Active(j) /\ HasComic(j)' = HasComic(j)
         /\ ~Live(j) => j \in revived'
         /\ (\E t \in Threads : th[t].job = j /\ th[t].pc = "drop") => j \in revived'
<1>1. row'[j].st = st /\ \A k \in Jobs \ {j} : row'[k] = row[k]
  BY Saved DEF SaveUnfinished
<1>2. /\ revived \subseteq revived' /\ (\A k \in Jobs \ {j} : k \in revived' <=> k \in revived)
      /\ (Overtaken(j) => j \in revived')
  BY DEF SaveUnfinished
<1>4. Live(j)' = Live(j) /\ Active(j)' = Active(j) /\ HasComic(j)' = HasComic(j)
  BY DEF Live, Active, HasComic, IsUpload, Copies
<1>5. \A t \in Threads : At(t, "persist") => Own(th[t]) /\ ~Brings(th[t])
  BY DEF At, Own, Brings, OwningPCs, BringingPCs
<1>6. ASSUME ~Live(j) PROVE j \in revived'
  <2>1. ASSUME NEW t \in Threads, At(t, "persist"), th[t].job = j PROVE FALSE
    <3>1. Own(th[t]) /\ ~Brings(th[t])
      BY <1>5, <2>1
    <3>2. j \notin Coming /\ \A u \in Threads : Brings(th[u]) => th[u].job # j
      BY <1>6, <2>1, <3>1 DEF OInv, DeadInHand
    <3>3. \A u \in Threads : Own(th[u]) /\ th[u].job = j => u = t
      BY <2>1, <3>1 DEF OInv, OneHand
    <3> QED BY <2>1, <3>2, <3>3 DEF At
  <2>2. ~Active(j)
    BY <1>6 DEF Active, Live
  <2> QED BY <1>2, <2>1, <2>2 DEF Overtaken
<1>7. ASSUME NEW t \in Threads, th[t].job = j, th[t].pc = "drop" PROVE j \in revived'
  <2>1. Own(th[t]) /\ Told(t, th[t])
    BY <1>7 DEF Own, OwningPCs, RInv
  <2>2. ~Active(j)
    BY <1>7, <2>1 DEF Told
  <2>3. \A u \in Threads : At(u, "persist") => th[u].job # j
    BY <1>5, <1>7, <2>1 DEF OInv, OneHand, At
  <2> QED BY <1>2, <2>2, <2>3 DEF Overtaken
<1> QED BY <1>1, <1>2, <1>4, <1>6, <1>7

LEMMA SaveLands ==
  ASSUME TInv, OInv, RInv, NEW j \in Jobs, NEW st, NEW s, SaveUnfinished(j, st, s),
         st \in {"uploading", "queued", "reading", "packing"},
         UNCHANGED <<staged, filed, live, queue, origin, starts, up, draining, boot>>,
         \E t \in Threads : th[t].job = j /\ (Brings(th[t]) \/ (Own(th[t]) /\ th[t].pc # "persist"))
  PROVE  /\ SameWorld /\ ComicsKept /\ (\A k \in Jobs \ {j} : SameJob(k)) /\ revived \subseteq revived'
         /\ IsUpload(j)' = IsUpload(j) /\ Fresh(j)' = Fresh(j) /\ Live(j)' = Live(j) /\ Active(j)' = Active(j)
         /\ HasComic(j)' = HasComic(j) /\ row'[j].st = st
         /\ ~Live(j) => j \in revived'
         /\ (\E t \in Threads : th[t].job = j /\ th[t].pc = "drop") => j \in revived'
         /\ JobTold(j)'
<1>1. /\ row'[j].st = st /\ \A k \in Jobs \ {j} : row'[k] = row[k]
      /\ revived \subseteq revived' /\ \A k \in Jobs \ {j} : k \in revived' <=> k \in revived
      /\ Live(j)' = Live(j) /\ Active(j)' = Active(j) /\ HasComic(j)' = HasComic(j)
      /\ ~Live(j) => j \in revived'
      /\ (\E t \in Threads : th[t].job = j /\ th[t].pc = "drop") => j \in revived'
  BY Lands
<1>2. /\ SameWorld /\ ComicsKept /\ (\A k \in Jobs \ {j} : SameJob(k))
      /\ IsUpload(j)' = IsUpload(j) /\ Fresh(j)' = Fresh(j)
  <2>1. filed'[j] \in Nat /\ filed'[j] >= filed[j]
    BY DEF TInv, TypeOK, DurableTypes
  <2> QED BY <1>1, <2>1, Touched
<1>3. JobTold(j)'
  BY <1>1, <1>2 DEF RInv, JobTold, Accounted, NextIs
<1> QED BY <1>1, <1>2, <1>3

LEMMA SaveStageKeeps ==
  ASSUME TInv, OInv, RInv, NEW w \in Workers, SaveStage(w)
  PROVE  RInv'
<1>0. w \in Threads /\ th[w].pc \in {"announce", "tick"} /\ th[w].pc \in JobPCs /\ th[w].pc \in OwningPCs
  BY DEF SaveStage, At, JobPCs, OwningPCs, Threads
<1>1. PICK j \in Jobs : j = th[w].job
  BY <1>0, HasInHand
<1>2. Own(th[w]) /\ Told(w, th[w]) /\ ThreadsOK(th) /\ ~Fresh(j)
  BY <1>0, <1>1, HasInHand
<1>3. Elsewhere(w) /\ th'[w].pc \in {"extract", "build"} /\ th'[w].job = j /\ th'[w].st = th[w].st
  BY <1>0, <1>1, <1>2, Going DEF SaveStage
<1>4. /\ UNCHANGED <<staged, filed, live, queue, origin, starts, up, draining, boot>>
      /\ SaveUnfinished(j, th[w].st, th[w].seq)
  BY <1>1 DEF SaveStage, manager, process
<1>5. th[w].st \in {"reading", "packing"}
  BY <1>0, <1>2 DEF Told
<1>6. PICK q : q = th'[w]
  OBVIOUS
<1>7. PICK st \in {"reading", "packing"} : st = th[w].st
  BY <1>5
<1>8. /\ SameWorld /\ ComicsKept /\ (\A k \in Jobs \ {j} : SameJob(k)) /\ revived \subseteq revived'
      /\ IsUpload(j)' = IsUpload(j) /\ Fresh(j)' = Fresh(j) /\ Live(j)' = Live(j) /\ Active(j)' = Active(j)
      /\ row'[j].st = st /\ JobTold(j)'
  BY <1>0, <1>1, <1>2, <1>4, <1>7, SaveLands
<1>9. Apart(w, j)
  BY <1>3, <1>4, <1>8 DEF Apart
<1>10. Told(w, q)'
  BY <1>0, <1>1, <1>2, <1>3, <1>4, <1>6, <1>7, <1>8
     DEF Told, Own, New, OwningPCs, EndingPCs, Past, Needing, WorkingPCs
<1> QED BY <1>0, <1>1, <1>2, <1>3, <1>6, <1>8, <1>9, <1>10, OwnerMoves

LEMMA TickKeeps ==
  ASSUME TInv, OInv, RInv, NEW w \in Workers, Tick(w)
  PROVE  RInv'
<1>0. w \in Threads /\ th[w].pc = "extract" /\ th[w].pc \in JobPCs /\ th[w].pc \in OwningPCs
  BY DEF Tick, At, JobPCs, OwningPCs, Threads
<1>1. PICK j \in Jobs : j = th[w].job
  BY <1>0, HasInHand
<1>2. Own(th[w]) /\ Told(w, th[w]) /\ ThreadsOK(th) /\ ~Fresh(j)
  BY <1>0, <1>1, HasInHand
<1>3. UNCHANGED <<row, staged, filed, queue, boot, origin, revived, starts, up, draining>>
  BY DEF Tick, durable, process, history
<1>6. PICK q : q = th'[w]
  OBVIOUS
<1>4. CASE ~Live(j)
  <2>1. live' = live /\ Elsewhere(w) /\ th'[w].pc = "build" /\ th'[w].job = j
    BY <1>0, <1>1, <1>2, <1>4, Going DEF Tick
  <2>2. Told(w, q)
    BY <1>0, <1>1, <1>2, <1>4, <1>6, <2>1
       DEF Told, Own, New, OwningPCs, EndingPCs, Past, Needing, WorkingPCs
  <2> QED BY <1>0, <1>1, <1>2, <1>3, <1>6, <2>1, <2>2, OnlyMoves
<1>5. CASE Live(j)
  <2>1. live' = AtStage(j, "packing") /\ Elsewhere(w) /\ th'[w].pc = "tick" /\ th'[w].job = j
        /\ th'[w].st = "packing"
    BY <1>0, <1>1, <1>2, <1>5, Going DEF Tick
  <2>2. Live(j)' /\ \A k \in Jobs \ {j} : live'[k] = live[k]
    BY <2>1, Staged DEF Live
  <2>3. /\ SameWorld /\ ComicsKept /\ (\A k \in Jobs \ {j} : SameJob(k))
        /\ IsUpload(j)' = IsUpload(j) /\ Fresh(j)' = Fresh(j)
    <3>1. filed'[j] \in Nat /\ filed'[j] >= filed[j]
      BY <1>3 DEF TInv, TypeOK, DurableTypes
    <3> QED BY <1>3, <2>2, <3>1, Touched
  <2>4. Apart(w, j)
    BY <1>3, <2>1, <2>3 DEF Apart
  <2>5. HasComic(j)' = HasComic(j) /\ Unfinished(j)' = Unfinished(j) /\ Coming' = Coming
    BY <1>3 DEF HasComic, IsUpload, Copies, Unfinished, Coming
  <2>6. Told(w, q)'
    BY <1>0, <1>1, <1>2, <1>3, <1>6, <2>1, <2>2, <2>3, <2>5
       DEF Told, Own, New, OwningPCs, EndingPCs, Past, Needing, WorkingPCs
  <2>7. JobTold(j)'
    BY <1>3, <2>2, <2>3, <2>5 DEF RInv, JobTold, Accounted, NextIs
  <2> QED BY <1>0, <1>1, <1>2, <1>6, <2>1, <2>4, <2>6, <2>7, OwnerMoves
<1> QED BY <1>4, <1>5

\* The steps of a run that move the worker alone.
LEMMA RunKeeps ==
  ASSUME TInv, OInv, RInv, NEW w \in Workers,
         \/ PipelineFails(w) \/ PipelineCancelled(w) \/ PipelineBuilds(w)
         \/ CancelEnds(w) \/ LookUp(w) \/ FilingFails(w)
  PROVE  RInv'
<1>0. /\ w \in Threads /\ th[w].pc \in {"extract", "build", "cancelled", "lookup", "file"}
      /\ th[w].pc \in JobPCs /\ th[w].pc \in OwningPCs
  BY DEF PipelineFails, PipelineCancelled, PipelineBuilds, CancelEnds, LookUp, FilingFails, At,
         JobPCs, OwningPCs, Threads
<1>1. PICK j \in Jobs : j = th[w].job
  BY <1>0, HasInHand
<1>2. Own(th[w]) /\ Told(w, th[w]) /\ ThreadsOK(th) /\ ~Fresh(j)
  BY <1>0, <1>1, HasInHand
<1>3. UNCHANGED <<row, staged, filed, live, queue, boot, origin, revived, starts, up, draining>>
  BY DEF PipelineFails, PipelineCancelled, PipelineBuilds, CancelEnds, LookUp, FilingFails,
         durable, manager, process, history
<1>4. PICK q : q = th'[w]
  OBVIOUS
<1>5. ASSUME Elsewhere(w), q.job = j,
             \/ q.pc \in {"clean", "mark"} /\ (q.st \in {"failed", "cancelled"} \/ HasComic(j))
             \/ q.pc \in {"cancelled", "file", "lookup"} /\ (q.pc = "lookup" => ~IsUpload(j))
      PROVE  RInv'
  <2>1. Told(w, q)
    BY <1>0, <1>1, <1>2, <1>5 DEF Told, Own, New, OwningPCs, EndingPCs, Past, Needing, WorkingPCs
  <2>2. q.pc # "requeue"
    BY <1>5
  <2> QED BY <1>0, <1>1, <1>2, <1>3, <1>4, <1>5, <2>1, <2>2, OnlyMoves
<1>6. CASE PipelineFails(w) \/ CancelEnds(w) \/ FilingFails(w)
  <2>1. Elsewhere(w) /\ q.job = j /\ q.pc \in {"clean", "mark"} /\ q.st \in {"failed", "cancelled"}
    BY <1>0, <1>1, <1>2, <1>4, <1>6, Going DEF PipelineFails, CancelEnds, FilingFails, EndsWith
  <2> QED BY <1>5, <2>1
<1>7. CASE PipelineCancelled(w) \/ PipelineBuilds(w)
  <2>1. CASE PipelineCancelled(w)
    <3>1. Elsewhere(w) /\ q.job = j /\ q.pc = "cancelled"
      BY <1>0, <1>1, <1>2, <1>4, <2>1, Going DEF PipelineCancelled
    <3> QED BY <1>5, <3>1
  <2>2. CASE PipelineBuilds(w) /\ IsUpload(j)
    <3>1. Elsewhere(w) /\ q.job = j /\ q.pc = "file"
      BY <1>0, <1>1, <1>2, <1>4, <2>2, Going DEF PipelineBuilds
    <3> QED BY <1>5, <3>1
  <2>3. CASE PipelineBuilds(w) /\ ~IsUpload(j)
    <3>1. Elsewhere(w) /\ q.job = j /\ q.pc = "lookup"
      BY <1>0, <1>1, <1>2, <1>4, <2>3, Going DEF PipelineBuilds
    <3> QED BY <1>5, <2>3, <3>1
  <2> QED BY <1>7, <2>1, <2>2, <2>3
<1>8. CASE LookUp(w)
  <2>1. CASE Copies(Content[origin[j]]) # {}
    <3>1. Elsewhere(w) /\ q.job = j /\ q.pc = "mark"
      BY <1>0, <1>1, <1>2, <1>4, <1>8, <2>1, Going DEF LookUp
    <3>2. HasComic(j)
      BY <1>1, <1>2, <1>8, <2>1 DEF HasComic, Told, LookUp, At
    <3> QED BY <1>5, <3>1, <3>2
  <2>2. CASE Copies(Content[origin[j]]) = {}
    <3>1. Elsewhere(w) /\ q.job = j /\ q.pc = "file"
      BY <1>0, <1>1, <1>2, <1>4, <1>8, <2>2, Going DEF LookUp
    <3> QED BY <1>5, <3>1
  <2> QED BY <2>1, <2>2
<1> QED BY <1>6, <1>7, <1>8

\* A worker with a job in hand works for a process that has recovered.
LEMMA AtWorkIsDone ==
  ASSUME TInv, CInv, OInv, RInv, NEW w \in Workers, th[w].pc # "idle"
  PROVE  boot.pc = "done" /\ up
<1>1. up
  BY RunningIsUp DEF CInv, Threads
<1>2. boot.pc \notin Early
  BY DEF OInv, RecoversAlone
<1>3. boot.pc \in {"off", "list", "each", "take", "save", "fail", "done"}
  BY DEF TInv, TypeOK, ProcessTypes, BootType
<1> QED BY <1>1, <1>2, <1>3 DEF RInv, Early

LEMMA RequeueKeeps ==
  ASSUME TInv, CInv, OInv, RInv, NEW w \in Workers, RequeueForRestart(w)
  PROVE  RInv'
<1>0. /\ w \in Threads /\ th[w].pc = "cancelled" /\ th[w].pc \in JobPCs /\ th[w].pc \in OwningPCs
      /\ draining
  BY DEF RequeueForRestart, At, JobPCs, OwningPCs, Threads
<1>1. PICK j \in Jobs : j = th[w].job
  BY <1>0, HasInHand
<1>2. Own(th[w]) /\ Told(w, th[w]) /\ ThreadsOK(th) /\ ~Fresh(j)
  BY <1>0, <1>1, HasInHand
<1>3. UNCHANGED <<row, staged, filed, queue, boot, origin, revived, starts, up, draining>>
  BY DEF RequeueForRestart, durable, process, history
<1>6. PICK q : q = th'[w]
  OBVIOUS
<1>4. CASE ~Live(j)
  <2>1. live' = live /\ Elsewhere(w) /\ th'[w] = Idle
    BY <1>0, <1>1, <1>2, <1>4, Going DEF RequeueForRestart
  <2>2. Told(w, q) /\ q.pc # "requeue"
    BY <1>6, <2>1, Idles
  <2> QED BY <1>0, <1>1, <1>2, <1>3, <1>6, <2>1, <2>2, OnlyMoves
<1>5. CASE Live(j)
  <2>1. live' = Dropped(j) /\ Elsewhere(w) /\ th'[w].pc = "requeue" /\ th'[w].job = j
    BY <1>0, <1>1, <1>2, <1>5, Going DEF RequeueForRestart
  <2>2. ~Live(j)' /\ \A k \in Jobs \ {j} : live'[k] = live[k]
    BY <2>1, Forgotten
  <2>3. /\ SameWorld /\ ComicsKept /\ (\A k \in Jobs \ {j} : SameJob(k))
        /\ IsUpload(j)' = IsUpload(j) /\ Fresh(j)' = Fresh(j)
    <3>1. filed'[j] \in Nat /\ filed'[j] >= filed[j]
      BY <1>3 DEF TInv, TypeOK, DurableTypes
    <3> QED BY <1>3, <2>2, <3>1, Touched
  <2>4. Apart(w, j)
    BY <1>3, <2>1, <2>3 DEF Apart
  <2>5. HasComic(j)' = HasComic(j) /\ Unfinished(j)' = Unfinished(j) /\ Coming' = Coming
    BY <1>3 DEF HasComic, IsUpload, Copies, Unfinished, Coming
  <2>6. boot.pc = "done"
    BY <1>0, AtWorkIsDone
  <2>7. row[j].st # "uploading" /\ (IsUpload(j) => j \in staged \cup revived)
    BY <1>0, <1>1, <1>2 DEF Told, Past, Needing, WorkingPCs
  <2>8. Told(w, q)'
    BY <1>0, <1>3, <1>6, <2>1, <2>2, <2>3, <2>6, <2>7
       DEF Told, Own, New, OwningPCs, EndingPCs, Past, Needing, WorkingPCs
  <2>9. JobTold(j)'
    BY <1>0, <1>3, <2>3, <2>5, <2>6, <2>7 DEF RInv, JobTold, Accounted, NextIs
  <2> QED BY <1>0, <1>1, <1>2, <1>5, <1>6, <2>1, <2>4, <2>8, <2>9, OwnerMoves
<1> QED BY <1>4, <1>5

LEMMA RequeuedKeeps ==
  ASSUME TInv, OInv, RInv, NEW w \in Workers, SaveRequeued(w)
  PROVE  RInv'
<1>0. w \in Threads /\ th[w].pc = "requeue" /\ th[w].pc \in JobPCs
  BY DEF SaveRequeued, At, JobPCs, Threads
<1>1. PICK j \in Jobs : j = th[w].job
  BY <1>0, HasInHand
<1>2. Told(w, th[w]) /\ ThreadsOK(th) /\ ~Fresh(j)
  BY <1>0, <1>1, HasInHand
<1>3. Elsewhere(w) /\ th'[w] = Idle
  BY <1>0, <1>2, Going DEF SaveRequeued
<1>4. UNCHANGED <<staged, filed, live, queue, boot, origin, revived, starts, up, draining>>
  BY DEF SaveRequeued, manager, process, history
<1>5. row'[j].st = "queued" /\ \A k \in Jobs \ {j} : row'[k] = row[k]
  BY <1>1, Saved DEF SaveRequeued
<1>6. /\ SameWorld /\ ComicsKept /\ (\A k \in Jobs \ {j} : SameJob(k))
      /\ IsUpload(j)' = IsUpload(j) /\ Fresh(j)' = Fresh(j)
  <2>1. filed'[j] \in Nat /\ filed'[j] >= filed[j]
    BY <1>4 DEF TInv, TypeOK, DurableTypes
  <2> QED BY <1>4, <1>5, <2>1, Touched
<1>7. Apart(w, j)
  BY <1>3, <1>4, <1>6 DEF Apart
<1>8. draining /\ boot.pc = "done" /\ ~Live(j) /\ (IsUpload(j) => j \in staged \cup revived)
  BY <1>0, <1>1, <1>2 DEF Told, Needing
<1>9. Live(j)' = Live(j) /\ Active(j)' = Active(j) /\ HasComic(j)' = HasComic(j)
  BY <1>4 DEF Live, Active, HasComic, IsUpload, Copies
<1>10. ASSUME NEW s \in Threads \ {w}, th[s].pc \in JobPCs, th[s].job = j
       PROVE  Told(s, th[s])'
  <2>1. PICK r : r = th[s]
    OBVIOUS
  <2>2. th'[s] = r
    BY <1>3, <1>10, <2>1 DEF Elsewhere, JobPCs
  <2>3. /\ Told(s, r) /\ ~Own(r) /\ r.job = j /\ r.pc \in JobPCs
        /\ r.pc = "sweep" /\ IsUpload(j) => j \in revived
    BY <1>0, <1>1, <1>10, <2>1 DEF RInv, Aside
  <2>4. r.pc \in {"setInput", "saveQueued", "insert", "sweep", "requeue"}
    BY <2>3 DEF Own, OwningPCs, JobPCs
  <2>5. Told(s, r)'
    BY <1>4, <1>5, <1>6, <1>8, <1>9, <2>3, <2>4
       DEF Told, Own, New, OwningPCs, EndingPCs, Past, Needing, WorkingPCs
  <2> QED BY <2>2, <2>5
<1>11. JobTold(j)'
  BY <1>4, <1>5, <1>6, <1>8, <1>9 DEF RInv, JobTold, Accounted, NextIs
<1>12. Aside'
  BY <1>0, <1>3, <1>7, AsideStays, Idles, Classes
<1> QED BY <1>0, <1>3, <1>7, <1>10, <1>11, <1>12, Idles, Moved

LEMMA FileKeeps ==
  ASSUME TInv, OInv, RInv, NEW w \in Workers, FileComic(w)
  PROVE  RInv'
<1>0. w \in Threads /\ th[w].pc = "file" /\ th[w].pc \in JobPCs /\ th[w].pc \in OwningPCs
  BY DEF FileComic, At, JobPCs, OwningPCs, Threads
<1>1. PICK j \in Jobs : j = th[w].job
  BY <1>0, HasInHand
<1>2. Own(th[w]) /\ Told(w, th[w]) /\ ThreadsOK(th) /\ ~Fresh(j)
  BY <1>0, <1>1, HasInHand
<1>3. Elsewhere(w) /\ th'[w].pc = "mark" /\ th'[w].job = j /\ th'[w].st = "done"
  BY <1>0, <1>1, <1>2, Going DEF FileComic
<1>4. UNCHANGED <<row, staged, live, queue, boot, origin, revived, starts, up, draining>>
  BY DEF FileComic, manager, process, history
<1>5. /\ filed[j] \in Nat /\ starts \in Nat /\ filed'[j] = filed[j] + 1 /\ filed[j] < starts
      /\ \A k \in Jobs \ {j} : filed'[k] = filed[k]
  BY <1>0, <1>1, <1>2 DEF FileComic, Told, WorkingPCs, TInv, TypeOK, DurableTypes, HistoryTypes
<1>6. PICK q : q = th'[w]
  OBVIOUS
<1>7. /\ SameWorld /\ ComicsKept /\ (\A k \in Jobs \ {j} : SameJob(k))
      /\ IsUpload(j)' = IsUpload(j) /\ Fresh(j)' = Fresh(j)
  BY <1>4, <1>5, Touched
<1>8. Apart(w, j)
  BY <1>3, <1>4, <1>7 DEF Apart
<1>9. HasComic(j)'
  <2>1. CASE IsUpload(j)
    BY <1>5, <1>7, <2>1 DEF HasComic
  <2>2. CASE ~IsUpload(j)
    <3>1. origin'[j] \in Files /\ filed'[j] > 0
      BY <1>2, <1>4, <1>5, <2>2 DEF IsUpload, Fresh, TInv, TypeOK, HistoryTypes
    <3>2. j \in Copies(Content[origin[j]])'
      BY <1>4, <3>1 DEF Copies
    <3> QED BY <1>4, <1>7, <2>2, <3>2 DEF HasComic
  <2> QED BY <2>1, <2>2
<1>10. Live(j)' = Live(j) /\ Unfinished(j)' = Unfinished(j) /\ Coming' = Coming
  BY <1>4 DEF Live, Unfinished, Coming
<1>11. Told(w, q)'
  BY <1>0, <1>1, <1>2, <1>3, <1>4, <1>6, <1>7, <1>9, <1>10
     DEF Told, Own, New, OwningPCs, EndingPCs, Past, Needing, WorkingPCs
<1>12. boot.pc \notin Early /\ j \notin ToSet(queue)
  BY <1>0, <1>1, <1>2 DEF OInv, RecoversAlone, OneHand
<1>13. JobTold(j)'
  BY <1>2, <1>4, <1>5, <1>7, <1>9, <1>10, <1>12 DEF RInv, JobTold, Accounted, NextIs
<1> QED BY <1>0, <1>1, <1>2, <1>3, <1>6, <1>8, <1>11, <1>13, OwnerMoves

-----------------------------------------------------------------------------
(* A job leaves the line.                                                  *)

LEMMA TakerMoves ==
  ASSUME TInv, OInv, RInv, NEW t \in Threads, NEW j \in Jobs, LeavesLine(t, j), Apart(t, j),
         NEW q, q = th'[t], Told(t, q)', JobTold(j)'
  PROVE  RInv'
<1>1. /\ \A s \in Threads : Own(th[s]) => th[s].job # j
      /\ Live(j) /\ Own(q) /\ q.job = j
  BY Asked DEF OInv, OneHand, LeavesLine
<1>2. ASSUME NEW s \in Threads, th[s].pc \in JobPCs, th[s].job = j
      PROVE  /\ th[s].pc \in {"setInput", "saveQueued", "insert", "sweep"}
             /\ th[s].pc = "sweep" /\ IsUpload(j) => j \in revived
  <2>1. Told(s, th[s]) /\ ~Own(th[s])
    BY <1>1, <1>2 DEF RInv
  <2>2. th[s].pc # "requeue"
    BY <1>1, <1>2, <2>1 DEF Told
  <2>3. th[s].pc \in {"setInput", "saveQueued", "insert", "sweep"}
    BY <1>2, <2>1, <2>2 DEF Own, OwningPCs, JobPCs
  <2> QED BY <1>1, <1>2, <2>1, <2>3 DEF Told
<1>3. ASSUME NEW s \in Threads \ {t}, th[s].pc \in JobPCs, th[s].job = j
      PROVE  Told(s, th[s])'
  <2>1. PICK r : r = th[s]
    OBVIOUS
  <2>2. Told(s, r)
    BY <2>1 DEF RInv
  <2>3. /\ r.pc \in {"setInput", "saveQueued", "insert", "sweep"} /\ r.job = j
        /\ r.pc = "sweep" /\ IsUpload(j) => j \in revived
    BY <1>2, <1>3, <2>1
  <2>4. IsUpload(j)' = IsUpload(j) /\ (j \in revived => j \in revived')
    BY DEF Apart, IsUpload
  <2>5. Told(s, r)'
    BY <2>2, <2>3, <2>4 DEF Told, Own, New, OwningPCs, Past, Needing, WorkingPCs, EndingPCs
  <2>6. th'[s] = r
    BY <2>1, <2>3 DEF Apart, Elsewhere
  <2> QED BY <2>1, <2>2, <2>5, <2>6
<1>4. Aside'
  <2> SUFFICES ASSUME NEW s \in Threads, NEW u \in Threads, th'[u].pc = "requeue", th'[s].job = th'[u].job
               PROVE  ~Own(th'[s]) /\ (th'[s].pc = "sweep" /\ origin'[th'[s].job] \in Users => th'[s].job \in revived')
    BY DEF Aside, IsUpload
  <2>0. Idle.pc # "requeue" /\ ~Own(Idle) /\ Idle.pc # "sweep"
    BY Idles, Classes
  <2>1. \A v \in Threads \ {t} : th'[v] = th[v] \/ th'[v] = Idle
    BY DEF Apart, Elsewhere
  <2>2. u # t /\ th'[u] = th[u]
    BY <1>1, <2>0, <2>1 DEF Own, OwningPCs
  <2>3. th[u].pc \in JobPCs /\ th[u].job \in Jobs
    BY <2>2, Asked DEF JobPCs
  <2>4. th[u].job # j
    BY <1>2, <2>2, <2>3
  <2>5. CASE s = t
    BY <1>1, <2>2, <2>4, <2>5
  <2>6. CASE s # t /\ th'[s] = Idle
    BY <2>0, <2>6
  <2>7. CASE s # t /\ th'[s] = th[s]
    <3>1. ~Own(th[s]) /\ (th[s].pc = "sweep" /\ IsUpload(th[s].job) => th[s].job \in revived)
      BY <2>2, <2>7 DEF RInv, Aside
    <3>2. origin'[th[u].job] = origin[th[u].job]
      BY <2>3, <2>4 DEF Apart, SameJob
    <3> QED BY <2>2, <2>7, <3>1, <3>2 DEF Apart, IsUpload
  <2> QED BY <2>1, <2>5, <2>6, <2>7
<1> QED BY <1>3, <1>4, Moved

LEMMA PickKeeps ==
  ASSUME TInv, CInv, OInv, RInv, NEW w \in Workers, Pick(w)
  PROVE  RInv'
<1>1. PICK j \in Jobs : j = Head(queue) /\ LeavesLine(w, j)
  BY Picked
<1>0. w \in Threads /\ ThreadsOK(th) /\ live \in [Jobs -> LiveType]
  BY InHand DEF Threads, ManagerTypes
<1>2. j \in ToSet(queue) /\ Live(j) /\ ~Fresh(j)
  BY <1>1, Asked DEF LeavesLine
<1>3. /\ live' = [live EXCEPT ![j] = [@ EXCEPT !.st = "reading", !.ctx = "running"]]
      /\ th' = [th EXCEPT ![w] = [@ EXCEPT !.pc = "announce", !.job = j,
                                           !.st = "reading", !.seq = live[j].seq]]
  BY <1>1, <1>2 DEF Pick
<1>14. TakesOn(w, j, "announce") /\ th'[w].st = "reading"
  BY <1>0, <1>3, Starting
<1>4. Elsewhere(w) /\ th'[w].job = j /\ th'[w].pc = "announce" /\ th'[w].st = "reading"
  BY <1>14 DEF TakesOn
<1>5. UNCHANGED <<row, staged, filed, boot, origin, revived, starts, up, draining>>
  BY DEF Pick, durable, process, history
<1>6. live'[j].st = "reading" /\ \A k \in Jobs \ {j} : live'[k] = live[k]
  BY <1>0, <1>3 DEF LiveType
<1>7. /\ SameWorld /\ ComicsKept /\ (\A k \in Jobs \ {j} : SameJob(k))
      /\ IsUpload(j)' = IsUpload(j) /\ Fresh(j)' = Fresh(j)
  <2>1. filed'[j] \in Nat /\ filed'[j] >= filed[j]
    BY <1>5 DEF TInv, TypeOK, DurableTypes
  <2>2. \A k \in Jobs \ {j} : k \in ToSet(queue') <=> k \in ToSet(queue)
    BY <1>1 DEF LeavesLine
  <2> QED BY <1>5, <1>6, <2>1, <2>2, Touched
<1>8. Apart(w, j)
  BY <1>4, <1>5, <1>7 DEF Apart
<1>9. Live(j)' /\ HasComic(j)' = HasComic(j)
  BY <1>5, <1>6 DEF Live, HasComic, IsUpload, Copies
<1>10. filed[j] < starts /\ (IsUpload(j) => j \in staged \cup revived)
  BY <1>2 DEF RInv, JobTold
<1>11. PICK q : q = th'[w]
  OBVIOUS
<1>12. Told(w, q)'
  BY <1>4, <1>5, <1>7, <1>9, <1>10, <1>11
     DEF Told, Own, New, OwningPCs, EndingPCs, Past, Needing, WorkingPCs
<1>13. JobTold(j)'
  <2>1. j \notin ToSet(queue')
    BY <1>1 DEF LeavesLine
  <2> QED BY <1>5, <1>7, <1>9, <2>1 DEF RInv, JobTold, Accounted, NextIs
<1> QED BY <1>0, <1>1, <1>8, <1>11, <1>12, <1>13, TakerMoves

LEMMA CancelKeeps ==
  ASSUME TInv, OInv, RInv, NEW c \in Clients, NEW j \in Jobs, CancelQueued(c, j)
  PROVE  RInv'
<1>1. LeavesLine(c, j)
  BY QueuedCancelled
<1>0. c \in Threads /\ ThreadsOK(th)
  BY InHand DEF Threads
<1>2. j \in ToSet(queue) /\ Live(j) /\ ~Fresh(j)
  BY <1>1, Asked DEF LeavesLine
<1>3. PICK pc \in {"clean", "mark"} :
        th' = [th EXCEPT ![c] = [@ EXCEPT !.pc = pc, !.job = j, !.st = "cancelled"]]
  BY DEF CancelQueued
<1>14. TakesOn(c, j, pc) /\ th'[c].st = "cancelled"
  BY <1>0, <1>3, Starting
<1>4. Elsewhere(c) /\ th'[c].job = j /\ th'[c].pc = pc /\ th'[c].st = "cancelled"
  BY <1>14 DEF TakesOn
<1>5. UNCHANGED <<row, staged, filed, live, boot, origin, revived, starts, up, draining>>
  BY DEF CancelQueued, durable, process
<1>7. /\ SameWorld /\ ComicsKept /\ (\A k \in Jobs \ {j} : SameJob(k))
      /\ IsUpload(j)' = IsUpload(j) /\ Fresh(j)' = Fresh(j)
  <2>1. filed'[j] \in Nat /\ filed'[j] >= filed[j]
    BY <1>5 DEF TInv, TypeOK, DurableTypes
  <2>2. \A k \in Jobs \ {j} : k \in ToSet(queue') <=> k \in ToSet(queue)
    BY <1>1 DEF LeavesLine
  <2> QED BY <1>5, <2>1, <2>2, Touched
<1>8. Apart(c, j)
  BY <1>4, <1>5, <1>7 DEF Apart
<1>9. Live(j)' /\ HasComic(j)' = HasComic(j)
  BY <1>2, <1>5 DEF Live, HasComic, IsUpload, Copies
<1>11. PICK q : q = th'[c]
  OBVIOUS
<1>12. Told(c, q)'
  BY <1>4, <1>5, <1>7, <1>9, <1>11
     DEF Told, Own, New, OwningPCs, EndingPCs, Past, Needing, WorkingPCs
<1>13. JobTold(j)'
  <2>1. j \notin ToSet(queue')
    BY <1>1 DEF LeavesLine
  <2> QED BY <1>5, <1>7, <1>9, <2>1 DEF RInv, JobTold, Accounted, NextIs
<1> QED BY <1>0, <1>1, <1>8, <1>11, <1>12, <1>13, TakerMoves

\* Whatever leaves the jobs alone, and moves goroutines that have none.
LEMMA Bystands ==
  ASSUME TInv, OInv, RInv, SameWorld, ComicsKept, \A k \in Jobs : SameJob(k),
         \A s \in Threads : th'[s] = th[s] \/ th'[s].pc \notin JobPCs
  PROVE  RInv'
<1>1. ASSUME NEW s \in Threads PROVE Told(s, th[s])'
  <2>1. PICK r : r = th[s]
    OBVIOUS
  <2>2. Told(s, r) /\ (r.pc \in JobPCs => r.job \in Jobs /\ ~Fresh(r.job))
    BY <2>1, Asked DEF RInv
  <2>3. CASE th'[s] = r /\ r.pc \in JobPCs
    BY <2>2, <2>3, ToldStays DEF ComicsKept
  <2>4. CASE th'[s].pc \notin JobPCs
    BY <2>4, Marks DEF Told, JobPCs, Own, New, Past, Needing, WorkingPCs, EndingPCs
  <2> QED BY <2>1, <2>3, <2>4
<1>2. ASSUME NEW k \in Jobs PROVE JobTold(k)'
  <2>1. row[k].st = "done" => ~Fresh(k)
    BY Asked
  <2> QED BY <2>1, JobStays DEF RInv, ComicsKept
<1>3. Aside'
  <2> SUFFICES ASSUME NEW s \in Threads, NEW u \in Threads, th'[u].pc = "requeue", th'[s].job = th'[u].job
               PROVE  ~Own(th'[s]) /\ (th'[s].pc = "sweep" /\ origin'[th'[s].job] \in Users => th'[s].job \in revived')
    BY DEF Aside, IsUpload
  <2>1. th'[u] = th[u] /\ th[u].job \in Jobs
    BY Asked DEF JobPCs
  <2>2. CASE th'[s].pc \notin JobPCs
    BY <2>2, Marks DEF Own, JobPCs
  <2>3. CASE th'[s] = th[s]
    <3>1. ~Own(th[s]) /\ (th[s].pc = "sweep" /\ IsUpload(th[s].job) => th[s].job \in revived)
      BY <2>1, <2>3 DEF RInv, Aside
    <3>2. origin'[th[u].job] = origin[th[u].job] /\ (th[u].job \in revived => th[u].job \in revived')
      BY <2>1 DEF SameJob
    <3> QED BY <2>1, <2>3, <3>1, <3>2 DEF IsUpload
  <2> QED BY <2>2, <2>3
<1>4. up' => starts' > 0 /\ boot'.pc # "off"
  BY DEF RInv, SameWorld
<1> QED BY <1>1, <1>2, <1>3, <1>4 DEF RInv

LEMMA RestsKeeps ==
  ASSUME TInv, OInv, RInv, NEW w \in Workers, WorkerWaits(w) \/ WorkerReturns(w)
  PROVE  RInv'
<1>0. w \in Threads /\ ThreadsOK(th)
  BY InHand DEF Threads
<1>1. Elsewhere(w) /\ th'[w].pc \in {"waiting", "returned"}
  BY <1>0, Going DEF WorkerWaits, WorkerReturns
<1>2. UNCHANGED <<row, staged, filed, live, queue, boot, origin, revived, starts, up, draining>>
  BY DEF WorkerWaits, WorkerReturns, durable, manager, process, history
<1>3. SameWorld /\ ComicsKept /\ \A k \in Jobs : SameJob(k)
  BY <1>2, Untouched
<1>4. \A s \in Threads : th'[s] = th[s] \/ th'[s].pc \notin JobPCs
  BY <1>1, Classes DEF Elsewhere, JobPCs
<1> QED BY <1>3, <1>4, Bystands

LEMMA WorkerKeeps ==
  ASSUME TInv, CInv, OInv, RInv, NEW w \in Workers, WorkerStep(w)
  PROVE  RInv'
<1>1. w \in Threads
  BY DEF Threads
<1>2. ASSUME FinishStep(w) PROVE RInv'
  BY <1>1, <1>2, CleanKeeps, MarkKeeps, PersistKeeps, DropKeeps, SweepKeeps DEF FinishStep
<1> QED BY <1>2, PickKeeps, RestsKeeps, SaveStageKeeps, TickKeeps, RunKeeps, RequeueKeeps, RequeuedKeeps,
           FileKeeps DEF WorkerStep

-----------------------------------------------------------------------------
(* What requests and hand-offs do once they have begun.                    *)

\* A save by a goroutine that brings the job: what the others rely on stands.
LEMMA SavedUnder ==
  ASSUME TInv, OInv, RInv, NEW j \in Jobs, SameWorld, row'[j].st \in {"queued", "reading", "packing"},
         UNCHANGED <<staged, filed, origin>>, revived \subseteq revived',
         Live(j)' = Live(j), Active(j)' = Active(j), HasComic(j)' = HasComic(j),
         ~Live(j) => j \in revived', (\E t \in Threads : th[t].job = j /\ th[t].pc = "drop") => j \in revived',
         NEW s \in Threads, th[s].job = j, th[s].pc # "begin", NEW r, r = th[s]
  PROVE  Told(s, r)'
<1>1. Told(s, r) /\ r.job = j
  BY DEF RInv
<1>2. IsUpload(j)' = IsUpload(j)
  BY DEF IsUpload
<1>3. r.pc = "drop" => j \in revived'
  OBVIOUS
<1> QED BY <1>1, <1>2, <1>3 DEF Told, SameWorld

\* A goroutine that has no hand on the job moves on with it, or rests.
LEMMA BringerMoves ==
  ASSUME TInv, OInv, RInv, NEW t \in Threads, NEW j \in Jobs, Apart(t, j), JobTold(j)',
         th'[t].pc \in {"idle", "setInput", "saveQueued"},
         \A s \in Threads \ {t} : th[s].pc \in JobPCs /\ th[s].job = j => Told(s, th[s])'
  PROVE  RInv'
<1>1. PICK q : q = th'[t]
  OBVIOUS
<1>2. ~Own(q) /\ Told(t, q)'
  BY <1>1 DEF Told, Own, New, OwningPCs, EndingPCs, Past, Needing, WorkingPCs
<1>3. Aside'
  BY <1>1, <1>2, AsideStays
<1> QED BY <1>1, <1>2, <1>3, Moved

LEMMA BringerSaves ==
  ASSUME TInv, OInv, RInv, NEW c \in Clients, SaveQueued(c) \/ LibrarySaves(c)
  PROVE  RInv'
<1>0. /\ c \in Threads /\ th[c].pc \in {"saveQueued", "insert"} /\ th[c].pc \in JobPCs
      /\ Brings(th[c])
  BY DEF SaveQueued, LibrarySaves, At, JobPCs, Threads, Brings, BringingPCs
<1>1. PICK j \in Jobs : j = th[c].job
  BY <1>0, HasInHand
<1>2. ThreadsOK(th)
  BY <1>0, HasInHand
<1>3. Elsewhere(c) /\ th'[c].pc \in {"idle", "setInput"}
  BY <1>0, <1>2, Going, Classes DEF SaveQueued, LibrarySaves
<1>4. /\ UNCHANGED <<staged, filed, live, queue, origin, starts, up, draining, boot>>
      /\ SaveUnfinished(j, "queued", th[c].seq)
  BY <1>1 DEF SaveQueued, LibrarySaves, manager, process
<1>5. /\ SameWorld /\ ComicsKept /\ (\A k \in Jobs \ {j} : SameJob(k)) /\ revived \subseteq revived'
      /\ Live(j)' = Live(j) /\ Active(j)' = Active(j) /\ HasComic(j)' = HasComic(j)
      /\ row'[j].st = "queued" /\ (~Live(j) => j \in revived')
      /\ (\E t \in Threads : th[t].job = j /\ th[t].pc = "drop") => j \in revived'
      /\ JobTold(j)'
  BY <1>0, <1>1, <1>4, SaveLands
<1>6. Apart(c, j)
  BY <1>3, <1>4, <1>5 DEF Apart
<1>7. ASSUME NEW s \in Threads \ {c}, th[s].pc \in JobPCs, th[s].job = j
      PROVE  Told(s, th[s])'
  <2>1. PICK r : r = th[s]
    OBVIOUS
  <2>2. th'[s] = r
    BY <1>3, <1>7, <2>1 DEF Elsewhere, JobPCs
  <2>3. r.pc # "begin"
    BY <1>0, <1>1, <1>7, <2>1 DEF OInv, OneBringer, Brings, BringingPCs
  <2>4. Told(s, r)'
    BY <1>4, <1>5, <1>7, <2>1, <2>3, SavedUnder
  <2> QED BY <2>2, <2>4
<1> QED BY <1>0, <1>3, <1>5, <1>6, <1>7, BringerMoves

LEMMA InputKeeps ==
  ASSUME TInv, OInv, RInv, NEW c \in Clients, SetInput(c)
  PROVE  RInv'
<1>0. c \in Threads /\ th[c].pc = "setInput" /\ th[c].pc \in JobPCs
  BY DEF SetInput, At, JobPCs, Threads
<1>1. PICK j \in Jobs : j = th[c].job
  BY <1>0, HasInHand
<1>2. ThreadsOK(th) /\ ~Fresh(j)
  BY <1>0, <1>1, HasInHand
<1>3. Elsewhere(c) /\ th'[c].pc \in {"idle", "saveQueued"}
  BY <1>0, <1>2, Going, Classes DEF SetInput
<1>4. UNCHANGED <<staged, filed, live, queue, boot, origin, revived, starts, up, draining>>
  BY DEF SetInput, manager, process, history
<1>5. \A k \in Jobs : row'[k].st = row[k].st
  BY <1>1 DEF SetInput, TInv, TypeOK, DurableTypes, RowType
<1>6. SameWorld /\ ComicsKept /\ \A k \in Jobs : SameJob(k)
  <2>1. \A k \in Jobs : filed[k] \in Nat
    BY DEF TInv, TypeOK, DurableTypes
  <2>2. ComicsKept
    BY <1>4, <2>1, ComicsStay
  <2>3. \A k \in Jobs : (k \in Coming' <=> k \in Coming) /\ NextIs(k)' = NextIs(k)
    BY <1>4, <1>5 DEF Coming, Unfinished, NextIs
  <2> QED BY <1>4, <1>5, <2>2, <2>3 DEF SameWorld, SameJob
<1>7. Apart(c, j)
  BY <1>3, <1>4, <1>6 DEF Apart
<1>8. JobTold(j)'
  BY <1>2, <1>6, JobStays DEF RInv, ComicsKept
<1>9. ASSUME NEW s \in Threads \ {c}, th[s].pc \in JobPCs, th[s].job = j
      PROVE  Told(s, th[s])'
  <2>1. PICK r : r = th[s]
    OBVIOUS
  <2>2. th'[s] = r
    BY <1>3, <1>9, <2>1 DEF Elsewhere, JobPCs
  <2>3. Told(s, r) /\ r.job = j
    BY <1>9, <2>1 DEF RInv
  <2>4. Told(s, r)'
    BY <1>2, <1>6, <2>3, ToldStays DEF ComicsKept
  <2> QED BY <2>2, <2>4
<1> QED BY <1>0, <1>3, <1>7, <1>8, <1>9, BringerMoves

LEMMA BeginSavesKeeps ==
  ASSUME TInv, OInv, RInv, NEW c \in Clients, BeginSaves(c)
  PROVE  RInv'
<1>0. c \in Threads /\ th[c].pc = "begin" /\ th[c].pc \in JobPCs /\ th[c].pc \in OwningPCs
  BY DEF BeginSaves, At, JobPCs, OwningPCs, Threads
<1>1. PICK j \in Jobs : j = th[c].job
  BY <1>0, HasInHand
<1>2. Own(th[c]) /\ Told(c, th[c]) /\ ThreadsOK(th)
  BY <1>0, <1>1, HasInHand
<1>3. Elsewhere(c) /\ th'[c].pc = "stage" /\ th'[c].job = j
  BY <1>0, <1>1, <1>2, Going DEF BeginSaves
<1>4. /\ UNCHANGED <<staged, filed, live, queue, origin, starts, up, draining, boot>>
      /\ SaveUnfinished(j, "uploading", 0)
  BY <1>1 DEF BeginSaves, manager, process
<1>5. /\ SameWorld /\ ComicsKept /\ (\A k \in Jobs \ {j} : SameJob(k)) /\ revived \subseteq revived'
      /\ Live(j)' = Live(j) /\ JobTold(j)'
  BY <1>0, <1>1, <1>2, <1>4, SaveLands
<1>6. Apart(c, j)
  BY <1>3, <1>4, <1>5 DEF Apart
<1>7. PICK q : q = th'[c]
  OBVIOUS
<1>8. Told(c, q)'
  BY <1>0, <1>1, <1>2, <1>3, <1>4, <1>5, <1>7
     DEF Told, Own, New, OwningPCs, EndingPCs, Past, Needing, WorkingPCs
<1> QED BY <1>0, <1>1, <1>2, <1>3, <1>5, <1>6, <1>7, <1>8, OwnerMoves

LEMMA BeginFailsKeeps ==
  ASSUME TInv, OInv, RInv, NEW c \in Clients, BeginSaveFails(c)
  PROVE  RInv'
<1>0. c \in Threads /\ th[c].pc = "begin" /\ th[c].pc \in JobPCs /\ th[c].pc \in OwningPCs
  BY DEF BeginSaveFails, At, JobPCs, OwningPCs, Threads
<1>1. PICK j \in Jobs : j = th[c].job
  BY <1>0, HasInHand
<1>2. Own(th[c]) /\ Told(c, th[c]) /\ ThreadsOK(th)
  BY <1>0, <1>1, HasInHand
<1>3. Elsewhere(c) /\ th'[c] = Idle
  BY <1>0, <1>2, Going DEF BeginSaveFails
<1>4. UNCHANGED <<row, staged, filed, queue, boot, origin, revived, starts, up, draining>>
  BY DEF BeginSaveFails, durable, process, history
<1>5. ~Live(j)' /\ \A k \in Jobs \ {j} : live'[k] = live[k]
  BY <1>1, Forgotten DEF BeginSaveFails
<1>6. /\ SameWorld /\ ComicsKept /\ (\A k \in Jobs \ {j} : SameJob(k))
      /\ IsUpload(j)' = IsUpload(j) /\ Fresh(j)' = Fresh(j)
  <2>1. filed'[j] \in Nat /\ filed'[j] >= filed[j]
    BY <1>4 DEF TInv, TypeOK, DurableTypes
  <2> QED BY <1>4, <1>5, <2>1, Touched
<1>7. Apart(c, j)
  BY <1>3, <1>4, <1>6 DEF Apart
<1>8. row[j].st = "none"
  BY <1>0, <1>1, <1>2 DEF Told
<1>9. JobTold(j)'
  BY <1>4, <1>6, <1>8 DEF RInv, JobTold, Accounted, Unfinished
<1> QED BY <1>0, <1>1, <1>2, <1>3, <1>7, <1>9, Idles, OwnerMoves

LEMMA StageKeeps ==
  ASSUME TInv, OInv, RInv, NEW c \in Clients, StageUpload(c)
  PROVE  RInv'
<1>0. c \in Threads /\ th[c].pc = "stage" /\ th[c].pc \in JobPCs /\ th[c].pc \in OwningPCs
  BY DEF StageUpload, At, JobPCs, OwningPCs, Threads
<1>1. PICK j \in Jobs : j = th[c].job
  BY <1>0, HasInHand
<1>2. Own(th[c]) /\ Told(c, th[c]) /\ ThreadsOK(th)
  BY <1>0, <1>1, HasInHand
<1>3. Elsewhere(c) /\ th'[c].pc = "upload" /\ th'[c].job = j
  BY <1>0, <1>1, <1>2, Going DEF StageUpload
<1>4. /\ staged' = staged \cup {j}
      /\ UNCHANGED <<row, filed, live, queue, boot, origin, revived, starts, up, draining>>
  BY <1>1 DEF StageUpload, manager, process, history
<1>5. /\ SameWorld /\ ComicsKept /\ (\A k \in Jobs \ {j} : SameJob(k))
      /\ IsUpload(j)' = IsUpload(j) /\ Fresh(j)' = Fresh(j)
  <2>1. filed'[j] \in Nat /\ filed'[j] >= filed[j]
    BY <1>4 DEF TInv, TypeOK, DurableTypes
  <2> QED BY <1>4, <2>1, Touched
<1>6. Apart(c, j)
  BY <1>3, <1>4, <1>5 DEF Apart
<1>7. PICK q : q = th'[c]
  OBVIOUS
<1>8. Live(j)' = Live(j) /\ Unfinished(j)' = Unfinished(j) /\ Coming' = Coming /\ HasComic(j)' = HasComic(j)
  BY <1>4 DEF Live, Unfinished, Coming, HasComic, IsUpload, Copies
<1>9. Told(c, q)'
  BY <1>0, <1>1, <1>2, <1>3, <1>4, <1>5, <1>7, <1>8
     DEF Told, Own, New, OwningPCs, EndingPCs, Past, Needing, WorkingPCs
<1>10. JobTold(j)'
  BY <1>4, <1>5, <1>8 DEF RInv, JobTold, Accounted, NextIs
<1> QED BY <1>0, <1>1, <1>2, <1>3, <1>6, <1>7, <1>9, <1>10, OwnerMoves

LEMMA UploadFailsKeeps ==
  ASSUME TInv, OInv, RInv, NEW c \in Clients, UploadFails(c)
  PROVE  RInv'
<1>0. c \in Threads /\ th[c].pc \in {"stage", "upload"} /\ th[c].pc \in JobPCs /\ th[c].pc \in OwningPCs
  BY DEF UploadFails, At, JobPCs, OwningPCs, Threads
<1>1. PICK j \in Jobs : j = th[c].job
  BY <1>0, HasInHand
<1>2. Own(th[c]) /\ Told(c, th[c]) /\ ThreadsOK(th)
  BY <1>0, <1>1, HasInHand
<1>3. Elsewhere(c) /\ th'[c].pc = "mark" /\ th'[c].job = j /\ th'[c].st = "failed"
  BY <1>0, <1>1, <1>2, Going DEF UploadFails
<1>4. UNCHANGED <<row, staged, filed, live, queue, boot, origin, revived, starts, up, draining>>
  BY DEF UploadFails, durable, manager, process, history
<1>5. PICK q : q = th'[c]
  OBVIOUS
<1>6. Told(c, q)
  BY <1>0, <1>1, <1>2, <1>3, <1>5 DEF Told, Own, New, OwningPCs, EndingPCs, Past, Needing, WorkingPCs
<1> QED BY <1>0, <1>1, <1>2, <1>3, <1>4, <1>5, <1>6, OnlyMoves

LEMMA EnqueueKeeps ==
  ASSUME TInv, OInv, RInv, NEW c \in Clients, EnqueueUploaded(c)
  PROVE  RInv'
<1>0. c \in Threads /\ th[c].pc = "upload" /\ th[c].pc \in JobPCs
  BY DEF EnqueueUploaded, At, JobPCs, Threads
<1>1. PICK j \in Jobs : th[c].job = j /\ JoinsLine(c, j) /\ Own(th[c]) /\ j \notin ToSet(queue)
  BY UploadQueued
<1>2. Told(c, th[c]) /\ ~Fresh(j)
  BY <1>0, <1>1, HasInHand
<1>3. Elsewhere(c) /\ th'[c].pc = "setInput" /\ th'[c].job = j
  BY <1>1, UploadQueued DEF JoinsLine
<1>4. UNCHANGED <<row, staged, filed, boot, origin, revived, starts, up, draining>>
  BY DEF EnqueueUploaded, durable, process, history
<1>5. Live(j)' /\ \A k \in Jobs \ {j} : live'[k] = live[k]
  BY <1>1 DEF JoinsLine, Live
<1>6. ToSet(queue') = ToSet(queue) \cup {j}
  BY <1>1, InQueue, Appended DEF JoinsLine, OInv, Orderly
<1>7. /\ SameWorld /\ ComicsKept /\ (\A k \in Jobs \ {j} : SameJob(k))
      /\ IsUpload(j)' = IsUpload(j) /\ Fresh(j)' = Fresh(j)
  <2>1. filed'[j] \in Nat /\ filed'[j] >= filed[j]
    BY <1>4 DEF TInv, TypeOK, DurableTypes
  <2> QED BY <1>4, <1>5, <1>6, <2>1, Touched
<1>8. Apart(c, j)
  BY <1>3, <1>4, <1>7 DEF Apart
<1>9. PICK q : q = th'[c]
  OBVIOUS
<1>10. HasComic(j)' = HasComic(j)
  BY <1>4 DEF HasComic, IsUpload, Copies
<1>11. filed[j] < starts /\ (IsUpload(j) => j \in staged \cup revived)
  BY <1>0, <1>1, <1>2 DEF Told, New, Needing
<1>12. Told(c, q)'
  BY <1>3, <1>9 DEF Told, Own, New, OwningPCs, EndingPCs, Past, Needing, WorkingPCs
<1>13. JobTold(j)'
  BY <1>4, <1>5, <1>7, <1>10, <1>11 DEF RInv, JobTold, Accounted, NextIs
<1> QED BY <1>0, <1>1, <1>3, <1>8, <1>9, <1>12, <1>13, OwnerMoves

LEMMA LibraryFailsKeeps ==
  ASSUME TInv, OInv, RInv, NEW c \in Clients, LibrarySaveFails(c)
  PROVE  RInv'
<1>0. c \in Threads /\ th[c].pc = "insert" /\ th[c].pc \in JobPCs /\ Brings(th[c])
  BY DEF LibrarySaveFails, At, JobPCs, Threads, Brings, BringingPCs
<1>1. PICK j \in Jobs : j = th[c].job
  BY <1>0, HasInHand
<1>2. Told(c, th[c]) /\ ThreadsOK(th)
  BY <1>0, <1>1, HasInHand
<1>3. Elsewhere(c) /\ th'[c] = Idle
  BY <1>0, <1>2, Going DEF LibrarySaveFails
<1>4. UNCHANGED <<row, staged, filed, boot, origin, starts, up, draining>>
  BY DEF LibrarySaveFails, durable, process
<1>5. ~Live(j)' /\ ~Active(j)' /\ \A k \in Jobs \ {j} : live'[k] = live[k]
  BY <1>1, Forgotten DEF LibrarySaveFails
<1>6. ToSet(queue') = ToSet(queue) \ {j}
  <2>1. CASE PlacesOf(j) = {} /\ queue' = queue
    BY <2>1, InQueue
  <2>2. CASE \E i \in PlacesOf(j) : queue' = RemoveAt(queue, i)
    <3>1. PICK i \in PlacesOf(j) : queue' = RemoveAt(queue, i)
      BY <2>2
    <3>2. i \in DOMAIN queue /\ queue[i] = j
      BY <3>1 DEF PlacesOf
    <3> QED BY <3>1, <3>2, InQueue, Spliced DEF OInv, Orderly
  <2> QED BY <1>1, <2>1, <2>2 DEF LibrarySaveFails
<1>7. /\ revived \subseteq revived' /\ (\A k \in Jobs \ {j} : k \in revived' <=> k \in revived)
      /\ (Unfinished(j) => j \in revived')
  BY <1>1 DEF LibrarySaveFails
<1>8. /\ SameWorld /\ ComicsKept /\ (\A k \in Jobs \ {j} : SameJob(k))
      /\ IsUpload(j)' = IsUpload(j) /\ Fresh(j)' = Fresh(j)
  <2>1. filed'[j] \in Nat /\ filed'[j] >= filed[j]
    BY <1>4 DEF TInv, TypeOK, DurableTypes
  <2> QED BY <1>4, <1>5, <1>6, <1>7, <2>1, Touched
<1>9. Apart(c, j)
  BY <1>3, <1>4, <1>7, <1>8 DEF Apart
<1>10. ~IsUpload(j)
  BY <1>0, <1>1, <1>2 DEF Told
<1>11. HasComic(j)' = HasComic(j) /\ Unfinished(j)' = Unfinished(j) /\ Coming' = Coming
  BY <1>4 DEF HasComic, IsUpload, Copies, Unfinished, Coming
<1>12. JobTold(j)'
  BY <1>4, <1>6, <1>7, <1>8, <1>10, <1>11 DEF RInv, JobTold, Accounted
<1>13. ASSUME NEW s \in Threads \ {c}, th[s].pc \in JobPCs, th[s].job = j
       PROVE  Told(s, th[s])'
  <2>1. PICK r : r = th[s]
    OBVIOUS
  <2>2. th'[s] = r
    BY <1>3, <1>13, <2>1 DEF Elsewhere, JobPCs
  <2>3. Told(s, r) /\ r.job = j
    BY <1>13, <2>1 DEF RInv
  <2>4. r.pc # "begin" /\ ~New(r)
    BY <1>0, <1>1, <1>13, <2>1, Classes DEF OInv, OneBringer, New
  <2>5. Told(s, r)'
    BY <1>4, <1>5, <1>7, <1>8, <1>10, <1>11, <2>3, <2>4 DEF Told
  <2> QED BY <2>2, <2>5
<1> QED BY <1>0, <1>3, <1>9, <1>12, <1>13, Idles, BringerMoves

\* Steps that move no job: rows cleared away or renumbered, the queue in a new order.
LEMMA Shuffles ==
  ASSUME TInv, OInv, RInv, UNCHANGED <<staged, filed, boot, origin, revived, starts, up>>, draining => draining',
         \A k \in Jobs : row'[k].st = row[k].st \/ (Finished(k) /\ row'[k].st = "none"),
         \A k \in Jobs : live'[k].st = live[k].st, ToSet(queue') = ToSet(queue),
         \A s \in Threads : th'[s] = th[s] \/ th'[s].pc \notin JobPCs
  PROVE  RInv'
<1>1. \A k \in Jobs : filed[k] \in Nat
  BY DEF TInv, TypeOK, DurableTypes
<1>2. ComicsKept
  BY <1>1, ComicsStay
<1>3. \A k \in Jobs : (k \in Coming' <=> k \in Coming) /\ NextIs(k)' = NextIs(k)
  BY DEF Coming, Unfinished, Finished, NextIs
<1>4. SameWorld
  BY DEF SameWorld
<1>5. \A k \in Jobs : SameJob(k)
  BY <1>3 DEF SameJob
<1> QED BY <1>2, <1>4, <1>5, Bystands

LEMMA ControlsKeep ==
  ASSUME TInv, OInv, RInv, NEW c \in Clients,
         \/ StorePaused(c) \/ StoreOrder(c)
         \/ \E j \in Jobs : CancelRunning(c, j)
         \/ \E flag \in BOOLEAN : SetPaused(c, flag)
         \/ \E ids : Reorder(c, ids)
         \/ \E scope : ClearFinished(c, scope)
  PROVE  RInv'
<1>0. c \in Threads /\ ThreadsOK(th) /\ live \in [Jobs -> LiveType] /\ row \in [Jobs -> RowType]
  BY InHand DEF Threads, ManagerTypes, DurableTypes
<1>1. CASE StorePaused(c) \/ StoreOrder(c)
  <2>1. Elsewhere(c) /\ th'[c] = Idle
    BY <1>0, <1>1, Going DEF StorePaused, StoreOrder
  <2>2. \A s \in Threads : th'[s] = th[s] \/ th'[s].pc \notin JobPCs
    BY <2>1, Classes DEF Elsewhere, JobPCs
  <2>3. UNCHANGED <<staged, filed, boot, origin, revived, starts, up, live, queue, draining>>
    BY <1>1 DEF StorePaused, StoreOrder, manager, process, history
  <2>4. \A k \in Jobs : row'[k].st = row[k].st
    BY <1>0, <1>1 DEF StorePaused, StoreOrder, RowType
  <2> QED BY <2>2, <2>3, <2>4, Shuffles
<1>2. CASE \E j \in Jobs : CancelRunning(c, j)
  <2>1. UNCHANGED <<row, staged, filed, boot, origin, revived, starts, up, queue, draining, th>>
    BY <1>2 DEF CancelRunning, durable, process
  <2>2. \A k \in Jobs : live'[k].st = live[k].st
    BY <1>0, <1>2 DEF CancelRunning, LiveType
  <2> QED BY <2>1, <2>2, Shuffles
<1>3. CASE \E flag \in BOOLEAN : SetPaused(c, flag)
  <2>1. PICK flag \in BOOLEAN : SetPaused(c, flag)
    BY <1>3
  <2> DEFINE r == [th[c] EXCEPT !.pc = IF flag THEN "storePause" ELSE "storeResume"]
  <2>2. th[c] \in ThreadType /\ th[c].pc = "idle"
    BY <1>0, <2>1, InHand DEF ThreadOK, SetPaused, At
  <2>3. r.pc \in {"storePause", "storeResume"}
    BY <2>2 DEF ThreadType
  <2>4. th' = WithWoken([th EXCEPT ![c] = r], Waiting)
    BY <2>1 DEF SetPaused
  <2> HIDE DEF r
  <2>5. Waiting \in SUBSET Waiting /\ c \notin Waiting
    BY <2>2 DEF Waiting, At
  <2>6. Elsewhere(c) /\ th'[c] = r
    BY <1>0, <2>4, <2>5, Woken
  <2>7. \A s \in Threads : th'[s] = th[s] \/ th'[s].pc \notin JobPCs
    BY <2>3, <2>6, Classes DEF Elsewhere, JobPCs
  <2>8. UNCHANGED <<row, staged, filed, boot, origin, revived, starts, up, live, queue, draining>>
    BY <2>1 DEF SetPaused, durable, process, history
  <2> QED BY <2>7, <2>8, Shuffles
<1>4. CASE \E ids : Reorder(c, ids)
  <2>1. PICK ids : Reorder(c, ids)
    BY <1>4
  <2>2. /\ ToSet(queue') = ToSet(queue)
        /\ \A s \in Threads : th'[s] = th[s] \/ (th'[s].pc = "storeOrder" /\ th[s].pc = "idle")
    BY <2>1, Reordered
  <2>3. UNCHANGED <<row, staged, filed, boot, origin, revived, starts, up, draining>>
    BY <2>1 DEF Reorder, durable, process, history
  <2>4. \A k \in Jobs : live'[k].st = live[k].st
    BY <1>0, <2>1 DEF Reorder, LiveType
  <2>5. \A s \in Threads : th'[s] = th[s] \/ th'[s].pc \notin JobPCs
    BY <2>2 DEF JobPCs
  <2> QED BY <2>2, <2>3, <2>4, <2>5, Shuffles
<1>5. CASE \E scope : ClearFinished(c, scope)
  <2>1. UNCHANGED <<staged, filed, boot, origin, revived, starts, up, live, queue, draining, th>>
    BY <1>5 DEF ClearFinished, manager, process, history
  <2>2. \A k \in Jobs : row'[k] = row[k] \/ (Finished(k) /\ row'[k] = NoRow)
    BY <1>5 DEF ClearFinished, Clearable
  <2>3. \A k \in Jobs : row'[k].st = row[k].st \/ (Finished(k) /\ row'[k].st = "none")
    BY <2>2 DEF NoRow
  <2> QED BY <2>1, <2>3, Shuffles
<1> QED BY <1>1, <1>2, <1>3, <1>4, <1>5

-----------------------------------------------------------------------------
(* New jobs.                                                               *)

\* A goroutine takes on a job nobody has heard of.
LEMMA Newcomer ==
  ASSUME TInv, OInv, RInv, NEW c \in Threads, NEW j \in Jobs, Fresh(j), Elsewhere(c),
         NEW q, q = th'[c], q.job = j, q.pc \in {"begin", "insert"}, Told(c, q)', JobTold(j)',
         SameWorld, ComicsKept, \A k \in Jobs \ {j} : SameJob(k)
  PROVE  RInv'
<1>0. \A s \in Threads : th[s].job # j
  BY NewToAll
<1>1. ASSUME NEW s \in Threads PROVE Told(s, th[s])'
  <2>1. CASE s # c /\ th'[s] = th[s]
    <3>1. PICK r : r = th[s]
      OBVIOUS
    <3>2. Told(s, r) /\ (r.pc \in JobPCs => r.job \in Jobs \ {j} /\ ~Fresh(r.job))
      BY <1>0, <3>1, Asked DEF RInv
    <3>3. CASE r.pc \in JobPCs
      BY <2>1, <3>1, <3>2, <3>3, ToldStays DEF ComicsKept
    <3>4. CASE r.pc \notin JobPCs
      BY <2>1, <3>1, <3>4, Marks DEF Told, JobPCs, Own, New, Past, Needing, WorkingPCs, EndingPCs
    <3> QED BY <3>3, <3>4
  <2>2. CASE s # c /\ th'[s] = Idle
    BY <2>2, Idles
  <2> QED BY <2>1, <2>2 DEF Elsewhere
<1>2. ASSUME NEW k \in Jobs PROVE JobTold(k)'
  <2>1. CASE k # j
    <3>1. row[k].st = "done" => ~Fresh(k)
      BY Asked
    <3> QED BY <2>1, <3>1, JobStays DEF RInv, ComicsKept
  <2> QED BY <2>1
<1>3. Aside'
  <2> SUFFICES ASSUME NEW s \in Threads, NEW u \in Threads, th'[u].pc = "requeue", th'[s].job = th'[u].job
               PROVE  ~Own(th'[s]) /\ (th'[s].pc = "sweep" /\ origin'[th'[s].job] \in Users => th'[s].job \in revived')
    BY DEF Aside, IsUpload
  <2>0. Idle.pc # "requeue" /\ ~Own(Idle) /\ Idle.pc # "sweep"
    BY Idles, Classes
  <2>1. u # c /\ th'[u] = th[u] /\ th[u].job \in Jobs \ {j}
    BY <1>0, <2>0, Asked DEF Elsewhere, JobPCs
  <2>2. s # c
    BY <2>1
  <2>3. CASE th'[s] = Idle
    BY <2>0, <2>3
  <2>4. CASE th'[s] = th[s]
    <3>1. ~Own(th[s]) /\ (th[s].pc = "sweep" /\ IsUpload(th[s].job) => th[s].job \in revived)
      BY <2>1, <2>4 DEF RInv, Aside
    <3>2. origin'[th[u].job] = origin[th[u].job] /\ (th[u].job \in revived => th[u].job \in revived')
      BY <2>1 DEF SameJob
    <3> QED BY <2>1, <2>4, <3>1, <3>2 DEF IsUpload
  <2> QED BY <2>2, <2>3, <2>4 DEF Elsewhere
<1>4. up' => starts' > 0 /\ boot'.pc # "off"
  BY DEF RInv, SameWorld
<1> QED BY <1>1, <1>2, <1>3, <1>4 DEF RInv

\* What a new job's step leaves alone.
LEMMA OthersAlone ==
  ASSUME TInv, OInv, RInv, NEW j \in Jobs, Fresh(j),
         UNCHANGED <<row, staged, filed, boot, starts, up, draining, revived>>,
         \A k \in Jobs \ {j} : live'[k] = live[k] /\ origin'[k] = origin[k]
                               /\ (k \in ToSet(queue') <=> k \in ToSet(queue))
  PROVE  /\ SameWorld /\ ComicsKept /\ (\A k \in Jobs \ {j} : SameJob(k)) /\ Coming' = Coming
         /\ filed'[j] = 0 /\ row'[j].st = "none" /\ j \notin Coming
<1>1. \A k \in Jobs : filed[k] \in Nat
  BY DEF TInv, TypeOK, DurableTypes
<1>2. ComicsKept
  BY <1>1, ComicsStay
<1>3. Coming' = Coming /\ \A k : NextIs(k)' = NextIs(k)
  BY DEF Coming, Unfinished, NextIs
<1>4. filed'[j] = 0 /\ row'[j].st = "none" /\ j \notin Coming
  BY NewToAll DEF RInv, JobTold
<1> QED BY <1>2, <1>3, <1>4 DEF SameWorld, SameJob

LEMMA BeginKeeps ==
  ASSUME TInv, OInv, RInv, NEW c \in Clients, NEW u \in Users, NEW j \in Jobs, Begin(c, u, j)
  PROVE  RInv'
<1>0. c \in Threads /\ TakesOn(c, j, "begin")
  BY InHand, Starting DEF Begin, Threads
<1>1. Elsewhere(c) /\ th'[c].job = j /\ th'[c].pc = "begin"
  BY <1>0 DEF TakesOn
<1>2. /\ UNCHANGED <<row, staged, filed, queue, boot, starts, up, draining, revived>>
      /\ Fresh(j) /\ up
  BY DEF Begin, durable, process
<1>3. Live(j)' /\ \A k \in Jobs \ {j} : live'[k] = live[k] /\ origin'[k] = origin[k]
  BY DEF Begin, Live, AtStage, TInv, TypeOK, ManagerTypes, HistoryTypes, LiveType
<1>4. /\ SameWorld /\ ComicsKept /\ (\A k \in Jobs \ {j} : SameJob(k)) /\ Coming' = Coming
      /\ filed'[j] = 0 /\ row'[j].st = "none" /\ j \notin Coming
  BY <1>2, <1>3, OthersAlone
<1>5. PICK q : q = th'[c]
  OBVIOUS
<1>6. starts' > 0
  BY <1>2 DEF RInv
<1>7. Told(c, q)'
  BY <1>1, <1>3, <1>4, <1>5, <1>6
     DEF Told, Own, New, OwningPCs, EndingPCs, Past, Needing, WorkingPCs
<1>8. JobTold(j)'
  <2>1. j \notin ToSet(queue)
    BY <1>2, NewToAll
  <2>2. starts' \in Nat
    BY <1>2 DEF TInv, TypeOK, HistoryTypes
  <2> QED BY <1>2, <1>3, <1>4, <1>6, <2>1, <2>2 DEF JobTold, Accounted, Unfinished
<1> QED BY <1>0, <1>1, <1>2, <1>4, <1>5, <1>7, <1>8, Newcomer

LEMMA LibraryKeeps ==
  ASSUME TInv, OInv, RInv, NEW c \in Clients, NEW f \in Files, NEW j \in Jobs, EnqueueLibraryConvert(c, f, j)
  PROVE  RInv'
<1>0. c \in Threads /\ JoinsLine(c, j) /\ j \notin ToSet(queue) /\ th'[c].pc = "insert"
  BY LibraryQueued DEF Threads
<1>1. Elsewhere(c) /\ th'[c].job = j
  BY <1>0 DEF JoinsLine
<1>2. /\ UNCHANGED <<row, staged, filed, boot, starts, up, draining, revived>>
      /\ Fresh(j) /\ up /\ origin' = [origin EXCEPT ![j] = f]
  BY DEF EnqueueLibraryConvert, durable, process
<1>3. /\ Live(j)' /\ \A k \in Jobs \ {j} : live'[k] = live[k] /\ origin'[k] = origin[k]
      /\ ~IsUpload(j)'
  <2>1. origin'[j] = f /\ \A k \in Jobs \ {j} : origin'[k] = origin[k]
    BY <1>2 DEF TInv, TypeOK, HistoryTypes
  <2>2. f \notin Users
    BY ImportQueueAssumption DEF ImportQueueAssumption
  <2> QED BY <1>0, <2>1, <2>2 DEF JoinsLine, Live, IsUpload
<1>9. ToSet(queue') = ToSet(queue) \cup {j}
  BY <1>0, InQueue, Appended DEF JoinsLine, OInv, Orderly
<1>4. /\ SameWorld /\ ComicsKept /\ (\A k \in Jobs \ {j} : SameJob(k)) /\ Coming' = Coming
      /\ filed'[j] = 0 /\ row'[j].st = "none" /\ j \notin Coming
  BY <1>2, <1>3, <1>9, OthersAlone
<1>5. PICK q : q = th'[c]
  OBVIOUS
<1>6. starts' > 0
  BY <1>2 DEF RInv
<1>7. Told(c, q)'
  BY <1>0, <1>1, <1>3, <1>4, <1>5, <1>6
     DEF Told, Own, New, OwningPCs, EndingPCs, Past, Needing, WorkingPCs
<1>8. JobTold(j)'
  <2>2. starts' \in Nat
    BY <1>2 DEF TInv, TypeOK, HistoryTypes
  <2> QED BY <1>2, <1>3, <1>4, <1>6, <2>2 DEF JobTold, Accounted, Unfinished
<1> QED BY <1>0, <1>1, <1>2, <1>4, <1>5, <1>7, <1>8, Newcomer

LEMMA ClientKeeps ==
  ASSUME TInv, OInv, RInv, NEW c \in Clients, ClientStep(c) \/ ClientCall(c)
  PROVE  RInv'
<1>1. c \in Threads
  BY DEF Threads
<1>2. ASSUME FinishStep(c) PROVE RInv'
  BY <1>1, <1>2, CleanKeeps, MarkKeeps, PersistKeeps, DropKeeps, SweepKeeps DEF FinishStep
<1>3. ASSUME ClientStep(c) PROVE RInv'
  BY <1>2, <1>3, BeginSavesKeeps, BeginFailsKeeps, StageKeeps, InputKeeps, BringerSaves, LibraryFailsKeeps,
     ControlsKeep DEF ClientStep
<1>4. ASSUME ClientCall(c) PROVE RInv'
  BY <1>4, BeginKeeps, EnqueueKeeps, UploadFailsKeeps, LibraryKeeps, CancelKeeps, ControlsKeep
     DEF ClientCall
<1> QED BY <1>3, <1>4

-----------------------------------------------------------------------------
(* Recovery and the process.                                               *)

\* Recovery goes on: no job changes, and the one it passes needs nothing more.
LEMMA GoesOn ==
  ASSUME TInv, OInv, RInv, boot.pc \in Early, boot'.pc \in Early \cup {"done"},
         UNCHANGED <<th, row, staged, filed, live, queue, origin, revived, starts, up, draining>>,
         Coming' \subseteq Coming, \A k \in Jobs : k \in Coming => k \in Coming' \/ Live(k),
         \A k \in Jobs : NextIs(k)' /\ IsUpload(k) => k \in staged
  PROVE  RInv'
<1>1. boot.pc \notin {"off", "done"} /\ boot'.pc # "off"
  BY DEF Early
<1>2. /\ \A k : Live(k)' = Live(k) /\ Unfinished(k)' = Unfinished(k) /\ Active(k)' = Active(k)
                /\ IsUpload(k)' = IsUpload(k) /\ HasComic(k)' = HasComic(k) /\ Fresh(k)' = Fresh(k)
  BY DEF Live, Unfinished, Active, IsUpload, HasComic, Fresh, Copies
<1>3. ASSUME NEW s \in Threads PROVE Told(s, th[s])'
  <2>1. PICK r : r = th[s]
    OBVIOUS
  <2>2. Told(s, r)
    BY <2>1 DEF RInv
  <2>3. Told(s, r)'
    BY <1>1, <1>2, <2>2 DEF Told
  <2> QED BY <2>1, <2>3
<1>4. ASSUME NEW k \in Jobs PROVE JobTold(k)'
  <2>1. JobTold(k)
    BY DEF RInv
  <2>2. Accounted(k)'
    BY <1>1, <1>2, <2>1 DEF JobTold, Accounted
  <2> QED BY <1>2, <2>1, <2>2 DEF JobTold
<1>5. Aside'
  BY <1>2 DEF RInv, Aside
<1>6. up' => starts' > 0 /\ boot'.pc # "off"
  BY <1>1 DEF RInv
<1> QED BY <1>3, <1>4, <1>5, <1>6 DEF RInv

LEMMA HeadOnly ==
  ASSUME TInv, boot.pc \in {"take", "save", "fail"}, boot' = NextRecovered
  PROVE  /\ boot'.pc = "each" /\ Coming' \subseteq Coming
         /\ \A k : k \in Coming => k \in Coming' \/ k = Head(boot.todo).job
<1>0. boot \in BootType
  BY DEF TInv, TypeOK, ProcessTypes
<1>1. boot.todo \in Seq([job : Jobs, seq : Nat, input : BOOLEAN]) /\ boot.todo # <<>>
  BY FirstComes
<1>2. boot'.pc = "each" /\ boot'.todo = Tail(boot.todo)
  BY <1>0 DEF NextRecovered, BootType
<1>3. \A i \in DOMAIN boot'.todo : i + 1 \in DOMAIN boot.todo /\ boot'.todo[i] = boot.todo[i + 1]
  BY <1>1, <1>2, HeadTailProperties, LenProperties, EmptySeq
<1>4. \A i \in DOMAIN boot.todo : boot.todo[i] = Head(boot.todo)
        \/ (i - 1 \in DOMAIN boot'.todo /\ boot'.todo[i - 1] = boot.todo[i])
  BY <1>1, <1>2, HeadTailProperties, LenProperties, EmptySeq
<1> QED BY <1>2, <1>3, <1>4 DEF Coming, Early

\* Recovery touches the job it has come to.
LEMMA RecoveryTouches ==
  ASSUME TInv, OInv, RInv, NEW j \in Jobs, boot.pc \in Early, th' = th, SameWorld, ComicsKept,
         \A k \in Jobs \ {j} : SameJob(k), JobTold(j)',
         \A s \in Threads : th[s].pc \in JobPCs /\ th[s].job = j => Told(s, th[s])'
  PROVE  RInv'
<1>1. ASSUME NEW s \in Threads PROVE Told(s, th[s])'
  <2>1. PICK r : r = th[s]
    OBVIOUS
  <2>2. Told(s, r)
    BY <2>1 DEF RInv
  <2>3. CASE r.pc \in JobPCs /\ r.job # j
    <3>1. r.job \in Jobs \ {j} /\ ~Fresh(r.job)
      BY <2>1, <2>3, Asked
    <3> QED BY <2>1, <2>2, <3>1, ToldStays DEF ComicsKept
  <2>4. CASE r.pc \notin JobPCs
    BY <2>1, <2>4, Marks DEF Told, JobPCs, Own, New, Past, Needing, WorkingPCs, EndingPCs
  <2> QED BY <2>1, <2>3, <2>4
<1>2. ASSUME NEW k \in Jobs PROVE JobTold(k)'
  <2>1. CASE k # j
    <3>1. row[k].st = "done" => ~Fresh(k)
      BY Asked
    <3> QED BY <2>1, <3>1, JobStays DEF RInv, ComicsKept
  <2> QED BY <2>1
<1>3. Aside'
  <2>1. \A s \in Threads : th'[s].pc # "requeue"
    BY DEF RInv, Told, Early
  <2> QED BY <2>1 DEF Aside
<1>4. up' => starts' > 0 /\ boot'.pc # "off"
  BY DEF RInv, SameWorld
<1> QED BY <1>1, <1>2, <1>3, <1>4 DEF RInv

LEMMA RecoverQueuesKeeps ==
  ASSUME TInv, OInv, RInv, RecoverQueues
  PROVE  RInv'
<1>1. PICK j \in Jobs : j = Head(boot.todo).job
  BY RecoveryQueued
<1>2. /\ th' = th /\ queue' = Append(queue, j) /\ j \notin ToSet(queue)
      /\ \A s \in Threads : Own(th[s]) => th[s].job # j
  BY <1>1, RecoveryQueued
<1>3. /\ UNCHANGED <<row, staged, filed, origin, starts, up, draining>>
      /\ boot.pc = "take" /\ ~Live(j) /\ boot' = [boot EXCEPT !.pc = "save", !.seq = seq]
      /\ live' = [live EXCEPT ![j] = [st |-> "queued", seq |-> seq, input |-> TRUE, ctx |-> "nil"]]
      /\ revived' = IF Unfinished(j) THEN revived ELSE revived \cup {j}
  BY <1>1 DEF RecoverQueues, durable, Taken
<1>4. boot'.pc = "save" /\ boot'.todo = boot.todo
  BY <1>3 DEF TInv, TypeOK, ProcessTypes, BootType
<1>5. Live(j)' /\ \A k \in Jobs \ {j} : live'[k] = live[k]
  BY <1>3 DEF Live, TInv, TypeOK, ManagerTypes
<1>6. ToSet(queue') = ToSet(queue) \cup {j}
  BY <1>2, InQueue, Appended DEF OInv, Orderly
<1>7. Coming' = Coming /\ (\A k : ~NextIs(k)') /\ boot.pc \in Early
  BY <1>3, <1>4 DEF Coming, Early, NextIs
<1>8. SameWorld /\ ComicsKept /\ (\A k \in Jobs \ {j} : SameJob(k))
  <2>1. \A k \in Jobs : filed[k] \in Nat
    BY DEF TInv, TypeOK, DurableTypes
  <2>2. ComicsKept
    BY <1>3, <2>1, ComicsStay
  <2>3. SameWorld
    BY <1>3, <1>4 DEF SameWorld, Early
  <2>4. \A k \in Jobs \ {j} : SameJob(k)
    BY <1>3, <1>5, <1>6, <1>7 DEF SameJob
  <2> QED BY <2>2, <2>3, <2>4
<1>9. /\ IsUpload(j)' = IsUpload(j) /\ HasComic(j)' = HasComic(j) /\ Unfinished(j)' = Unfinished(j)
      /\ Fresh(j)' = Fresh(j)
  BY <1>3 DEF IsUpload, HasComic, Copies, Unfinished, Fresh
<1>10. revived \subseteq revived' /\ (~Unfinished(j) => j \in revived')
  BY <1>3
<1>11. JobTold(j)'
  <2>1. JobTold(j) /\ NextIs(j)
    BY <1>1, <1>3 DEF RInv, NextIs
  <2> QED BY <1>3, <1>5, <1>7, <1>9, <1>10, <2>1 DEF JobTold, Accounted
<1>12. ASSUME NEW s \in Threads, th[s].pc \in JobPCs, th[s].job = j PROVE Told(s, th[s])'
  <2>1. PICK r : r = th[s]
    OBVIOUS
  <2>2. Told(s, r) /\ r.job = j /\ ~Own(r) /\ ~New(r)
    BY <1>2, <1>12, <2>1, Classes DEF RInv
  <2>3. r.pc \notin {"begin", "requeue", "persist", "drop"} \cup EndingPCs \cup WorkingPCs
    BY <1>7, <2>2 DEF Told, Own, OwningPCs, EndingPCs, WorkingPCs, Early
  <2>4. r.pc # "upload" /\ r.pc \notin Past
    BY <2>2, <2>3 DEF Own, OwningPCs, Past, WorkingPCs
  <2>5. Told(s, r)'
    BY <1>3, <1>9, <1>10, <2>2, <2>3, <2>4 DEF Told, Needing
  <2> QED BY <1>2, <2>1, <2>5
<1> QED BY <1>2, <1>7, <1>8, <1>11, <1>12, RecoveryTouches

LEMMA RecoverSavesKeeps ==
  ASSUME TInv, OInv, RInv, RecoverSaves
  PROVE  RInv'
<1>1. PICK j \in Jobs : j = Head(boot.todo).job /\ j \in Coming
  BY FirstComes DEF RecoverSaves
<1>2. /\ UNCHANGED <<th, staged, filed, live, queue, origin, starts, up, draining>>
      /\ boot.pc = "save" /\ boot' = NextRecovered /\ SaveUnfinished(j, "queued", boot.seq)
  BY <1>1 DEF RecoverSaves, manager
<1>3. /\ row'[j].st = "queued" /\ \A k \in Jobs \ {j} : row'[k] = row[k]
      /\ revived \subseteq revived' /\ \A k \in Jobs \ {j} : k \in revived' <=> k \in revived
      /\ Live(j)' = Live(j) /\ Active(j)' = Active(j) /\ HasComic(j)' = HasComic(j)
      /\ ~Live(j) => j \in revived'
      /\ (\E t \in Threads : th[t].job = j /\ th[t].pc = "drop") => j \in revived'
  BY <1>1, <1>2, Lands
<1>4. /\ boot'.pc = "each" /\ Coming' \subseteq Coming
      /\ \A k : k \in Coming => k \in Coming' \/ k = j
  BY <1>1, <1>2, HeadOnly
<1>5. boot.pc \in Early /\ \A k : ~NextIs(k)'
  BY <1>2, <1>4 DEF Early, NextIs
<1>6. SameWorld /\ ComicsKept /\ (\A k \in Jobs \ {j} : SameJob(k))
  <2>1. \A k \in Jobs : filed[k] \in Nat
    BY DEF TInv, TypeOK, DurableTypes
  <2>2. ComicsKept
    BY <1>2, <2>1, ComicsStay
  <2>3. SameWorld
    BY <1>2, <1>4 DEF SameWorld, Early
  <2>4. \A k \in Jobs \ {j} : SameJob(k)
    BY <1>2, <1>3, <1>4, <1>5 DEF SameJob
  <2> QED BY <2>2, <2>3, <2>4
<1>7. JobTold(j)'
  <2>1. IsUpload(j)' = IsUpload(j) /\ Fresh(j)' = Fresh(j)
    BY <1>2 DEF IsUpload, Fresh
  <2> QED BY <1>2, <1>3, <1>5, <2>1 DEF RInv, JobTold, Accounted
<1>8. ASSUME NEW s \in Threads, th[s].pc \in JobPCs, th[s].job = j PROVE Told(s, th[s])'
  <2>1. PICK r : r = th[s]
    OBVIOUS
  <2>2. r.pc # "begin"
    BY <1>1, <1>8, <2>1 DEF RInv, Told
  <2>3. Told(s, r)'
    BY <1>2, <1>3, <1>6, <1>8, <2>1, <2>2, SavedUnder
  <2> QED BY <1>2, <2>1, <2>3
<1> QED BY <1>2, <1>5, <1>6, <1>7, <1>8, RecoveryTouches

LEMMA RecoverFailsKeeps ==
  ASSUME TInv, OInv, RInv, RecoverFails
  PROVE  RInv'
<1>1. PICK j \in Jobs : j = Head(boot.todo).job /\ j \in Coming
  BY FirstComes DEF RecoverFails
<1>2. /\ UNCHANGED <<th, staged, filed, live, queue, origin, starts, up, draining, revived>>
      /\ boot.pc = "fail" /\ boot' = NextRecovered
      /\ row' = Upserted(j, "failed", Head(boot.todo).seq)
  BY <1>1 DEF RecoverFails, manager, history
<1>3. row'[j].st = "failed" /\ \A k \in Jobs \ {j} : row'[k] = row[k]
  BY <1>2, Saved
<1>4. /\ boot'.pc = "each" /\ Coming' \subseteq Coming
      /\ \A k : k \in Coming => k \in Coming' \/ k = j
  BY <1>1, <1>2, HeadOnly
<1>5. boot.pc \in Early /\ \A k : ~NextIs(k)'
  BY <1>2, <1>4 DEF Early, NextIs
<1>6. SameWorld /\ ComicsKept /\ (\A k \in Jobs \ {j} : SameJob(k))
  <2>1. \A k \in Jobs : filed[k] \in Nat
    BY DEF TInv, TypeOK, DurableTypes
  <2>2. ComicsKept
    BY <1>2, <2>1, ComicsStay
  <2>3. SameWorld
    BY <1>2, <1>4 DEF SameWorld, Early
  <2>4. \A k \in Jobs \ {j} : SameJob(k)
    BY <1>2, <1>3, <1>4, <1>5 DEF SameJob
  <2> QED BY <2>2, <2>3, <2>4
<1>7. /\ IsUpload(j)' = IsUpload(j) /\ Fresh(j)' = Fresh(j) /\ ~Unfinished(j)' /\ Live(j)' = Live(j)
      /\ Active(j)' = Active(j) /\ HasComic(j)' = HasComic(j)
  BY <1>2, <1>3 DEF IsUpload, Fresh, Unfinished, Terminal, Live, Active, HasComic, Copies
<1>8. JobTold(j)'
  BY <1>2, <1>3, <1>5, <1>7 DEF RInv, JobTold, Accounted
<1>9. ASSUME NEW s \in Threads, th[s].pc \in JobPCs, th[s].job = j PROVE Told(s, th[s])'
  <2>1. PICK r : r = th[s]
    OBVIOUS
  <2>2. Told(s, r) /\ r.job = j /\ r.pc # "begin"
    BY <1>1, <1>9, <2>1 DEF RInv, Told
  <2>3. Told(s, r)'
    BY <1>2, <1>3, <1>6, <1>7, <2>2 DEF Told, SameWorld
  <2> QED BY <1>2, <2>1, <2>3
<1> QED BY <1>2, <1>5, <1>6, <1>8, <1>9, RecoveryTouches

LEMMA RecoveryKeeps ==
  ASSUME TInv, OInv, RInv, RecoverStep
  PROVE  RInv'
<1>0. boot \in BootType
  BY DEF TInv, TypeOK, ProcessTypes
<1>1. CASE RecoverLists
  <2>1. boot.pc = "list" /\ UNCHANGED <<th, row, staged, filed, live, queue, origin, revived, starts, up, draining>>
    BY <1>1 DEF RecoverLists, durable, manager, history
  <2>2. PICK s \in SetToSeqs({j \in Jobs : Unfinished(j)}) :
          /\ Recoverable(s)
          /\ boot' = [pc |-> "each", seq |-> 0, todo |->
               [i \in DOMAIN s |-> [job |-> s[i], seq |-> row[s[i]].seq, input |-> row[s[i]].input]]]
    BY <1>1 DEF RecoverLists
  <2>3. {s[i] : i \in DOMAIN s} = {j \in Jobs : Unfinished(j)}
    BY <2>2 DEF Recoverable, ToSet
  <2>4. /\ boot'.pc = "each" /\ DOMAIN boot'.todo = DOMAIN s
        /\ \A i \in DOMAIN s : boot'.todo[i].job = s[i]
    BY <2>2
  <2>5. Coming' = Coming
    <3>1. Coming' = {boot'.todo[i].job : i \in DOMAIN boot'.todo}
      BY <2>4 DEF Coming, Early
    <3>2. Coming = {j \in Jobs : Unfinished(j)}
      BY <2>1 DEF Coming
    <3> QED BY <2>3, <2>4, <3>1, <3>2
  <2> QED BY <2>1, <2>4, <2>5, GoesOn DEF Early, NextIs
<1>2. CASE RecoverLooks
  <2>1. boot.pc = "each" /\ UNCHANGED <<th, row, staged, filed, live, queue, origin, revived, starts, up, draining>>
    BY <1>2 DEF RecoverLooks, durable, manager, history
  <2>2. /\ boot'.pc \in {"take", "fail"} /\ boot'.todo = boot.todo
        /\ boot'.pc = "take" => MayExist(Head(boot.todo))
    BY <1>0, <1>2 DEF RecoverLooks, RecoverGoto, BootType
  <2>3. Coming' = Coming /\ boot.pc \in Early /\ boot'.pc \in Early
    BY <2>1, <2>2 DEF Coming, Early
  <2>4. \A k \in Jobs : NextIs(k)' /\ IsUpload(k) => k \in staged
    BY <2>2 DEF NextIs, MayExist
  <2> QED BY <2>1, <2>3, <2>4, GoesOn
<1>3. CASE RecoverSkips
  <2>1. /\ boot.pc = "take" /\ boot' = NextRecovered /\ Live(Head(boot.todo).job)
        /\ UNCHANGED <<th, row, staged, filed, live, queue, origin, revived, starts, up, draining>>
    BY <1>3 DEF RecoverSkips, Taken, durable, manager, history
  <2>2. /\ boot'.pc = "each" /\ Coming' \subseteq Coming
        /\ \A k : k \in Coming => k \in Coming' \/ k = Head(boot.todo).job
    BY <2>1, HeadOnly
  <2> QED BY <2>1, <2>2, GoesOn DEF Early, NextIs
<1>4. CASE RecoverEnds
  <2>1. /\ boot.pc = "each" /\ boot.todo = <<>> /\ boot'.pc = "done"
        /\ UNCHANGED <<th, row, staged, filed, live, queue, origin, revived, starts, up, draining>>
    BY <1>4 DEF RecoverEnds, durable, manager, history, BootOff
  <2>2. Coming = {} /\ Coming' = {}
    BY <2>1 DEF Coming, Early
  <2> QED BY <2>1, <2>2, GoesOn DEF Early, NextIs
<1> QED BY <1>1, <1>2, <1>3, <1>4, RecoverQueuesKeeps, RecoverSavesKeeps, RecoverFailsKeeps DEF RecoverStep

\* Between two processes nothing runs: what a restart may rely on is in the rows.
LEMMA StartKeeps ==
  ASSUME TInv, CInv, OInv, RInv, Start
  PROVE  RInv'
<1>1. /\ UNCHANGED <<row, staged, filed, live, queue, th, origin, revived, draining>>
      /\ up' = TRUE /\ starts' = starts + 1 /\ boot' = [BootOff EXCEPT !.pc = "list"]
      /\ boot = BootOff /\ (\A t \in Threads : th[t] = Idle) /\ (\A k \in Jobs : live[k] = NotLive)
  BY DEF CInv, DownIsIdle, Start, durable
<1>2. boot.pc = "off" /\ boot'.pc = "list" /\ Coming = {} /\ starts \in Nat
  BY <1>1 DEF BootOff, Coming, Early, TInv, TypeOK, HistoryTypes
<1>3. Coming' = {k \in Jobs : Unfinished(k)}
  BY <1>1, <1>2 DEF Coming, Unfinished
<1>4. \A t \in Threads : Told(t, th[t])'
  BY <1>1, Idles
<1>5. ASSUME NEW k \in Jobs PROVE JobTold(k)'
  <2>1. JobTold(k) /\ ~Live(k) /\ k \notin ToSet(queue) /\ filed[k] \in Nat
    BY <1>1, Asked DEF RInv, Live, NotLive, TInv, TypeOK, DurableTypes
  <2>2. /\ Live(k)' = Live(k) /\ Unfinished(k)' = Unfinished(k) /\ HasComic(k)' = HasComic(k)
        /\ IsUpload(k)' = IsUpload(k) /\ Fresh(k)' = Fresh(k)
    BY <1>1 DEF Live, Unfinished, HasComic, IsUpload, Fresh, Copies
  <2>3. Accounted(k)'
    <3> SUFFICES ASSUME Unfinished(k), ~Live(k), k \notin revived PROVE k \in Coming' /\ starts' # 1
      BY <1>1, <2>2 DEF Accounted
    <3>1. starts # 0
      BY <1>2, <2>1 DEF JobTold, Accounted
    <3> QED BY <1>1, <1>2, <1>3, <3>1
  <2> QED BY <1>1, <1>2, <2>1, <2>2, <2>3 DEF JobTold, NextIs
<1>6. Aside'
  BY <1>1, Idles DEF Aside
<1>7. up' => starts' > 0 /\ boot'.pc # "off"
  BY <1>1, <1>2
<1> QED BY <1>4, <1>5, <1>6, <1>7 DEF RInv

LEMMA ExitKeeps ==
  ASSUME TInv, RInv, Exit
  PROVE  RInv'
<1>1. /\ UNCHANGED <<row, staged, filed, origin, revived, starts>> /\ up /\ up' = FALSE
      /\ boot' = BootOff /\ (\A t \in Threads : th'[t] = Idle) /\ (\A k \in Jobs : live'[k] = NotLive)
      /\ queue' = <<>>
  BY DEF Exit, durable, history
<1>2. boot'.pc = "off" /\ ToSet(queue') = {}
  BY <1>1 DEF BootOff, ToSet
<1>3. starts > 0
  BY <1>1 DEF RInv
<1>4. \A t \in Threads : Told(t, th[t])'
  BY <1>1, Idles
<1>5. ASSUME NEW k \in Jobs PROVE JobTold(k)'
  <2>1. JobTold(k)
    BY DEF RInv
  <2>2. HasComic(k)' = HasComic(k) /\ Fresh(k)' = Fresh(k)
    BY <1>1 DEF HasComic, IsUpload, Fresh, Copies
  <2>3. Accounted(k)'
    BY <1>1, <1>2, <1>3 DEF Accounted
  <2> QED BY <1>1, <1>2, <2>1, <2>2, <2>3 DEF JobTold, NextIs, Early
<1>6. Aside'
  BY <1>1, Idles DEF Aside
<1> QED BY <1>1, <1>4, <1>5, <1>6 DEF RInv

LEMMA StepRows == ASSUME TInv, CInv, OInv, RInv, [Next]_vars PROVE RInv'
<1>1. CASE Stop \/ Drain \/ UNCHANGED vars
  <2>1. UNCHANGED <<row, staged, filed, boot, origin, revived, starts, up, live, queue>>
    BY <1>1 DEF Stop, Drain, vars, durable, manager, process, history
  <2>2. draining => draining'
    BY <1>1 DEF Stop, Drain, vars, process
  <2>3. \A s \in Threads : th'[s] = th[s] \/ th'[s].pc \notin JobPCs
    <3>1. Idle.pc \notin JobPCs
      BY Classes DEF JobPCs
    <3>2. ThreadsOK(th)
      BY DEF TInv
    <3> QED BY <1>1, <3>1, <3>2 DEF Stop, Drain, vars, WithWoken, ThreadsOK
  <2> QED BY <2>1, <2>2, <2>3, Shuffles
<1> QED BY <1>1, WorkerKeeps, ClientKeeps, RecoveryKeeps, StartKeeps, ExitKeeps DEF Next

LEMMA InitRows == Init => RInv
<1> SUFFICES ASSUME Init PROVE RInv
  OBVIOUS
<1>1. /\ \A t \in Threads : th[t] = Idle
      /\ \A k \in Jobs : row[k].st = "none" /\ filed[k] = 0 /\ k \notin ToSet(queue)
      /\ boot.pc = "off" /\ starts = 0 /\ up = FALSE
  BY DEF Init, NoRow, BootOff, ToSet
<1>2. \A t \in Threads : Told(t, th[t])
  BY <1>1, Idles
<1>3. \A k \in Jobs : JobTold(k)
  BY <1>1 DEF JobTold, Accounted, Unfinished, NextIs, Early
<1>4. Aside
  BY <1>1, Idles DEF Aside
<1> QED BY <1>1, <1>2, <1>3, <1>4 DEF RInv

LEMMA RowsInvariant == Spec => [](TInv /\ CInv /\ OInv /\ RInv)
<1>1. TInv /\ CInv /\ OInv /\ RInv /\ [Next]_vars => RInv'
  BY StepRows
<1> QED BY <1>1, InitRows, OwnersInvariant, PTL DEF Spec

-----------------------------------------------------------------------------
(* What follows.                                                           *)

\* An upload that waits for a worker or is worked on has its staging directory
\* (import_handlers.go: the handler's deferred removal spares what it started;
\* manager.go: finish ends the job before its directory goes), but for those a
\* stale list or a late save brought back.
THEOREM InputIsKept == Spec => []KeepsInput
<1>1. ASSUME TInv, RInv PROVE KeepsInput
  <2> SUFFICES ASSUME NEW j \in Jobs, IsUpload(j),
                      j \in ToSet(queue) \/ \E w \in Workers : th[w].job = j /\ th[w].pc \in WorkingPCs
               PROVE  j \in staged \cup revived
    BY DEF KeepsInput
  <2>1. CASE j \in ToSet(queue)
    BY <1>1, <2>1 DEF RInv, JobTold
  <2>2. CASE \E w \in Workers : th[w].job = j /\ th[w].pc \in WorkingPCs
    BY <1>1, <2>2 DEF RInv, Told, Needing, Threads
  <2> QED BY <2>1, <2>2
<1>2. TInv /\ RInv => KeepsInput
  BY <1>1
<1> QED BY <1>2, RowsInvariant, PTL

\* Once recovery is over, an unfinished row is one the process works on, one a
\* drain has set aside with its input, or one a late or failed write left.
THEOREM NoOrphans == Spec => []NoOrphanRow
<1>1. ASSUME TInv, OInv, RInv PROVE NoOrphanRow
  <2> SUFFICES ASSUME boot.pc = "done", NEW j \in Jobs, Unfinished(j), ~Live(j), j \notin revived
               PROVE  draining /\ row[j].st \notin {"uploading"} /\ (IsUpload(j) => j \in staged)
    BY DEF NoOrphanRow
  <2>1. Accounted(j) /\ Coming = {}
    BY <1>1 DEF RInv, JobTold, Coming, Early
  <2> QED BY <2>1 DEF Accounted
<1>2. TInv /\ OInv /\ RInv => NoOrphanRow
  BY <1>1
<1> QED BY <1>2, RowsInvariant, PTL

\* A job makes at most one comic in the life of one process: a recovery does
\* not queue it while it runs, and a run that filed does not file again.
THEOREM FiledOnce == Spec => []FiledOncePerStart
<1>1. RInv => FiledOncePerStart
  BY DEF RInv, JobTold, FiledOncePerStart
<1> QED BY <1>1, RowsInvariant, PTL

\* A job whose row says done has its comic (manager.go: finish is told the id
\* of a comic that UpsertComic has stored, or that was there by content).
THEOREM DoneMeansFiled == Spec => []DoneHasComic
<1>1. RInv => DoneHasComic
  BY DEF RInv, JobTold, HasComic, DoneHasComic
<1> QED BY <1>1, RowsInvariant, PTL

-----------------------------------------------------------------------------
(* The cap.                                                                *)

LEMMA HistoryGrows ==
  ASSUME [Next]_vars, ~Start
  PROVE  starts' = starts /\ revived \subseteq revived'
<1>1. ASSUME NEW t \in Threads, FinishStep(t) PROVE starts' = starts /\ revived \subseteq revived'
  BY <1>1 DEF FinishStep, CleanInput, FinishMarks, FinishSaves, FinishDrops, Sweep, history
<1>2. ASSUME NEW w \in Workers, WorkerStep(w) PROVE starts' = starts /\ revived \subseteq revived'
  <2>1. w \in Threads
    BY DEF Threads
  <2> QED BY <1>1, <1>2, <2>1
          DEF WorkerStep, Pick, WorkerWaits, WorkerReturns, SaveStage, SaveUnfinished, Tick, PipelineFails,
              PipelineCancelled, PipelineBuilds, CancelEnds, RequeueForRestart, SaveRequeued, LookUp,
              FileComic, FilingFails, history
<1>3. ASSUME NEW c \in Clients, ClientStep(c) PROVE starts' = starts /\ revived \subseteq revived'
  <2>1. c \in Threads
    BY DEF Threads
  <2> QED BY <1>1, <1>3, <2>1
          DEF ClientStep, BeginSaves, BeginSaveFails, StageUpload, SetInput, SaveQueued, SaveUnfinished,
              LibrarySaves, LibrarySaveFails, StorePaused, StoreOrder, history
<1>4. ASSUME NEW c \in Clients, ClientCall(c) PROVE starts' = starts /\ revived \subseteq revived'
  BY <1>4 DEF ClientCall, Begin, EnqueueUploaded, UploadFails, EnqueueLibraryConvert, CancelQueued,
              CancelRunning, SetPaused, Reorder, ClearFinished, history
<1>5. ASSUME RecoverStep \/ Stop \/ Drain \/ Exit \/ UNCHANGED vars
      PROVE  starts' = starts /\ revived \subseteq revived'
  BY <1>5 DEF RecoverStep, RecoverLists, RecoverLooks, RecoverSkips, RecoverQueues, RecoverSaves,
              SaveUnfinished, RecoverFails, RecoverEnds, Stop, Drain, Exit, vars, history
<1> QED BY <1>2, <1>3, <1>4, <1>5 DEF Next

\* In the first process recovery comes to no job but one brought back.
LEMMA NoneAddedByRecovery ==
  ASSUME TInv, OInv, RInv, RecoverQueues, starts = 1
  PROVE  \E j \in Jobs : j \in revived' /\ origin' = origin /\ \A k \in Jobs \ {j} : live'[k] = live[k]
<1>1. PICK j \in Jobs : j = Head(boot.todo).job
  BY RecoveryQueued
<1>2. /\ ~Live(j) /\ boot.pc = "take" /\ origin' = origin
      /\ revived' = IF Unfinished(j) THEN revived ELSE revived \cup {j}
      /\ live' = [live EXCEPT ![j] = [st |-> "queued", seq |-> seq, input |-> TRUE, ctx |-> "nil"]]
  BY <1>1 DEF RecoverQueues, Taken
<1>3. Unfinished(j) => j \in revived
  BY <1>2 DEF RInv, JobTold, Accounted
<1>4. \A k \in Jobs \ {j} : live'[k] = live[k]
  BY <1>2 DEF TInv, TypeOK, ManagerTypes
<1> QED BY <1>2, <1>3, <1>4

LEMMA NoMoreLive ==
  ASSUME TInv, CInv, OInv, RInv, [Next]_vars, ~Start, starts = 1, NEW u \in Users,
         ~\E c \in Clients, v \in Users, j \in Jobs : Begin(c, v, j)
  PROVE  LiveOf(u)' \ revived' \subseteq LiveOf(u) \ revived
<1>0. revived \subseteq revived'
  BY HistoryGrows
<1>1. ASSUME \A k \in Jobs : (Live(k)' => Live(k) \/ k \in revived') /\ (origin'[k] = u => origin[k] = u)
      PROVE  LiveOf(u)' \ revived' \subseteq LiveOf(u) \ revived
  BY <1>0, <1>1 DEF LiveOf
<1>2. ASSUME NEW t \in Threads, NEW j, WorksOn(t, j) PROVE \A k \in Jobs : (Live(k)' => Live(k)) /\ origin' = origin
  BY <1>2 DEF WorksOn, LiveKept, Live
<1>3. ASSUME NEW t \in Threads, NEW j, LetsGo(t, j) PROVE \A k \in Jobs : (Live(k)' => Live(k)) /\ origin' = origin
  <2>1. live' = Dropped(j) /\ origin' = origin /\ live \in [Jobs -> LiveType]
    BY <1>3 DEF LetsGo, TInv, TypeOK, ManagerTypes
  <2> QED BY <2>1 DEF Dropped, Live, NotLive
<1>4. ASSUME Passes PROVE \A k \in Jobs : (Live(k)' => Live(k)) /\ origin' = origin
  BY <1>4 DEF Passes, Live
<1>5. ASSUME RecoverQueues PROVE \A k \in Jobs : (Live(k)' => Live(k) \/ k \in revived') /\ origin' = origin
  BY <1>5, NoneAddedByRecovery DEF Live
<1>6. ASSUME Exit PROVE \A k \in Jobs : (Live(k)' => Live(k)) /\ origin' = origin
  BY <1>6 DEF Exit, Live, NotLive, history
<1>7. ASSUME NEW t \in Threads, NEW j \in Jobs, LeavesLine(t, j)
      PROVE  \A k \in Jobs : (Live(k)' => Live(k)) /\ origin' = origin
  <2>1. Live(j)
    BY <1>7, Asked DEF LeavesLine
  <2> QED BY <1>7, <2>1 DEF LeavesLine, Live
<1>8. ASSUME NEW c \in Clients, EnqueueUploaded(c)
      PROVE  \A k \in Jobs : (Live(k)' => Live(k)) /\ origin' = origin
  <2>1. PICK j \in Jobs : th[c].job = j /\ JoinsLine(c, j)
    BY <1>8, UploadQueued
  <2>2. Live(j) /\ origin' = origin
    BY <1>8, <2>1 DEF EnqueueUploaded, history
  <2> QED BY <2>1, <2>2 DEF JoinsLine, Live
<1>9. ASSUME NEW c \in Clients, NEW f \in Files, NEW j \in Jobs, EnqueueLibraryConvert(c, f, j)
      PROVE  LiveOf(u)' \ revived' \subseteq LiveOf(u) \ revived
  <2>1. \A k \in Jobs \ {j} : live'[k] = live[k]
    BY <1>9, LibraryQueued DEF JoinsLine
  <2>2. origin'[j] = f /\ \A k \in Jobs \ {j} : origin'[k] = origin[k]
    BY <1>9 DEF EnqueueLibraryConvert, TInv, TypeOK, HistoryTypes
  <2>3. f # u
    BY ImportQueueAssumption DEF ImportQueueAssumption
  <2> QED BY <1>0, <2>1, <2>2, <2>3 DEF LiveOf, Live
<1>10. ASSUME NEW c \in Clients, NEW j \in Jobs, CancelRunning(c, j)
       PROVE  \A k \in Jobs : (Live(k)' => Live(k)) /\ origin' = origin
  BY <1>10 DEF CancelRunning, Live, TInv, TypeOK, ManagerTypes, LiveType
<1>11. ASSUME NEW c \in Clients, NEW ids, Reorder(c, ids)
       PROVE  \A k \in Jobs : (Live(k)' => Live(k)) /\ origin' = origin
  BY <1>11 DEF Reorder, Live, TInv, TypeOK, ManagerTypes, LiveType, history
<1>12. ASSUME NEW w \in Workers, Pick(w) PROVE \A k \in Jobs : (Live(k)' => Live(k)) /\ origin' = origin
  BY <1>7, <1>12, Picked DEF Threads
<1>13. ASSUME NEW c \in Clients, NEW j \in Jobs, CancelQueued(c, j)
       PROVE  \A k \in Jobs : (Live(k)' => Live(k)) /\ origin' = origin
  BY <1>7, <1>13, QueuedCancelled DEF Threads
<1> QED BY <1>1, <1>2, <1>3, <1>4, <1>5, <1>6, <1>8, <1>9, <1>10, <1>11, <1>12, <1>13, Steps

LEMMA LiveOfIsFinite ==
  ASSUME NEW u PROVE IsFiniteSet(LiveOf(u)) /\ Cardinality(LiveOf(u)) \in Nat
<1>1. IsFiniteSet(Jobs) /\ LiveOf(u) \subseteq Jobs
  BY ImportQueueAssumption DEF ImportQueueAssumption, LiveOf
<1> QED BY <1>1, FS_Subset, FS_CardinalityType

LEMMA StepCap ==
  ASSUME TInv, CInv, OInv, RInv, CapHolds, [Next]_vars
  PROVE  CapHolds'
<1>0. MaxPerUser \in Nat \ {0}
  BY ImportQueueAssumption DEF ImportQueueAssumption
<1> SUFFICES ASSUME starts' = 1, NEW u \in Users
             PROVE  Cardinality(LiveOf(u)' \ revived') <= MaxPerUser
  BY DEF CapHolds
<1>1. CASE Start
  <2>1. LiveOf(u)' = {}
    BY <1>1 DEF CInv, DownIsIdle, Start, LiveOf, Live, NotLive
  <2> QED BY <1>0, <2>1, FS_EmptySet
<1>2. ASSUME ~Start, NEW S, IsFiniteSet(S), Cardinality(S) <= MaxPerUser, LiveOf(u)' \ revived' \subseteq S
      PROVE  Cardinality(LiveOf(u)' \ revived') <= MaxPerUser
  <2>1. Cardinality(LiveOf(u)' \ revived') <= Cardinality(S) /\ IsFiniteSet(LiveOf(u)' \ revived')
    BY <1>2, FS_Subset
  <2> QED BY <1>0, <1>2, <2>1, FS_CardinalityType
<1>3. CASE ~Start /\ ~\E c \in Clients, v \in Users, j \in Jobs : Begin(c, v, j)
  <2>1. starts = 1
    BY <1>3, HistoryGrows
  <2>2. LiveOf(u)' \ revived' \subseteq LiveOf(u) \ revived
    BY <1>3, <2>1, NoMoreLive
  <2>3. IsFiniteSet(LiveOf(u) \ revived) /\ Cardinality(LiveOf(u) \ revived) <= MaxPerUser
    BY <2>1, LiveOfIsFinite, FS_Subset DEF CapHolds
  <2> QED BY <1>2, <1>3, <2>2, <2>3
<1>4. ASSUME ~Start, NEW c \in Clients, NEW v \in Users, NEW j \in Jobs, Begin(c, v, j)
      PROVE  Cardinality(LiveOf(u)' \ revived') <= MaxPerUser
  <2>1. starts = 1 /\ revived \subseteq revived'
    BY <1>4, HistoryGrows
  <2>2. /\ \A k \in Jobs \ {j} : live'[k] = live[k] /\ origin'[k] = origin[k]
        /\ origin'[j] = v
    BY <1>4 DEF Begin, AtStage, TInv, TypeOK, ManagerTypes, HistoryTypes
  <2>3. CASE v # u
    <3>1. LiveOf(u)' \ revived' \subseteq LiveOf(u) \ revived
      BY <2>1, <2>2, <2>3 DEF LiveOf, Live
    <3>2. IsFiniteSet(LiveOf(u) \ revived) /\ Cardinality(LiveOf(u) \ revived) <= MaxPerUser
      BY <2>1, LiveOfIsFinite, FS_Subset DEF CapHolds
    <3> QED BY <1>2, <1>4, <3>1, <3>2
  <2>4. CASE v = u
    <3>1. LiveOf(u)' \ revived' \subseteq LiveOf(u) \cup {j}
      BY <2>2 DEF LiveOf, Live
    <3>2. Cardinality(LiveOf(u)) < MaxPerUser
      BY <1>4, <2>4 DEF Begin, HasRoom
    <3>3. IsFiniteSet(LiveOf(u) \cup {j}) /\ Cardinality(LiveOf(u) \cup {j}) <= Cardinality(LiveOf(u)) + 1
      <4>1. PICK S : S = LiveOf(u)
        OBVIOUS
      <4>2. IsFiniteSet(S) /\ Cardinality(S) \in Nat
        BY <4>1, LiveOfIsFinite
      <4>3. IsFiniteSet(S \cup {j}) /\ Cardinality(S \cup {j}) <= Cardinality(S) + 1
        BY <4>2, FS_AddElement
      <4> QED BY <4>1, <4>3
    <3>4. Cardinality(LiveOf(u) \cup {j}) <= MaxPerUser
      BY <1>0, <3>2, <3>3, LiveOfIsFinite, FS_CardinalityType
    <3> QED BY <1>2, <1>4, <3>1, <3>3, <3>4
  <2> QED BY <2>3, <2>4
<1> QED BY <1>1, <1>3, <1>4

\* In the first process a user has no more live jobs than the cap (manager.go:
\* Begin counts and claims under one lock), however many requests race for the
\* last slot: a slot is only ever claimed by Begin, and recovery has nothing to
\* take back but what a late or failed write left.
THEOREM CapIsKept == Spec => []CapHolds
<1>1. Init => CapHolds
  BY DEF Init, CapHolds
<1>2. CapHolds /\ TInv /\ CInv /\ OInv /\ RInv /\ [Next]_vars => CapHolds'
  BY StepCap
<1> QED BY <1>1, <1>2, RowsInvariant, PTL DEF Spec

-----------------------------------------------------------------------------
(* One copy of each library file.                                          *)

\* The default of DOWITCHER_IMPORT_WORKERS: with two workers both may look up
\* before either files.
OneWorker == \A v, w \in Workers : v = w

\* A library file's job is filed only where its content has no comic yet.
LooksFirst ==
  \A t \in Threads : th[t].pc = "file" /\ origin[th[t].job] \in Files
                     => Copies(Content[origin[th[t].job]]) = {}

\* No step takes a goroutine to one of these places.
NoneTo(places) == \A s \in Threads : th'[s].pc \in places => th'[s] = th[s]
NoneToFile == NoneTo({"file"})

LEMMA ElsewhereNone ==
  ASSUME NEW places \in SUBSET Past, NEW t \in Threads, Elsewhere(t), th'[t].pc \notin places
  PROVE  NoneTo(places)
<1>1. Idle.pc \notin places
  BY Idles DEF Past
<1> QED BY <1>1 DEF NoneTo, Elsewhere

LEMMA MovesNone ==
  ASSUME ThreadsOK(th), NEW t \in Threads, NEW places \in SUBSET Past
  PROVE  /\ Rest(t) => NoneTo(places)
         /\ \A pc : pc \notin places /\ Goto(t, pc) => NoneTo(places)
         /\ \A pc, st : pc \notin places /\ GotoEnding(t, pc, st) => NoneTo(places)
         /\ \A pc, st, s : pc \notin places /\ GotoSaving(t, pc, st, s) => NoneTo(places)
<1>1. ASSUME Rest(t) PROVE NoneTo(places)
  <2>1. Elsewhere(t) /\ th'[t] = Idle
    BY <1>1, Going
  <2>2. Idle.pc \notin places
    BY Idles DEF Past
  <2> QED BY <2>1, <2>2, ElsewhereNone
<1>2. ASSUME NEW pc, pc \notin places, Goto(t, pc) PROVE NoneTo(places)
  <2>1. Elsewhere(t) /\ th'[t].pc = pc
    BY <1>2, Going
  <2> QED BY <1>2, <2>1, ElsewhereNone
<1>3. ASSUME NEW pc, NEW st, pc \notin places, GotoEnding(t, pc, st) PROVE NoneTo(places)
  <2>1. Elsewhere(t) /\ th'[t].pc = pc
    BY <1>3, Going
  <2> QED BY <1>3, <2>1, ElsewhereNone
<1>4. ASSUME NEW pc, NEW st, NEW s, pc \notin places, GotoSaving(t, pc, st, s) PROVE NoneTo(places)
  <2>1. Elsewhere(t) /\ th'[t].pc = pc
    BY <1>4, Going
  <2> QED BY <1>4, <2>1, ElsewhereNone
<1> QED BY <1>1, <1>2, <1>3, <1>4

LEMMA FinishNone ==
  ASSUME TInv, NEW t \in Threads, FinishStep(t), NEW places \in SUBSET Past
  PROVE  NoneTo(places) /\ filed' = filed
<1>1. ThreadsOK(th) /\ "persist" \notin places /\ "mark" \notin places /\ "drop" \notin places
      /\ "sweep" \notin places
  BY DEF TInv, Past
<1>2. NoneTo(places)
  BY <1>1, MovesNone DEF FinishStep, CleanInput, FinishMarks, FinishSaves, FinishDrops, Sweep
<1>3. filed' = filed
  BY DEF FinishStep, CleanInput, FinishMarks, FinishSaves, FinishDrops, Sweep, durable
<1> QED BY <1>2, <1>3

LEMMA WorkerNoFile ==
  ASSUME TInv, OInv, NEW w \in Workers, WorkerStep(w), ~FileComic(w)
  PROVE  (NoneToFile \/ PipelineBuilds(w) \/ LookUp(w)) /\ filed' = filed
<1>0. ThreadsOK(th) /\ w \in Threads /\ {"file"} \in SUBSET Past
  BY DEF TInv, Threads, Past
<1> USE DEF NoneToFile
<1>1. ASSUME FinishStep(w) PROVE NoneToFile /\ filed' = filed
  BY <1>0, <1>1, FinishNone
<1>2. ASSUME Pick(w) PROVE NoneToFile
  <2>1. PICK j \in Jobs : j = Head(queue) /\ LeavesLine(w, j)
    BY <1>2, Picked
  <2>2. Live(j)
    BY <2>1 DEF LeavesLine, OInv, Orderly, Live
  <2>3. TakesOn(w, j, "announce")
    BY <1>0, <1>2, <2>1, <2>2, Starting DEF Pick
  <2> QED BY <1>0, <2>3, ElsewhereNone DEF TakesOn
<1>3. ASSUME NEW st, EndsWith(w, st) PROVE NoneToFile
  BY <1>0, <1>3, MovesNone DEF EndsWith
<1>4. ASSUME SaveStage(w) PROVE NoneToFile
  <2>1. PICK pc \in {"extract", "build"} : Goto(w, pc)
    BY <1>4 DEF SaveStage
  <2> QED BY <1>0, <2>1, MovesNone
<1>5. ASSUME WorkerWaits(w) \/ WorkerReturns(w) \/ Tick(w) \/ PipelineCancelled(w)
             \/ RequeueForRestart(w) \/ SaveRequeued(w)
      PROVE  NoneToFile
  BY <1>0, <1>5, MovesNone
     DEF WorkerWaits, WorkerReturns, Tick, PipelineCancelled, RequeueForRestart, SaveRequeued
<1>6. ASSUME PipelineFails(w) \/ CancelEnds(w) \/ FilingFails(w) PROVE NoneToFile
  BY <1>3, <1>6 DEF PipelineFails, CancelEnds, FilingFails
<1>7. filed' = filed
  BY <1>1 DEF WorkerStep, Pick, WorkerWaits, WorkerReturns, SaveStage, Tick, PipelineFails,
              PipelineCancelled, PipelineBuilds, CancelEnds, RequeueForRestart, SaveRequeued, LookUp,
              FilingFails, durable
<1> QED BY <1>1, <1>2, <1>4, <1>5, <1>6, <1>7 DEF WorkerStep

LEMMA ClientNone ==
  ASSUME TInv, OInv, NEW c \in Clients, ClientStep(c) \/ ClientCall(c), NEW places \in SUBSET Past
  PROVE  NoneTo(places) /\ filed' = filed
<1>0. /\ ThreadsOK(th) /\ c \in Threads
      /\ \A pc \in ClientPCs \cup {"idle", "clean", "mark"} : pc \notin places
  BY DEF TInv, Threads, Past, ClientPCs
<1>1. ASSUME FinishStep(c) PROVE NoneTo(places) /\ filed' = filed
  BY <1>0, <1>1, FinishNone
<1>2. ASSUME ClientStep(c) PROVE NoneTo(places)
  BY <1>0, <1>1, <1>2, MovesNone
     DEF ClientPCs, ClientStep, BeginSaves, BeginSaveFails, StageUpload, SetInput, SaveQueued, LibrarySaves,
         LibrarySaveFails, StorePaused, StoreOrder
<1>3. ASSUME UploadFails(c) PROVE NoneTo(places)
  BY <1>0, <1>3, MovesNone DEF UploadFails, ClientPCs
<1>4. ASSUME NEW u \in Users, NEW j \in Jobs, Begin(c, u, j) PROVE NoneTo(places)
  <2>1. TakesOn(c, j, "begin")
    BY <1>0, <1>4, Starting DEF Begin
  <2> QED BY <1>0, <2>1, ElsewhereNone DEF TakesOn, ClientPCs
<1>5. ASSUME NEW j \in Jobs, JoinsLine(c, j) PROVE NoneTo(places)
  BY <1>0, <1>5, ElsewhereNone DEF JoinsLine, ClientPCs
<1>6. ASSUME NEW j \in Jobs, CancelQueued(c, j) PROVE NoneTo(places)
  <2>1. PICK pc \in {"clean", "mark"} :
          th' = [th EXCEPT ![c] = [@ EXCEPT !.pc = pc, !.job = j, !.st = "cancelled"]]
    BY <1>6 DEF CancelQueued
  <2>2. TakesOn(c, j, pc)
    BY <1>0, <2>1, Starting
  <2> QED BY <1>0, <2>2, ElsewhereNone DEF TakesOn, ClientPCs
<1>7. ASSUME NEW flag \in BOOLEAN, SetPaused(c, flag) PROVE NoneTo(places)
  <2> DEFINE r == [th[c] EXCEPT !.pc = IF flag THEN "storePause" ELSE "storeResume"]
  <2>2. th[c] \in ThreadType /\ th[c].pc = "idle"
    BY <1>0, <1>7, InHand DEF ThreadOK, SetPaused, At
  <2>3. r.pc \notin places
    BY <1>0, <2>2 DEF ThreadType, ClientPCs
  <2>4. th' = WithWoken([th EXCEPT ![c] = r], Waiting)
    BY <1>7 DEF SetPaused
  <2> HIDE DEF r
  <2>5. Waiting \in SUBSET Waiting /\ c \notin Waiting
    BY <2>2 DEF Waiting, At
  <2>6. Elsewhere(c) /\ th'[c] = r
    BY <1>0, <2>4, <2>5, Woken
  <2> QED BY <1>0, <2>3, <2>6, ElsewhereNone
<1>8. ASSUME NEW ids, Reorder(c, ids) PROVE NoneTo(places)
  <2>1. \A s \in Threads : th'[s] = th[s] \/ (th'[s].pc = "storeOrder" /\ th[s].pc = "idle")
    BY <1>8, Reordered
  <2> QED BY <1>0, <2>1 DEF NoneTo, ClientPCs
<1>9. ASSUME th' = th PROVE NoneTo(places)
  BY <1>9 DEF NoneTo
<1>10. ASSUME ClientCall(c) PROVE NoneTo(places)
  BY <1>3, <1>4, <1>5, <1>6, <1>7, <1>8, <1>9, <1>10, UploadQueued, LibraryQueued
     DEF ClientCall, CancelRunning, ClearFinished
<1>11. filed' = filed
  BY <1>1 DEF ClientStep, BeginSaves, BeginSaveFails, StageUpload, SetInput, SaveQueued, LibrarySaves,
              LibrarySaveFails, StorePaused, StoreOrder, ClientCall, Begin, EnqueueUploaded, UploadFails,
              EnqueueLibraryConvert, CancelQueued, CancelRunning, SetPaused, Reorder, ClearFinished, durable
<1> QED BY <1>2, <1>10, <1>11

LEMMA ProcessNone ==
  ASSUME TInv, RecoverStep \/ Start \/ Stop \/ Drain \/ Exit \/ UNCHANGED vars,
         NEW places \in SUBSET Past
  PROVE  NoneTo(places) /\ filed' = filed
<1>1. filed' = filed
  BY DEF RecoverStep, RecoverLists, RecoverLooks, RecoverSkips, RecoverQueues, RecoverSaves,
         RecoverFails, RecoverEnds, Start, Stop, Drain, Exit, vars, durable
<1>2. \A s \in Threads : th'[s] = th[s] \/ th'[s] = Idle
  <2>1. ThreadsOK(th)
    BY DEF TInv
  <2> QED BY <2>1 DEF RecoverStep, RecoverLists, RecoverLooks, RecoverSkips, RecoverQueues, RecoverSaves,
          RecoverFails, RecoverEnds, Start, Stop, Drain, Exit, vars, WithWoken, ThreadsOK
<1>3. Idle.pc \notin places
  BY Idles DEF Past
<1> QED BY <1>1, <1>2, <1>3 DEF NoneTo

LEMMA StepFiles ==
  ASSUME TInv, OInv, [Next]_vars
  PROVE  \/ \E w \in Workers : FileComic(w)
         \/ filed' = filed /\ (NoneToFile \/ \E w \in Workers : PipelineBuilds(w) \/ LookUp(w))
<1>1. {"file"} \in SUBSET Past
  BY DEF Past
<1> QED BY <1>1, WorkerNoFile, ClientNone, ProcessNone DEF Next, NoneToFile

\* What is asked for once is for whom it was asked.
LEMMA OriginsStay ==
  ASSUME TInv, OInv, [Next]_vars, NEW k \in Jobs, ~Fresh(k)
  PROVE  origin'[k] = origin[k]
<1>1. ASSUME NEW c \in Clients, NEW u \in Users, NEW j \in Jobs, Begin(c, u, j) PROVE origin'[k] = origin[k]
  BY <1>1 DEF Begin, TInv, TypeOK, HistoryTypes
<1>2. ASSUME NEW c \in Clients, NEW f \in Files, NEW j \in Jobs, EnqueueLibraryConvert(c, f, j)
      PROVE  origin'[k] = origin[k]
  BY <1>2 DEF EnqueueLibraryConvert, TInv, TypeOK, HistoryTypes
<1>3. ASSUME NEW c \in Clients,
             \/ EnqueueUploaded(c)
             \/ \E j \in Jobs : CancelQueued(c, j) \/ CancelRunning(c, j)
             \/ \E ids : Reorder(c, ids)
      PROVE  origin'[k] = origin[k]
  BY <1>3 DEF EnqueueUploaded, CancelQueued, CancelRunning, Reorder, history
<1>4. ASSUME \/ \E t \in Threads : \E j : WorksOn(t, j) \/ LetsGo(t, j)
             \/ Passes \/ RecoverQueues \/ Start \/ Exit
             \/ \E w \in Workers : Pick(w)
      PROVE  origin'[k] = origin[k]
  BY <1>4 DEF WorksOn, LetsGo, Passes, RecoverQueues, Start, Exit, Pick, history
<1> QED BY <1>1, <1>2, <1>3, <1>4, Steps

LEMMA StepCopies ==
  ASSUME OneWorker, TInv, CInv, OInv, RInv, OneServerWideCopy, LooksFirst, [Next]_vars
  PROVE  OneServerWideCopy' /\ LooksFirst'
<1>1. \A k \in Jobs : filed[k] \in Nat /\ (filed[k] > 0 => ~Fresh(k)) /\ (~Fresh(k) => origin'[k] = origin[k])
  BY OriginsStay DEF TInv, TypeOK, DurableTypes, RInv, JobTold
<1>2. \A s \in Threads : th[s].pc \in {"file", "lookup", "build"} => th[s].job \in Jobs /\ ~Fresh(th[s].job)
  BY Asked DEF JobPCs
<1>3. ASSUME NEW w \in Workers, FileComic(w) PROVE OneServerWideCopy' /\ LooksFirst'
  <2>1. PICK j \in Jobs : j = th[w].job
    BY <1>2, <1>3 DEF FileComic, At, Threads
  <2>2. /\ w \in Threads /\ th[w].pc = "file" /\ ThreadsOK(th) /\ origin' = origin
        /\ filed'[j] = filed[j] + 1 /\ \A k \in Jobs \ {j} : filed'[k] = filed[k]
    BY <1>3, <2>1 DEF FileComic, At, Threads, TInv, TypeOK, DurableTypes, history
  <2>3. Elsewhere(w) /\ th'[w].pc = "mark"
    BY <1>3, <2>2, Going DEF FileComic
  <2>4. \A s \in Threads : th'[s].pc # "file"
    <3>1. \A s \in Threads \ {w} : th[s].pc # "file"
      BY DEF RInv, Told, OneWorker
    <3> QED BY <2>3, <3>1, Classes DEF Elsewhere
  <2>5. LooksFirst'
    BY <2>4 DEF LooksFirst
  <2>6. CASE origin[j] \in Files
    <3>1. Copies(Content[origin[j]]) = {}
      BY <2>1, <2>2, <2>6 DEF LooksFirst
    <3>2. filed[j] = 0 /\ filed'[j] = 1
      BY <1>1, <2>2, <2>6, <3>1 DEF Copies
    <3>3. \A k \in Jobs \ {j} : origin[k] \in Files /\ filed[k] > 0 => Content[origin[k]] # Content[origin[j]]
      BY <3>1 DEF Copies
    <3> QED BY <2>2, <2>5, <3>2, <3>3 DEF OneServerWideCopy
  <2>7. CASE origin[j] \notin Files
    BY <2>2, <2>5, <2>7 DEF OneServerWideCopy
  <2> QED BY <2>6, <2>7
<1>4. ASSUME filed' = filed, NoneToFile \/ \E w \in Workers : PipelineBuilds(w) \/ LookUp(w)
      PROVE  OneServerWideCopy' /\ LooksFirst'
  <2>1. \A k \in Jobs : filed[k] > 0 => origin'[k] = origin[k]
    BY <1>1
  <2>2. OneServerWideCopy'
    BY <1>4, <2>1 DEF OneServerWideCopy
  <2>3. \A h : Copies(h)' = Copies(h)
    BY <1>4, <2>1 DEF Copies
  <2>4. ASSUME NEW s \in Threads, th'[s] = th[s], th[s].pc = "file", origin'[th[s].job] \in Files
        PROVE  Copies(Content[origin'[th[s].job]]) = {}
    BY <1>1, <1>2, <2>4 DEF LooksFirst
  <2>5. CASE NoneToFile
    BY <2>2, <2>3, <2>4, <2>5 DEF LooksFirst, NoneToFile, NoneTo
  <2>6. ASSUME NEW w \in Workers, PipelineBuilds(w) \/ LookUp(w) PROVE LooksFirst'
    <3>1. w \in Threads /\ th[w].pc \in {"build", "lookup"} /\ ThreadsOK(th)
      BY <2>6 DEF PipelineBuilds, LookUp, At, Threads, TInv
    <3>2. PICK j \in Jobs : j = th[w].job /\ ~Fresh(j)
      BY <1>2, <3>1
    <3>3. /\ Elsewhere(w) /\ th'[w].job = j
          /\ th'[w].pc = "file" => IsUpload(j) \/ Copies(Content[origin[j]]) = {}
      <4>1. CASE PipelineBuilds(w) /\ IsUpload(j)
        BY <3>1, <3>2, <4>1, Going DEF PipelineBuilds
      <4>2. CASE PipelineBuilds(w) /\ ~IsUpload(j)
        <5>1. Elsewhere(w) /\ th'[w].job = j /\ th'[w].pc = "lookup"
          BY <3>1, <3>2, <4>2, Going DEF PipelineBuilds
        <5> QED BY <5>1
      <4>3. CASE LookUp(w) /\ Copies(Content[origin[j]]) = {}
        BY <3>1, <3>2, <4>3, Going DEF LookUp
      <4>4. CASE LookUp(w) /\ Copies(Content[origin[j]]) # {}
        <5>1. Elsewhere(w) /\ th'[w].job = j /\ th'[w].pc = "mark"
          BY <3>1, <3>2, <4>4, Going DEF LookUp
        <5> QED BY <5>1
      <4> QED BY <2>6, <4>1, <4>2, <4>3, <4>4
    <3>4. origin'[j] = origin[j]
      BY <1>1, <3>2
    <3>5. IsUpload(j) => origin[j] \notin Files
      BY ImportQueueAssumption DEF ImportQueueAssumption, IsUpload
    <3>6. ASSUME NEW s \in Threads, th'[s].pc = "file", origin'[th'[s].job] \in Files
          PROVE  Copies(Content[origin'[th'[s].job]]) = {}
      <4>1. CASE s = w
        BY <3>3, <3>4, <3>5, <3>6, <4>1
      <4>2. CASE s # w
        <5>1. th'[s] = th[s]
          BY <3>3, <3>6, <4>2, Classes DEF Elsewhere
        <5> QED BY <2>4, <3>6, <5>1
      <4> QED BY <4>1, <4>2
    <3> QED BY <2>3, <3>6 DEF LooksFirst
  <2> QED BY <1>4, <2>2, <2>5, <2>6
<1> QED BY <1>3, <1>4, StepFiles

\* With one queue worker, which is the default (main.go: importWorkers := 1), a
\* library file's content becomes one server-wide comic, once and for ever
\* (manager.go: ServerWideComicByHash is asked before a comic is filed),
\* whatever is cancelled, cleared, handed off again or cut short.
THEOREM OneCopy ==
  ASSUME OneWorker
  PROVE  Spec => []OneServerWideCopy
<1>1. Init => OneServerWideCopy /\ LooksFirst
  BY Classes DEF Init, OneServerWideCopy, LooksFirst
<1>2. OneServerWideCopy /\ LooksFirst /\ TInv /\ CInv /\ OInv /\ RInv /\ [Next]_vars
      => OneServerWideCopy' /\ LooksFirst'
  BY StepCopies
<1> QED BY <1>1, <1>2, RowsInvariant, PTL DEF Spec

-----------------------------------------------------------------------------
(* Who takes a finished row back.  A goroutine past the first save of its  *)
(* job has a row that has not ended: who ends a job has it in hand, and    *)
(* recovery, which may fail the row of another's, comes before.            *)

PastRows ==
  \A t \in Threads : th[t].pc \in Past => t \in Workers /\ ~Finished(th[t].job)

\* What a step may make of the row of job j: end it, or save that it goes on.
Ends(j) == RecoverFails \/ \E t \in Threads : FinishSaves(t) /\ th[t].job = j
GoesOnAs(j, places) == \E t \in Threads : th[t].job = j /\ th[t].pc \in places
Saving == {"begin", "saveQueued", "insert", "announce", "tick", "requeue"}
Writes(j) ==
  \/ row'[j].st \in {row[j].st, "none"}
  \/ row'[j].st \in Terminal /\ Ends(j)
  \/ row'[j].st \notin Terminal /\ (boot.pc = "save" \/ GoesOnAs(j, Saving))

LEMMA SaverWrites ==
  ASSUME TInv, OInv, NEW t \in Threads, NEW st, NEW s, NEW j \in Jobs, row' = Upserted(th[t].job, st, s),
         th[t].pc \in Saving, st \notin Terminal
  PROVE  Writes(j)
<1>0. th[t].pc \in JobPCs
  BY DEF Saving, JobPCs
<1>1. PICK k \in Jobs : k = th[t].job
  BY <1>0, AtWork
<1>2. row'[k].st = st /\ \A i \in Jobs \ {k} : row'[i] = row[i]
  BY <1>1, Saved
<1> QED BY <1>1, <1>2 DEF Writes, GoesOnAs

LEMMA FinisherWrites ==
  ASSUME TInv, OInv, NEW t \in Threads, FinishStep(t), NEW j \in Jobs
  PROVE  Writes(j)
<1>1. CASE FinishSaves(t)
  <2>0. th[t].pc = "persist" /\ th[t].pc \in JobPCs
    BY <1>1 DEF FinishSaves, At, JobPCs
  <2>1. PICK k \in Jobs : k = th[t].job
    BY <2>0, AtWork
  <2>2. row'[k].st = th[t].st /\ \A i \in Jobs \ {k} : row'[i] = row[i]
    BY <1>1, <2>1, Saved DEF FinishSaves
  <2>3. th[t].st \in Terminal
    BY <1>1 DEF FinishSaves, At, OInv, Endings, EndingPCs
  <2> QED BY <1>1, <2>1, <2>2, <2>3 DEF Writes, Ends
<1>2. CASE row' = row
  BY <1>2 DEF Writes
<1> QED BY <1>1, <1>2 DEF FinishStep, CleanInput, FinishMarks, FinishDrops, Sweep, durable

LEMMA WorkerWrites ==
  ASSUME TInv, OInv, RInv, NEW w \in Workers, WorkerStep(w), NEW j \in Jobs
  PROVE  Writes(j)
<1>0. w \in Threads
  BY DEF Threads
<1>1. CASE SaveStage(w)
  <2>1. th[w].pc \in {"announce", "tick"} /\ row' = Upserted(th[w].job, th[w].st, th[w].seq)
    BY <1>1 DEF SaveStage, SaveUnfinished, At
  <2>2. th[w].st \in {"reading", "packing"}
    BY <1>0, <2>1 DEF RInv, Told
  <2>3. "reading" \notin Terminal /\ "packing" \notin Terminal
    BY DEF Terminal
  <2> QED BY <1>0, <2>1, <2>2, <2>3, SaverWrites DEF Saving
<1>2. CASE SaveRequeued(w)
  <2>1. "queued" \notin Terminal
    BY DEF Terminal
  <2> QED BY <1>0, <1>2, <2>1, SaverWrites DEF SaveRequeued, At, Saving
<1>3. CASE FinishStep(w)
  BY <1>0, <1>3, FinisherWrites
<1>4. CASE row' = row
  BY <1>4 DEF Writes
<1> QED BY <1>1, <1>2, <1>3, <1>4
        DEF WorkerStep, Pick, WorkerWaits, WorkerReturns, Tick, PipelineFails, PipelineCancelled,
            PipelineBuilds, CancelEnds, RequeueForRestart, LookUp, FileComic, FilingFails, durable

LEMMA ClientWrites ==
  ASSUME TInv, OInv, NEW c \in Clients, ClientStep(c) \/ ClientCall(c), NEW j \in Jobs
  PROVE  Writes(j)
<1>0. c \in Threads /\ "queued" \notin Terminal /\ "uploading" \notin Terminal
  BY DEF Threads, Terminal
<1>1. CASE BeginSaves(c) \/ SaveQueued(c) \/ LibrarySaves(c)
  BY <1>0, <1>1, SaverWrites DEF BeginSaves, SaveQueued, LibrarySaves, SaveUnfinished, At, Saving
<1>2. CASE SetInput(c) \/ StoreOrder(c)
  <2>1. row \in [Jobs -> RowType]
    BY DEF TInv, TypeOK, DurableTypes
  <2>2. CASE SetInput(c)
    <3>1. PICK k, b : row' = [row EXCEPT ![k].input = b]
      BY <2>2 DEF SetInput
    <3>2. row'[j].st = row[j].st
      BY <2>1, <3>1 DEF RowType
    <3> QED BY <3>2 DEF Writes
  <2>3. CASE StoreOrder(c)
    <3>1. PICK n : row'[j] = [row[j] EXCEPT !.seq = n] \/ row'[j] = row[j]
      BY <2>1, <2>3 DEF StoreOrder
    <3>2. row'[j].st = row[j].st
      BY <2>1, <3>1 DEF RowType
    <3> QED BY <3>2 DEF Writes
  <2> QED BY <1>2, <2>2, <2>3
<1>3. CASE FinishStep(c)
  BY <1>0, <1>3, FinisherWrites
<1>4. ASSUME NEW scope, ClearFinished(c, scope) PROVE Writes(j)
  BY <1>4 DEF ClearFinished, NoRow, Writes
<1>5. CASE row' = row
  BY <1>5 DEF Writes
<1>6. CASE ClientStep(c)
  BY <1>1, <1>2, <1>3, <1>5, <1>6
     DEF ClientStep, BeginSaveFails, StageUpload, LibrarySaveFails, StorePaused, durable
<1>7. CASE ClientCall(c)
  <2>1. ASSUME \/ \E u \in Users, k \in Jobs : Begin(c, u, k)
               \/ EnqueueUploaded(c) \/ UploadFails(c)
               \/ \E f \in Files, k \in Jobs : EnqueueLibraryConvert(c, f, k)
               \/ \E k \in Jobs : CancelQueued(c, k) \/ CancelRunning(c, k)
               \/ \E flag : SetPaused(c, flag)
               \/ \E ids : Reorder(c, ids)
        PROVE  row' = row
    BY <2>1 DEF Begin, EnqueueUploaded, UploadFails, EnqueueLibraryConvert, CancelQueued, CancelRunning,
                SetPaused, Reorder, durable
  <2> QED BY <1>4, <1>5, <1>7, <2>1 DEF ClientCall
<1> QED BY <1>6, <1>7

LEMMA ProcessWrites ==
  ASSUME TInv, RecoverStep \/ Start \/ Stop \/ Drain \/ Exit \/ UNCHANGED vars, NEW j \in Jobs
  PROVE  Writes(j)
<1>1. CASE RecoverSaves
  <2>1. PICK k \in Jobs : k = Head(boot.todo).job
    BY <1>1, FirstComes DEF RecoverSaves
  <2>2. row'[k].st = "queued" /\ \A i \in Jobs \ {k} : row'[i] = row[i]
    BY <1>1, <2>1, Saved DEF RecoverSaves, SaveUnfinished
  <2> QED BY <1>1, <2>2 DEF RecoverSaves, Writes, Terminal
<1>2. CASE RecoverFails
  <2>1. PICK k \in Jobs : k = Head(boot.todo).job
    BY <1>2, FirstComes DEF RecoverFails
  <2>2. row'[k].st = "failed" /\ \A i \in Jobs \ {k} : row'[i] = row[i]
    BY <1>2, <2>1, Saved DEF RecoverFails
  <2> QED BY <1>2, <2>2 DEF Writes, Ends, Terminal
<1>3. CASE row' = row
  BY <1>3 DEF Writes
<1> QED BY <1>1, <1>2, <1>3
        DEF RecoverStep, RecoverLists, RecoverLooks, RecoverSkips, RecoverQueues, RecoverEnds,
            Start, Stop, Drain, Exit, vars, durable

LEMMA StepWrites ==
  ASSUME TInv, OInv, RInv, [Next]_vars, NEW j \in Jobs
  PROVE  Writes(j)
BY WorkerWrites, ClientWrites, ProcessWrites DEF Next

\* Where a worker comes from that is past its first save.
LEMMA WorkerGoesOn ==
  ASSUME TInv, OInv, NEW w \in Workers, WorkerStep(w)
  PROVE  \/ NoneTo(Past)
         \/ /\ SaveStage(w) /\ Elsewhere(w) /\ th'[w].job = th[w].job
         \/ /\ row' = row /\ th[w].pc \in Past /\ Elsewhere(w) /\ th'[w].job = th[w].job
<1>p. ThreadsOK(th) /\ w \in Threads
  BY DEF TInv, Threads
<1>0. /\ ThreadsOK(th) /\ w \in Threads /\ Past \in SUBSET Past
      /\ \A pc \in {"idle", "waiting", "returned", "announce", "clean", "mark"} : pc \notin Past
  BY DEF TInv, Threads, Past
<1>1. ASSUME FinishStep(w) PROVE NoneTo(Past)
  BY <1>0, <1>1, FinishNone
<1>2. ASSUME Pick(w) PROVE NoneTo(Past)
  <2>1. PICK j \in Jobs : j = Head(queue) /\ LeavesLine(w, j)
    BY <1>2, Picked
  <2>2. Live(j)
    BY <2>1 DEF LeavesLine, OInv, Orderly, Live
  <2>3. TakesOn(w, j, "announce")
    BY <1>p, <1>2, <2>1, <2>2, Starting DEF Pick
  <2> QED BY <1>0, <2>3, ElsewhereNone DEF TakesOn
<1>3. ASSUME NEW st, EndsWith(w, st) PROVE NoneTo(Past)
  BY <1>0, <1>3, MovesNone DEF EndsWith
<1>4. ASSUME SaveStage(w) PROVE Elsewhere(w) /\ th'[w].job = th[w].job
  <2>1. PICK pc \in {"extract", "build"} : Goto(w, pc)
    BY <1>4 DEF SaveStage
  <2> QED BY <1>0, <2>1, Going
<1>5. ASSUME WorkerWaits(w) \/ WorkerReturns(w) \/ SaveRequeued(w) \/ PipelineFails(w)
             \/ CancelEnds(w) \/ FilingFails(w) \/ FileComic(w)
      PROVE  NoneTo(Past)
  BY <1>0, <1>3, <1>5, MovesNone
     DEF WorkerWaits, WorkerReturns, SaveRequeued, PipelineFails, CancelEnds, FilingFails, FileComic
<1>6. ASSUME \/ \E pc : Goto(w, pc)
             \/ \E pc, st, s : GotoSaving(w, pc, st, s)
      PROVE  Elsewhere(w) /\ th'[w].job = th[w].job
  BY <1>0, <1>6, Going
<1>7. ASSUME Tick(w) \/ PipelineCancelled(w) \/ PipelineBuilds(w)
      PROVE  row' = row /\ th[w].pc \in Past /\ Elsewhere(w) /\ th'[w].job = th[w].job
  BY <1>6, <1>7 DEF Tick, PipelineCancelled, PipelineBuilds, At, Past, durable
<1>8. ASSUME RequeueForRestart(w) \/ LookUp(w)
      PROVE  row' = row /\ th[w].pc \in Past /\ (NoneTo(Past) \/ (Elsewhere(w) /\ th'[w].job = th[w].job))
  BY <1>0, <1>6, <1>8, MovesNone DEF RequeueForRestart, LookUp, At, Past, durable
<1> QED BY <1>1, <1>2, <1>4, <1>5, <1>7, <1>8 DEF WorkerStep

LEMMA StepGoesOn ==
  ASSUME TInv, OInv, [Next]_vars
  PROVE  \/ NoneTo(Past)
         \/ \E w \in Workers :
              /\ Elsewhere(w) /\ th'[w].job = th[w].job
              /\ SaveStage(w) \/ (row' = row /\ th[w].pc \in Past)
<1>1. Past \in SUBSET Past
  OBVIOUS
<1> QED BY <1>1, WorkerGoesOn, ClientNone, ProcessNone DEF Next

LEMMA StepPastRows ==
  ASSUME TInv, CInv, OInv, RInv, PastRows, [Next]_vars
  PROVE  PastRows'
<1> SUFFICES ASSUME NEW t \in Threads, th'[t].pc \in Past PROVE t \in Workers /\ row'[th'[t].job].st \notin Terminal
  BY DEF PastRows, Finished
<1>1. ASSUME th'[t] = th[t] PROVE t \in Workers /\ row'[th'[t].job].st \notin Terminal
  <2>0. t \in Workers
    BY <1>1 DEF PastRows
  <2>1. PICK j \in Jobs : j = th[t].job
    BY <1>1, HasInHand DEF Past, JobPCs
  <2>2. ~Finished(j)
    BY <1>1, <2>1 DEF PastRows
  <2>3. ~RecoverFails
    <3>1. ASSUME RecoverFails PROVE FALSE
      <4>1. boot.pc = "fail"
        BY <3>1 DEF RecoverFails
      <4>2. t \in Workers => th[t].pc = "idle"
        BY <4>1 DEF OInv, RecoversAlone, Early
      <4> QED BY <1>1, <2>0, <4>2 DEF Past
    <3> QED BY <3>1
  <2>4. ASSUME NEW s \in Threads, FinishSaves(s), th[s].job = j PROVE FALSE
    <3>1. th[s].pc = "persist"
      BY <2>4 DEF FinishSaves, At
    <3>2. Own(th[s])
      BY <3>1 DEF Own, OwningPCs
    <3>3. CASE th[t].pc = "requeue"
      BY <2>1, <2>4, <3>2, <3>3 DEF RInv, Aside
    <3>4. CASE th[t].pc # "requeue"
      <4>1. Own(th[t])
        BY <1>1, <3>4 DEF Own, OwningPCs, Past
      <4>2. s = t
        BY <2>1, <2>4, <3>2, <4>1 DEF OInv, OneHand
      <4> QED BY <1>1, <3>1, <4>2 DEF Past
    <3> QED BY <3>3, <3>4
  <2>5. row'[j].st \notin Terminal
    <3>1. ~Ends(j)
      BY <2>1, <2>3, <2>4 DEF Ends
    <3>2. row[j].st \notin Terminal /\ "none" \notin Terminal
      BY <2>2 DEF Finished, Terminal
    <3> QED BY <3>1, <3>2, StepWrites DEF Writes
  <2> QED BY <1>1, <2>0, <2>1, <2>5 DEF Finished
<1>2. ASSUME th'[t] # th[t] PROVE t \in Workers /\ row'[th'[t].job].st \notin Terminal
  <2>1. PICK w \in Workers : /\ Elsewhere(w) /\ th'[w].job = th[w].job
                             /\ SaveStage(w) \/ (row' = row /\ th[w].pc \in Past)
    BY <1>2, StepGoesOn DEF NoneTo
  <2>2. t = w
    BY <1>2, <2>1, Idles DEF Elsewhere, Past
  <2>3. CASE row' = row /\ th[w].pc \in Past
    BY <2>1, <2>2, <2>3 DEF PastRows, Finished
  <2>4. CASE SaveStage(w)
    <3>1. th[w].pc \in {"announce", "tick"} /\ row' = Upserted(th[w].job, th[w].st, th[w].seq)
      BY <2>4 DEF SaveStage, SaveUnfinished, At
    <3>2. th[w].st \in {"reading", "packing"}
      BY <2>2, <3>1 DEF RInv, Told
    <3>3. PICK j \in Jobs : j = th[w].job
      BY <2>2, <3>1, HasInHand DEF JobPCs
    <3>4. row'[j].st = th[w].st
      BY <3>1, <3>3, Saved
    <3> QED BY <2>1, <2>2, <3>2, <3>3, <3>4 DEF Terminal
  <2> QED BY <2>1, <2>3, <2>4
<1> QED BY <1>1, <1>2

LEMMA InitPastRows == Init => PastRows
BY Classes DEF Init, PastRows, Past

LEMMA RowsPastInvariant == Spec => [](TInv /\ CInv /\ OInv /\ RInv /\ PastRows)
<1>1. TInv /\ CInv /\ OInv /\ RInv /\ PastRows /\ [Next]_vars => PastRows'
  BY StepPastRows
<1> QED BY <1>1, InitPastRows, RowsInvariant, PTL DEF Spec

\* A finished row is taken back to unfinished only by an enqueue's late save,
\* by recovery's, or by a worker announcing a job that recovery failed too
\* soon: never by Begin's save, a tick, or a requeue (manager.go: save is an
\* upsert of a copy made under the lock and written after it).
THEOREM LateSavesRevive == Spec => OnlyLateSavesRevive
<1>1. ASSUME TInv, OInv, RInv, PastRows, [Next]_vars, NEW j \in Jobs, Finished(j), Unfinished(j)'
      PROVE  \/ \E t \in Threads : th[t].job = j /\ th[t].pc \in {"saveQueued", "insert", "announce"}
             \/ boot.pc = "save"
  <2>1. row[j].st \in Terminal /\ row'[j].st \notin Terminal \cup {"none"}
    BY <1>1 DEF Finished, Unfinished
  <2>3. ASSUME NEW t \in Threads, th[t].job = j, th[t].pc \in Saving
        PROVE  th[t].pc \in {"saveQueued", "insert", "announce"}
    <3>1. th[t].pc # "begin"
      BY <1>1, <2>1, <2>3 DEF RInv, Told, Terminal
    <3>2. th[t].pc \notin {"tick", "requeue"}
      BY <1>1, <2>3 DEF PastRows, Past
    <3> QED BY <2>3, <3>1, <3>2 DEF Saving
  <2> QED BY <1>1, <2>1, <2>3, StepWrites DEF Writes, GoesOnAs
<1>2. TInv /\ CInv /\ OInv /\ RInv /\ PastRows /\ [Next]_vars
      => [\A j \in Jobs : Finished(j) /\ Unfinished(j)' =>
            \/ \E t \in Threads : th[t].job = j /\ th[t].pc \in {"saveQueued", "insert", "announce"}
            \/ boot.pc = "save"]_vars
  BY <1>1
<1> QED BY <1>2, RowsPastInvariant, PTL DEF Spec, OnlyLateSavesRevive
=============================================================================
