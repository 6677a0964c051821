# A verification project for Dowitcher

Dowitcher is a self-hosted comic server: one Go process with a SQLite database,
a watched library folder, an import queue, and a React interface that works
offline. This directory holds TLA+ modules that model its core logic, TLC
configurations that check them on small instances, and proofs that TLAPS
checks for every instance. `PROJECT.json` lists the runs, the theorems, and,
for every definition that models code, the source lines it stands for.

    tlc -config QueueRestarts.cfg MCImportQueue.tla      # model-check
    tlapm ImportQueueProofs.tla                          # check the proofs

## The system

| Part | Source | State | Operations | What makes it correct |
| --- | --- | --- | --- | --- |
| Import queue | `internal/imports/manager.go`, `server/import_handlers.go` | live map, queue, counter, paused, draining; `import_jobs` rows; staging directories | Begin, the upload handler, Start, library hand-off, cancel, pause, reorder, clear, worker, finish, requeue at a drain, recover | no job lost, run twice, or run without its input; a restart resumes in order; a row that looks alive is |
| Job feed | `server/ws.go`, `web/src/api/ws.ts`, `web/src/live` | client set, replay cache, send buffers; the page's job list | connect and snapshot, broadcasts, disconnect | a connected page ends up showing what is true |
| Library | `internal/library` | comic rows with path, hash, missing flag; debounced paths; hand-off memory | scan, watch, sweep | a file on disk has one present row; a rename keeps the row |
| Reading progress | `server/comic_handlers.go` (`handleSetProgress`), `web/src/offline/progressQueue.ts` | progress rows; the browser's queue | save, queue, replay | an older observation never replaces a newer one; nothing queued is lost |
| Sharing | `store/accessors.go`, `server/comic_handlers.go`, `server/collection_handlers.go`, `mcp/tools.go`, `imports/adopt.go` | comics with source, owner and hidden flag; collections and their places; tags; download tokens | claim, unclaim, hide, rename, tag, upload, delete, share, add, reorder | nobody is shown, or has changed, what is not theirs to; nothing points at what is gone |
| Grants | `internal/auth`, `internal/oauth`, `server/auth_handlers.go`, `server/oauth_handlers.go` | users, passkeys, ceremonies, invites, sessions, codes, tokens | enroll, log in, log out everywhere, reset, authorize, redeem, refresh | single use is single; a revocation leaves nothing behind; an admin remains |
| Offline downloads | `web/src/offline/downloads.ts` | page cache, manifest, controllers | download, cancel, delete, sign-out | what the manifest says is on disk; nothing remains after sign-out |
| Page grouping | `internal/imports/{collect,ingest,group}.go` | none (an algorithm) | order, hash, group, keep | every page kept or dropped for one reported keeper; natural order is an order |
| Archives, codecs, OCR, MCP tools, routing, interface | the rest | none, or the store's | | not modelled: see below |

How they meet: the library and the upload handler feed the queue by calls; the
queue writes rows through the store and reports every change to the hub; the
hub's clients are browsers whose pages also call the HTTP handlers. Everything
durable goes through one `database/sql` handle that
`store/sqlite.go` limits to one connection, so every statement is atomic and
ordered; two statements of one function are not. `Manager.mu` orders what the
goroutines of the queue do in memory, and is *not* held across the statement
that records it, except in the library hand-off's checks.

That is where the difficulties are: the order of memory and rows, the process
that stops between two steps, recovery that works through a list while requests
go on, contexts cancelled before the flag that says why, and wake-ups.
`PROJECT.json` lists each as a hazard, at its line, with the properties that
watch it, or the reason why none does.

## Modules

`ImportQueue.tla`: the import queue with its rows and staging area.
`MCImportQueue.tla`: that module with the definitions TLC needs.
`WorkQueue.tla`: the abstract queue that `ImportQueue` implements.
`ImportQueueProofs.tla`: its type invariant, that the counter stays ahead of every
row, that a live job has one place, that the queue is in order, and that
`ImportQueue` implements `WorkQueue`, proved.
`ImportQueueRowProofs.tla`: that jobs keep their inputs, that no row is orphaned,
that comics are filed once and the cap holds, proved.
`WorkQueueProofs.tla`: that an item of the abstract queue is in one place, proved.

`ProgressSync.tla`: reading positions, from the page turned to the stored row.
`MCProgressSync.tla`: that module with the definitions TLC needs.
`ProgressSyncProofs.tla`: its type invariant, and that the newest position is
kept, proved.

`LibraryScan.tla`: the library folder, its scan and watcher, and the comic rows.
`MCLibraryScan.tla`: that module with the definitions TLC needs.
`LibraryScanProofs.tla`: its type invariant, that record's writes do not collide,
that a calm scan leaves the rows in agreement with the folder, and that a renamed
file keeps its row, proved.

`JobFeed.tla`: what open pages show of the jobs and of the paused flag.
`MCJobFeed.tla`: that module with the definitions TLC needs.
`JobFeedProofs.tla`: its type invariant, that a quiet page is true, and that it holds
nobody else's jobs, proved.

`Sharing.tla`: comics, collections, tags and download links: who sees and who
changes what, by the HTTP handlers and by an agent's tools.
`MCSharing.tla`: that module with the definitions TLC needs.
`SharingProofs.tla`: its type invariant, that nothing dangles, that only owners
expose and change what is theirs, that an order stays clear, and that retags and
edits which nothing overtakes do what they were asked, proved.

`Grants.tla`: accounts, invites, passkeys, sessions, OAuth codes and tokens.
`MCGrants.tla`: that module with the definitions TLC needs.
`GrantsProofs.tla`: its type invariant, that an invite pays once, that rotation is
linear, that what is revoked stays out, and that an admin remains, proved.

### ImportQueue

One step is one critical section of `Manager.mu`, one SQL statement, or one
creation or removal of a staging directory. Between two steps of a goroutine
any other may run, and the process may die (`Exit`) and start again (`Start`).

| Variable | Code |
| --- | --- |
| `row` | `import_jobs`: stage, `queue_seq`, whether `input_path` is set; `finished_at` is non-zero exactly in a terminal stage and `comic_id` is set exactly in stage done, as `finish` writes them together |
| `storedPause` | the meta row `queue_paused` |
| `filed` | how many comics a job's runs have inserted |
| `staged` | the uploads whose staging directory exists |
| `up`, `ctxDone`, `draining` | the process, its base context, `Manager.draining` |
| `paused`, `live`, `queue`, `seq` | the fields of `Manager` |
| `boot` | where `recover` is: its list, and the number of the row in hand |
| `th` | workers and requests: the step each is at and the locals it has kept (a job, the snapshot it will save, a reorder's ids) |
| `origin` | who a job is for: its uploader or its library file |
| `starts`, `revived` | history: process starts, and jobs that a late write brought back after they had ended |

The stages after the first (`extracting` or `reading`, both called `reading`)
are one, `packing`. A job's message is kept only where it tells a cancel from a
failure: stage `cancelled` is stage failed with the message "cancelled".

The pipeline is what the queue sees of it: it may end with a file, fail, or
notice that its context is cancelled; it looks at the context between pages, so
it may also not notice. A pipeline reports stages through `tick`.
`Exit` is both a kill and the end of `main`: `main` waits for the HTTP server
and for no worker, so a draining worker may be cut off anywhere.

`WorkQueue` is what the queue promises whatever becomes of rows and directories:
a line, and who has an item in hand. The refinement maps the line to
`Manager.queue` and an item's holder to the goroutine that owns the job
(`HolderOf`): a request between its slot and its enqueue, or a worker from the
pop to the last statement of `finish`. `WorkQueue` lets a worker take the front
only, lets a caller take an item out of the line, and has no step that gives an
item from one holder to another. Rows, contexts, recovery and drains are
stutters, appends or ends to it.

Left out: what a job is called and which options it runs with; progress
counters and their throttle; the report of duplicates; errors of `save`, which
the code only logs, of `SetImportJobInput`, and of the recovery list; the
deletion of a comic (which empties the `comic_id` of the row). What is said of
jobs to pages is `JobFeed`.

### ProgressSync

One account reads on several devices. One step is what a browser does between
two awaits, or one SQL statement of `handleSetProgress`, which reads the row,
decides, and writes in separate statements.

| Variable | Code |
| --- | --- |
| `now` | the server's clock, in seconds; a device's is `now + Skew` |
| `stored` | the account's `progress` rows: page, completed, updated_at |
| `queue` | each device's IndexedDB store `progress-queue`, keyed by comic |
| `open`, `online` | devices with a tab open, and those whose browser has not reported being offline |
| `pending` | `pendingRef` of the reader: the claim the debounce holds back |
| `paused` | mutations TanStack Query holds in memory while it takes the browser to be offline |
| `replay` | where `replayProgressQueue` is on a device, and the rows of its list it has still to send |
| `req` | requests under way: who sent it and why, what it says, what the handler has read and will write, and whether anyone still waits for the answer |
| `turns` | how many pages have been turned (a bound) |
| `newest`, `excused` | history: the time of a comic's newest claim, and the comics whose newest claim an accident may have taken |

The code's own steps are `Turn` (`jump`), `Flush` and `FlushLeaving`
(`flushProgress`), `ServerReads` and `ServerWrites`, what a sender does with an
answer (`Hears`, `HearsRefusal`) or without one (`Loses`), the three of the
replay, and its start on a launch or when the browser is online again.
`Resume`, `GoesOffline`, `Vanishes`, `Tick` and `Free` are the query client,
the browser and the network, modelled from what the code relies on.
`Loses` is a rejected `fetch`: the request may still reach the server later.

`excused` keeps the accidents visible: an older write over a newer row that
another request wrote since the read, a save or a replay that was refused, what
only a closed tab knew of, and a queue row replaced by an older failed claim or
deleted for the one it replaced. The action that adds to it names the accident.

Left out: the copy the page displays and how it is reconciled; signing out,
which clears the queue; a second tab on one device; failures of IndexedDB; a
comic whose length changes; a queue replayed under another account.

### LibraryScan

One step is one look at a file, one SQL statement, or one short critical
section. `record` holds `dbMu` from its first statement to its last; the scan's
flags (`markMissing`), claims, deletions and imports take no part in that lock
and come between its statements.

| Variable | Code |
| --- | --- |
| `disk` | what is at each path of the library root: a content, something unreadable (half copied, or no comic), or nothing |
| `rows` | `comics`: path, content hash, missing flag, source. `converted` stands for `library-pdf` and `library-archive`; all paths in the uploads directory are one, `Filed` |
| `agent` | the scan's workers, the watcher's `dispatch` goroutine and `Scan` itself: the step each is at, its path, what it has read there, and the row it will write |
| `scan` | where `Scan` is: walking, at work with the pool, or flagging and handing off; `seen` of the walk; what `markMissing` has still to flag |
| `watching`, `armed` | whether `Watch` has begun, and `debouncer.pending` |
| `convertSeen` | the field; versions of a file stand for its modification times |
| `handed`, `changes`, `calm`, `owed` | history: what has been handed off, the bound, whether nothing happened in the last whole scan, and the row each renamed file should keep |

The walk looks at one path after the other while the folder changes under it; a
worker reads its file later, and the watcher after its quiet period and its
settle gap. `Puts`, `Removes` and `Renames` are the folder's user, `Notices`
what the kernel tells the watcher of it, which may be less than all ("lost").
`WalksPast` is a directory that cannot be read or a root that is not mounted.

`calm` turns "no" with every change, and with every write that rests on a look
older than the file's last change: a worker that has read a file before it
changed may write after the next scan has been there. `Recognisable` says when
a renamed file can be known by its content: nothing else has the content (a
copy, an upload), its new name is free, and the scan does not see it at both
names. `ComicRowByHash` names no order, so one of two copies may lose its row.

Left out: covers and the status; database errors; a scan cut short by its
context, other than by the end of the process; the set of watched directories,
whose gaps are lost events; uploads filed under the library root.

### JobFeed

What is said of a job, or of the paused flag, is the number of the change it
tells of. A publication is a goroutine of the manager: it changes memory, saves
the row, and sends its frame to the sockets it lists, one after the other, while
other publications, new sockets and clears go on.

| Variable | Code |
| --- | --- |
| `live`, `row`, `over`, `imported` | `Manager.live`'s jobs and `Manager.paused`; the rows of `import_jobs` and the meta row; jobs past their last change; those of them that `keepImportedLibrary` keeps from a clear |
| `pub` | each publication: its frame, the step it is at (row, memory, list of sockets, sends), and the sockets it has still to send to |
| `last` | `Hub.last` for the queue's frames, which a socket that joins is handed |
| `conn`, `snap` | how far `handleWS` has come with a socket (in the hub with the kept frame in hand, that frame sent, rows read, live jobs laid over them, sent, the flag sent), and the frame in its hands |
| `buf` | `wsClient.send`, which loses a frame when full |
| `shows` | the page: a "jobs" frame replaces the list, a "job" or "queue" frame is merged (`LiveData.tsx`) |
| `told`, `wrong`, `beyond`, `loose` | history: the newest change sent out; the topics on which an accident has put a page behind; the jobs a page's last set had no place for; jobs told of too late, or whose memory and row have parted, and the flag while its save has failed |

`Joins` comes before the snapshot, as in the code, and what the hub has kept is
sent once the lock is released, so a newer frame may come first. `Loses` is any
end of a connection; the page goes on showing what it had. `FlagSaveFails` is the
early return of `setPaused`: the flag has changed in memory and nobody is told.
A frame carries the topics something newer may have been said of since it was
made (`Ages`), so that `Sends` can tell an overtaken frame from a current one.

A set frame lists at most `SnapshotLimit` jobs (20), the newest by `started_at`,
whatever their stage (`Listings`); rows of the same second come in any order, and a
clock set back makes a later job an older one, so `Started` is any function. The
jobs left out are the frame's `cut`, and `beyond` once it has been sent. The limit
has a consequence. `maxPerUser` lets an account have 50 jobs, hand-offs and finished
rows come on top, and the queue drains oldest first: with more than 20 rows a page
that dials, or whose account clears a list, does not show the job at work, which is
among the oldest, until that job's next frame; and a job that has ended, or that
only waits, stays away until a later set has room for it. `ws.go:188-195`,
`manager.go:1029` and `LiveData.tsx:14` speak of the complete set.

Left out: saves of a job's row, deletes and snapshot reads that fail (a read that
fails sends an empty set), the library's status frames, which a scan repeats, the
comics frame, to which no page subscribes, pings, and what the fields of a job are.

### Sharing

A call is a script: the list of the statements its handler makes, in order,
each a check that ends the call, a read it keeps, or a write. `handleSetTags`,
`updateCollection` and the others are those lists, under the handlers' names.
Calls run one statement at a time, between each other's, between deletions of
accounts and conversions, and across restarts, which drop them.

| Variable | Code |
| --- | --- |
| `users`, `comics`, `colls`, `place`, `tags`, `links` | the tables `users`, `comics` (source, owner, hidden, who set the title), `collections`, `collection_comics`, `comic_tags`, `comic_download_tokens` |
| `files` | which uploaded or converted comics have their file in the data directory |
| `req` | the calls under way: script and place in it, caller, comic, collection, and what has been read |
| `raced`, `muddled` | history: calls whose reads another call has overtaken, and collections whose order was not clear at the start or may have been spoilt by an overlap or a partial reorder |

`SeesHidden` and `Sees` are `visibleComicsWithHidden` and `visibleComics`;
`Owns` is `OwnedCollection`; `Cascade` is the schema's `ON DELETE` clauses.
Who a call acts for is fixed when it begins, as the middleware does.

Left out: lists and searches (the same clauses over many rows), a collection's
name, kind and summary, a comic's other fields, feedback, OCR.

### Grants

Calls are scripts here too, of the statements of the handlers in
`auth_handlers.go` and `oauth_handlers.go`.

| Variable | Code |
| --- | --- |
| `users`, `invites`, `keys`, `sessions` | the tables; an invite's `used_at`, `expires_at` and the account it recovers |
| `ceremonies` | `auth.Manager.ceremonies`: enrolments and logins begun |
| `lines` | an authorization code and the access and refresh tokens that come of it |
| `req` | the calls under way: script and place in it, caller, and what has been read |
| `cut`, `excused`, `spared`, `doubled` | history: what a log-out everywhere has ended, and the overlaps that the properties name |

`None` is an id not used yet and `Gone` one that has been deleted, so nothing
that was revoked can come back under its old name. `Lapses` is time: everything
that has an `expires_at` may pass it. Ids are random in the code, so the model
takes any free one.

Left out: the cryptography of WebAuthn and PKCE (a finish may be refused),
signature counters, names, the development login, cookies, OAuth clients.

## What the runs check

Those of the queue, of progress and of the feed have `CHECK_DEADLOCK FALSE`: the
process may be stopped for good, readers may stop turning pages, and a page may
be quiet, after which no step is possible. The other runs check that nothing
stops: the library's scan starts again for ever, and a restart is always
possible.

**queue_restarts** (0.97 million states): uploads and two library files of one
content, one worker, a request at a time, cancels, first saves that fail, and two
process starts. Two jobs are enough for the request and the worker (an enqueue's
late save and the job's end), or either and recovery, to meet over one of them
while the other is behind it in the queue; two starts are one crash at any step,
with recovery, new requests and new hand-offs after it. Several requests at once
are out of TLC's reach at these bounds: for them there are the theorems below,
which hold for any number and state every property of this run and the next.

- `QueueIsLive`, `OneOwner`: a live job is in the queue once or in exactly one
  goroutine's hands. No job is run by two, none is left to nobody. Recovery
  meets hand-offs that have queued a job and not yet written its row.
- `KeepsInput`: a queued or running upload has its staging directory.
- `NoOrphanRow`: after recovery an unfinished row is one the process works on,
  one a drain set aside with its input, or one a late save brought back or a
  failed first save left behind.
- `CounterIsAhead`: no number a restart gives out is in a row already.
- `FiledOncePerStart`, `OneServerWideCopy`: how often a job's comic is filed
  across crashes, and that a library file's content is filed once ever.
- `IsWorkQueue`: every step of the queue is one of `WorkQueue` or a stutter.

**queue_controls** (1.6 million): one process, with reorders, clears, failing
first saves, and a cap of one, so that the cap is reached.

- `QueueIsOrdered`: the queue is sorted by `queue_seq` and the counter is past it.
- `CapHolds`: the per-user cap, in the first process. Later ones take back
  whatever rows they find, without counting.
- `DoneHasComic`: a row says done only when its comic has been inserted.
- `OnlyLateSavesRevive`: a finished row becomes unfinished again only by an
  enqueue's late save, by recovery's, or by a worker announcing a job that
  recovery had failed too soon.
  The first of these means that a cancel which overtakes the save does not last,
  although `manager.go:939-941` says that it "ends the row as cancelled".

**queue_progress** (340 thousand, no symmetry): liveness under `Fairness`:
every goroutine that can step does (workers, requests that have begun,
recovery, the goroutine that sets draining). The Go scheduler and the absence
of blocking calls inside the critical sections justify weak fairness per
goroutine. Nothing obliges a user to upload, cancel or resume, or the process to
start or stop; an upload in progress may never end.

- `QueuedJobsEnd`: a queued job ends, unless the queue is paused, the process
  stops, or a late save brings its row back.
- `RecoveryEnds`, `WorkersReturn`.

The library look-up by content (`OneServerWideCopy`) is checked with one worker, which
is the default. With two, two files of the same content may both be looked up
before either is filed.

**progress_devices** (1.5 million states): two devices, the first with a clock one
second fast, one comic, two requests at once, an unfinished and a finishing
position, times 1 and 2, two pages turned, requests lost and tabs closed. Rows
of different comics never meet, and two claims of two devices are enough for
every order of reading, comparing, writing and replaying.

- `NoneFromFuture`: a fast clock does not pin a position out of reach.
- `SettlesOnNewest`: when nothing of a comic is under way any more, the server
  has the newest position read on any device, or one of the accidents happened.
- `LateClaimOnlyCompletes`: a claim older than the row it met can finish the
  comic and nothing else.

**progress_replay** (221 thousand): one device and every fault, refusals and a
browser that goes offline included, under `FairSpec`.

- `ReplayFinishes`: the flag that keeps a second replay away is cleared, whatever
  is lost, refused or read meanwhile. Fairness: the server handles what reaches
  it, an answer is delivered, and a request nobody waits for arrives or is gone
  (weak fairness per request); a device goes on with its replay when it can send
  (strong fairness, because a slot that is taken now and then is a bound of the
  model and not of the browser). Nothing obliges a reader, a network to fail, or
  a clock.

**library_scan** (2.0 million states): three paths, one content, one worker
beside the watcher, two changes or claims, and events that may be lost. Two
changes are a copy and a rename, a rename of a claimed comic, a rename and back,
or two renames, each of them before, during or after a scan. The second worker
adds nothing that the watcher does not: both come to `record` with a look of
their own, and the theorem below is for any number.

- `RenameKeepsRow`: a file renamed keeps its row, by whatever pass and in
  whatever order its names are come to, if it is recognisable at all.

**library_sweep** (about half a million): one comic and one file to convert, two
contents, and everything else that can happen, under `FairSpec`.

- `CalmScanAgrees`: a scan in which nothing happened ends with a row for every
  comic and a flag on every row without a file.
- `WritesDoNotCollide`: what `record` has read holds when it writes, whatever
  claims, deletions and imports do outside its lock.
- `Converges`: when the folder is left alone the rows come to agree with it, and
  nothing still under way undoes it. Fairness: goroutines run; a goroutine that
  asks for `dbMu` again and again gets it (a Go mutex starves nobody); the
  sweep's timer starts a scan, and the scan goes on. Nobody has to change the
  folder, and no event has to arrive: the sweep alone is enough.

**sharing** (393 thousand): an admin and a reader, a library comic in the
reader's collection, a second comic that is uploaded or converted meanwhile, a
second collection, one tag; two calls at once and three in all, out of one of
each script by each caller for whom it makes a difference. Two calls are a
check and whatever overtakes it; the third sets the scene (a share, an upload)
for the two. Deletions of accounts and restarts are not counted.

- `OnlyOwnersExpose`: a comic somebody could not see comes into sight only by
  its owner's act, or an admin's unclaim or unhide.
- `OnlyOwnersChange`: rows, places and tags are changed by whose they are (a
  comic's row also by admins), or go with what was deleted.
- `NothingDangles`: no row, cover, place, tag or link points at what is gone,
  and no row of an upload at a file that is.
- `OrderIsClear`: no two comics in one place of a collection; excepted are an
  insert overtaken between its `MAX(position)` and its write, a reorder that
  does not list every member, and what such a one has left behind, until a
  reorder lists them all.
- `RetagsKeep`: a bulk retag carries over what it was not asked to drop, unless
  the tags changed after it read them.
- `EditsLandWhole`: an agent's edit of a collection is refused before its first
  write or not at all, unless what it had checked changed in between.

**grants** (514 thousand): two admins, one with two sessions and an agent's
tokens; an invite that two browsers have opened; two calls at once, and four
calls or lapses in all: enough for two finishes of one invite, two refreshes of
one token, two deletions of each other, a login or a refresh across a
revocation, each with one more call before or after.

- `InvitePaysOnce`: an invite buys one passkey, for the account or the rights it
  was made for. A failure after the consume spends the invite for nothing, and
  never the other way round.
- `RotationIsLinear`: of a line there is a code, a refresh token or an exchange
  under way, never two.
- `RevokedStaysOut`: nothing is left of a deleted account; no token descends
  from one a log-out everywhere cut; a passkey's sessions end before it does.
  Excepted are an exchange under way across the log-out, and a login that
  overlaps the removal.
- `AnAdminRemains`, unless two removals of admins have overlapped.

**job_feed** (2.6 million): a user's job and a later one that the library handed
over, the flag, and one page, the user's or an admin's; two publications at once,
two changes, three connections or restarts, a buffer of two frames, so that it does
overflow, and a set with a place for one job, so that an admin's page has to do
without the older. Pages do not touch one another, so one is enough; two changes are
a frame and one that overtakes it, and both jobs at once.

- `QuietPageIsTrue`: when nothing is under way, a connected page shows how
  things stand, topic by topic, with these exceptions. In `wrong`: a frame the
  page's full buffer lost, a frame overtaken on its way to the buffer, a list another
  session has cleared, a late frame of a job that is no more. In `beyond`: the older
  jobs the page's last set had no place for. In `loose`: progress that came too soon
  after the last, an older save over a job's newer row, and the flag while its last
  change could not be saved. Those of a page last until the topic's next frame or the
  next connection, which for `beyond` is another set with its own limit; those of a
  topic until its next change that is told.

## What the runs refute

**queue_shutdown.** `queue_test.go:270-272` says that on a shutdown "an in-flight
or queued job is never marked failed". The signal cancels the base context; the
goroutine that sets `draining` runs some time later. A pipeline that notices the
context first is taken for a user's cancel: the row is ended and the staged
input removed.

**library_converted.** `accessors.go:29` says of a converted comic that "the
scanner does not manage it: its CBZ lives in the uploads (data) dir". `record`
excludes only uploads when it looks for a row to repoint, and asks the library
root whether a path in the uploads directory is still there. A file with the
content of a converted comic, put in the library, takes the comic's row along;
the row keeps its source, so its file is looked for where it is not.

## Where the code and its words differ without a run

These came up while modelling. Each is an exception that some property names, so
that its run shows where the line is; none has a run of its own.

- *Progress.* `internal/api/types.go:244` says that the server "compares it against
  the stored row and drops the older claim". The comparison and the write are two
  statements (`comic_handlers.go:510` and `:537`): an older claim that has been
  compared before a newer one was written replaces it (`excused`).
- *Progress.* `progressQueue.ts:7` says that a position "survives being offline".
  The replay deletes a comic's row when its request returns (line 117), although a
  newer position may have been put there meanwhile (`excused`).
- *Claims.* `accessors.go:916-919` has an admin undo any claim, but the handler
  first asks whether he can see the comic, which he cannot while it is another's
  and not shared. And a claim's row goes with the claimer's account.
- *Claims.* `accessors.go:897` says that "everyone else loses sight" of a claimed
  comic; those who read a shared collection of the claimer's that holds it do not.
- *Sessions.* A login between the two statements of a passkey's removal leaves a
  session of the removed passkey (`spared`). A refresh that has spent its token
  when a log-out everywhere runs issues a new pair after it (`excused`). Two
  admins who delete each other at once leave none (`doubled`).
- *Sessions.* A reset ends the sessions of an account and not its OAuth tokens.
  An added device's finish takes any ceremony of the same account, a recovery's
  too, whose invite then stays unspent.
- *Queue.* A hand-off whose first save fails takes its job back, although a worker
  may have it already and have written its row, which `finish` then leaves
  unfinished until the next start ends it (`revived`).
- *Feed.* `finish` saves before it leaves the live map so that "a snapshot taken in
  between cannot fall back to the stale row"; a snapshot whose rows were read before
  that save does (it is overtaken, and the finishing frame puts it right unless that
  frame came first). A live job whose row is not yet written is left out of a
  snapshot, and so is one that is not among the 20 newest (`beyond`). The comics
  frame has no listener in the interface.

## What is proved

The proofs about the import queue hold for every finite set of jobs and any users,
files, workers, requests, caps and bounds that satisfy `ImportQueueAssumption`;
those about progress for every finite set of comics and any devices, clocks,
positions, requests, faults and bounds that satisfy `ProgressSyncAssumption`; those
about the library for any paths, contents, ids, workers and bounds that satisfy
`LibraryScanAssumption`; those about sharing for any accounts, admins, comics,
collections, tags, orders and numbers of calls that satisfy `SharingAssumption`,
from any tables in order (`StartAssumption`) and with any calls of the scripts
(`AsksAssumption`); those about grants for any accounts, invites, passkeys,
sessions, ceremonies, lines and numbers of calls that satisfy `GrantsAssumption`,
from any tables in order (Grants' own `StartAssumption`: what a row points at is
there, what an enrolment in hand was promised is what its invite says, a line has
one thing left to spend, and where nobody has enrolled every invite is an admin's,
as the only one then is main.go's) and with any calls that begin at their first step
with nothing in hand (`AsksAssumption`); those about the job feed for any jobs,
users, admins, owners, start times, pages, publications at once, buffers, sizes of a
set and bounds that satisfy `FeedAssumption`. They use no other assumption, but for
`OneCopy`, which is about one queue worker (`OneWorker`; `main.go` starts one unless
it is told otherwise) and is false of two.

**TypeCorrect** (`Spec => []TypeOK`). The inductive invariant `TInv` adds that
a goroutine past its first step has a job (so that the row and the live entry it
writes are those of a job), and that `recover` has a row in hand where it uses
one. One lemma per group of handlers shows that each action keeps the types.

**CounterStaysAhead** (`Spec => []CounterIsAhead`). The rows alone are not an
inductive bound: a number is in the live map, in a goroutine's snapshot, in a
reorder's list or in the recovery list before it reaches a row. `CInv` bounds
all of these by `seq`, and says that nothing of a process survives it. A
restart reseeds from the rows, which is enough because the numbers in flight
died with the process.

**ProgressTypeCorrect** (`Spec => []TypeOK`). The invariant `PInv` adds that a
replay that waits has a row in hand and that at most one request answers it:
without that an answer could move a replay on that has nothing to move past.

**NeverFromFuture, NewestSettles, LateClaimsComplete.** One inductive invariant
carries all three, `SInv` (`ProgressSyncProofs.tla`). Stored rows and rows read are in
the past. A row about to be written is worth at least its claim and is no older
than the row it was compared with. Every claim anywhere is due to be counted in
`newest`. An answered claim's time is in the row. And for every comic that is
not excused, the newest claim is stored, or some device still keeps it: in
its queue, in memory, or in a request that will be answered or queued again.
`SettlesOnNewest` is the case where no device keeps anything.

**LibraryTypeCorrect** (`Spec => []TypeOK`). `Typed` adds what a goroutine has in
hand at each step (a path, a content that was read, a row's id) and that a walk
in progress is within its order.

**LibraryWritesDoNotCollide** (`Spec => []WritesDoNotCollide`). `Safe` adds that
one goroutine at most is between the statements of `record` or `flagMissing`,
what it has found (no row of the path, or the one row), and that no path has two
rows, without which "the row found" would not be the only one. The lemma `Apart`
is the heart: a step that takes no lock and gives no row a library path leaves
all of it true, which covers the scan's flags, claims, deletions and imports.

**CalmScansAgree** (`Spec => []CalmScanAgrees`). On top of `Safe`, `Ground` says
what holds at all times: which goroutine does what (a worker never hands off, the
scan's own goroutine never records, nobody records a file to convert) and in
which phase of the scan, that a row to be moved is no upload's and a row to be
flagged is of the path that was found gone, and that a version `convertSeen` knows
was handed off. `Agreeing` says where a calm scan stands, and is established by
every start of a scan, whatever it finds. `Seen`: the walk has seen exactly the
files of the paths it has passed, and the scan the files there are. `Looked`: but
for the watcher nobody carries an old look. `Comics`: once the walk is over, a
comic is still to be assigned, in a worker's hands, or recorded, by a row that
nobody is about to flag or to move; a row that `record` takes for a moved one has
no file (`MoverFindsNoFile`), so it is never such a row. `Lost`: a row without a
file is flagged or on the list. `HandedOff`: a file to convert is to come, in the
scanner's hand, or handed off. The scan visits what it has seen in order and
leaves nothing out because the next place it takes is the least (`NothingUpcoming`,
`NextUpcoming`).

**RenamesKeepTheirRow** (`Spec => []RenameKeepsRow`). The property speaks of the end
of a calm scan; what carries it is `Followed`, which holds at every step of the row
`owed` names, from the rename on and until the file, its content or the row is
disturbed. `KnownBy`: it is the one row of the content, and no other row is at the
file. `Sole`: no other file has the content. `LeftBehind`: where the row is, if it
has not moved yet, there is no file. `Borne`: whoever is in `record` with the
content is at the file, nobody is at the name left behind, and who is about to
write there has that row in hand. `SeenOnce`: a walk that has seen the old name has
not seen the new one and will not come to it. With `ContentsHeld` (a row about to be
moved is of the content found) and `WorksOnSeen` (a worker is at a path the walk has
seen) this is inductive. The lemma `OwedHasMoved` is the heart: whoever looks for
the content at the new name takes the row for a moved one, the watcher because the
old name has no file, a worker because `SeenOnce` leaves the old name out of what his
walk has seen. Then a calm scan's row of the content at the file (`CalmScansAgree`)
can only be that row.

**QueueStaysLive, OneOwnerAlways** (`Spec => []QueueIsLive`, `Spec => []OneOwner`;
`ImportQueueProofs.tla`). The inductive invariant is `OInv`. `Orderly`,
`OneHand` and `Kept` are the two properties: queued jobs are distinct, in stage
queued and without a context; a job has one goroutine that holds it, which is
then not in the queue; a live job out of the queue has one. They are not
inductive, because a first save that fails takes a job back from whoever has it,
and because recovery queues from a list that it read some steps earlier. So
`OneBringer` says that one goroutine at most is on its way from a job's new id to
its first save, and that recovery has not heard of a job whose row that save will
insert; `DeadInHand` that a held job which is not live was taken back, so that
nobody brings it again; `Unheard` that a free id is nowhere; `Endings` that who
ends a job ends it in a terminal stage; `RecoversAlone` that no worker runs before
recovery has gone through its list.

**ImportQueueIsWorkQueue** (`Spec => IsWorkQueue`): the refinement, for every
instance. The lemma `Steps` sorts what can happen: a goroutine goes on with its
job (`WorksOn`), lets it go (`LetsGo`), nobody's job changes hands (`Passes`), or
it is one of a few actions by name. Under `OInv` the first is a stutter of
`WorkQueue`, or its end of a job that is no longer live; the second ends or takes
back an item; recovery and the enqueues append one; `Pick` takes the front; a
cancel takes one from the line.

**QueueStaysOrdered** (`Spec => []QueueIsOrdered`). With `OInv` and
`CounterIsAhead`'s invariant an appended job has the largest number, and
what leaves the queue leaves the rest in order. A reorder gives every queued job
a new number, from the counter on, in its new place.

**InputIsKept, NoOrphans, FiledOnce, DoneMeansFiled** (`ImportQueueRowProofs.tla`).
One inductive invariant carries all four, `RInv`, on top of `OInv`. Each of them is
about what lasts (rows, directories, comics), and each step that could break it
is a write by a goroutine that looked at the job some statements earlier. So
`Told` says, for every place in the code, what the goroutine there may rely on: a
worker past its first save has a row that no longer says uploading and, for an
upload, a directory; who is about to drop a job from the live map has saved its
end, unless a late write came between; who sweeps a directory has a job that is
neither live nor unfinished; who is about to file has not filed in this process.
`JobTold` says the same of each job in the line or on recovery's list. `Accounted`
is `NoOrphanRow` for every moment of a start and not only for the time after
recovery: an unfinished row is live, or recovery has yet to come to it, or a drain
has set it aside. `Aside` says that a job put back by a drain is in nobody
else's hands, without which a second goroutine could remove the directory that
the next start will need.

The proof found two things that the first bounds of the runs did not reach. The
history variable `revived` (the jobs a late write brought back) missed a row that
was cleared while its ender was between its two critical sections, and a first
save that fails after a worker has already written the row: the failed hand-off
takes the job from the live map, the worker's `finish` then finds no job to end,
and the row stays unfinished until the next start. Both are what the code does;
`revived` and `queue_restarts` now include them.

**CapIsKept** (`Spec => []CapHolds`). Under `RInv` only `Begin`, which counts and
claims under one lock, makes an upload of the first process live. Recovery has
nothing to take back there: an unfinished row that is not live is on its list
only in a later process. The lemma `NoMoreLive` is the rest: no other step adds to
a user's live jobs.

**OneCopy** (`Spec => []OneServerWideCopy`, for one worker). `LooksFirst`: the one
goroutine between the look-up by content and the filing found nothing, and since
nobody else files, there is nothing still.

**LateSavesRevive** (`Spec => OnlyLateSavesRevive`). `PastRows`: who is past the first
save of a job, up to its filing or its requeue, is a worker, and the job's row has not
ended: who ends a job has it in hand (`OneHand`, and `Aside` for a requeue), and
recovery, which may fail the row of a job that is queued by now, is over before a
worker takes one. `Writes` sorts what a step may make of a row.

**GrantsTypes, InvitesPayOnce, RotationsAreLinear, RevokedStaysRevoked, AdminsRemain**
(`GrantsProofs.tla`). One inductive invariant carries all five, `IInv`. No property
is inductive: a call acts at a later statement on what it read at an earlier one.
`Calling` says what each call in hand has read and what still holds of it (the
account of a session is there or was deleted since; an invite read keeps whom it
is for), and `Linked` what the rows point at. `Unborn` and `Enrolments` say of
accounts to come that each is in one hand, a ceremony's or a call's, and that it
will be what its invite promised. The rest says of each property what the calls
under way may yet do to it. `PaidOut`: an invite has one passkey or one call past
its consumption, never both. `OneLeft`: a line of tokens has one thing left to
spend, its code, its refresh token or the call that exchanges one. `StaysCut`: a
line that was cut has nothing left and no call that will issue more, the access
token having gone before the refresh token. `Leaves`: a removed passkey's
sessions went with it. `NobodyYet` and `LastAdmin`: whoever comes first is an
admin, and a removal that has counted the admins leaves one, unless another
removal counted at the same time (`doubled`).

**OneItemOnePlace** (`WorkQueue`'s `Spec => []OnePlace`, with its types). An item
is in the line once, in one hand, or nowhere, for any numbers of items, workers
and callers. By the refinement it carries over to the import queue.

**TypesHold, NoneDangles, OwnersChange, OwnersExpose.** One inductive invariant
carries all four, `IInv` (`SharingProofs.tla`). What the tables say is not
enough: a write by id happens some statements after the check that allowed it.
`Checked` says that a check that has passed stays good until the write: a call
past an "own" step acts on a collection that is its caller's or gone, because a
collection never changes hands and an id is used once; a call that is to rename
or delete a comic is an admin's, or the comic is its caller's or gone. That
holds because only admins claim, of which `Linked` keeps that the owner of a
claimed comic is one, beside what the tables point at. `OneFiler` says that one
upload at most is between a comic's file and its row, so that the row's file is
there. `Asking` says that every call is at a step of one of the scripts, whose
shape (which step comes right before which) is `ScriptsFit`, and that only
admins' calls have the steps of admins. One lemma per write shows that it keeps
all of it, and two more that it changes, and brings into sight, only what it may.

**OrderStaysClear, RetagsCarryOver, EditsLand** (`SharingProofs.tla`). Each needs
what a call carries from one statement to a later one, on top of `IInv`. `Course`
sorts what a step makes of a call: it stays, begins, is cut off, or is one step
further and otherwise as it was (`Carries`). `Appending`: the place an INSERT was
given is past all that are taken, or the call has been overtaken; it is why
`MAX(position)` plus one is enough, and the count of the members would not be. A
reorder that lists every member gives each its own index. `Retelling`: what a retag
is to write covers what the account has now, but for what it drops. `Landing`: from
the second "own" of `updateCollection` on, the collection is the caller's and the
comic in sight; up to that check the collection may go, and then the check refuses
before anything is written, since what is gone stays gone (`GoneStays`). No
assumption says that orders are clear at the start: a collection whose order was not
counts as spoilt.

**FeedTypes, QuietPagesAreTrue, PagesAreTheirOwn** (`JobFeedProofs.tla`). That a
quiet page is true says nothing of a moment when something is under way, so it is
far from inductive. `FeedInv` says, topic by topic, why it will be true again.
`Right`: what a page's buffer will leave it with is how things are, or something
about the topic is still on its way to it (`Awaits`: a publication whose sockets are
not listed yet, a frame still to be sent to its socket, the admins' turn after the
owner's, a list its account has asked for), or one of the accidents has happened, or
its last set had no place for the job. That holds only because a frame which reaches
a buffer is good news: `Fresh` says of every frame on its way that it tells how
things are, or that something told later, or still to be told, corrects it, or that
`Behind` will count it as an accident. Frames that are made of rows are `AsRows`
until what is live is laid over them, and `OverlayFresh` is why that order is the
right one, for the jobs the frame has a place for (`Enters`, `Placed`; one it has
none for is in `beyond` when it is sent): it needs that a live job without a row is
about to save or to leave (`Rowless`), that nothing says more of a topic than memory
or its row (`Said`), and that the newest change has been told or is about to be
(`Telling`), so that a snapshot which missed a change is overtaken by the frame that
tells of it. `Kept` is what memory, row and publications of one topic have to do
with one another; `SentTo`, `Hides` and `Private` are why a page holds only what its
account may see. Nothing is assumed of the limit but that it is a positive number,
and nothing of when jobs have started. `QuietPageIsTrue` follows: with no
publication under way nothing is awaited, and with an empty buffer the page is what
`Right` says.

Only model-checked: liveness (`QueuedJobsEnd`, `RecoveryEnds`, `WorkersReturn`,
`ReplayFinishes`, `Converges`), which the proof system does not reach. Every safety
property of a passing run is proved.

## Not modelled

- *Offline downloads* (`web/src/offline/downloads.ts`): asynchronous functions
  over the browser's caches. Their races (a sign-out during a put; a cancelled
  download that removes the controller of its successor) are listed as hazards.
- *Page grouping* (`internal/imports/{collect,ingest,group}.go`): a function of its
  input without state, with unit tests of its own.
- *Archives, image codecs, PDF, OCR, covers*: data, no protocol.
- *Routing, headers, cookies, rate limits, wire types*: no state the properties
  are about. Who a call acts for is the beginning of the calls in `Sharing` and
  `Grants`.
- *The pages of the interface*, beyond the reading queue and the live lists.

## Plan

What was built, in order of what matters most to a user's data, and what is left:

1. `ImportQueue` with `WorkQueue`, `LibraryScan`, `ProgressSync`: done, and every
   safety property of theirs proved.
2. `JobFeed`, `Sharing`, `Grants`: the same.
3. `OfflineDownloads`: the interleavings of async functions at their awaits.
4. `PageGrouping`: operators checked against reference definitions.
