# A verification of Noteflare's worker

Noteflare (the repository in `src/`) is a realtime workspace of pages, tables and
diagrams on Cloudflare Workers. Its state lives in three stores with no
transaction across them: the SQLite storage of Durable Objects (one *room* per
page and content epoch, one *authority* per table), one D1 database, and R2
objects. Nearly every hard question about it is of one form: an operation makes
several writes, each in another store and each behind an `await`, while other
operations, crashes, expired leases and lost answers come in between; does what
users were told still hold?

This directory answers that question for the parts listed below, with TLA+
modules translated from the source, TLC runs on small instances, and proofs that
hold for every instance. `PROJECT.json` names, for every definition, the lines it
models, for every property the change of a definition that breaks it, and all
hazards found while reading, the ones no property covers included.

Paths are those of the repository. `document.ts`, `cleanup.ts` and the like are
under `src/worker/`.

## 1. The system

### Components, their state and their operations

| Component | State it keeps | Operations | Here |
|---|---|---|---|
| Document room (`document.ts`, Durable Object) | SQLite: `document_meta`, `update_events` / `update_chunks`, `api_operation_inputs`, alarm. Memory: Y.Doc, pending updates, the compaction in flight. R2: `current.bin`, projections. D1: `document_projections` | WebSocket sync and barrier, `onSave`, `onAlarm`, compaction, `/content`, `/api-mutate`, `/comment-anchor`, `/archive`, `/restore`, `/purge` | `DocumentRoom`, partly |
| Version restore (`document.ts`, `index.ts`) | `restore_recovery` in SQLite, `page_versions` and `pages.content_epoch` in D1, two snapshots in R2 | `/restore-version`, reconciliation at start and from alarms | `DocumentRestore`, partly |
| Page tree and permanent deletion (`index.ts`, `cleanup.ts`, migration 0091) | `pages`, `deletion_jobs`, `deletion_job_pages`, `deletion_targets` | create, move, archive, restore, accept a deletion, process a job | `PageDeletion`, partly |
| Attachment uploads (`index.ts`, `attachments.ts`) | `attachment_uploads`, `attachment_upload_parts`, `attachments`, multipart uploads and objects in R2 | create, put part, complete, abort; the cron's reaper | `AttachmentUpload`, partly |
| Outbox and delivery queue (`jobs.ts`) | `outbox`, `outbox_sweep_state`, a Cloudflare Queue | enqueue, sweep under a lease, consume, retry | `OutboxDelivery`, partly |
| Webhooks, notifications (`webhooks.ts`, `notifications.ts`) | `webhook_*`, `notifications`, `deliveries` | fan out, claim, send, settle | `OutboxDelivery`, partly |
| Date reminders (`date-reminders.ts`) | `date_reminders` | set, delete, reconcile, claim, deliver, sweep | `DateReminders`, partly |
| Jobs and workflows (`jobs.ts`, importer, exporter) | `jobs`, Workflow instances, staged pages and objects | start, run, cancel, clean up, retry, recover | `JobLifecycle`, partly |
| Table authority (`table-authority.ts`, Durable Object) | events, rows, receipts and projection checkpoints in SQLite; the projection in D1 | commands, subscription, projection, repair, stop and purge | `TableAuthority`, partly |
| Archive disconnect (`archive.ts`) | `archive_disconnect_targets` | claim, tell the room, complete | not modelled |
| Client durability (`collaboration-durability.ts`) | generation, acknowledged generation | edit, barrier, ack, reconnect | not modelled |
| Slack, AI, OAuth and MCP, accounts, access, search, shares, integrity, previews, browser client, scripts | mostly single D1 statements or external calls | | not modelled; reasons in `PROJECT.json` |

### How they interact

- A browser sends Yjs updates to the room over a WebSocket and then a *barrier*;
  the ack of the barrier is the promise that the updates are saved. The room
  buffers updates in memory, flushes them to its log, and by an alarm compacts
  the log: snapshot to R2, projection to R2, projection row and search rows to D1.
- The HTTP API mutates documents through the room's `/api-mutate`, with a receipt
  inside the document and an input row in SQLite, and answers after a compaction.
- Restoring a version gives the page a new epoch and with it a new room; the old
  room retires itself. D1's `pages.content_epoch` says which room counts.
- Archiving and permanently deleting a page go through D1 rows that the cron
  processes: disconnect the room, purge it, delete prefixes and objects.
- Uploads and deletions share tables: a deletion job takes over the keys of the
  sessions and attachments of its pages.
- Everything that must eventually reach someone (mail, Slack, webhooks, job
  starts) is an `outbox` row, swept into an at-least-once queue.

### What is hard here

Interleavings at every `await` of a Durable Object, whose input gate is open
during R2 and D1 calls; crashes and evictions between two stores; D1 batches and
R2 puts whose effect is there although the answer is an error; leases whose
holder goes on after they expire; routes that read, decide, and write in a later
statement; an alarm that is consumed by being delivered; ids chosen by clients
and used again. `hazards` in `PROJECT.json` lists them line by line.

## 2. The modules

Every action is the code between two awaits (or one write or call). A call
that fails may have taken effect before its failure is seen, and takes none later.
Where a group of alternatives differs only in what it read, it is one action.

### DurableDocument, DocumentRoom

`DurableDocument` is the abstract promise: what was confirmed or answered stays
saved, what is published was saved and only grows, until the page is erased.

`DocumentRoom` is the Durable Object of one page epoch.

| Model | Code |
|---|---|
| `doc`, `pending` | the Y.Doc as the set of the updates merged into it (merging is union, and idempotent); `pendingUpdates` |
| `log`, `lastSeq`, `snapSeq`, `dirty`, `readOnly`, `retired`, `hasMeta` | `update_events`, its AUTOINCREMENT mark, the columns of `document_meta` |
| `opInput`, receipts | `api_operation_inputs`; a receipt is part of the document, so an operation is applied iff its update is in `doc` |
| `r2snap`, `r2proj`, `proj`, `pageLive` | `current.bin`, `projections/<sequence>.json`, `document_projections`, the page's row with this epoch |
| `comp`, `want`, `garbage` | `compactOnce` between its awaits, callers that wait for it, superseded projections being deleted |
| `Wake`, `CheckEpoch`, `Load` | `onStart`, its D1 check, `onLoad` with the seed and the normalisation |
| `Receive`, `OnConnect`, `Barrier`, `OnSave`, `OnAlarm`, `ReadContent` | the handlers |
| `OpRequest` ... `OpError` | `/api-mutate`: admission, settling the receipt, replay, conditional check and application, compaction, answer |
| `CompactCapture` ... `CompactEnd`, `CompactFail` | `compactOnce`, one action for each await, failing at any |
| `Crash`, `DeletePage`, `Purge` | eviction at any point; the job of `cleanup.ts`, which purges rooms only after the rows are gone |

SQLite writes of the object are synchronous and its output gate holds messages
until they are durable, hence a crash loses memory only.

### PermanentDeletion, PageDeletion

`PermanentDeletion` is the abstract promise of `docs/OPERATIONS.md:396`: deletions take
whole groups of pages from the trash; from acceptance until its rows go in one step
nothing is restored, moved or created in a group; a page that stays keeps its
parent; and the ids of a group are free again only when its erasure has ended. It knows no
jobs, locks, requests or leases. `Promise` maps to it the live pages with their parents
(`Home`), those with an archive stamp (`Trash`), and the locked pages of the jobs
whose rows are there and of those whose targets are (`Groups`).

| Model | Code |
|---|---|
| `live`, `parent`, `stamp`, `epoch` | `pages`: row, `parent_id`, `archived_at` with `archive_operation_id`, `content_epoch` |
| `requests` | a route between its reads (`Admit*`) and its one write (`Write` / `Commit*`) |
| `phase`, `root`, `lock`, `todo`, `lease` | `deletion_jobs`, `deletion_job_pages`, `deletion_targets`, the fence in `next_attempt_at` |
| `rooms`, `objects` | room storages and R2 prefixes that are not empty |
| `Stage`, `Activate`, `Drop` | `acceptPageDeletion`: locks and targets are staged, one UPDATE activates them if they still describe the archived subtree |
| `Claim` ... `Finish`, `Release`, `Die` | `processDeletionJob`: rows, then targets, with failures, deaths and overlapping claims |

The triggers of migration 0091 (`MayInsert`, `MayMove`, `MayRestore`) are guards
of the writes they guard. `Subtree` is the closure that the recursive query
computes; on a cycle the query does not end (`Endless`) and the statement fails.
Compactions and version restores are one action each here.

### DocumentRestore

Each epoch has an object record `room[e]` and a storage record `store[e]`; D1 is
`current`, `archived`, `deleted`, `rows`; R2 is `snapshots` and `objects`. An edit
is one whose barrier was answered. `RequestRestore`, `Validate`, `PutBackup`,
`PutSeed`, `Commit`, `Check`, `Undo` are the restore between its awaits;
`Alarm`, `ReadEpoch`, `Reconcile`, `EndQuiet` the recovery. Callers queue for
compactions as they do in `compact()`, and a caller whose turn has come runs
before any other event (`TurnDue`: microtasks).

### AttachmentUpload

One attachment id. `row` and `parts` are the session, `mpu`, `held`, `object` R2,
`client` and `reaper` the invocations. A client request is a chain of actions
(`Begin` to `Insert`; `PutPart` to `RecordPart`; `Complete` to `Commit`; `Abort` to
`DeleteAborted`), each one write or call; the reaper claims a due session with
`Start` and handles it by its state. `next_attempt_at` is `due` and a fencing
token `lease`. The page is archived, brought back, accepted for deletion and
erased beside it. A session that a request has just renewed lives for 24 h
(`attachments.ts:35`) and outlives that request; the reaper's claim is 15 min
and may run out under it.

### DateReminders

One date of one page and the reminder of the person who wrote it.

| Model | Code |
|---|---|
| `row` | the row of `date_reminders`: its state, `generation`, due time, claim, `missing_since` |
| `doc`, `proj`, `open`, `member` | the room's content and its sequence, `document_projections`, `pages.archived_at`, whether the person may read the page |
| `PutRead`, `PutSave`, `Delete` | the routes that set and delete a reminder |
| `ReconcileRead` ... `ReconcileApply` | `reconcileDateReminders`, as the room's compaction and as a cron run call it |
| `Start` ... `Release`, `SweepPick` ... `SweepFail` | the cron's run: claim what is due, ask D1 and the room, deliver in one batch with its notification, then sweep |

The generation, the claim and the sequence of the projection are what the
writes compare; the model has an action for each read and each write between
which they may change. `sent` is the history of notifications.

### OutboxDelivery

A row of the outbox is a notification or an attempt of one webhook delivery.

| Model | Code |
|---|---|
| `outbox`, `early` | `outbox`: no row, `enqueued_at` NULL or set, `available_at` to come |
| `lease`, `sweep` | `outbox_sweep_state`; `sweepOutbox` between its statements (`Claim`, `Ask`, `Select`, `Send`, `Mark`, `Release`, `Rescan`, ...) |
| `queue`, `again` | messages for a row (ready, delayed, and the retries they took, counted for the row), messages that continue a sweep; delivered at least once, in any order |
| `consumer` | `consumeDeliveryMessage`, between the statements of `deliverNotification` and `deliverWebhook` |
| `delivery`, `hook` | the channel's row of `deliveries` with its token; `webhook_deliveries` |

Every retry costs one of the queue's `max_retries` (`wrangler.jsonc:63`), one that only
waits as well: a message that comes before `available_at`, or meets another's claim, goes
back with a delay (`DelayEnds`). When they are used up the queue may drop the message
(`Retry`). `outbox` has a limit of one, so that this happens; `outbox_fair` the real five,
which one mishap does not use up. With more failures than retries a notification stays
unsettled.

`Renew` is called four times in a sweep, each a step that may find the lease
lost. A message can be taken while its sender has not yet marked its row.

### JobLifecycle

One job that clones a template with a document and an attachment.

| Model | Code |
|---|---|
| `job`, `run` | the row of `jobs`; the Workflow instances, each between the writes of its callbacks |
| `page`, `room`, `att`, `objects` | what attempts stage: the page with its epoch, the rooms, the attachment's row and objects |
| `Start`, `Create`, `CreateFails`, `CreateExists` | `startJobWorkflow`, with a lost answer and the rotation of an instance that ended |
| `Load` ... `Publish`, `Catch` | `claimJobWorkflowRun`, the four steps of `runTemplateClone`, the handler of errors |
| `Cancel`, `RetryJob`, `RecoverRunning` | the routes and the cron's recovery |
| `ClaimCleanup` ... `Finish`, `LeaseRunsOut` | `finishPendingJobCleanup` with `cleanupTemplateClone` under its lease |

Terminating an instance ends no callback that is running: it may go on to its
end (`At`), in the middle of the next attempt. `stillOwned` asks D1 only
when the lease is due for renewal; the model asks each time, which is the same since
nobody takes a lease before it has run out. Cleaners are invocations without an
identity of their own: the first idle one is used, which stands for all.

### TableAuthority

The Durable Object of one table with two rows: row 2 is there from the seed on and
may be deleted; row 1 is created by a capture, whose row goes again when its
destination refuses it. A bulk command writes every row that is present, each in a
batch of its own.

| Model | Code |
|---|---|
| `table`, `entry`, `intent`, `stage`, `alarm` | SQLite of the object: `meta.revision`, `meta.projectedRevision` and the rows; receipt and event of each operation with `next_step`; `meta.repairIntent`; `deletionIntent` and `purged` |
| `request`, `projector`, `handler`, `repair` | memory: commands being served, `this.projecting`, the alarm handler, `this.repairWork` |
| `mirror`, `registry`, `open`, `released`, `job` | D1: the projected rows, `table_authority` with its fence and revision, whether the destination accepts captures, the captures that are published, the page's deletion |
| `Send`, `Reads`, `Commit`, `Refuse` | `POST /commands` between its awaits: the first `authorize` and the alarm, the second one's read of D1, and the transaction |
| `Batch`; `Advances`, `Cancels`, `Recovers`, `GivesUp` | a batch of `project()` in D1; what is made of its answer. Whoever awaits the projection goes on in the same turn (`Settle`) |
| `AlarmFires`, `OwnerRepairs` | `alarm()`, `POST /repair` |
| `RepairFence` ... `RepairFinish`, `RepairFails` | `performRepair`, a turn at a time: fence, drain, headers, rows, reconcile, verify, publish, each phase recorded before the next one |
| `AcceptDeletion`, `Stop`, `Stopped`, `RemoveRows`, `Purge` | the page's deletion (`cleanup.ts`), `stopForDeletion`, `purgeForDeletion` |
| `Crash`, `LoseRow`, `ChangeDestination` | eviction; D1 without a row that an event needs, for `missingProjectionParent`; a destination that opens or closes |

A row is the revision that wrote it, so that what D1 has can be compared with the
history of the table (`Value`): what a batch that is late, skipped or sent again leaves
behind is another revision.

## 3. The runs

Twelve runs, two workers, each within three minutes on a quiet machine. Deadlock is
checked in the two runs of the room and in the one of the table, where resting is an action of
its own; the other systems may rest (no request, page deleted, job ended, bounds used up).

| Run | Instance | Shows |
|---|---|---|
| `room_safety` | one edit, one operation, restored or new epoch, size limit 3 updates; every crash and failure point. 851,296 states | confirmed updates can be loaded again, answered operations are in the snapshot, an operation is applied once and not replayed by a restored epoch, a conditional one to what it named, a published projection exists, and the room implements `DurableDocument` |
| `room_liveness` | one edit that needs normalisation, fairness | a confirmed edit is projected or its page deleted, although the alarm of a failed compaction may not have been set |
| `deletion_safety` | 2 pages, 2 attempts, 1 worker, 2 requests, symmetry. 775,197 states | the tree with its jobs implements `PermanentDeletion`; one owner per page, the accepted subtree stays frozen, rows go only with their job, live content is never erased |
| `deletion_claims` | 1 page with 2 epochs, 2 workers, one expired lease, fairness | of the epochs that acceptance listed, a target leaves its job only with its room empty and the job ends with none left; every accepted deletion ends. 34,870 states |
| `restore_page` | 2 edits, 2 epochs, both rooms stop, archive, a waiting caller, symmetry. 233,823 states | the committed epoch has its snapshot, no leftovers once settled, the current room is writable, acknowledged edits of the replaced epoch are in a version or in the snapshot its room left |
| `restore_recovery` | 1 edit, a waiting caller, fairness. 13,822 states | a restore that was put off is resolved without a visit |
| `upload_sessions` | 2 requests, 2 reapers, 2 uploads, 1 part, fairness. 50,042 states | an attachment has its object, an aborted upload is nobody's to resume, no upload is dropped unaborted, a session ends |
| `reminders` | 1 cron run, both kinds of reminder, 2 edits, 1 request, 1 mishap, fairness. 152,236 states | a notification is about the reminder and the date as they are, a moment is notified once, what is due is settled, a reminder follows its date although a reconciliation is lost |
| `outbox` | 2 sweeps, 2 consumers, 1 notification, 2 mishaps, the queue's limit at one retry, symmetry. 1,475,990 states | a request to rescan is heard, a claim is settled by its holder |
| `outbox_fair` | 1 sweep, 1 consumer, a notification and a webhook delivery of 2 attempts, 1 mishap, five retries, fairness. 371,260 states | what was announced is settled |
| `jobs` | 2 attempts, 2 cleaners, 1 mishap, fairness. 514,997 states | what is published is whole, nothing takes what a running attempt staged, a job ends with its cleanup |
| `table` | a capture, a bulk command, 2 requests, 3 asks, 2 mishaps, fairness. 394,476 states | D1 is a prefix of the table's history unless it is fenced, an operation is committed once, a repair publishes the table as it is, nothing runs in an object that stopped, what is committed is projected, a fence is lifted |

**Why the bounds are enough.** The hazards are races of two: a room with a
compaction and an edit beside it, an operation and its retry, two attempts on a
parent and its child, a claim and its successor, a client and the reaper. Each
instance has both sides of its race, and one more round: a second compaction, a
second job under an id used again, a second upload under one key, a second
attempt of a job while the first one's cleaner is late. A *mishap* is a crash, a
call that fails, or a lease or claim that runs out under a holder that still
works; the instances have as many as their races need. Each property is broken, under
the very same bounds, by a one-line change of a mapped definition (the
operators marked *variant*), so none of them holds because its case cannot
happen. Three epochs, and with
them a room that reconciles after the page has moved on twice (`undoingLater`), were
checked for `restore_page` with fewer rooms that stop; the proofs of section 4 are for
all epochs, so the runs keep to two. Several cron runs
at a time, which `reminders` leaves to the proofs (they are for every set of runs), were checked
in the same way. Unbounded counters are cut by the constants marked *bound* in each module
(`MaxApply`, `MaxEpoch`, `MaxStamp`, `MaxRequests`, `MaxSteals`, `MaxWaiting`,
`MaxUploads`, `MaxAttempts`, `MaxCleaners`, `MaxMishaps`, `MaxEdits`, `MaxAsks`,
`MaxTime`); sequence numbers are bounded by the finite edits.

**Symmetry** is used in safety runs only. Edits, pages, jobs, sweeps and
consumers are permuted; nothing in a run that checks liveness is.

### Fairness

| Module | Assumed | Because |
|---|---|---|
| DocumentRoom | WF of `Wake` and `OnConnect`; SF of the steps of a start, of `OnSave` and `OnAlarm`, of each step of a compaction; WF of `CompactEnd` | the page is visited again, which is what brings back an alarm that could not be set; an alarm that is set fires (Cloudflare delivers alarms at least once); no R2 or D1 call fails for ever |
| PageDeletion | per worker WF of its work, SF of reading the targets, of performing some target, of the final write | cron runs for ever; the backoff is bounded, so each call is tried again; no store is down for ever |
| DocumentRestore | WF of a start caused by an alarm and of the end of the quiet period, SF of `Alarm`, `ReadEpoch`, `Reconcile` | as above; a visit is *not* assumed |
| AttachmentUpload | WF of a request in progress, of `Expire`, of the reaper; SF of its R2 call, its reads and its write while the claim is its own | a request ends, time passes, cron runs for ever, a claim is not always overtaken |
| DateReminders | WF of the cron's start and steps, of the compaction, of reconciliations, of claims and missing dates growing old; SF of asking the room and of the picks of a sweep | cron runs for ever and takes the oldest check first; mishaps are few |
| OutboxDelivery | WF of sweeps, consumers, of leases and claims running out, of `available_at` coming and delays ending | cron calls sweeps for ever, the queue delivers, time passes |
| JobLifecycle | WF of starting, of the instances, of cleaning, of recovery, each as one (not of each instance or cleaner) | `recoverQueuedJobs` runs from cron; Workflows go on with their instances |
| TableAuthority | WF of all the object does by itself, as one | the runtime goes on with what has begun and fires the alarm that is set |

A client that gives up and never returns is allowed everywhere.

## 4. What is proved

Each component has a module of proofs. Each proves an inductive invariant,
a lemma for each of its parts or for each group of actions, and the theorems that
follow. The runs check the properties; the inductive invariants are proved and,
being proved, not listed among the runs' properties. The theorems hold for
every value of the constants that satisfies the module's `ConstantsAssumption`,
the only assumption made: constants that stand for "nobody" are different from
what they stand against, and the bounds are numbers. One theorem, `LiveContentStays`,
assumes more and says so.

### The room: `DocumentRoomProofs`

For all sets of edits, operations and restored content, and every read-only size:

- `TypeCorrect`: the type invariant.
- `AckedIsRecoverable`: what a barrier confirmed can be loaded again, in every
  reachable state.
- `RepliedIsSnapshotted`: an answered operation is in the snapshot in R2.
- `RoomKeepsPromise`: the room implements `DurableDocument`.

`AckedRecoverable` is not inductive: that the log still has an update says nothing
about the compaction that is about to shorten it. The inductive invariant
`RoomInv` adds

- `LogOrdered`: the log lies above `snapshot_seq` and up to the high-water mark;
- `MemoryCovered`: a running room has the stored document in memory, and all it
  has in memory is stored or buffered;
- `CaptureCovers`: what a compaction captured includes the old snapshot and the
  log up to the sequence it will acknowledge;
- `AnswerCovered`: an operation that waits for its answer is in the snapshot or
  in an event its compaction acknowledges;
- `PromisesCovered`: what was confirmed, answered or published is stored.

`CaptureCovers` is the heart: a capture is consistent with the log at the
instant it is taken, because nothing awaits between the flush, the read of the
maximal sequence and the encoding of the document; all later steps only
replace the old snapshot with something larger and drop events the capture has.

The second half of the module is about the projection, the receipts and the conditions of
operations, for the same constants and any bound on faulty applications:

- `ProjectionHasObject`: the projection row names an object that exists.
- `OperationsApplyOnce`: an operation is applied once, whatever is sent again.
- `AnswersAreApplied`: nothing is answered as committed that this epoch did not apply.
- `ConditionalWritesAreCurrent`: a mutation with an `expectedSequence` is applied to
  the content that was answered with it.

Three invariants beside `RoomInv`. `ProjectionOrdered`: sequences grow while the page
lives, so whatever is deleted in the background is older than the row and than the capture
that will replace it; a retry with the *same* sequence is the case `Superseded`
excludes. `ReceiptCovered`: an application leaves its receipt in the snapshot or the log,
and only an application leaves a proof or an answer. `RevisionInv`: `dirty` may be
cleared before anything is stored, so it says little alone; a running room that is
not dirty has no log but the one its compaction captured (`CleanIsSettled`), that
compaction has an event to acknowledge (`CaptureIsNew`) and so moves `snapshot_seq` past
every answer given before, and an answer with the present `snapshot_seq` showed the
snapshot or something was logged since (`ViewsCurrent`).

### Permanent deletion: `PageDeletionProofs`

For all sets of pages, jobs, workers and requests, and all bounds:

- `DeletionTypeCorrect`: the type invariant.
- `OwnersAreSole`: no page is locked by two accepted deletions.
- `AcceptedStaysFrozen`: no route changes a locked page or puts a page below one.
- `DeletedStaysGone`: an id does not come back while its deletion has targets left.
- `RemovedWasLocked`: rows go only with a job that locked them, unchanged.
- `LiveContentStays`: erasing takes no content of a page that exists, *provided* no
  lease runs out under a working claim (`MaxSteals = 0`). With `WorkersHoldLease` a
  worker that erases holds the lease of a job in its cleanup phase, and that job's
  pages do not exist; an expired claim goes on without either (§5).
- `CompletedStaysErased`: for any number of expired leases, a target leaves an
  accepted job only when its room is empty, no room of the job's pages is filled
  again while the job has targets left, and the job disappears with none left
  (`CompletedIsErased`). It speaks of the epochs that acceptance listed: the code compares
  the stamps of the pages, not the targets, and §5 says how it may miss an epoch.
- `DeletionIsWhole`: the module implements `PermanentDeletion`.

A route decides on what it read and writes later, so the guards that count are those
of the write (the triggers of 0091). `AcceptedFrozen` says what they protect: every
locked page of an accepted job is live with the stamp it was locked with, its
children are locked, and it is the root or its parent is locked. As an
invariant that is inductive but for one thing: it does not say that the locked
pages hang together, and a set of pages in a cycle beside the root would satisfy it.
`DeletionInv` therefore adds `LockedIsSubtree` (before the rows go, what is locked
*is* the subtree of the root), with `RootLocked`, `RequestsStamped` (a request never
carries a stamp newer than the present, which keeps an old archive stamp from
matching a new subtree) and `WorkersHaveJobs`. The argument is one lemma
(`FrozenKept`, by way of `LeftAlone`): a step that leaves the locked pages and their
children alone leaves every conjunct alone; each action is then shown to be such a
step, or to lock or unlock a whole subtree.

`ErasureInv` carries the completeness of the erasure. `Fenced` speaks only of a worker
that still holds the lease, and says that the job is then in the phase the worker took
it for and that the target it is about to complete has an empty room; what a
claim without the lease still does may erase, but completes nothing. Such a room
stays empty because it belongs to a page that does not exist (`GoneStaysGone`,
`DeletedStaysEmpty`).

The refinement has one lemma for each kind of step: a route's write (`WritePromised`),
acceptance, the removal of the rows and the end of a job; all other steps
stutter (`JobSteps`). A write is a step of the promise because its trigger
asks for the groups (`MayInsert`, `MayMove`, `MayRestore`) and because what is in a group
is `Frozen`, which also gives that no page that stays hangs below those that go. The end of a job
takes one group from `erasing` and no other, since groups are disjoint and not
empty (`OneOwner`, `ErasingNotEmpty`).

### Uploads: `AttachmentUploadProofs`

For all numbers of requests, cron invocations, parts and uploads:

- `UploadTypeCorrect`: the type invariant.
- `AttachmentHasObject`: an attachment has its object.
- `AbortedStaysFenced`: an upload aborted in R2 has a session that no route resumes.
- `RecordedStaysFound`: no upload that had a session stays open with nothing to
  find it by, but for those that another's object answered for (`adopted`).

`UploadInv` adds what makes the claims and the order of the steps work:
`ObjectKnown` (whoever is about to say that the object is there has seen or put it, and
only a page that is gone lets the reaper erase it), `UploadsKnown` (a multipart
upload has one session in its life), `AbortIsSole` (a session a client aborts is
not due while the client is alive), `LeaseIsFence` (while a lease stands, the row
is what its holder read; an upload about to be given up has a row in `reaping`
or `aborting`) and `OpenIsAdopted`. `AbortIsSole` is where the 24-hour deadline is used:
`DELETE upload` removes the row by id and state, without a fencing token, and is right only
because no other route touches an aborting session before its deadline.

### Version restore: `DocumentRestoreProofs`

For any number of epochs and edits, whichever objects stop and whoever waits:

- `RestoreTypeCorrect`: the type invariant.
- `EpochHasSnapshot`: the page's epoch has its snapshot in R2.
- `CurrentStaysWritable`: the room of the page's epoch is not retired.
- `SettledStaysClean`: a room with nothing recorded has left nothing in R2.
- `LeftStaysKept`: a restore moves the page only with what was acknowledged
  before it.

`RestoreInv` speaks of pages that exist (a purge leaves the objects of a dying
restore behind). `AllOwn` is what each room knows while it is somewhere in a
restore: from `Validate` to its batch, and again in `Undo`, the page is at its epoch,
since no other room can move it from there; `undoingLater` is reached only when the
page is two epochs on; what is in memory is what `restore_recovery` records. From
this follow `SnapshotsAgree` (a snapshot above the page's epoch exists only while
the restore that put it is recorded) and `ObjectsAgree` (an object without a row is a
recorded backup), which are what makes the deletions safe: a room deletes
the snapshot of the epoch after its own, and never has its decision overtaken by a page that
arrives there. `CurrentKeeps` follows the acknowledged edits of the current epoch
through the log, the snapshot and a compaction's capture, and at the steps of a recorded
restore says that they are in its backup, or that the log is empty. The proof
has one lemma for each action, over three lemmas for a step that changes only a
room (`VersionStep`), puts what it recorded (`PutStep`) or deletes it (`DeleteStep`).

### The outbox: `OutboxDeliveryProofs`

For all sets of notifications, sweeps and consumers, and all batches and attempts:

- `OutboxTypeCorrect`: the type invariant.
- `ClaimIsKept`: a consumer that sends holds its claim, unless another one took it over.
- `RescansAreHeard`: no holder of the sweep lease ends as idle while a row is due
  whose caller it sent away.

The type invariant needs `Sound` (a sweep that may take another batch has not used up its
cap) and `Known` (a consumer at work has a row, one at a claim a notification).
`RescanHeard` is inductive with `AskedIsDue` (what somebody was sent away with
stays due until a batch has read it): while such a row is left, either `rescan_requested`
is set, or the holder is neither at its release nor in its last batch, the one that
is not full. The release is one conditional statement, and the one that takes
the request comes before the batch that looks.

### Date reminders: `DateRemindersProofs`

For any number of cron runs, moments, edits and requests:

- `RemindersTypeCorrect`: the type invariant.
- `NotificationsAreCurrent`: a notification is about the reminder and the date as
  they are when it goes in.
- `MomentIsNotifiedOnce`: a moment that was asked for once is notified once.

`Follows` is the heart: what a process holds is right as long as the row has the
generation, and the projection the sequence, that the process read; both only grow, so
what has stopped to match never matches again. `SentPast` gives the second
theorem: within one request a reminder is moved only forward, past every moment
that was notified.

### Tables: `TableAuthorityProofs`

For all sets of captures, bulk commands, requests and fragile rows, and all bounds:

- `TableTypeCorrect`: the type invariant.
- `TableStoppedIsQuiet`: nothing runs in an object that has said that it stopped.
- `TableCommittedOnce`: an operation has one event, whatever is sent again.
- `TableMirrorIsPrefix`: unless a repair is under way, D1 holds a prefix of the table's history.
- `TablePublishedIsCanonical`: what a repair publishes is the table.

`TableInv` is the inductive invariant. `Revisions` says that the events have the
revisions after the seed, each of one event, so that the next event is always the one of
`projected + 1` (`EventIsNext`), and `Recorded` that the table is what its history makes it
(`Value`), but for rows of cancelled captures. `Projected`, by way of `Sending`, is the heart: D1 names the
revision that is projected, or the next one when its last batch is in and the answer is
not; in the first case a row is that of the one or the other revision, only rows of
batches that were sent are ahead, and all rows of batches that were answered are. A batch
that is sent again therefore finds its row ahead or not and makes the same of it. While a
repair is under way nothing is said of D1's rows until it has compared them:
`Rebuilt` keeps the revision it recorded equal to the table's (commands are fenced and
no projection runs, `ProjectorAt`), and from the comparison to the publication D1 is
the table. The end of a repair is where both meet: everything is projected by
`Rebuilt`, and D1 is at the last revision by `Recorded`. Two facts come from outside the
steps: what an event wrote last is the value of a row (`ValueWritten`, `ValueLeft`,
`ValueKept`), and a set of revisions has a greatest (`GreatestExists`, from the
well-foundedness of the naturals in the library), which makes `Value` well defined.

### Jobs: `JobLifecycleProofs`

For all numbers of starters, cleaners, attempts and mishaps:

- `JobTypeCorrect`: the type invariant, and with it that an instance can always be replaced.
- `PublishedIsWhole`: a job that succeeded has published its page, and what is published
  has its content, its attachment's row and the object.
- `RunningKeepsStaged`: nothing takes what the running attempt has staged.

`JobInv` rests on two facts about attempts. `RunAt`: an attempt has one instance that claims the
job, since an instance is replaced only while the job is queued, and what an instance
of an earlier attempt still does carries that attempt's number. `CleanerAt`: the attempt of a
cleaner is over, and the epoch and the keys it will delete are of that attempt or an
earlier one, so that a cleaner that is late takes nothing of the attempt that runs. `StagedSoFar` is what the
running instance may rely on at each of its callbacks, and at the last one it is
what `SucceededIsWhole` asks for; a step of anybody else keeps it (`Keeps`). `IdsLeft`
counts the ids: each attempt takes one, and the instance of a queued job is replaced
only after a mishap (`Spoilt`).

**Only model-checked**: liveness (fairness and ENABLED are outside the prover). Every
other property of a run is a theorem. Nothing proved is recursive. The type
invariants are proved, and for that reason in no run.

## 5. What was met while modelling

No run is a violation. These are behaviours the models reach and no property
excludes; the hazards of `PROJECT.json` give their lines.

- Two moves that were both checked for a cycle (`index.ts:4123-4155`) can form one,
  although each request alone is refused (4131).
- A restore whose room has a plain caller waiting behind a compaction may save no
  last version of the replaced epoch (`document.ts:3274`, 1921-1925), which
  `docs/BACKUP_AND_RECOVERY.md:110-111` lets one expect. `LeftIsKept` is what does
  hold, at the instant the page moves: the edits are in a version, or in the snapshot
  that the replaced room has left in R2. In the latter case nothing lists them. If the
  room of the epoch *before* is still to reconcile its own restore then, it deletes
  that snapshot later (`document.ts:3148-3151`, "no longer reachable from
  D1"), and the edits are nowhere; three epochs are needed for this.
- The insertion of the staged page has no condition on its job
  (`jobs.ts:607-630`), and a callback that is running when its instance is
  terminated goes on: a cancelled job may be left with a staged page, that nobody
  sees, until a retry fences it. `StagedIsKept` and `SucceededIsWhole` hold
  nevertheless.
- Cleanup lists the objects to delete by the rows of the attachments
  (`jobs.ts:822-828`): an object that was put and whose row was not yet inserted
  stays in R2 when its attempt is cleaned up.
- Two messages for one webhook delivery post it twice, and a late failure
  overwrites *sent* by its id (`webhooks.ts:674-698`). `outbox_fair`, with its one
  consumer, is about the delivery of one message after the other.
- `document.ts:778` says that a purged room cannot restart without its tombstone.
  The check with D1 is made only when `document_meta` was missing, and the start
  inserts it (731) before the check: a start that fails there leaves a room that
  starts as an ordinary one the next time.
- `index.ts:4513` re-uses an archive stamp it read. If the page, or a child of it, is
  restored in between, gets a new epoch by a version restore and is then archived by
  that request, it has the stamp a staged deletion locked it with: the deletion is accepted
  (`cleanup.ts:654-657`) with a target list that lacks the new epoch, whose room is never
  purged, although "the job purges each document epoch's Durable Object"
  (`docs/OPERATIONS.md:93`). One page, two epochs, one stamp, two requests and one job show
  it, one request more than `deletion_claims` has. `CompletedIsErased` is therefore stated of the
  epochs that acceptance listed, and nothing is claimed of the others.
- `processTarget` (`cleanup.ts:786`) looks at no lease: a claim that outlived its lease
  goes on through its list, and would erase the content of a page that was created
  again under the same id after its successor had finished. `LiveContentKept` is
  therefore stated of instances in which no lease runs out under a working claim.
- `cleanup.ts:1073` completes the targets of a job in any order, while
  `docs/OPERATIONS.md:93-94` describes purge before erasure.
- The alarm that `table-authority.ts:564` sets before a command may be delivered before the
  command commits (566) and finds nothing to project. A crash after the commit then leaves an
  event pending and no alarm, until the next visit. `CommittedIsProjected` excepts it (`orphaned`).
- The batch of a capture that D1 refuses is followed by one without effect that only moves the
  revision (`table-authority.ts:2696-2720`). If that batch fails and the destination is opened before it is tried again, the
  capture is published in D1 although the table has dropped its row and its receipt says
  that the publication failed. `MirrorIsPrefix` leaves rows of cancelled captures out; the
  next repair removes them (`PublishedIsCanonical`).
- An event whose row D1 lacks is tried for ever: only a repair that an owner starts restores
  the parent (`AwaitsOwner`). If the row is one of a cancelled capture, the repair is blocked as
  long as events are pending that a rebuild cannot skip, and writes stay fenced.
- The error of a broadcast (`workspace-events.ts:321`) ends a projection of `table-authority.ts` whose
  batch D1 has applied; the alarm goes on from there.
- `index.ts:5525` aborts an upload whose session was inserted when the answer was
  lost, and returns that session to the client as a replay.

## 6. What is not modelled

- **DocumentRoom**: documents that can never be projected, the D1-then-R2 read of
  `/content`, comment anchors, capabilities of connections, `initialize`,
  contributors, mentions and `notify_edit`, diagram rooms (`compactDiagram`
  mirrors `compactOnce`). `readOnly` by size is modelled, the size itself is a
  number of updates.
- **DocumentRestore**: the branch without a recovery row, `pruneVersions`,
  version objects of failed compactions. `setAlarm` is assumed not to fail.
- **PageDeletion**: targets of tables and attachments, evidence rows,
  disconnect targets of archived pages, staging in several batches (invisible to
  every guard until the activation compares it with the tree).
- **AttachmentUpload**: the single-request upload, the deletion of an attachment,
  downloads; sizes and hashes (one id has one content).
- **DateReminders**: pages with several dates and persons, time zones and the
  arithmetic of offsets, the pruning of cancelled rows, diagrams and tables.
- **OutboxDelivery**: the topics of Slack, what becomes of messages in the dead letter
  queue (nothing reads it), a wait of more than twelve hours, which takes a second
  retry (`jobs.ts:2531`), fan-out to recipients, digests, subscriptions of webhooks and their signatures.
- **JobLifecycle**: the other types of jobs, templates that are tables, the requeue
  of captures, `WORKFLOW_INLINE`; the deletion or archiving of the template
  or the destination meanwhile. R2's calls of one attempt are one key each.
- A store that applies a call after it has reported its failure.
- **TableAuthority**: columns, views, formulas and conversions, which are functions of the
  schema; seeding, subscriptions, the deletion of single rows, the pruning of events, the cursors
  and the bookkeeping phase of a repair and the normalisation of an intent written by an
  older version. Two rows stand for all.
- **Slack**, the importers and exporters, and the browser client are large
  (a third of the lines) and consist mostly of translation and presentation;
  their state is rows handled by single statements, or Yjs documents.
- All other components marked so in the table above, for the reasons in
  `PROJECT.json`. Together they are most of the repository's lines: the map
  covers the protocols, a small part of the code by its size.

## 7. What could follow

1. `ArchiveDisconnect`, composed with the room's `read_only`: the lease of
   `archive.ts` with `next_attempt_at` as its fence.
2. `ClientDurability` composed with `DurableDocument`: what the browser shows as
   saved is saved; with the capabilities of the room's connections.
3. `TableAuthority`: the deletion of single rows (`deleteJobRow` projects after awaits without
   asking again whether a repair runs), subscriptions, seeding.
4. `AttachmentUpload`: single-request upload and deletion; `DocumentRoom`: comment
   anchors, two-step content reads, `compactDiagram`.
5. `JobLifecycle` for the other types of jobs, imports above all.

Runs stay few: small modules share a run where they share an instance.
