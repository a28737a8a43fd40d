--------------------------- MODULE DocumentRestore ---------------------------
(***************************************************************************)
(* Restoring a version of a document (src/src/worker/document.ts): the     *)
(* room of the current epoch saves what it has, puts the chosen version    *)
(* under the next epoch's key and moves the page to that epoch in D1.      *)
(* Each epoch has a room, a Durable Object that outlives its epoch.        *)
(*                                                                         *)
(* Nothing spans the three stores.  The room first records durably what it *)
(* is about to do (restore_recovery); an answer that does not arrive is    *)
(* looked up in D1, and what cannot be looked up is reconciled later, from *)
(* an alarm or when the object starts again.                               *)
(*                                                                         *)
(* An edit is one whose barrier was answered: DocumentRoom has the buffer  *)
(* and the log behind that answer.  A compaction is here for the version   *)
(* it may leave and for what waits behind it.                              *)
(***************************************************************************)
EXTENDS Integers, Sequences, FiniteSets

CONSTANTS
  Edit,       \* edits, each made once
  MaxEpoch,   \* bound: epochs of the page
  MaxWaiting, \* bound: calls without a version that wait for a running compaction
  Stopping,   \* bound: rooms whose object may stop
  Archiving   \* bound: whether the page is ever archived

ASSUME ConstantsAssumption ==
  /\ MaxEpoch \in Nat \ {0} /\ MaxWaiting \in Nat
  /\ Stopping \subseteq 1..MaxEpoch /\ Archiving \in BOOLEAN

Room == 1..MaxEpoch
Version == [kind: {"saved", "backup"}, epoch: Room, seen: SUBSET Edit]
Snapshot == [exists: BOOLEAN, seen: SUBSET Edit]
Missing == [exists |-> FALSE, seen |-> {}]
Stored(seen) == [exists |-> TRUE, seen |-> seen]

VARIABLES
  current,   \* pages.content_epoch
  archived,  \* pages.archived_at is set
  deleted,   \* the page has no row
  rows,      \* page_versions
  snapshots, \* R2: current.bin of each epoch
  objects,   \* R2: the snapshots of versions
  store,     \* the storage of each room
  room,      \* the object of each room
  acked      \* edits of each epoch that were acknowledged

page == <<current, archived, deleted>>
r2 == <<snapshots, objects>>
vars == <<page, rows, r2, store, room, acked>>

Down == [status |-> "down", pc |-> "idle", purged |-> FALSE, doc |-> {}, dirty |-> FALSE,
         running |-> "none", seen |-> {}, put |-> FALSE, waiting |-> <<>>,
         latch |-> FALSE, chosen |-> {}, backup |-> {}]
Blank == [meta |-> FALSE, retired |-> FALSE, pending |-> FALSE, backup |-> {},
          deferred |-> FALSE, quiet |-> FALSE, alarm |-> FALSE, log |-> {}]

Caller == {"plain", "restore", "archive"}
Step == {"idle", "validating", "compacting", "backingUp", "seeding", "committing",
         "checking", "undoing", "reconciling", "undoingOld", "undoingDeleted",
         "undoingLater", "archiveReading", "archiving"}

TypeOK ==
  /\ current \in Room /\ archived \in BOOLEAN /\ deleted \in BOOLEAN
  /\ rows \in SUBSET Version /\ objects \in SUBSET Version
  /\ snapshots \in [Room -> Snapshot] /\ acked \in [Room -> SUBSET Edit]
  /\ store \in [Room ->
       [meta: BOOLEAN, retired: BOOLEAN, pending: BOOLEAN, backup: SUBSET Version,
        deferred: BOOLEAN, quiet: BOOLEAN, alarm: BOOLEAN, log: SUBSET Edit]]
  /\ room \in [Room ->
       [status: {"down", "starting", "up"}, pc: Step, purged: BOOLEAN, doc: SUBSET Edit,
        dirty: BOOLEAN, running: Caller \cup {"none"}, seen: SUBSET Edit, put: BOOLEAN,
        waiting: Seq(Caller), latch: BOOLEAN, chosen: SUBSET Edit, backup: SUBSET Version]]
  /\ \A e \in Room : store[e].backup # {} => store[e].pending

Init ==
  /\ current = 1 /\ archived = FALSE /\ deleted = FALSE
  /\ rows = {} /\ objects = {} /\ snapshots = [e \in Room |-> Missing]
  /\ store = [e \in Room |-> Blank] /\ room = [e \in Room |-> Down]
  /\ acked = [e \in Room |-> {}]

-----------------------------------------------------------------------------

Set(e, m, s) == room' = [room EXCEPT ![e] = m] /\ store' = [store EXCEPT ![e] = s]

IsCurrent(e) == ~deleted /\ current = e
\* A caller that waited for a compaction goes on as soon as it has ended.
TurnDue(e) == room[e].running = "none" /\ room[e].waiting # <<>>
Up(e) == room[e].status = "up" /\ ~room[e].purged /\ ~TurnDue(e)
InTransition(m) ==
  m.pc \in {"compacting", "backingUp", "seeding", "committing", "checking", "undoing",
            "archiving"}
Busy(e) == room[e].pc # "idle" \/ store[e].pending
Closed(e) == store[e].retired \/ store[e].pending \/ InTransition(room[e])

-----------------------------------------------------------------------------
(* The page in D1 and the end of a room.                                   *)

ToggleArchived ==
  /\ ~deleted /\ Archiving
  /\ archived' = ~archived
  /\ UNCHANGED <<current, deleted, rows, r2, store, room, acked>>

\* The rows of an archived page go, its versions with it.
DeletePage ==
  /\ archived /\ ~deleted
  /\ deleted' = TRUE /\ rows' = {}
  /\ UNCHANGED <<current, archived, r2, store, room, acked>>

\* /purge: cleanup empties the room, whatever it is doing.
Purge(e) ==
  /\ deleted /\ e <= current /\ room[e].status # "starting" /\ ~room[e].purged /\ ~TurnDue(e)
  /\ Set(e, [room[e] EXCEPT !.status = "up", !.purged = TRUE], Blank)
  /\ UNCHANGED <<page, rows, r2, acked>>

\* The object is evicted or its process dies.  An alarm whose handler did not
\* end is delivered again.
Stop(e) ==
  /\ e \in Stopping /\ room[e].status # "down"
  /\ Set(e, Down, [store[e] EXCEPT !.alarm =
       @ \/ (room[e].status = "up" /\ ~room[e].purged
             /\ room[e].pc \in {"reconciling", "undoingOld", "undoingDeleted", "undoingLater"})])
  /\ UNCHANGED <<page, rows, r2, acked>>

-----------------------------------------------------------------------------
(* onStart.                                                                *)

\* The object has its document: the snapshot and the log.
Loaded(e, s) ==
  [Down EXCEPT !.status = "up", !.dirty = (s.log # {}),
               !.doc = (snapshots[e].seen \cup s.log), !.latch = room[e].latch]

\* The log of a room that starts for the first time is its snapshot.
Seeded(e) ==
  LET s == [Blank EXCEPT !.meta = TRUE, !.retired = ~IsCurrent(e)]
  IN IF s.retired \/ ~snapshots[e].exists THEN s
     ELSE [s EXCEPT !.log = snapshots[e].seen, !.alarm = TRUE]

\* Rooms are addressed by an epoch the page has reached.
Start(e) ==
  /\ room[e].status = "down" /\ e <= current
  /\ IF ~store[e].meta THEN Set(e, Loaded(e, Seeded(e)), Seeded(e))
     ELSE IF store[e].pending
     THEN Set(e, [Down EXCEPT !.status = "starting", !.latch = TRUE, !.pc = "reconciling",
                              !.backup = store[e].backup], store[e])
     ELSE Set(e, Loaded(e, store[e]), [store[e] EXCEPT !.alarm = @ \/ store[e].log # {}])
  /\ UNCHANGED <<page, rows, r2, acked>>

\* reconcilePendingRestore returns: onStart goes on, or the alarm is over.
Reconciled(e, s) ==
  Set(e, IF room[e].status = "starting" THEN Loaded(e, s) ELSE [room[e] EXCEPT !.pc = "idle"], s)

-----------------------------------------------------------------------------
(* Edits and compaction.                                                   *)

\* An edit is applied, flushed and acknowledged.
Save(e, x) ==
  /\ Up(e) /\ ~Closed(e)
  /\ \A f \in Room : x \notin acked[f]
  /\ Set(e, [room[e] EXCEPT !.doc = @ \cup {x}, !.dirty = TRUE],
            [store[e] EXCEPT !.log = @ \cup {x}, !.alarm = TRUE])
  /\ acked' = [acked EXCEPT ![e] = @ \cup {x}]
  /\ UNCHANGED <<page, rows, r2>>

\* compactOnce up to its first await: the dirty flag is handed over when the
\* document is captured, and there is nothing to do without a log.
Capture(m, s, caller) ==
  IF s.log = {} THEN [m EXCEPT !.dirty = FALSE]
  ELSE [m EXCEPT !.dirty = FALSE, !.running = caller, !.seen = m.doc, !.put = FALSE]

\* compact: one compaction runs, the callers behind it wait in their order.
Compacting(m, s, caller) ==
  IF m.running = "none" /\ m.waiting = <<>> THEN Capture(m, s, caller)
  ELSE [m EXCEPT !.waiting = Append(@, caller)]

Unfinished(m) == m.running # "none" \/ m.waiting # <<>>

\* A request for the content, or an alarm outside a restore.
Compact(e) ==
  /\ Up(e) /\ room[e].dirty
  /\ Unfinished(room[e]) => Len(SelectSeq(room[e].waiting, LAMBDA c : c = "plain")) < MaxWaiting
  /\ Set(e, Compacting(room[e], store[e], "plain"), store[e])
  /\ UNCHANGED <<page, rows, r2, acked>>

\* variant: the key of the backup is not recorded
RecordedSeed(e, m, s, backup) ==
  Set(e, [m EXCEPT !.pc = IF backup = {} THEN "seeding" ELSE "backingUp", !.backup = backup],
         [s EXCEPT !.pending = TRUE, !.deferred = FALSE, !.quiet = FALSE])

\* recordRestoreRecovery: what will be written is durable before it is.
Recorded(e, m, s, backup) ==
  Set(e, [m EXCEPT !.pc = IF backup = {} THEN "seeding" ELSE "backingUp", !.backup = backup],
         [s EXCEPT !.pending = TRUE, !.backup = backup, !.deferred = FALSE, !.quiet = FALSE])

\* A caller's compaction has ended well, or had nothing to do.
Ended(e, m, s, caller) ==
  \/ caller = "plain" /\ Set(e, m, s)
  \/ caller = "archive" /\ Set(e, [m EXCEPT !.pc = "idle"], s)
  \/ caller = "restore" /\ ~m.purged /\ Recorded(e, m, s, {})
  \/ caller = "restore" /\ m.purged /\ Set(e, [m EXCEPT !.pc = "checking"], s)

\* The next caller gets its turn.
Turn(e) ==
  LET caller == Head(room[e].waiting)
      m == [room[e] EXCEPT !.waiting = Tail(@)]
  IN /\ TurnDue(e)
     /\ IF store[e].log = {}
        THEN Ended(e, Capture(m, store[e], caller), store[e], caller)
        ELSE Set(e, Capture(m, store[e], caller), store[e])
     /\ UNCHANGED <<page, rows, r2, acked>>

\* The snapshot is put in R2.
PutSnapshot(e) ==
  /\ room[e].running # "none" /\ ~room[e].put
  /\ snapshots' = [snapshots EXCEPT ![e] = Stored(room[e].seen)]
  /\ room' = [room EXCEPT ![e].put = TRUE]
  /\ UNCHANGED <<page, rows, objects, store, acked>>

Saved(e) == [kind |-> "saved", epoch |-> e, seen |-> room[e].seen]

\* variant: the log is emptied, with what came after the capture
TrimmedAll(e) == store[e].log \ room[e].doc

\* What the log keeps: what came after the capture.
Trimmed(e) == store[e].log \ room[e].seen

\* The batch in D1, with a version when it was asked for or when one is due, if
\* the page is still at the room's epoch; the log is trimmed up to the capture.
FinishCompaction(e) ==
  /\ room[e].running # "none" /\ room[e].put
  /\ \E saves \in {room[e].running # "plain", TRUE} :
       IF saves /\ IsCurrent(e)
       THEN rows' = rows \cup {Saved(e)} /\ objects' = objects \cup {Saved(e)}
       ELSE UNCHANGED <<rows, objects>>
  /\ Ended(e, [room[e] EXCEPT !.running = "none", !.seen = {}, !.put = FALSE],
           [store[e] EXCEPT !.log = Trimmed(e)], room[e].running)
  /\ UNCHANGED <<page, snapshots, acked>>

\* The compaction fails: the document is dirty again.
FailCompaction(e) ==
  LET m == [room[e] EXCEPT !.running = "none", !.seen = {}, !.put = FALSE,
                           !.dirty = ~room[e].purged]
  IN /\ room[e].running # "none"
     /\ Set(e, [m EXCEPT !.pc = IF room[e].running = "restore" THEN "checking"
                                ELSE IF room[e].running = "archive" THEN "idle" ELSE @],
            [store[e] EXCEPT !.alarm = @ \/ ~room[e].purged])
     /\ UNCHANGED <<page, rows, r2, acked>>

-----------------------------------------------------------------------------
(* The archive transition.                                                 *)

RequestArchive(e) ==
  /\ Up(e) /\ ~Busy(e)
  /\ room' = [room EXCEPT ![e].pc = "archiveReading"]
  /\ UNCHANGED <<page, rows, r2, store, acked>>

\* Connections are closed and what is not compacted is, with a version.
Archive(e) ==
  LET m == [room[e] EXCEPT !.pc = "archiving"]
  IN /\ room[e].pc = "archiveReading"
     /\ IF IsCurrent(e) /\ archived /\ Up(e) /\ ~store[e].retired /\ room[e].dirty
        THEN Set(e, Compacting(m, store[e], "archive"), store[e])
        ELSE Set(e, [m EXCEPT !.pc = "idle"], store[e])
     /\ UNCHANGED <<page, rows, r2, acked>>

-----------------------------------------------------------------------------
(* restoreVersionOnce.                                                     *)

RequestRestore(e) ==
  /\ Up(e) /\ ~Busy(e) /\ ~store[e].retired /\ e < MaxEpoch
  /\ room' = [room EXCEPT ![e].pc = "validating"]
  /\ UNCHANGED <<page, rows, r2, store, acked>>

Refuse(e) ==
  /\ room[e].pc = "validating"
  /\ room' = [room EXCEPT ![e].pc = "idle"]
  /\ UNCHANGED <<page, rows, r2, store, acked>>

Backup(e) == [kind |-> "backup", epoch |-> e, seen |-> room[e].doc]

\* The version was read.  Connections are closed, and what is dirty is
\* compacted with a version; a room that is not dirty backs its document up.
Validate(e, v) ==
  LET m == [room[e] EXCEPT !.pc = "compacting", !.chosen = v.seen]
  IN /\ room[e].pc = "validating" /\ v \in rows \cap objects
     /\ Up(e) /\ ~store[e].retired
     /\ IF room[e].dirty
        THEN Set(e, Compacting(m, store[e], "restore"), store[e])
        ELSE Recorded(e, m, store[e], {Backup(e)})
     /\ UNCHANGED <<page, rows, r2, acked>>

To(e, pc) == room' = [room EXCEPT ![e].pc = pc] /\ UNCHANGED store

\* A put may reach R2 although it fails; the exception is handled the same way
\* in either case.
PutBackup(e) ==
  /\ room[e].pc = "backingUp"
  /\ \/ objects' = objects \cup room[e].backup /\ (To(e, "seeding") \/ To(e, "checking"))
     \/ UNCHANGED objects /\ To(e, "checking")
  /\ UNCHANGED <<page, rows, snapshots, acked>>

PutSeed(e) ==
  /\ room[e].pc = "seeding"
  /\ \/ /\ snapshots' = [snapshots EXCEPT ![e + 1] = Stored(room[e].chosen)]
        /\ To(e, "committing") \/ To(e, "checking")
     \/ UNCHANGED snapshots /\ To(e, "checking")
  /\ UNCHANGED <<page, rows, objects, acked>>

Cleared(s, retired) ==
  [s EXCEPT !.retired = retired, !.pending = FALSE, !.backup = {},
            !.deferred = FALSE, !.quiet = FALSE]

\* clearRestoreRecovery, which leaves a purged room alone.
Clear(e, m, retired) ==
  Set(e, m, IF m.purged THEN store[e] ELSE Cleared(store[e], retired))

\* variant: no alarm is set for the next attempt
DeferUnarmed(m, s) == IF m.purged THEN s ELSE [s EXCEPT !.deferred = TRUE, !.quiet = TRUE]

\* deferRestoreReconciliation.
Defer(m, s) ==
  IF m.purged THEN s ELSE [s EXCEPT !.deferred = TRUE, !.quiet = TRUE, !.alarm = TRUE]

\* markRestoreCommitted: that the room is retired may fail to be stored.
Committed(e) ==
  \/ Clear(e, [room[e] EXCEPT !.pc = "idle"], TRUE)
  \/ To(e, "idle")

MayCommit(e) == IsCurrent(e) /\ ~archived

\* The batch moves the page and registers the backup, or changes nothing; its
\* answer may be lost.
Commit(e) ==
  /\ room[e].pc = "committing"
  /\ \/ /\ MayCommit(e)
        /\ current' = e + 1 /\ rows' = rows \cup room[e].backup
        /\ Committed(e) \/ To(e, "checking")
     \/ /\ ~MayCommit(e) /\ To(e, "undoing") /\ UNCHANGED <<current, rows>>
     \/ To(e, "checking") /\ UNCHANGED <<current, rows>>
  /\ UNCHANGED <<archived, deleted, r2, acked>>

\* variant: a batch that failed is taken for one that changed nothing
CheckNothing(e) ==
  /\ room[e].pc = "checking" /\ To(e, "undoing")
  /\ UNCHANGED <<page, rows, r2, acked>>

\* What happened is looked up in D1, which may fail as well.
Check(e) ==
  /\ room[e].pc = "checking"
  /\ \/ IsCurrent(e + 1) /\ Committed(e)
     \/ IsCurrent(e) /\ To(e, "undoing")
     \/ Set(e, [room[e] EXCEPT !.pc = "idle"], Defer(room[e], store[e]))
  /\ UNCHANGED <<page, rows, r2, acked>>

\* deleteRestoreObjects: both deletions are tried.
Delete(seeds, backups) ==
  /\ snapshots' = [f \in Room |-> IF f \in seeds THEN Missing ELSE snapshots[f]]
  /\ objects' = objects \ backups

\* cleanupUncommittedRestore.
Undo(e) ==
  /\ room[e].pc = "undoing"
  /\ \/ /\ Delete({e + 1}, room[e].backup)
        /\ Clear(e, [room[e] EXCEPT !.pc = "idle"], FALSE)
     \/ /\ \E seeds \in SUBSET {e + 1}, backups \in SUBSET room[e].backup : Delete(seeds, backups)
        /\ Set(e, [room[e] EXCEPT !.pc = "idle"], Defer(room[e], store[e]))
  /\ UNCHANGED <<page, rows, acked>>

-----------------------------------------------------------------------------
(* onAlarm and reconcilePendingRestore.                                    *)

\* The time of the next attempt has come.
EndQuiet(e) ==
  /\ store[e].quiet
  /\ store' = [store EXCEPT ![e].quiet = FALSE]
  /\ UNCHANGED <<page, rows, r2, room, acked>>

Rearmed(s) == s

\* The alarm of a pending restore: after a start that has reconciled, and before
\* the next attempt is due, it is only set again.
AlarmPending(e) ==
  /\ store[e].pending
  /\ IF room[e].latch \/ store[e].quiet
     THEN Set(e, [room[e] EXCEPT !.latch = FALSE], Rearmed(store[e]))
     ELSE Set(e, [room[e] EXCEPT !.pc = "reconciling", !.backup = store[e].backup],
              [store[e] EXCEPT !.alarm = FALSE])

\* Any other alarm compacts what is dirty.
AlarmSettled(e) ==
  /\ ~store[e].pending
  /\ Set(e, IF room[e].dirty /\ ~store[e].retired /\ ~Unfinished(room[e])
            THEN Compacting(room[e], store[e], "plain") ELSE room[e],
         [store[e] EXCEPT !.alarm = FALSE])

\* An alarm that comes during a transition is set again: no step.
Alarm(e) ==
  /\ Up(e) /\ store[e].alarm /\ ~InTransition(room[e])
  /\ room[e].pc \in {"idle", "validating", "archiveReading"}
  /\ AlarmPending(e) \/ AlarmSettled(e)
  /\ UNCHANGED <<page, rows, r2, acked>>

\* The page's epoch is read.
ReadEpoch(e) ==
  /\ room[e].pc = "reconciling"
  /\ \/ room[e].purged /\ Reconciled(e, store[e])
     \/ /\ ~room[e].purged
        /\ \/ IsCurrent(e) /\ To(e, "undoingOld")
           \/ IsCurrent(e + 1) /\ Reconciled(e, Cleared(store[e], TRUE))
           \/ ~deleted /\ current > e + 1 /\ To(e, "undoingLater")
           \/ deleted /\ To(e, "undoingDeleted")
  /\ UNCHANGED <<page, rows, r2, acked>>

\* The objects of a restore that did not commit go, of a page that is deleted
\* too; of one that was overtaken only the epoch's snapshot.
Backups(e) == IF room[e].pc = "undoingLater" THEN {} ELSE room[e].backup

\* variant: every reconciled room is retired
RetiresAlways(e) == TRUE
Retires(e) == room[e].pc # "undoingOld"

Reconcile(e) ==
  /\ room[e].pc \in {"undoingOld", "undoingDeleted", "undoingLater"}
  /\ Delete({e + 1}, Backups(e))
  /\ Reconciled(e, IF room[e].purged THEN store[e]
                   ELSE Cleared(store[e], Retires(e)))
  /\ UNCHANGED <<page, rows, acked>>

\* D1 or R2 fails: the reconciliation is deferred.
FailReconcile(e) ==
  /\ room[e].pc \in {"reconciling", "undoingOld", "undoingDeleted", "undoingLater"}
  /\ IF room[e].pc = "reconciling" THEN UNCHANGED r2
     ELSE \E seeds \in SUBSET {e + 1}, backups \in SUBSET Backups(e) : Delete(seeds, backups)
  /\ Reconciled(e, Defer(room[e], store[e]))
  /\ UNCHANGED <<page, rows, acked>>

-----------------------------------------------------------------------------

Restoring(e) ==
  \/ RequestRestore(e) \/ Refuse(e) \/ \E v \in Version : Validate(e, v)
  \/ PutBackup(e) \/ PutSeed(e) \/ Commit(e) \/ Check(e) \/ Undo(e)

CompactionStep(e) ==
  \/ Compact(e) \/ Turn(e) \/ PutSnapshot(e) \/ FinishCompaction(e) \/ FailCompaction(e)

Recovery(e) == EndQuiet(e) \/ Alarm(e) \/ ReadEpoch(e) \/ Reconcile(e) \/ FailReconcile(e)

Next ==
  \/ ToggleArchived \/ DeletePage
  \/ \E e \in Room :
       \/ Start(e) \/ Stop(e) \/ Purge(e)
       \/ \E x \in Edit : Save(e, x)
       \/ CompactionStep(e) \/ Restoring(e) \/ Recovery(e)
       \/ RequestArchive(e) \/ Archive(e)

Spec == Init /\ [][Next]_vars

\* The object of a room with an alarm runs, alarms are delivered and the time
\* of an attempt comes; D1 and R2 do not fail for ever.
Fairness ==
  \A e \in Room :
    /\ WF_vars(store[e].alarm /\ Start(e)) /\ WF_vars(EndQuiet(e))
    /\ SF_vars(Alarm(e)) /\ SF_vars(ReadEpoch(e)) /\ SF_vars(Reconcile(e))

FairSpec == Spec /\ Fairness

-----------------------------------------------------------------------------

\* The page never moves to an epoch whose snapshot is not in R2, and no cleanup
\* of a restore that seemed to fail takes the snapshot of the current epoch.
CommittedEpochHasSnapshot == ~deleted /\ current > 1 => snapshots[current].exists

\* When a restore replaces an epoch, none of its acknowledged edits is lost: each is
\* in one of the epoch's versions or in the snapshot its room has left in R2.
LeftIsKept ==
  [][\A e \in Room : current = e /\ current' > e =>
       acked[e] \subseteq
         snapshots'[e].seen \cup
           UNION {v.seen : v \in {w \in rows' \cap objects' : w.epoch = e}}]_vars

\* A room without a pending restore has left nothing in R2: no snapshot of an
\* epoch that does not exist, no backup without its row.
SettledIsClean ==
  ~deleted => \A e \in Room :
    ~store[e].pending /\ ~InTransition(room[e]) =>
      /\ e = current /\ e < MaxEpoch => ~snapshots[e + 1].exists
      /\ \A v \in objects : v.epoch = e => v \in rows

\* The room of the current epoch is never retired for good.
CurrentIsWritable == ~deleted => ~store[current].retired

\* A restore that was put off is resolved, although nobody opens the page.
DeferredIsResolved ==
  \A e \in Room : (store[e].pending /\ store[e].deferred) ~> ~store[e].pending
=============================================================================
