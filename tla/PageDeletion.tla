---------------------------- MODULE PageDeletion ----------------------------
(***************************************************************************)
(* The page tree and its permanent deletion: the rows of D1's `pages`, the *)
(* routes that create, move, archive and restore them, and the deletion    *)
(* jobs of src/src/worker/cleanup.ts.                                      *)
(*                                                                         *)
(* A route reads first and writes later, in one D1 statement or batch, so  *)
(* it is two actions with a request between them.  A deletion is accepted  *)
(* by activating a staged job, which locks the archived subtree; a cron    *)
(* run or the route's background call then claims the job, removes the     *)
(* rows of the subtree and works through the job's targets.  The triggers  *)
(* of migrations/0091 are conjuncts of the writes they guard.              *)
(*                                                                         *)
(* Of the targets, those of documents and diagrams are here: one purge per *)
(* epoch and the deletion of the page's prefix in R2.                      *)
(***************************************************************************)
EXTENDS Integers, FiniteSets

CONSTANTS
  Page,         \* page ids
  Top,          \* the parent of a page of the top level
  Job,          \* deletion jobs, one for each attempt to accept a deletion
  Worker,       \* invocations that process deletion jobs
  Free,         \* the lease of a job that nobody has claimed
  MaxEpoch,     \* bound: content epochs of a page
  MaxStamp,     \* bound: archive operations
  MaxRequests,  \* bound: routes between their read and their write
  MaxSteals     \* bound: how often a lease runs out under a working claim

ASSUME ConstantsAssumption ==
  /\ Top \notin Page
  /\ Free \notin Worker
  /\ MaxEpoch \in Nat \ {0}
  /\ MaxStamp \in Nat /\ MaxRequests \in Nat /\ MaxSteals \in Nat

Active == 0   \* the stamp of a page whose archived_at is NULL

VARIABLES
  live,      \* pages that have a row
  parent,    \* pages.parent_id
  stamp,     \* pages.archived_at with archive_operation_id, Active for NULL
  epoch,     \* pages.content_epoch
  clock,     \* archive operations started so far
  requests,  \* routes that have read and will write
  phase,     \* deletion_jobs.phase; "none" before, "dropped" or "gone" after
  root,      \* deletion_jobs.root_page_id
  lock,      \* deletion_job_pages: the stamp a page is locked with, or Active
  todo,      \* deletion_targets without completed_at
  lease,     \* the claim that deletion_jobs.next_attempt_at fences
  worker,    \* the invocations of processDeletionJob
  steals,    \* leases that ran out under a working claim
  rooms,     \* document objects whose storage is not empty
  objects    \* pages whose prefix in R2 is not empty

tree == <<live, parent, stamp, epoch>>
jobs == <<phase, root, lock, todo, lease>>
stored == <<rooms, objects>>
vars == <<tree, clock, requests, jobs, worker, steals, stored>>

-----------------------------------------------------------------------------

Node == Page \cup {Top}
Target == [kind: {"document_do", "r2_prefix"}, page: Page, epoch: Nat]
Request == [kind: {"create", "move", "archive", "restore"},
            page: Page, to: Node, stamp: Nat]
Idle == [pc |-> "idle", job |-> Free, left |-> {}, did |-> {}]
Processing == [pc: {"idle", "rows", "cleanup", "working", "marking"},
               job: Job \cup {Free}, left: SUBSET Target, did: SUBSET Target]

TypeOK ==
  /\ live \in SUBSET Page /\ parent \in [Page -> Node] /\ clock \in Nat
  /\ stamp \in [Page -> 0..clock] /\ epoch \in [Page -> 1..MaxEpoch]
  /\ requests \in SUBSET Request
  /\ phase \in [Job -> {"none", "staging", "rows", "cleanup", "dropped", "gone"}]
  /\ root \in [Job -> Node] /\ lock \in [Job -> [Page -> 0..clock]]
  /\ todo \in [Job -> SUBSET Target] /\ lease \in [Job -> Worker \cup {Free}]
  /\ worker \in [Worker -> Processing] /\ steals \in Nat
  /\ rooms \in SUBSET (Page \X Nat) /\ objects \in SUBSET Page

Init ==
  /\ live = {} /\ parent = [p \in Page |-> Top]
  /\ stamp = [p \in Page |-> Active] /\ epoch = [p \in Page |-> 1]
  /\ clock = 0 /\ requests = {}
  /\ phase = [j \in Job |-> "none"] /\ root = [j \in Job |-> Top]
  /\ lock = [j \in Job |-> [p \in Page |-> Active]]
  /\ todo = [j \in Job |-> {}] /\ lease = [j \in Job |-> Free]
  /\ worker = [w \in Worker |-> Idle] /\ steals = 0
  /\ rooms = {} /\ objects = {}

-----------------------------------------------------------------------------
(* The tree.  Every recursive query of the code is a UNION ALL: below a    *)
(* page that lies on a cycle it never ends, and the statement fails.       *)

Children(p) == {q \in live : parent[q] = p}
ClosedBelow(S) == \A q \in S : Children(q) \subseteq S
Subtree(p) ==
  {q \in live : p \in live /\ \A S \in SUBSET live : p \in S /\ ClosedBelow(S) => q \in S}
Endless(p) == \E c \in Children(p) : p \in Subtree(c)
IsActive(p) == p \in live /\ stamp[p] = Active
IsArchived(p) == p \in live /\ stamp[p] # Active

Locked(j) == {p \in Page : lock[j][p] # Active}
LockedIn(p, phases) == \E j \in Job : phase[j] \in phases /\ p \in Locked(j)
HasAcceptedJob(p) == \E j \in Job : phase[j] \in {"rows", "cleanup"} /\ root[j] = p

Admit(r) ==
  /\ Cardinality(requests) < MaxRequests
  /\ requests' = requests \cup {r}
  /\ UNCHANGED <<tree, jobs, worker, steals, stored>>

\* POST /api/pages: the parent is read as active.
AdmitCreate(p, q) ==
  /\ p \notin live
  /\ q = Top \/ IsActive(q)
  /\ Admit([kind |-> "create", page |-> p, to |-> q, stamp |-> Active])
  /\ UNCHANGED clock

\* POST /api/pages/:id/move: the page and its parent are read as active and the
\* parent is looked for below the page.
AdmitMove(p, q) ==
  /\ IsActive(p)
  /\ q = Top \/ (IsActive(q) /\ ~Endless(p) /\ q \notin Subtree(p))
  /\ Admit([kind |-> "move", page |-> p, to |-> q, stamp |-> Active])
  /\ UNCHANGED clock

\* DELETE /api/pages/:id starts a new operation for an active page, and takes again
\* the one of a page that it reads as archived.
ArchiveStamp(p) == IF stamp[p] = Active THEN clock + 1 ELSE stamp[p]
AdmitArchive(p) ==
  /\ p \in live /\ ArchiveStamp(p) <= MaxStamp
  /\ Admit([kind |-> "archive", page |-> p, to |-> Top, stamp |-> ArchiveStamp(p)])
  /\ clock' = IF stamp[p] = Active THEN clock + 1 ELSE clock

\* POST /api/pages/:id/restore: no accepted deletion below the archived page.
AdmitRestore(p) ==
  /\ IsArchived(p) /\ ~Endless(p)
  /\ \A q \in Subtree(p) : ~LockedIn(q, {"rows"})
  /\ Admit([kind |-> "restore", page |-> p, to |-> Top, stamp |-> stamp[p]])
  /\ UNCHANGED clock

\* variant: the trigger without its clause on NEW.id
MayInsertAnyId(p, q) == ~LockedIn(q, {"rows"})

\* variant: the trigger without its clause on NEW.parent_id
MayInsertUnderLock(p, q) == ~LockedIn(p, {"rows", "cleanup"})

\* Trigger pages_deletion_pending_insert.
MayInsert(p, q) == ~LockedIn(q, {"rows"}) /\ ~LockedIn(p, {"rows", "cleanup"})

\* The INSERT of a new page: its id is new and its parent's row exists.
CommitCreate(r) ==
  /\ r.kind = "create" /\ r.page \notin live
  /\ r.to = Top \/ r.to \in live
  /\ MayInsert(r.page, r.to)
  /\ live' = live \cup {r.page}
  /\ parent' = [parent EXCEPT ![r.page] = r.to]
  /\ stamp' = [stamp EXCEPT ![r.page] = Active]
  /\ epoch' = [epoch EXCEPT ![r.page] = 1]

\* variant: the trigger looks at the moved page only
MayMoveUnderLock(p, q) == parent[p] # q => ~LockedIn(p, {"rows"})

\* Trigger pages_deletion_pending_move.
MayMove(p, q) == parent[p] # q => ~LockedIn(p, {"rows"}) /\ ~LockedIn(q, {"rows"})

\* The UPDATE of a move checks again that the page is active, nothing else.
CommitMove(r) ==
  /\ r.kind = "move" /\ IsActive(r.page)
  /\ r.to = Top \/ r.to \in live
  /\ MayMove(r.page, r.to)
  /\ parent' = [parent EXCEPT ![r.page] = r.to]
  /\ UNCHANGED <<live, stamp, epoch>>

\* The batch of an archive: the active pages of the subtree get the stamp.
CommitArchive(r) ==
  /\ r.kind = "archive" /\ r.page \in live /\ ~Endless(r.page)
  /\ stamp' = [q \in Page |->
       IF q \in Subtree(r.page) /\ stamp[q] = Active THEN r.stamp ELSE stamp[q]]
  /\ UNCHANGED <<live, parent, epoch>>

\* variant: a restore no longer looks for an accepted deletion when it writes
MayRestoreAlways(q) == TRUE

\* Trigger pages_deletion_pending_restore.
MayRestore(q) ==
  \A j \in Job : ~(phase[j] = "rows" /\ q \in Locked(j) /\ lock[j][q] = stamp[q])

\* The batch of a restore: the pages of that archive operation, unless a page
\* of the subtree is locked (deletionGuard).
CommitRestore(r) ==
  /\ r.kind = "restore" /\ r.page \in live /\ ~Endless(r.page)
  /\ \A q \in Subtree(r.page) : MayRestore(q)
  /\ stamp' = [q \in Page |->
       IF q \in Subtree(r.page) /\ stamp[q] = r.stamp THEN Active ELSE stamp[q]]
  /\ UNCHANGED <<live, parent, epoch>>

\* A route writes, or its statement changes nothing or fails.
Write(r) ==
  /\ requests' = requests \ {r}
  /\ \/ CommitCreate(r) \/ CommitMove(r) \/ CommitArchive(r) \/ CommitRestore(r)
     \/ UNCHANGED tree
  /\ UNCHANGED <<clock, jobs, worker, steals, stored>>

\* A restored version starts the next epoch of an active page.
NextEpoch(p) ==
  /\ IsActive(p) /\ epoch[p] < MaxEpoch
  /\ epoch' = [epoch EXCEPT ![p] = @ + 1]
  /\ UNCHANGED <<live, parent, stamp, clock, requests, jobs, worker, steals, stored>>

\* The room of the current epoch is opened, stores its document and compacts it.
Open(p) ==
  /\ p \in live /\ <<p, epoch[p]>> \notin rooms
  /\ rooms' = rooms \cup {<<p, epoch[p]>>} /\ objects' = objects \cup {p}
  /\ UNCHANGED <<tree, clock, requests, jobs, worker, steals>>

\* A room that was not purged compacts, whether its page still exists or not.
Compact(p) ==
  /\ p \notin objects /\ \E e \in 1..MaxEpoch : <<p, e>> \in rooms
  /\ objects' = objects \cup {p}
  /\ UNCHANGED <<tree, clock, requests, jobs, worker, steals, rooms>>

-----------------------------------------------------------------------------
(* Acceptance: acceptPageDeletion.                                         *)

\* One purge for each epoch of each page, one prefix for each page.
TargetsOf(S) ==
  {t \in [kind: {"document_do"}, page: S, epoch: 1..MaxEpoch] : t.epoch <= epoch[t.page]}
  \cup [kind: {"r2_prefix"}, page: S, epoch: {0}]

\* Without an accepted job for this root the archived subtree is read, and a
\* staging row with its locks and targets written.
Stage(j, p) ==
  /\ phase[j] = "none" /\ ~HasAcceptedJob(p)
  /\ IsArchived(p) /\ ~Endless(p)
  /\ \A q \in Subtree(p) : stamp[q] # Active
  /\ phase' = [phase EXCEPT ![j] = "staging"]
  /\ root' = [root EXCEPT ![j] = p]
  /\ lock' = [lock EXCEPT ![j] = [q \in Page |-> IF q \in Subtree(p) THEN stamp[q] ELSE Active]]
  /\ todo' = [todo EXCEPT ![j] = TargetsOf(Subtree(p))]
  /\ UNCHANGED <<tree, clock, requests, lease, worker, steals, stored>>

\* variant: a lock only says that the page exists
LocksHoldByName(j) == Locked(j) \subseteq live
LocksHold(j) == \A q \in Locked(j) : q \in live /\ stamp[q] = lock[j][q]

\* variant: acceptance without the comparison with other accepted jobs
SoleOwnerUnchecked(j) == TRUE

SoleOwner(j) ==
  \A k \in Job \ {j} : phase[k] \in {"rows", "cleanup"} => Locked(k) \cap Locked(j) = {}

WholeSubtree(j) == ~Endless(root[j]) /\ Subtree(root[j]) = Locked(j)

\* The UPDATE that turns the staged job into an accepted one.
Activate(j) ==
  /\ phase[j] = "staging"
  /\ LocksHold(j) /\ SoleOwner(j) /\ WholeSubtree(j)
  /\ phase' = [phase EXCEPT ![j] = "rows"]
  /\ lease' = [lease EXCEPT ![j] = Free]
  /\ UNCHANGED <<tree, clock, requests, root, lock, todo, worker, steals, stored>>

\* A refused or failed attempt deletes its staging row; one whose invocation
\* died is deleted by processDueDeletionJobs a day later.
Drop(j) ==
  /\ phase[j] = "staging"
  /\ phase' = [phase EXCEPT ![j] = "dropped"]
  /\ root' = [root EXCEPT ![j] = Top]
  /\ lock' = [lock EXCEPT ![j] = [p \in Page |-> Active]]
  /\ todo' = [todo EXCEPT ![j] = {}]
  /\ UNCHANGED <<tree, clock, requests, lease, worker, steals, stored>>

-----------------------------------------------------------------------------
(* Processing: processDeletionJob.                                         *)

Works(w, j) == worker[w].pc # "idle" /\ worker[w].job = j
Holds(w) == lease[worker[w].job] = w
LeaseRunning(j) == lease[j] # Free /\ Works(lease[j], j)

\* The claim moves next_attempt_at, which fences every later write: a claim
\* whose lease ran out goes on working beside the next one.
Claim(w, j) ==
  /\ worker[w].pc = "idle" /\ phase[j] \in {"rows", "cleanup"}
  /\ LeaseRunning(j) => steals < MaxSteals
  /\ steals' = IF LeaseRunning(j) THEN steals + 1 ELSE steals
  /\ lease' = [lease EXCEPT ![j] = w]
  /\ worker' = [worker EXCEPT ![w] =
       [pc |-> phase[j], job |-> j, left |-> {}, did |-> {}]]
  /\ UNCHANGED <<tree, clock, requests, phase, root, lock, todo, stored>>

NoStrangers(j) == \A q \in Locked(j) : Children(q) \subseteq Locked(j)

\* removeDeletionMetadata: one batch that moves the job to its cleanup phase and
\* deletes the root's row, with every row below it.
RemoveRows(w) ==
  LET j == worker[w].job
      removed == Subtree(root[j])
  IN /\ worker[w].pc = "rows"
     /\ Holds(w) /\ phase[j] = "rows" /\ LocksHold(j)
     /\ root[j] \in Locked(j) /\ NoStrangers(j)
     /\ phase' = [phase EXCEPT ![j] = "cleanup"]
     /\ live' = live \ removed
     /\ parent' = [p \in Page |-> IF p \in removed THEN Top ELSE parent[p]]
     /\ stamp' = [p \in Page |-> IF p \in removed THEN Active ELSE stamp[p]]
     /\ epoch' = [p \in Page |-> IF p \in removed THEN 1 ELSE epoch[p]]
     /\ worker' = [worker EXCEPT ![w].pc = "cleanup"]
     /\ UNCHANGED <<clock, requests, root, lock, todo, lease, steals, stored>>

\* The targets that are still open are read once.
ReadTargets(w) ==
  /\ worker[w].pc = "cleanup"
  /\ worker' = [worker EXCEPT ![w].pc = "working", ![w].left = todo[worker[w].job]]
  /\ UNCHANGED <<tree, clock, requests, jobs, steals, stored>>

\* ORDER BY kind, target.
First(left) ==
  {t \in left : t.kind = "document_do" \/ \A u \in left : u.kind = "r2_prefix"}

\* The effect of a target: /purge empties the room, deletePrefix the prefix.
Effect(t) ==
  IF t.kind = "document_do"
  THEN rooms' = rooms \ {<<t.page, t.epoch>>} /\ UNCHANGED objects
  ELSE objects' = objects \ {t.page} /\ UNCHANGED rooms

\* processTarget succeeds.
Perform(w, t) ==
  /\ worker[w].pc = "working" /\ t \in First(worker[w].left)
  /\ Effect(t)
  /\ worker' = [worker EXCEPT ![w].pc = "marking", ![w].did = {t}]
  /\ UNCHANGED <<tree, clock, requests, jobs, steals>>

\* variant: a failed target is completed as well
AfterFailureDone(j, t) == todo' = [todo EXCEPT ![j] = @ \ {t}]
AfterFailure(j, t) == UNCHANGED todo

\* processTarget throws, with or without its effect; the next target follows.
Fail(w, t) ==
  /\ worker[w].pc = "working" /\ t \in First(worker[w].left)
  /\ Effect(t) \/ UNCHANGED stored
  /\ AfterFailure(worker[w].job, t)
  /\ worker' = [worker EXCEPT ![w].left = @ \ {t}]
  /\ UNCHANGED <<tree, clock, requests, phase, root, lock, lease, steals>>

\* completed_at is set under the lease.
Mark(w) ==
  LET j == worker[w].job
      did == worker[w].did
  IN /\ worker[w].pc = "marking"
     /\ todo' = IF Holds(w) THEN [todo EXCEPT ![j] = @ \ did] ELSE todo
     /\ worker' = [worker EXCEPT ![w].pc = "working", ![w].left = @ \ did, ![w].did = {}]
     /\ UNCHANGED <<tree, clock, requests, phase, root, lock, lease, steals, stored>>

NothingPending(j) == todo[j] = {}

\* The loop is over and nothing is pending: the job is deleted under the lease.
Finish(w) ==
  LET j == worker[w].job
  IN /\ worker[w].pc = "working" /\ worker[w].left = {} /\ NothingPending(j)
     /\ IF Holds(w)
        THEN /\ phase' = [phase EXCEPT ![j] = "gone"]
             /\ root' = [root EXCEPT ![j] = Top]
             /\ lock' = [lock EXCEPT ![j] = [p \in Page |-> Active]]
             /\ todo' = [todo EXCEPT ![j] = {}]
             /\ lease' = [lease EXCEPT ![j] = Free]
        ELSE UNCHANGED jobs
     /\ worker' = [worker EXCEPT ![w] = Idle]
     /\ UNCHANGED <<tree, clock, requests, steals, stored>>

\* The rows could not be removed, or targets are left: the job is due again
\* after its backoff.
Release(w) ==
  LET j == worker[w].job
  IN /\ \/ worker[w].pc = "rows"
        \/ worker[w].pc = "working" /\ worker[w].left = {} /\ todo[j] # {}
     /\ lease' = IF Holds(w) THEN [lease EXCEPT ![j] = Free] ELSE lease
     /\ worker' = [worker EXCEPT ![w] = Idle]
     /\ UNCHANGED <<tree, clock, requests, phase, root, lock, todo, steals, stored>>

\* The invocation dies; its lease runs out.
Die(w) ==
  /\ worker[w].pc # "idle"
  /\ worker' = [worker EXCEPT ![w] = Idle]
  /\ UNCHANGED <<tree, clock, requests, jobs, steals, stored>>

-----------------------------------------------------------------------------

Routes ==
  \/ \E p \in Page, q \in Node : AdmitCreate(p, q) \/ AdmitMove(p, q)
  \/ \E p \in Page : AdmitArchive(p) \/ AdmitRestore(p)
  \/ \E r \in requests : Write(r)

Contents == \E p \in Page : NextEpoch(p) \/ Open(p) \/ Compact(p)

Acceptance ==
  \E j \in Job : Activate(j) \/ Drop(j) \/ \E p \in Page : Stage(j, p)

Work(w) ==
  \/ \E j \in Job : Claim(w, j)
  \/ RemoveRows(w) \/ ReadTargets(w) \/ Mark(w) \/ Finish(w) \/ Release(w)
  \/ \E t \in worker[w].left : Perform(w, t)

Mishap(w) == Die(w) \/ \E t \in worker[w].left : Fail(w, t)

Next ==
  \/ Routes \/ Contents \/ Acceptance
  \/ \E w \in Worker : Work(w) \/ Mishap(w)

\* Cron claims due jobs for ever, and an invocation that may die or fail anywhere
\* gets past each kind of step again and again: the reading of the targets, the
\* call to a target, the D1 batch.
Fairness ==
  \A w \in Worker :
    /\ WF_vars(Work(w))
    /\ SF_vars(ReadTargets(w))
    /\ SF_vars(\E t \in worker[w].left : Perform(w, t))
    /\ SF_vars(RemoveRows(w) \/ Mark(w) \/ Finish(w))

Spec == Init /\ [][Next]_vars
FairSpec == Spec /\ Fairness

-----------------------------------------------------------------------------

\* No page belongs to two accepted deletions, however many attempts to delete
\* overlapping subtrees ran at once (SoleOwner in the activation of cleanup.ts).
OneOwner ==
  \A j, k \in Job :
    phase[j] \in {"rows", "cleanup"} /\ phase[k] \in {"rows", "cleanup"} /\ j # k
      => Locked(j) \cap Locked(k) = {}

\* From acceptance until its rows are removed the locked subtree stays as it was:
\* every locked page exists with the archive it was locked with, nothing hangs
\* below it that is not locked, and it still hangs below the root.  No create,
\* move or restore that had read the tree earlier gets through.
AcceptedFrozen ==
  \A j \in Job : phase[j] = "rows" =>
    /\ root[j] \in Locked(j)
    /\ \A p \in Locked(j) :
         /\ p \in live /\ stamp[p] = lock[j][p]
         /\ Children(p) \subseteq Locked(j)
         /\ p = root[j] \/ parent[p] \in Locked(j)

\* While a job still has targets, no page with an id of its pages exists: the
\* purges and prefix deletions to come would hit the new page.
GoneStaysGone ==
  \A j \in Job : phase[j] = "cleanup" => Locked(j) \cap live = {}

\* A page's row disappears only by an accepted deletion that locked the page,
\* and only in the archive it was locked with.
DeletedWasLocked ==
  [][\A p \in live \ live' :
       \E j \in Job : phase[j] = "rows" /\ p \in Locked(j) /\ stamp[p] = lock[j][p]]_vars

\* The room of a target is empty.
Emptied(t) == t.kind = "document_do" => <<t.page, t.epoch>> \notin rooms

\* Of the epochs that acceptance listed, the erasure is complete: a target leaves a
\* job in its cleanup phase only with its room empty, no room of the job's pages is
\* filled again, and the job disappears with no target left, whatever failed, died or
\* worked on without the lease in between.  An epoch that a staged job did not list is
\* none of its targets, although acceptance may have let it pass (ArchiveStamp).
CompletedIsErased ==
  [][\A j \in Job : phase[j] = "cleanup" =>
       /\ \A t \in todo[j] \ todo'[j] : Emptied(t)'
       /\ \A p \in Locked(j), e \in 1..MaxEpoch : <<p, e>> \notin rooms => <<p, e>> \notin rooms'
       /\ phase'[j] # "cleanup" => phase'[j] = "gone" /\ todo[j] = {}]_vars

\* Deleting a page never takes the content of a page that exists, one created
\* again under a deleted page's id included.
LiveContentKept ==
  [][\A p \in live \cap live' :
       /\ p \in objects => p \in objects'
       /\ \A e \in 1..MaxEpoch : <<p, e>> \in rooms => <<p, e>> \in rooms']_vars

\* An accepted deletion is finished in the end.
AcceptedIsFinished == \A j \in Job : phase[j] = "rows" ~> phase[j] = "gone"

-----------------------------------------------------------------------------
(* What the deletion of pages promises.                                    *)

Home == [p \in live |-> parent[p]]
Trash == {p \in live : stamp[p] # Active}
Groups(ph) == {Locked(j) : j \in {k \in Job : phase[k] = ph}}

Promise == INSTANCE PermanentDeletion WITH
  home <- Home, archived <- Trash, accepted <- Groups("rows"), erasing <- Groups("cleanup")

\* The routes, the staged jobs and their invocations delete groups of pages as
\* PermanentDeletion promises: whole, from the trash, and with no page created,
\* restored or moved inside a group behind its back.
DeletesWhole == Promise!Spec

-----------------------------------------------------------------------------
(* The inductive invariant of PageDeletionProofs.                          *)

\* No request writes a stamp that no archive operation was given.
RequestsStamped == \A r \in requests : r.stamp <= clock

\* Whoever works, works on a job.
WorkersHaveJobs == \A w \in Worker : worker[w].pc # "idle" => worker[w].job \in Job

\* A job that is staged or accepted has locked its root.
RootLocked ==
  \A j \in Job : phase[j] \in {"staging", "rows"} => root[j] \in Locked(j)

\* The locked pages are the subtree that the removal of the rows will find: the
\* local conditions of AcceptedFrozen alone would let some of them form a cycle
\* beside the root.
LockedIsSubtree ==
  \A j \in Job : phase[j] = "rows" => Subtree(root[j]) = Locked(j)

\* Ownership, frozen subtrees and deleted pages depend on each other: rows are
\* removed by what the tree is then, locks were taken by what it was before.
DeletionInv ==
  /\ TypeOK /\ RequestsStamped /\ WorkersHaveJobs /\ RootLocked
  /\ OneOwner /\ AcceptedFrozen /\ LockedIsSubtree /\ GoneStaysGone

-----------------------------------------------------------------------------
(* While no lease runs out under a working claim.                          *)

\* The targets of a job are on the pages it has locked.
TargetsLocked ==
  \A j \in Job : phase[j] \in {"staging", "rows", "cleanup"} =>
    \A t \in todo[j] : t.page \in Locked(j)

\* Whoever works holds the lease of an accepted job, and what it has still to
\* erase is on pages whose rows this job has removed.
HoldsLease(w) == worker[w].pc # "idle" =>
  LET j == worker[w].job
  IN /\ lease[j] = w
     /\ phase[j] = IF worker[w].pc = "rows" THEN "rows" ELSE "cleanup"
     /\ \A t \in worker[w].left : t.page \in Locked(j)

WorkersHoldLease == \A w \in Worker : HoldsLease(w)

-----------------------------------------------------------------------------
(* However often a lease runs out under a working claim.                   *)

\* Whoever works and still holds the lease is in step with the job's phase, works
\* on its pages and has emptied the room of the target it is about to complete.
Fenced(w) == worker[w].pc # "idle" /\ Holds(w) =>
  LET j == worker[w].job
  IN /\ phase[j] = IF worker[w].pc = "rows" THEN "rows" ELSE "cleanup"
     /\ \A t \in worker[w].left : t.page \in Locked(j)
     /\ worker[w].pc = "marking" =>
          \A t \in worker[w].did : t.page \in Locked(j) /\ Emptied(t)

WorkersFenced == \A w \in Worker : Fenced(w)

=============================================================================
