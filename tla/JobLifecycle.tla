--------------------------- MODULE JobLifecycle ---------------------------
(***************************************************************************)
(* One job that clones a template (src/src/worker/jobs.ts and the routes   *)
(* of index.ts): its row, the Workflow instances that were created for it, *)
(* the page they stage and publish, cancellation, retry, the cleanup of an *)
(* attempt under a lease, and the recovery that the cron trigger runs.     *)
(*                                                                         *)
(* The template has one attachment.  What an attempt makes has its number: *)
(* the epoch of the page and of its room, and the key of the attachment's  *)
(* object; the object with the content has the same keys and is left out.  *)
(* Each write is a step; reads whose result cannot change, or is checked   *)
(* again by the write behind them, are part of it.                         *)
(***************************************************************************)
EXTENDS Integers, FiniteSets

CONSTANTS
  Starter,     \* invocations of startJobWorkflow
  MaxCleaners, \* bound: invocations of finishPendingJobCleanup at a time
  MaxAttempts, \* bound: attempts
  MaxMishaps   \* bound: crashes, failed calls, leases that run out

ASSUME ConstantsAssumption ==
  /\ MaxAttempts \in Nat \ {0} /\ MaxCleaners \in Nat \ {0} /\ MaxMishaps \in Nat

VARIABLES
  job,     \* the row of `jobs'
  run,     \* the Workflow instances
  page,    \* the row of the target page
  room,    \* what the room of each epoch has
  att,     \* the row of the cloned attachment: the attempt of its key, 0 without a row
  objects, \* R2: the attempts whose object of the attachment exists
  starter, cleaner, mishaps

staging == <<page, room, att, objects>>
vars == <<job, run, staging, starter, cleaner, mishaps>>

-----------------------------------------------------------------------------
Attempt == 1 .. MaxAttempts

Cleaner == 1 .. MaxCleaners
Free == 0 \* the cleanup lease that nobody holds

\* Ids of instances: one for each attempt, and the ones that replace an instance
\* that ended while the job was queued, which takes a mishap.
Instance == 1 .. (MaxAttempts + MaxMishaps)

JobStatus == {"queued", "running", "canceling", "succeeded", "failed", "canceled"}

\* Where an instance is: the callbacks of its steps are load, stage, attach,
\* initialize and publish, what follows each is inside of it.
Callback == {"load", "stage", "attach", "initialize", "publish"}
RunPc == Callback \cup {"fence", "insert", "put", "row", "move", "drop", "fill", "catch", "off"}

CleanerPc == {"idle", "terminate", "read", "purge", "objects", "delete", "finish"}

TypeOK ==
  /\ job \in [status : JobStatus, attempt : Attempt, instance : Instance,
              target : {"none", "canceled", "failed"},
              token : Cleaner \cup {Free}, stale : BOOLEAN]
  /\ run \in [Instance -> [status : {"none", "active", "complete", "errored", "terminated"},
                           pc : RunPc, attempt : 0 .. MaxAttempts,
                           key : 0 .. MaxAttempts]]
  /\ page \in [state : {"none", "staged", "published"}, epoch : 0 .. MaxAttempts]
  /\ room \in [Attempt -> {"empty", "started", "filled", "purged"}]
  /\ att \in 0 .. MaxAttempts /\ objects \subseteq Attempt
  /\ starter \in [Starter -> [pc : {"idle", "create"}, instance : Instance,
                              attempt : Attempt, rotates : BOOLEAN]]
  /\ cleaner \in [Cleaner -> [pc : CleanerPc, attempt : Attempt, instance : Instance,
                              staged : 0 .. MaxAttempts, key : 0 .. MaxAttempts]]
  /\ mishaps \in 0 .. MaxMishaps

NoRun == [status |-> "none", pc |-> "off", attempt |-> 0, key |-> 0]
NoPage == [state |-> "none", epoch |-> 0]
NoStart == [pc |-> "idle", instance |-> 1, attempt |-> 1, rotates |-> FALSE]
NoCleanup == [pc |-> "idle", attempt |-> 1, instance |-> 1, staged |-> 0, key |-> 0]

\* createJob.
Init ==
  /\ job = [status |-> "queued", attempt |-> 1, instance |-> 1, target |-> "none",
            token |-> Free, stale |-> FALSE]
  /\ run = [i \in Instance |-> NoRun]
  /\ page = NoPage /\ room = [a \in Attempt |-> "empty"] /\ att = 0 /\ objects = {}
  /\ starter = [s \in Starter |-> NoStart] /\ cleaner = [k \in Cleaner |-> NoCleanup]
  /\ mishaps = 0

Mishap == mishaps < MaxMishaps /\ mishaps' = mishaps + 1
Fine == mishaps' = mishaps

\* Ids are random: the smallest one that neither an instance nor the row has.
Fresh == CHOOSE i \in Instance :
           /\ run[i].status = "none" /\ i > job.instance
           /\ \A j \in Instance : j > job.instance /\ run[j].status = "none" => i <= j

-----------------------------------------------------------------------------
(* Starting: after the row was written, after a retry, and from cron.      *)

Start(s) ==
  /\ starter[s].pc = "idle" /\ job.status = "queued"
  /\ starter' = [starter EXCEPT ![s] = [pc |-> "create", instance |-> job.instance,
                                        attempt |-> job.attempt, rotates |-> TRUE]]
  /\ UNCHANGED <<job, run, staging, cleaner, mishaps>>

Idle(s) == starter' = [starter EXCEPT ![s] = NoStart]

\* The instance is created; whether the answer comes makes no difference.
Create(s) ==
  LET i == starter[s].instance IN
    /\ starter[s].pc = "create" /\ run[i].status = "none"
    /\ run' = [run EXCEPT ![i] = [status |-> "active", pc |-> "load",
                                  attempt |-> starter[s].attempt, key |-> 0]]
    /\ Idle(s) /\ UNCHANGED <<job, staging, cleaner, mishaps>>

\* It is not, and the row stays queued.
CreateFails(s) ==
  /\ starter[s].pc = "create" /\ Mishap /\ Idle(s)
  /\ UNCHANGED <<job, run, staging, cleaner>>

Ended(i) == run[i].status \in {"complete", "errored", "terminated"}

\* The row that is replaced is the one that was read, and still queued.
StillQueued(s) ==
  /\ job.status = "queued" /\ job.attempt = starter[s].attempt
  /\ job.instance = starter[s].instance

\* There is one already: if it ended, another one takes its place, once.
CreateExists(s) ==
  LET i == starter[s].instance IN
    /\ starter[s].pc = "create" /\ run[i].status # "none"
    /\ IF Ended(i) /\ starter[s].rotates /\ StillQueued(s)
       THEN /\ job' = [job EXCEPT !.instance = Fresh]
            /\ starter' = [starter EXCEPT ![s].instance = Fresh, ![s].rotates = FALSE]
       ELSE job' = job /\ Idle(s)
    /\ UNCHANGED <<run, staging, cleaner, mishaps>>

-----------------------------------------------------------------------------
(* The routes.                                                             *)

\* beginJobCancellation
Cancel ==
  /\ job.status \in {"queued", "running"}
  /\ job' = [job EXCEPT !.status = "canceling", !.target = "canceled"]
  /\ UNCHANGED <<run, staging, starter, cleaner, mishaps>>

\* A retry is refused while the cleanup of the attempt is pending.
Retryable == job.target = "none" /\ job.status \in {"failed", "canceled"}

RetryJob ==
  /\ Retryable /\ job.attempt < MaxAttempts
  /\ job' = [job EXCEPT !.status = "queued", !.attempt = @ + 1, !.instance = Fresh]
  /\ UNCHANGED <<run, staging, starter, cleaner, mishaps>>

-----------------------------------------------------------------------------
(* The Workflow.  A callback starts in an instance that is active; once it *)
(* runs, the termination of the instance may let it go on to its end.      *)

At(i, pc) ==
  /\ run[i].pc = pc
  /\ run[i].status = "active" \/ (run[i].status = "terminated" /\ pc \notin Callback)

To(i, pc) ==
  run' = [run EXCEPT ![i].pc = pc, ![i].key = IF pc \in {"row", "move", "drop"} THEN @ ELSE 0]

\* The callback has thrown: it is called again, or the step gives up.
Throws(i, callback) == To(i, callback) \/ To(i, "catch")

End(i, status) ==
  run' = [run EXCEPT ![i] = [NoRun EXCEPT !.status =
                               IF run[i].status = "terminated" THEN "terminated" ELSE status]]

\* assertJobActive
Active(i) == job.status = "running" /\ job.attempt = run[i].attempt

\* claimJobWorkflowRun: only the current instance of the current attempt.
Current(i) == job.attempt = run[i].attempt /\ job.instance = i /\ job.target = "none"

Load(i) ==
  /\ At(i, "load")
  /\ IF Current(i) /\ job.status \in {"queued", "running"}
     THEN job' = [job EXCEPT !.status = "running"] /\ To(i, "stage")
     ELSE job' = job /\ End(i, "complete")
  /\ UNCHANGED <<staging, starter, cleaner, mishaps>>

\* stageTemplateClone: what is the target page?  One that is published already means
\* success.
Stage(i) ==
  /\ At(i, "stage")
  /\ IF Active(i) /\ page.state = "published"
     THEN job' = [job EXCEPT !.status = "succeeded"] /\ End(i, "complete")
     ELSE /\ job' = job
          /\ To(i, IF ~Active(i) THEN "catch"
                   ELSE IF page.state = "none" THEN "insert"
                   ELSE IF page.epoch = run[i].attempt THEN "attach" ELSE "fence")
  /\ UNCHANGED <<staging, starter, cleaner, mishaps>>

\* A page that another attempt staged gets the epoch of this one, if it is active.
Fence(i) ==
  /\ At(i, "fence")
  /\ IF page.state = "staged" /\ Active(i)
     THEN page' = [page EXCEPT !.epoch = run[i].attempt] /\ To(i, "attach")
     ELSE page' = page /\ Throws(i, "stage")
  /\ UNCHANGED <<job, room, att, objects, starter, cleaner, mishaps>>

\* The insertion has no condition but the id.
Insert(i) ==
  /\ At(i, "insert")
  /\ IF page.state = "none"
     THEN page' = [state |-> "staged", epoch |-> run[i].attempt] /\ To(i, "attach")
     ELSE page' = page /\ Throws(i, "stage")
  /\ UNCHANGED <<job, room, att, objects, starter, cleaner, mishaps>>

\* cloneTemplateAttachments: is there a row with the key of this attempt?
Attach(i) ==
  /\ At(i, "attach")
  /\ IF ~Active(i) THEN To(i, "catch")
     ELSE IF att = run[i].attempt THEN To(i, "initialize")
     ELSE run' = [run EXCEPT ![i].pc = "put", ![i].key = att]
  /\ UNCHANGED <<job, staging, starter, cleaner, mishaps>>

Put(i) ==
  /\ At(i, "put")
  /\ objects' = objects \cup {run[i].attempt}
  /\ To(i, IF run[i].key = 0 THEN "row" ELSE "move")
  /\ UNCHANGED <<job, page, room, att, starter, cleaner, mishaps>>

AddRow(i) ==
  /\ At(i, "row")
  /\ IF att = 0 /\ page.state # "none"
     THEN att' = run[i].attempt /\ To(i, "initialize")
     ELSE att' = att /\ Throws(i, "attach")
  /\ UNCHANGED <<job, page, room, objects, starter, cleaner, mishaps>>

\* A row of another attempt is moved to the new key, if the attempt is active;
\* the object of the key that lost is deleted.
Moves(i) == att = run[i].key /\ Active(i)

Move(i) ==
  /\ At(i, "move")
  /\ IF Moves(i)
     THEN att' = run[i].attempt /\ To(i, "drop") /\ objects' = objects
     ELSE /\ att' = att
          /\ IF att = run[i].attempt THEN To(i, "initialize") /\ objects' = objects
             ELSE objects' = objects \ {run[i].attempt} /\ Throws(i, "attach")
  /\ UNCHANGED <<job, page, room, starter, cleaner, mishaps>>

Drop(i) ==
  /\ At(i, "drop") /\ objects' = objects \ {run[i].key} /\ To(i, "initialize")
  /\ UNCHANGED <<job, page, room, att, starter, cleaner, mishaps>>

\* initializeTemplateDocument, and the room's handler up to its last question.
Initialize(i) ==
  /\ At(i, "initialize")
  /\ IF ~Active(i) THEN To(i, "catch")
     ELSE LET a == run[i].attempt IN
       IF page # [state |-> "staged", epoch |-> a] THEN Throws(i, "initialize")
       ELSE IF room[a] = "filled" THEN To(i, "publish")
       ELSE IF room[a] = "empty" THEN To(i, "fill")
       ELSE Throws(i, "initialize")
  /\ UNCHANGED <<job, staging, starter, cleaner, mishaps>>

\* The content is applied and compacted; a room that was purged keeps nothing.
Fill(i) ==
  /\ At(i, "fill")
  /\ LET a == run[i].attempt IN
       IF room[a] = "purged" THEN room' = room /\ Throws(i, "initialize")
       ELSE room' = [room EXCEPT ![a] = "filled"] /\ To(i, "publish")
  /\ UNCHANGED <<job, page, att, objects, starter, cleaner, mishaps>>

\* The room stops between its log and its snapshot: it counts as started, until its
\* alarm compacts the log.
FillFails(i) ==
  /\ At(i, "fill") /\ Mishap
  /\ room[run[i].attempt] # "purged"
  /\ room' = [room EXCEPT ![run[i].attempt] = "started"] /\ Throws(i, "initialize")
  /\ UNCHANGED <<job, page, att, objects, starter, cleaner>>

Alarm(a) ==
  /\ room[a] = "started" /\ room' = [room EXCEPT ![a] = "filled"]
  /\ UNCHANGED <<job, run, page, att, objects, starter, cleaner, mishaps>>

\* (variant) The page is published whether or not the attempt is active.
PublishesLate(i) == page.state = "staged" /\ page.epoch = run[i].attempt

\* The page is published and the job has succeeded in one batch, or neither.
Publishes(i) == page.state = "staged" /\ page.epoch = run[i].attempt /\ Active(i)

Publish(i) ==
  /\ At(i, "publish")
  /\ page' = IF Publishes(i) THEN [page EXCEPT !.state = "published"] ELSE page
  /\ job' = IF Active(i) THEN [job EXCEPT !.status = "succeeded"] ELSE job
  /\ IF page'.state = "published" THEN End(i, "complete")
     ELSE IF Active(i) THEN Throws(i, "publish") ELSE To(i, "catch")
  /\ UNCHANGED <<room, att, objects, starter, cleaner, mishaps>>

\* failJobWithCleanup
Failed == [job EXCEPT !.status = "failed", !.target = IF @ = "none" THEN "failed" ELSE @]

\* A superseded instance reports nothing; the cleanup is an action of its own.
Catch(i) ==
  /\ At(i, "catch")
  /\ IF job.instance = i /\ job.attempt >= run[i].attempt /\ job.status = "running"
     THEN job' = Failed /\ End(i, "errored")
     ELSE job' = job /\ End(i, "complete")
  /\ UNCHANGED <<staging, starter, cleaner, mishaps>>

\* The callback that what an instance does is part of.
CallbackOf(pc) ==
  CASE pc \in {"stage", "fence", "insert"} -> "stage"
    [] pc \in {"attach", "put", "row", "move", "drop"} -> "attach"
    [] pc \in {"initialize", "fill"} -> "initialize"
    [] OTHER -> pc

\* A call fails or the instance is moved: its callback is called again, or it gives
\* up, or the instance errs without having reported to the row.
Interrupted(i) ==
  /\ run[i].status = "active" /\ run[i].pc # "off" /\ Mishap
  /\ Throws(i, CallbackOf(run[i].pc)) \/ End(i, "errored")
  /\ UNCHANGED <<job, staging, starter, cleaner>>

\* The callback of a terminated instance stops.
Halt(i) ==
  /\ run[i].status = "terminated" /\ run[i].pc # "off" /\ End(i, "terminated")
  /\ UNCHANGED <<job, staging, starter, cleaner, mishaps>>

-----------------------------------------------------------------------------
(* finishPendingJobCleanup and cleanupTemplateClone                        *)

Pending == job.target # "none" /\ job.status \in {"running", "failed", "canceling"}

\* (variant) A lease that ran out is never taken over.
ClaimableFree == job.token = Free

\* Nobody has the lease, or it ran out.
Claimable == job.token = Free \/ job.stale

\* The claim: the route's and cron's terminate the instance, the Workflow's own and the
\* one behind a recovered job do not.  Invocations are alike: the first that is idle.
ClaimCleanup(k, terminates) ==
  /\ cleaner[k].pc = "idle" /\ \A l \in 1 .. k - 1 : cleaner[l].pc # "idle"
  /\ Pending /\ Claimable
  /\ job' = [job EXCEPT !.token = k, !.stale = FALSE]
  /\ cleaner' = [cleaner EXCEPT ![k] =
       [pc |-> IF terminates THEN "terminate" ELSE "read", attempt |-> job.attempt,
        instance |-> job.instance, staged |-> 0, key |-> 0]]
  /\ UNCHANGED <<run, staging, starter, mishaps>>

\* stillOwned: the lease is the cleaner's, and is renewed; or the cleaner stops.
Owned(k) == job.token = k /\ job.attempt = cleaner[k].attempt /\ Pending

Goes(k, pc) ==
  IF Owned(k)
  THEN job' = [job EXCEPT !.stale = FALSE] /\ cleaner' = [cleaner EXCEPT ![k].pc = pc]
  ELSE job' = job /\ cleaner' = [cleaner EXCEPT ![k] = NoCleanup]

Terminate(k) ==
  /\ cleaner[k].pc = "terminate"
  /\ LET i == cleaner[k].instance IN
       run' = IF run[i].status = "active" THEN [run EXCEPT ![i].status = "terminated"] ELSE run
  /\ Goes(k, "read")
  /\ UNCHANGED <<staging, starter, mishaps>>

\* What is staged: a page of this job, of this attempt or an earlier one.
StagedFor(k) == page.state = "staged" /\ page.epoch <= cleaner[k].attempt

Read(k) ==
  /\ cleaner[k].pc = "read"
  /\ IF ~Owned(k) THEN job' = job /\ cleaner' = [cleaner EXCEPT ![k] = NoCleanup]
     ELSE /\ job' = [job EXCEPT !.stale = FALSE]
          /\ cleaner' = IF StagedFor(k)
                        THEN [cleaner EXCEPT ![k].pc = "purge", ![k].staged = page.epoch,
                                             ![k].key = att]
                        ELSE [cleaner EXCEPT ![k].pc = "finish"]
  /\ UNCHANGED <<run, staging, starter, mishaps>>

Purge(k) ==
  /\ cleaner[k].pc = "purge"
  /\ room' = [room EXCEPT ![cleaner[k].staged] = "purged"]
  /\ Goes(k, "objects")
  /\ UNCHANGED <<run, page, att, objects, starter, mishaps>>

\* The key the row had, and the keys of this attempt and the ones before it.
Keys(k) ==
  IF cleaner[k].key = 0 THEN {} ELSE {cleaner[k].key} \cup (1 .. cleaner[k].attempt)

DeleteObjects(k) ==
  /\ cleaner[k].pc = "objects" /\ objects' = objects \ Keys(k)
  /\ Goes(k, "delete")
  /\ UNCHANGED <<run, page, room, att, starter, mishaps>>

\* (variant) The deletion forgets the epoch that was found.
DeletesAny(k) == page.state = "staged"

\* The page as it was found goes, and the row of its attachment with it.
Deletes(k) == page.state = "staged" /\ page.epoch = cleaner[k].staged

DeletePage(k) ==
  /\ cleaner[k].pc = "delete"
  /\ IF Deletes(k) THEN page' = NoPage /\ att' = 0 ELSE UNCHANGED <<page, att>>
  /\ Goes(k, "finish")
  /\ UNCHANGED <<run, room, objects, starter, mishaps>>

Finish(k) ==
  /\ cleaner[k].pc = "finish"
  /\ job' = IF Owned(k)
            THEN [job EXCEPT !.status = job.target, !.target = "none", !.token = Free,
                             !.stale = FALSE]
            ELSE job
  /\ cleaner' = [cleaner EXCEPT ![k] = NoCleanup]
  /\ UNCHANGED <<run, staging, starter, mishaps>>

\* A call fails: the lease is given back and the cleanup stays pending.
CleanupFails(k) ==
  /\ cleaner[k].pc # "idle" /\ Mishap
  /\ job' = IF job.token = k /\ job.attempt = cleaner[k].attempt
            THEN [job EXCEPT !.token = Free, !.stale = FALSE,
                             !.status = IF job.target = "canceled" THEN "canceling" ELSE "failed"]
            ELSE job
  /\ cleaner' = [cleaner EXCEPT ![k] = NoCleanup]
  /\ UNCHANGED <<run, staging, starter>>

CleanerDies(k) ==
  /\ cleaner[k].pc # "idle" /\ Mishap
  /\ cleaner' = [cleaner EXCEPT ![k] = NoCleanup]
  /\ UNCHANGED <<job, run, staging, starter>>

\* The lease of a cleaner that died runs out; that of one at work by mishap.
LeaseRunsOut ==
  /\ job.token # Free /\ ~job.stale
  /\ job' = [job EXCEPT !.stale = TRUE]
  /\ IF cleaner[job.token].pc = "idle" THEN Fine ELSE Mishap
  /\ UNCHANGED <<run, staging, starter, cleaner>>

-----------------------------------------------------------------------------
\* recoverQueuedJobs: a job runs whose instance has ended, or is not known.
RecoverRunning ==
  /\ job.status = "running" /\ (Ended(job.instance) \/ run[job.instance].status = "none")
  /\ job' = Failed
  /\ UNCHANGED <<run, staging, starter, cleaner, mishaps>>

-----------------------------------------------------------------------------
RunStep(i) ==
  \/ Load(i) \/ Stage(i) \/ Fence(i) \/ Insert(i) \/ Attach(i) \/ Put(i)
  \/ AddRow(i) \/ Move(i) \/ Drop(i) \/ Initialize(i) \/ Fill(i) \/ Publish(i) \/ Catch(i)

CleanupStep(k) ==
  \/ Terminate(k) \/ Read(k) \/ Purge(k) \/ DeleteObjects(k) \/ DeletePage(k) \/ Finish(k)

StartStep(s) == Create(s) \/ CreateExists(s)

Next ==
  \/ Cancel \/ RetryJob \/ LeaseRunsOut \/ RecoverRunning
  \/ \E s \in Starter : Start(s) \/ StartStep(s) \/ CreateFails(s)
  \/ \E i \in Instance : RunStep(i) \/ FillFails(i) \/ Interrupted(i) \/ Halt(i)
  \/ \E a \in Attempt : Alarm(a)
  \/ \E k \in Cleaner : \/ ClaimCleanup(k, TRUE) \/ ClaimCleanup(k, FALSE)
                        \/ CleanupStep(k) \/ CleanupFails(k) \/ CleanerDies(k)

Spec == Init /\ [][Next]_vars

\* Cron starts what is queued, fails what has ended and cleans up what is pending;
\* invocations and instances go on.
Fairness ==
  /\ WF_vars(LeaseRunsOut \/ RecoverRunning)
  /\ WF_vars(\E s \in Starter : Start(s) \/ StartStep(s))
  /\ WF_vars(\E i \in Instance : RunStep(i))
  /\ WF_vars(\E k \in Cleaner : ClaimCleanup(k, TRUE) \/ CleanupStep(k))

FairSpec == Spec /\ Fairness

-----------------------------------------------------------------------------
(* Properties.                                                             *)

\* A job that succeeded has published its page, and a published page is whole: the
\* room of its epoch has the content, its attachment has a row and an object.
SucceededIsWhole ==
  /\ job.status = "succeeded" => page.state = "published"
  /\ page.state = "published" => room[page.epoch] = "filled" /\ att \in objects

\* While an attempt runs, nothing takes what it has staged: no cleanup of an earlier
\* attempt that is late, no callback of an instance that was terminated.
StagedIsKept ==
  [][job.status = "running" /\ job'.status \in {"running", "succeeded"}
       /\ page.state = "staged" /\ page.epoch = job.attempt =>
         /\ page'.state # "none" /\ page'.epoch = page.epoch
         /\ room'[page.epoch] = "purged" => room[page.epoch] = "purged"
         /\ att = job.attempt => att' = att /\ objects \cap {att} \subseteq objects']_vars

\* A job does not hang: it ends, with its cleanup.
JobEnds ==
  []<>(job.target = "none" /\ job.status \in {"succeeded", "failed", "canceled"})
=============================================================================
