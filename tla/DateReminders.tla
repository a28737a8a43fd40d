--------------------------- MODULE DateReminders ---------------------------
(***************************************************************************)
(* Date reminders: src/src/worker/date-reminders.ts, the reconciliation    *)
(* that a compaction of the page's room runs, and the notification that a  *)
(* delivery inserts.                                                       *)
(*                                                                         *)
(* One date of one page and the reminder of the person who wrote it.  The  *)
(* row of D1's date_reminders is written by that person's requests, by the *)
(* room after it projected an edit, and by the runs of the cron trigger,   *)
(* which deliver what is due and then sweep.  Each of them awaits D1 or    *)
(* the room between what it reads and what it writes: the generation, the  *)
(* claim and the sequence of the projection are what their writes compare. *)
(*                                                                         *)
(* A reminder is relative to its date (`choice' is Relative) or at a time  *)
(* of its own.  The two minutes of a claim and the two of a missing date   *)
(* are steps that may come at any moment.  checked_at only orders the work *)
(* of a sweep: a sweep here takes the row or leaves it.  The row outlives  *)
(* the thirty days after which a cancelled one is pruned.                  *)
(***************************************************************************)
EXTENDS Integers, FiniteSets

CONSTANTS
  Run,         \* invocations of the cron trigger
  Room,        \* the document object of the page
  None,        \* the claim of a row that nobody holds
  Choice,      \* the reminders one can choose: Relative, or a time of its own
  MaxTime,     \* bound: moments at which something can be due
  MaxEdits,    \* bound: edits of the page
  MaxAsks,     \* bound: requests that set the reminder
  MaxMishaps   \* bound: runs and compactions that stop half-way, statements that
               \* fail, claims that grow old under a run that still works, and
               \* changes of who may read

ASSUME ConstantsAssumption ==
  /\ Room \notin Run /\ None \notin Run
  /\ Choice \subseteq 0 .. MaxTime
  /\ {MaxTime, MaxEdits, MaxAsks, MaxMishaps} \subseteq Nat

VARIABLES
  now,      \* the clock
  doc,      \* the room: its sequence and the date it shows, Absent for none
  proj,     \* the row of document_projections
  open,     \* the page is not archived
  member,   \* the person may read the page
  row,      \* the row of date_reminders
  put,      \* the request that sets the reminder, between its two awaits
  proc,     \* cron runs and the room's reconciliation
  asks,     \* requests that set the reminder so far
  sent,     \* history: the notifications inserted
  mishaps

page == <<doc, proj, open, member>>
vars == <<now, page, row, put, proc, asks, sent, mishaps>>

-----------------------------------------------------------------------------
Absent == 0     \* there is no date
Relative == 0   \* due when the date is
Time == 1 .. MaxTime
Content == [seq : 0 .. MaxEdits, date : {Absent} \cup Time]

Standing == {"active", "claimed", "delivered"}

Row == [state : {"none", "canceled"} \cup Standing, gen : Nat, due : 0 .. MaxTime,
        choice : Choice \cup {Relative}, claim : Run \cup {None}, old : BOOLEAN,
        missing : {"no", "new", "old"}]

Put == [pc : {"idle", "save"}, choice : Choice \cup {Relative}, due : 0 .. MaxTime,
        seq : 0 .. MaxEdits]

\* What a reconciliation decides to write about the row it read.
Statement == {"nothing", "mark", "cancel", "free", "clear", "move"}

Proc == [pc : {"idle", "due", "page", "room", "batch", "uncounted", "read", "apply",
               "release", "sweep", "sweepOut", "sweepRoom"},
         then : {"idle", "due", "release", "sweep"},
         again : BOOLEAN, gen : Nat, due : 0 .. MaxTime,
         choice : Choice \cup {Relative}, seq : 0 .. MaxEdits,
         date : {Absent} \cup Time, statement : Statement]

Idle == [pc |-> "idle", then |-> "idle", again |-> FALSE, gen |-> 0, due |-> 0,
         choice |-> Relative, seq |-> 0, date |-> Absent, statement |-> "nothing"]

NoPut == [pc |-> "idle", choice |-> Relative, due |-> 0, seq |-> 0]

\* dateMentionDueAt
DueAt(date, choice) == IF choice = Relative THEN date ELSE choice

TypeOK ==
  /\ now \in 0 .. MaxTime /\ doc \in Content /\ proj \in Content
  /\ open \in BOOLEAN /\ member \in BOOLEAN
  /\ row \in Row /\ put \in Put /\ proc \in [Run \cup {Room} -> Proc]
  /\ asks \in 0 .. MaxAsks
  /\ sent \subseteq [gen : Nat, due : Time, ask : 0 .. MaxAsks]
  /\ mishaps \in 0 .. MaxMishaps

Init ==
  /\ now = 0
  /\ \E d \in {Absent} \cup Time : doc = [seq |-> 0, date |-> d]
  /\ proj = doc /\ open = TRUE /\ member = TRUE
  /\ row = [state |-> "none", gen |-> 0, due |-> 0, choice |-> Relative,
            claim |-> None, old |-> FALSE, missing |-> "no"]
  /\ put = NoPut /\ proc = [p \in Run \cup {Room} |-> Idle]
  /\ asks = 0 /\ sent = {} /\ mishaps = 0

Mishap == mishaps < MaxMishaps /\ mishaps' = mishaps + 1

Goto(p, pc) == proc' = [proc EXCEPT ![p].pc = pc]

\* The row without its claim.
Unclaimed(r) == [r EXCEPT !.claim = None, !.old = FALSE]

\* The row after the statement of cancelReminderStatement, deleteDateReminder
\* and the delivery's own cancellations.
Canceled(r) == [Unclaimed(r) EXCEPT !.state = "canceled", !.gen = @ + 1, !.missing = "no"]

-----------------------------------------------------------------------------
(* The page and its people.                                                *)

Tick ==
  /\ now < MaxTime /\ now' = now + 1
  /\ UNCHANGED <<page, row, put, proc, asks, sent, mishaps>>

Edit ==
  /\ open /\ doc.seq < MaxEdits
  /\ \E d \in {Absent} \cup Time : doc' = [seq |-> doc.seq + 1, date |-> d]
  /\ UNCHANGED <<now, proj, open, member, row, put, proc, asks, sent, mishaps>>

\* A compaction: the projection first, the reconciliation when it is stored.
Compact ==
  /\ doc # proj /\ proc[Room].pc = "idle"
  /\ proj' = doc
  /\ proc' = [proc EXCEPT ![Room].pc = "read", ![Room].seq = doc.seq, ![Room].date = doc.date]
  /\ UNCHANGED <<now, doc, open, member, row, put, asks, sent, mishaps>>

Archive ==
  /\ Mishap /\ open' = ~open
  /\ UNCHANGED <<now, doc, proj, member, row, put, proc, asks, sent>>

Membership ==
  /\ Mishap /\ member' = ~member
  /\ UNCHANGED <<now, doc, proj, open, row, put, proc, asks, sent>>

\* GET /content as a barrier: no edit is waiting for its compaction, and none is
\* on the way.
Current == doc = proj /\ proc[Room].pc = "idle"

\* putDateReminder reads the date and computes when the reminder is due ...
PutRead ==
  /\ open /\ member /\ Current /\ put.pc = "idle" /\ asks < MaxAsks
  /\ doc.date # Absent
  /\ \E c \in Choice :
       /\ DueAt(doc.date, c) > now
       /\ put' = [pc |-> "save", choice |-> c, due |-> DueAt(doc.date, c), seq |-> doc.seq]
  /\ UNCHANGED <<now, page, row, proc, asks, sent, mishaps>>

\* ... and stores it if the projection is still the one it read.  If not, the
\* request begins again, as a new one would.
PutSave ==
  /\ put.pc = "save" /\ put' = NoPut
  /\ IF \/ proj.seq # put.seq
        \/ /\ row.state = "active" /\ row.missing = "no"
           /\ row.choice = put.choice /\ row.due = put.due
     THEN UNCHANGED <<row, asks>>
     ELSE /\ row' = [state |-> "active", gen |-> row.gen + 1, due |-> put.due,
                     choice |-> put.choice, claim |-> None, old |-> FALSE, missing |-> "no"]
          /\ asks' = asks + 1
  /\ UNCHANGED <<now, page, proc, sent, mishaps>>

\* deleteDateReminder
Delete ==
  /\ open /\ member /\ row.state \in Standing
  /\ row' = [Canceled(row) EXCEPT !.missing = row.missing]
  /\ UNCHANGED <<now, page, put, proc, asks, sent, mishaps>>

-----------------------------------------------------------------------------
(* reconcileDateRemindersForPage: of the room, of a delivery that finds    *)
(* another date, and of a sweep.                                           *)

\* variant: a date moved to the past sets its reminder anew
DecisionWithoutPast(r, date) ==
  IF date = Absent THEN IF r.missing = "old" THEN "cancel" ELSE "mark"
  ELSE IF DueAt(date, r.choice) = r.due THEN "clear" ELSE "move"

Decision(r, date) ==
  IF date = Absent
  THEN CASE r.missing = "no" -> "mark"
         [] r.missing = "old" -> "cancel"
         [] r.missing = "new" /\ r.state = "claimed" -> "free"
         [] OTHER -> "nothing"
  ELSE CASE DueAt(date, r.choice) = r.due -> "clear"
         [] DueAt(date, r.choice) # r.due /\ DueAt(date, r.choice) <= now -> "cancel"
         [] OTHER -> "move"

\* A delivery gives its claim back; the room and a sweep are done.
AfterReconcile(p) ==
  IF proc[p].then = "release"
  THEN [proc[p] EXCEPT !.pc = "release", !.then = "sweep", !.statement = "nothing"]
  ELSE Idle

\* It reads the row and decides, with the content its caller has read before.
ReconcileRead(p) ==
  /\ proc[p].pc = "read"
  /\ IF row.state \in Standing
     THEN proc' = [proc EXCEPT ![p].pc = "apply", ![p].gen = row.gen,
                               ![p].due = DueAt(proc[p].date, row.choice),
                               ![p].statement = Decision(row, proc[p].date)]
     ELSE proc' = [proc EXCEPT ![p] = AfterReconcile(p)]
  /\ UNCHANGED <<now, page, row, put, asks, sent, mishaps>>

\* A failure is logged, and the next projection or sweep looks again.
ReconcileFail(p) ==
  /\ proc[p].pc \in {"read", "apply"} /\ proc[p].then = "idle" /\ Mishap
  /\ proc' = [proc EXCEPT ![p] = Idle]
  /\ UNCHANGED <<now, page, row, put, asks, sent>>

\* variant: a delivered reminder no longer follows its date
StillActive(p) ==
  row.gen = proc[p].gen /\ row.state = "active" /\ proj.seq = proc[p].seq

\* The guard of every statement of the batch.
StillSo(p) ==
  row.gen = proc[p].gen /\ row.state \in Standing /\ proj.seq = proc[p].seq

Freed(r) == IF r.state = "claimed" THEN "active" ELSE r.state

Written(p) ==
  CASE proc[p].statement = "cancel" -> Canceled(row)
    [] proc[p].statement = "mark" ->
         [Unclaimed(row) EXCEPT !.state = Freed(row),
                                !.missing = IF @ = "no" THEN "new" ELSE @]
    [] proc[p].statement = "free" ->
         IF row.state = "claimed" THEN [Unclaimed(row) EXCEPT !.state = "active"] ELSE row
    [] proc[p].statement = "clear" -> [row EXCEPT !.missing = "no"]
    [] proc[p].statement = "move" ->
         [Unclaimed(row) EXCEPT !.state = "active", !.gen = @ + 1,
                                !.due = proc[p].due, !.missing = "no"]
    [] proc[p].statement = "nothing" -> row

ReconcileApply(p) ==
  /\ proc[p].pc = "apply"
  /\ row' = IF StillSo(p) THEN Written(p) ELSE row
  /\ proc' = [proc EXCEPT ![p] = AfterReconcile(p)]
  /\ UNCHANGED <<now, page, put, asks, sent, mishaps>>

-----------------------------------------------------------------------------
(* deliverDueDateReminders                                                 *)

Start(r) ==
  /\ proc[r].pc = "idle"
  /\ proc' = [proc EXCEPT ![r].pc = "due"]
  /\ UNCHANGED <<now, page, row, put, asks, sent, mishaps>>

\* variant: a claim is never taken over
ClaimableOnce(r) == row.state = "active" /\ row.due <= now

Claimable(r) ==
  /\ row.state \in Standing /\ row.due <= now
  /\ (row.state = "active") \/ (row.state = "claimed" /\ row.old)

Claim(r) ==
  /\ proc[r].pc = "due"
  /\ IF Claimable(r)
     THEN /\ row' = [row EXCEPT !.state = "claimed", !.claim = r, !.old = FALSE]
          /\ proc' = [proc EXCEPT ![r].pc = "page", ![r].gen = row.gen, ![r].due = row.due,
                                  ![r].choice = row.choice]
     ELSE /\ row' = row
          /\ proc' = [proc EXCEPT ![r] = [Idle EXCEPT !.pc = "sweep"]]
  /\ UNCHANGED <<now, page, put, asks, sent, mishaps>>

\* The claim that a statement of the delivery compares.
Holds(r) == row.gen = proc[r].gen /\ row.state = "claimed" /\ row.claim = r

CheckPage(r) ==
  /\ proc[r].pc = "page"
  /\ IF open /\ member
     THEN Goto(r, "room") /\ row' = row
     ELSE /\ row' = IF Holds(r) THEN [Canceled(row) EXCEPT !.missing = row.missing] ELSE row
          /\ proc' = [proc EXCEPT ![r] = [Idle EXCEPT !.pc = "sweep"]]
  /\ UNCHANGED <<now, page, put, asks, sent, mishaps>>

\* The room's content, which must still have the date the reminder was set for.
ReadRoom(r) ==
  /\ proc[r].pc = "room" /\ Current
  /\ LET matches == doc.date # Absent /\ DueAt(doc.date, proc[r].choice) = proc[r].due
     IN  proc' = [proc EXCEPT ![r].pc = IF matches THEN "batch" ELSE "read",
                              ![r].then = IF matches THEN "idle" ELSE "release",
                              ![r].seq = doc.seq,
                              ![r].date = IF matches THEN Absent ELSE doc.date]
  /\ UNCHANGED <<now, page, row, put, asks, sent, mishaps>>

\* content_changing, content_unavailable, or a failure of D1: the claim goes back.
Fail(r) ==
  /\ \/ proc[r].pc = "room" /\ mishaps' = mishaps
     \/ proc[r].pc \in {"page", "batch", "uncounted"} /\ Mishap
     \/ proc[r].pc \in {"read", "apply"} /\ proc[r].then = "release" /\ Mishap
  /\ proc' = [proc EXCEPT ![r].pc = "release", ![r].then = "sweep",
                          ![r].statement = "nothing"]
  /\ UNCHANGED <<now, page, row, put, asks, sent>>

\* variant: the delivery does not compare the projection
DeliverableUnread(r) == Holds(r)

\* The compare that delivers: the claim is still this run's and the projection
\* still the content it read.
Deliverable(r) == Holds(r) /\ proj.seq = proc[r].seq

\* One batch: the row is delivered, and the notification inserted if the page
\* can be read now; INSERT OR IGNORE under the receipt of id and generation.
Deliver(r) ==
  /\ proc[r].pc = "batch"
  /\ IF Deliverable(r)
     THEN /\ row' = [Unclaimed(row) EXCEPT !.state = "delivered", !.missing = "no"]
          /\ IF open /\ member /\ ~\E n \in sent : n.gen = row.gen
             THEN /\ sent' = sent \cup {[gen |-> row.gen, due |-> row.due, ask |-> asks]}
                  /\ proc' = [proc EXCEPT ![r] = [Idle EXCEPT !.pc = "sweep"]]
             ELSE /\ sent' = sent
                  /\ Goto(r, "uncounted")
     ELSE /\ UNCHANGED <<row, sent>>
          /\ proc' = [proc EXCEPT ![r].pc = "release", ![r].again = TRUE,
                                  ![r].then = IF proc[r].again THEN "sweep" ELSE "due"]
  /\ UNCHANGED <<now, page, put, asks, mishaps>>

\* Nobody was notified: the delivery is taken back as a cancellation.
TakeBack(r) ==
  /\ proc[r].pc = "uncounted"
  /\ row' = IF row.gen = proc[r].gen /\ row.state = "delivered"
            THEN [row EXCEPT !.state = "canceled", !.gen = @ + 1] ELSE row
  /\ proc' = [proc EXCEPT ![r] = [Idle EXCEPT !.pc = "sweep"]]
  /\ UNCHANGED <<now, page, put, asks, sent, mishaps>>

\* releaseReminderClaim
Release(r) ==
  /\ proc[r].pc = "release"
  /\ row' = IF Holds(r) THEN [Unclaimed(row) EXCEPT !.state = "active"] ELSE row
  /\ proc' = [proc EXCEPT ![r] = [Idle EXCEPT !.pc = proc[r].then,
                                             !.again = proc[r].then = "due"]]
  /\ UNCHANGED <<now, page, put, asks, sent, mishaps>>

-----------------------------------------------------------------------------
(* sweepDateReminders                                                      *)

SweepNothing(r) ==
  /\ proc[r].pc = "sweep" /\ Goto(r, "idle")
  /\ UNCHANGED <<now, page, row, put, asks, sent, mishaps>>

SweepPick(r) ==
  /\ proc[r].pc = "sweep" /\ row.state \in Standing
  /\ Goto(r, IF open THEN "sweepRoom" ELSE "sweepOut")
  /\ UNCHANGED <<now, page, row, put, asks, sent, mishaps>>

\* The page is archived or in another epoch: by state, whatever the generation.
SweepOut(r) ==
  /\ proc[r].pc = "sweepOut" /\ Goto(r, "idle")
  /\ row' = IF row.state \in Standing
            THEN [row EXCEPT !.state = "canceled", !.gen = @ + 1] ELSE row
  /\ UNCHANGED <<now, page, put, asks, sent, mishaps>>

SweepRead(r) ==
  /\ proc[r].pc = "sweepRoom" /\ Current
  /\ proc' = [proc EXCEPT ![r].pc = "read", ![r].seq = doc.seq, ![r].date = doc.date]
  /\ UNCHANGED <<now, page, row, put, asks, sent, mishaps>>

\* The room does not answer: the rows are rotated, and the run is over.
SweepFail(r) ==
  /\ proc[r].pc = "sweepRoom" /\ proc' = [proc EXCEPT ![r] = Idle]
  /\ UNCHANGED <<now, page, row, put, asks, sent, mishaps>>

-----------------------------------------------------------------------------
(* Time and failure.                                                       *)

Working(r) ==
  \/ proc[r].pc \in {"page", "room", "batch", "release"}
  \/ proc[r].pc \in {"read", "apply"} /\ proc[r].then = "release"

\* Two minutes after a claim; a claim whose run is gone grows old as well.
ClaimAges ==
  /\ row.state = "claimed" /\ ~row.old
  /\ row' = [row EXCEPT !.old = TRUE]
  /\ IF Working(row.claim) THEN Mishap ELSE mishaps' = mishaps
  /\ UNCHANGED <<now, page, put, proc, asks, sent>>

\* MISSING_GRACE_MS after the date was first found missing.
MissingAges ==
  /\ row.missing = "new" /\ row' = [row EXCEPT !.missing = "old"]
  /\ UNCHANGED <<now, page, put, proc, asks, sent, mishaps>>

Crash(p) ==
  /\ proc[p].pc # "idle" /\ Mishap
  /\ proc' = [proc EXCEPT ![p] = Idle]
  /\ UNCHANGED <<now, page, row, put, asks, sent>>

-----------------------------------------------------------------------------
Reconcile(p) == ReconcileRead(p) \/ ReconcileApply(p)

Step(r) ==
  \/ Claim(r) \/ CheckPage(r) \/ Deliver(r) \/ TakeBack(r) \/ Release(r)
  \/ SweepOut(r) \/ SweepFail(r)

Next ==
  \/ Tick \/ Edit \/ Compact \/ Archive \/ Membership
  \/ PutRead \/ PutSave \/ Delete \/ ClaimAges \/ MissingAges
  \/ \E p \in Run \cup {Room} : Reconcile(p) \/ ReconcileFail(p) \/ Crash(p)
  \/ \E r \in Run : Start(r) \/ Step(r) \/ ReadRoom(r) \/ Fail(r)
                      \/ SweepNothing(r) \/ SweepPick(r)
                      \/ SweepRead(r)

Spec == Init /\ [][Next]_vars

\* The trigger fires every fifteen minutes and a run goes on as far as its awaits
\* let it; the room compacts from its timer or its alarm, and answers at last when
\* it is asked again and again.  A sweep reaches every row by checked_at.
Fairness ==
  /\ WF_vars(Compact) /\ WF_vars(Reconcile(Room)) /\ WF_vars(ClaimAges) /\ WF_vars(MissingAges)
  /\ \A r \in Run :
       /\ WF_vars(Start(r)) /\ WF_vars(Step(r)) /\ WF_vars(SweepNothing(r) \/ SweepPick(r))
       /\ WF_vars(Reconcile(r)) /\ SF_vars(ReadRoom(r))
       /\ SF_vars(SweepPick(r)) /\ SF_vars(SweepRead(r))

FairSpec == Spec /\ Fairness

-----------------------------------------------------------------------------
(* Properties.                                                             *)

\* Whoever is notified is notified of what the page says: the notification goes
\* in while the reminder stands, is due, and is due by the date the projection
\* shows, to somebody who can read the page; whatever was edited, deleted, set
\* again or taken over since the run claimed the row.
NotifiesCurrent ==
  [][\A n \in sent' \ sent :
       /\ open /\ member /\ row.state = "claimed" /\ row.gen = n.gen
       /\ proj.date # Absent /\ DueAt(proj.date, row.choice) = n.due
       /\ n.due <= now]_vars

\* A moment the person asked for once is notified once, although claims run out,
\* runs retry and the date is moved away and back.
OncePerMoment == \A m, n \in sent : m.due = n.due /\ m.ask = n.ask => m = n

\* "A claimed reminder whose run stopped is taken over": what is due is delivered
\* or cancelled, or its date is moved on.
DueIsSettled ==
  (row.state \in {"active", "claimed"} /\ row.due <= now) ~>
    (row.state \in {"delivered", "canceled"} \/ row.due > now)

\* A reminder follows its date: when the projection shows another date than the
\* reminder was computed from, the reminder is moved or cancelled, even if the
\* reconciliation of that compaction was lost.
FollowsDate ==
  (row.state \in Standing /\ DueAt(proj.date, row.choice) # row.due) ~>
    (row.state = "canceled" \/ DueAt(proj.date, row.choice) = row.due)
=============================================================================
