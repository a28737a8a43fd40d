-------------------------- MODULE AttachmentUpload --------------------------
(***************************************************************************)
(* Multipart uploads of one attachment id: the upload session in D1        *)
(* (attachment_uploads), the multipart uploads and the object at the id's  *)
(* key in R2, the four upload routes of src/src/worker/index.ts and the    *)
(* reaper of src/src/worker/attachments.ts, beside the archive and the     *)
(* permanent deletion of the page.                                         *)
(*                                                                         *)
(* Every action is one write to D1, one call to R2, or the reads between   *)
(* two of them.  A call that fails may have taken effect.  next_attempt_at *)
(* is two things: due says that it has passed, lease whose fencing token   *)
(* it is.  A request that finds the id committed changes nothing.          *)
(***************************************************************************)
EXTENDS Naturals, FiniteSets

CONSTANTS
  Client,      \* requests of clients that run at once
  Worker,      \* cron invocations that run at once
  Part,        \* the parts of the file
  NoLease,     \* next_attempt_at was not set by a claim of the reaper
  MaxUploads,  \* bound: multipart uploads ever created for this id
  MaxRequests  \* bound: requests that clients make

ASSUME ConstantsAssumption ==
  /\ MaxUploads \in Nat \ {0} /\ MaxRequests \in Nat
  /\ NoLease \notin Worker /\ IsFiniteSet(Part)

Upload == 1..MaxUploads

VARIABLES
  page,        \* D1: "active", "archived", "accepted" for deletion or "gone"
  row,         \* D1: the session, of state "none" when there is no row
  parts,       \* D1: attachment_upload_parts, the upload of each part's etag, or 0
  attachment,  \* D1: the attachments row exists
  target,      \* D1: the deletion job has the key as a target
  mpu,         \* R2: the multipart uploads
  held,        \* R2: the parts each upload holds
  object,      \* R2: the object at the key exists
  client,      \* the requests in flight
  reaper,      \* the cron invocations in flight
  requests,    \* how many requests were made
  recorded,    \* history: uploads whose session was inserted
  lost,        \* history: uploads aborted although their session was inserted
  adopted      \* history: open uploads whose session was completed by another's object

d1 == <<page, row, parts, attachment, target>>
r2 == <<mpu, held, object>>
procs == <<client, reaper, requests>>
history == <<recorded, lost, adopted>>
vars == <<d1, r2, procs, history>>

NoRow == [state |-> "none", upload |-> 0, due |-> FALSE, lease |-> NoLease]
Fresh(u) == [state |-> "active", upload |-> u, due |-> FALSE, lease |-> NoLease]
NoParts == [p \in Part |-> 0]
Idle == [pc |-> "idle", upload |-> 0, part |-> {}, claimed |-> FALSE, etags |-> NoParts]
Resting == [pc |-> "idle", upload |-> 0, state |-> "none"]

StoresTyped ==
  /\ page \in {"active", "archived", "accepted", "gone"}
  /\ parts \in [Part -> 0..MaxUploads]
  /\ attachment \in BOOLEAN /\ target \in BOOLEAN /\ object \in BOOLEAN
  /\ mpu \in [Upload -> {"unused", "open", "completed", "aborted"}]
  /\ held \in [Upload -> SUBSET Part]
  /\ requests \in 0..MaxRequests
  /\ recorded \subseteq Upload /\ lost \subseteq Upload /\ adopted \subseteq Upload

SessionState == {"none", "active", "completing", "r2_complete", "reaping", "aborting"}
Session == [state: SessionState, upload: 0..MaxUploads, due: BOOLEAN,
            lease: Worker \cup {NoLease}]

SessionTyped ==
  /\ row \in Session
  /\ row.state = "none" <=> row.upload = 0

ClientPc == {"idle", "inserting", "uploading", "recording", "claiming", "heading", "completing",
             "promoting", "reloading", "committing", "aborting", "deleting"}
ReaperPc == {"idle", "aborting", "deleting", "inspecting", "promoting", "reopening",
             "resolving", "committing", "erasing", "erased"}
Requesting == [pc: ClientPc, upload: 0..MaxUploads, part: SUBSET Part, claimed: BOOLEAN,
               etags: [Part -> 0..MaxUploads]]
Reaping == [pc: ReaperPc, upload: 0..MaxUploads, state: SessionState]

ClientsTyped == client \in [Client -> Requesting]
ReapersTyped == reaper \in [Worker -> Reaping]

TypeOK == StoresTyped /\ SessionTyped /\ ClientsTyped /\ ReapersTyped

\* The id is new, or has a session all of whose parts have arrived.
Init ==
  /\ page = "active" /\ attachment = FALSE /\ target = FALSE /\ object = FALSE
  /\ \/ /\ row = NoRow /\ parts = NoParts /\ recorded = {}
        /\ mpu = [u \in Upload |-> "unused"] /\ held = [u \in Upload |-> {}]
     \/ /\ row = Fresh(1) /\ parts = [p \in Part |-> 1] /\ recorded = {1}
        /\ mpu = [u \in Upload |-> IF u = 1 THEN "open" ELSE "unused"]
        /\ held = [u \in Upload |-> IF u = 1 THEN Part ELSE {}]
  /\ client = [c \in Client |-> Idle] /\ reaper = [w \in Worker |-> Resting]
  /\ requests = 0 /\ lost = {} /\ adopted = {}

-----------------------------------------------------------------------------
(* Writes to the session that several handlers make.                       *)

At(s) == row.state = s

\* State s with a deadline in the future that is nobody's lease.
Refreshed(s) == [state |-> s, upload |-> row.upload, due |-> FALSE, lease |-> NoLease]

\* State s under the lease of w.
Leased(w, s) == [state |-> s, upload |-> row.upload, due |-> FALSE, lease |-> w]

\* variant: the fencing token is not compared.
HoldsAnyLease(w, s) == At(s)

\* The claim of w still stands: next_attempt_at is the value it wrote.
Holds(w, s) == At(s) /\ row.lease = w

Goto(c, pc) == client' = [client EXCEPT ![c].pc = pc]
Leave(c) == client' = [client EXCEPT ![c] = Idle]
Go(w, pc) == reaper' = [reaper EXCEPT ![w].pc = pc]
Rest(w) == reaper' = [reaper EXCEPT ![w] = Resting]

DropRow == row' = NoRow /\ parts' = NoParts

\* variant: a failed abort makes the session active again.
RescheduledOpen(w) ==
  IF row.lease = w
    THEN Refreshed(IF reaper[w].state = "reaping" THEN "active" ELSE reaper[w].state)
    ELSE row

\* rescheduleUpload: a later deadline, if the claim of w still stands.
Rescheduled(w) == IF row.lease = w THEN Refreshed(reaper[w].state) ELSE row

\* The batch that both the complete route and the reaper run: insert the
\* attachment from an r2_complete session, and drop the session.  The insert
\* fails when the id is taken or the page is gone, and with it the batch.
Fits == At("r2_complete") => ~attachment /\ page # "gone"
CommitBatch ==
  IF At("r2_complete")
    THEN attachment' = TRUE /\ DropRow
    ELSE UNCHANGED <<attachment, row, parts>>

\* completing -> r2_complete, on the strength of the object at the key.
PromoteRow(stands) ==
  /\ row' = IF stands THEN Refreshed("r2_complete") ELSE row
  /\ adopted' = IF stands /\ mpu[row.upload] = "open"
                  THEN adopted \cup {row.upload} ELSE adopted

\* Aborting an upload that is not open any more changes nothing.
AbortUpload(u) == mpu' = [mpu EXCEPT ![u] = IF @ = "open" THEN "aborted" ELSE @]

-----------------------------------------------------------------------------
(* The routes.                                                             *)

Begin(c) ==
  /\ client[c].pc = "idle" /\ requests < MaxRequests /\ requests' = requests + 1

\* POST uploads: neither an attachment nor a session has the id, so a multipart
\* upload is created.
Create(c) ==
  /\ Begin(c) /\ page = "active" /\ ~attachment /\ At("none")
  /\ \E u \in Upload :
       /\ mpu[u] = "unused" /\ \A v \in 1..(u - 1) : mpu[v] # "unused"
       /\ mpu' = [mpu EXCEPT ![u] = "open"]
       /\ client' = [client EXCEPT ![c] = [Idle EXCEPT !.pc = "inserting", !.upload = u]]
  /\ UNCHANGED <<d1, held, object, reaper, history>>

\* The session is inserted, unless the id has one by now; its page_id is no
\* foreign key.
Record(u) ==
  /\ row' = Fresh(u)
  /\ recorded' = recorded \cup {u}

Insert(c) ==
  /\ client[c].pc = "inserting" /\ At("none")
  /\ Record(client[c].upload)
  /\ Leave(c)
  /\ UNCHANGED <<page, parts, attachment, target, r2, reaper, requests, lost, adopted>>

\* The insertion fails, or its answer is lost: the upload is aborted, or is left
\* behind when that fails too.
InsertFails(c) ==
  LET u == client[c].upload
  IN /\ client[c].pc = "inserting"
     /\ AbortUpload(u) \/ UNCHANGED mpu
     /\ \/ At("none") /\ Record(u) /\ lost' = lost \cup {u}
        \/ UNCHANGED <<row, recorded, lost>>
     /\ Leave(c)
     /\ UNCHANGED <<page, parts, attachment, target, held, object, reaper, requests, adopted>>

\* PUT part: the claim pushes the deadline out.
PutPart(c) ==
  /\ Begin(c) /\ page = "active" /\ At("active")
  /\ row' = Refreshed("active")
  /\ \E p \in Part :
       client' = [client EXCEPT ![c] = [Idle EXCEPT !.pc = "uploading", !.part = {p},
                                                    !.upload = row.upload, !.claimed = TRUE]]
  /\ UNCHANGED <<page, parts, attachment, target, r2, reaper, history>>

UploadPart(c) ==
  LET u == client[c].upload
  IN /\ client[c].pc = "uploading" /\ mpu[u] = "open"
     /\ held' = [held EXCEPT ![u] = @ \cup client[c].part]
     /\ Goto(c, "recording")
     /\ UNCHANGED <<d1, mpu, object, reaper, requests, history>>

\* The part and the deadline in one batch; the part's row needs the session's.
RecordPart(c) ==
  /\ client[c].pc = "recording" /\ ~At("none")
  /\ parts' = [p \in Part |-> IF p \in client[c].part THEN client[c].upload ELSE parts[p]]
  /\ row' = IF At("active") THEN Refreshed("active") ELSE row
  /\ Leave(c)
  /\ UNCHANGED <<page, attachment, target, r2, reaper, requests, history>>

\* Where a request to complete goes on for a session it has read.
Continue(s) ==
  CASE s = "active" -> "claiming" [] s = "completing" -> "heading"
    [] s = "r2_complete" -> "committing" [] OTHER -> "idle"

\* POST complete: every part has arrived.
Complete(c) ==
  /\ Begin(c) /\ page = "active" /\ ~attachment
  /\ row.state \in {"active", "completing", "r2_complete"}
  /\ \A p \in Part : parts[p] # 0
  /\ client' = [client EXCEPT ![c] = [Idle EXCEPT !.pc = Continue(row.state), !.etags = parts,
                                                  !.upload = row.upload]]
  /\ UNCHANGED <<d1, r2, reaper, history>>

\* active -> completing, or what another request made of the session.
ClaimCompletion(c) ==
  /\ client[c].pc = "claiming"
  /\ \/ /\ At("active")
        /\ row' = Refreshed("completing")
        /\ client' = [client EXCEPT ![c].pc = "heading", ![c].upload = row.upload,
                                    ![c].claimed = TRUE]
     \/ /\ row.state \in {"completing", "r2_complete"} /\ page = "active"
        /\ client' = [client EXCEPT ![c].pc = Continue(row.state), ![c].upload = row.upload]
        /\ UNCHANGED row
     \/ /\ row.state \in {"none", "reaping", "aborting"} \/ (~At("active") /\ page # "active")
        /\ Leave(c)
        /\ UNCHANGED row
  /\ UNCHANGED <<page, parts, attachment, target, r2, reaper, requests, history>>

\* An object at the key: the upload is complete already.
Head(c) ==
  /\ client[c].pc = "heading"
  /\ Goto(c, IF object THEN "promoting" ELSE "completing")
  /\ UNCHANGED <<d1, r2, reaper, requests, history>>

\* R2 completes an open upload from exactly the listed parts.
Completable(c) ==
  LET u == client[c].upload
  IN mpu[u] = "open" /\ \A p \in Part : client[c].etags[p] = u /\ p \in held[u]

\* ... and the request goes on, unless the answer is lost.
CompleteUpload(c) ==
  /\ client[c].pc = "completing" /\ Completable(c)
  /\ mpu' = [mpu EXCEPT ![client[c].upload] = "completed"] /\ object' = TRUE
  /\ Goto(c, "promoting") \/ UNCHANGED client
  /\ UNCHANGED <<d1, held, reaper, requests, history>>

\* R2 refuses or fails, or its answer was lost: an object at the key means that this
\* request or another one completed the upload.  Otherwise, and when the look at the
\* key fails too, the session stays completing with a new deadline.
CompleteFails(c) ==
  /\ client[c].pc = "completing"
  /\ \/ object /\ Goto(c, "promoting") /\ UNCHANGED row
     \/ /\ row' = IF At("completing") THEN Refreshed("completing") ELSE row
        /\ Leave(c)
  /\ UNCHANGED <<page, parts, attachment, target, r2, reaper, requests, history>>

Promote(c) ==
  /\ client[c].pc = "promoting"
  /\ PromoteRow(At("completing"))
  /\ client' = [client EXCEPT ![c].pc = "reloading",
                                    ![c].claimed = @ \/ At("completing")]
  /\ UNCHANGED <<page, parts, attachment, target, r2, reaper, requests, recorded, lost>>

Reload(c) ==
  /\ client[c].pc = "reloading"
  /\ IF page = "active" /\ At("r2_complete") THEN Goto(c, "committing") ELSE Leave(c)
  /\ UNCHANGED <<d1, r2, reaper, requests, history>>

\* The batch, and the answer when there is an attachment then.
Commit(c) ==
  /\ client[c].pc = "committing" /\ Fits
  /\ CommitBatch
  /\ Leave(c)
  /\ UNCHANGED <<page, target, r2, reaper, requests, history>>

\* DELETE upload: active -> aborting.
Abort(c) ==
  /\ Begin(c) /\ page = "active" /\ ~attachment /\ At("active")
  /\ row' = Refreshed("aborting")
  /\ client' = [client EXCEPT ![c] = [Idle EXCEPT !.pc = "aborting", !.upload = row.upload,
                                                  !.claimed = TRUE]]
  /\ UNCHANGED <<page, parts, attachment, target, r2, reaper, history>>

AbortInR2(c) ==
  /\ client[c].pc = "aborting"
  /\ AbortUpload(client[c].upload)
  /\ Goto(c, "deleting")
  /\ UNCHANGED <<d1, held, object, reaper, requests, history>>

DeleteAborted(c) ==
  /\ client[c].pc = "deleting"
  /\ IF At("aborting") THEN DropRow ELSE UNCHANGED <<row, parts>>
  /\ Leave(c)
  /\ UNCHANGED <<page, attachment, target, r2, reaper, requests, history>>

\* A call fails, or the request ends with its client; a failed abort may have
\* taken effect, and leaves a new deadline when D1 answers.
GiveUp(c) ==
  LET pc == client[c].pc
  IN /\ pc \notin {"idle", "inserting"}
     /\ (pc = "aborting" /\ AbortUpload(client[c].upload)) \/ UNCHANGED mpu
     /\ row' \in IF pc \in {"aborting", "deleting"} /\ At("aborting")
                   THEN {row, Refreshed("aborting")} ELSE {row}
     /\ Leave(c)
     /\ UNCHANGED <<page, parts, attachment, target, held, object, reaper, requests, history>>

-----------------------------------------------------------------------------
(* The reaper, from cron.                                                  *)

\* The deadline passes.  A session lives for a day, so a request that renewed
\* the deadline is over by then.
Expire ==
  /\ ~At("none") /\ ~row.due
  /\ \A c \in Client : ~client[c].claimed
  /\ row' = [row EXCEPT !.due = TRUE]
  /\ UNCHANGED <<page, parts, attachment, target, r2, procs, history>>

Start(w, s, pc) ==
  /\ reaper[w].pc = "idle" /\ row.due
  /\ row' = Leased(w, s)
  /\ reaper' = [reaper EXCEPT ![w] = [pc |-> pc, upload |-> row.upload, state |-> s]]
  /\ UNCHANGED <<page, parts, attachment, target, r2, client, requests, history>>

\* variant: an abort that failed is not retried.
RetryOwnAbort(w) == At("aborting") /\ Start(w, "aborting", "aborting")

Reap(w) == At("active") /\ Start(w, "reaping", "aborting")
RetryAbort(w) == row.state \in {"reaping", "aborting"} /\ Start(w, row.state, "aborting")
Inspect(w) == At("completing") /\ Start(w, "completing", "inspecting")
Resolve(w) == At("r2_complete") /\ Start(w, "r2_complete", "resolving")

ReapInR2(w) ==
  /\ reaper[w].pc = "aborting"
  /\ AbortUpload(reaper[w].upload)
  /\ Go(w, "deleting")
  /\ UNCHANGED <<d1, held, object, client, requests, history>>

DeleteReaped(w) ==
  /\ reaper[w].pc \in {"deleting", "erased"}
  /\ IF Holds(w, reaper[w].state) THEN DropRow ELSE UNCHANGED <<row, parts>>
  /\ Rest(w)
  /\ UNCHANGED <<page, attachment, target, r2, client, requests, history>>

\* variant: a session that is completing is taken for complete.
InspectNothing(w) ==
  /\ reaper[w].pc = "inspecting"
  /\ Go(w, "promoting")
  /\ UNCHANGED <<d1, r2, client, requests, history>>

InspectObject(w) ==
  /\ reaper[w].pc = "inspecting"
  /\ Go(w, IF object THEN "promoting" ELSE "reopening")
  /\ UNCHANGED <<d1, r2, client, requests, history>>

\* For one more session lifetime.
PromoteStale(w) ==
  /\ reaper[w].pc = "promoting"
  /\ PromoteRow(Holds(w, "completing"))
  /\ Rest(w)
  /\ UNCHANGED <<page, parts, attachment, target, r2, client, requests, recorded, lost>>

\* completing -> active, due at once.
Reopen(w) ==
  /\ reaper[w].pc = "reopening"
  /\ row' = IF Holds(w, "completing")
              THEN [state |-> "active", upload |-> row.upload, due |-> TRUE, lease |-> NoLease]
              ELSE row
  /\ Rest(w)
  /\ UNCHANGED <<page, parts, attachment, target, r2, client, requests, history>>

ResolvePage(w) ==
  /\ reaper[w].pc = "resolving"
  /\ Go(w, IF page # "gone" THEN "committing" ELSE "erasing")
  /\ UNCHANGED <<d1, r2, client, requests, history>>

\* The batch the client abandoned, whoever holds the lease by now.
CommitStale(w) ==
  /\ reaper[w].pc = "committing"
  /\ IF Fits THEN CommitBatch
             ELSE row' = Rescheduled(w) /\ UNCHANGED <<attachment, parts>>
  /\ Rest(w)
  /\ UNCHANGED <<page, target, r2, client, requests, history>>

\* The page is gone: delete the object, then the session.
EraseObject(w) ==
  /\ reaper[w].pc = "erasing"
  /\ object' = FALSE
  /\ Go(w, "erased")
  /\ UNCHANGED <<d1, mpu, held, client, requests, history>>

\* A call fails, with or without effect, and the claim is rescheduled if it
\* stands and D1 answers; or the invocation dies.
ReaperFails(w) ==
  /\ reaper[w].pc # "idle"
  /\ (reaper[w].pc = "aborting" /\ AbortUpload(reaper[w].upload)) \/ UNCHANGED mpu
  /\ (reaper[w].pc = "erasing" /\ object' = FALSE) \/ UNCHANGED object
  /\ row' \in {row, Rescheduled(w)}
  /\ Rest(w)
  /\ UNCHANGED <<page, parts, attachment, target, held, client, requests, history>>

-----------------------------------------------------------------------------
(* The page.                                                               *)

Archive ==
  /\ page = "active" /\ page' = "archived"
  /\ UNCHANGED <<row, parts, attachment, target, r2, procs, history>>

Unarchive ==
  /\ page = "archived" /\ page' = "active"
  /\ UNCHANGED <<row, parts, attachment, target, r2, procs, history>>

\* acceptPageDeletion lists the keys of attachments and of completed sessions.
Accept ==
  /\ page = "archived" /\ page' = "accepted"
  /\ target' = (attachment \/ At("r2_complete"))
  /\ UNCHANGED <<row, parts, attachment, r2, procs, history>>

\* removeDeletionMetadata: the page goes with its attachments, and the sessions
\* that are completed by now.
RemoveRows ==
  /\ page = "accepted" /\ page' = "gone"
  /\ attachment' = FALSE
  /\ IF At("r2_complete") THEN DropRow ELSE UNCHANGED <<row, parts>>
  /\ UNCHANGED <<target, r2, procs, history>>

EraseTarget ==
  /\ page = "gone" /\ target
  /\ target' = FALSE /\ object' = FALSE
  /\ UNCHANGED <<page, row, parts, attachment, mpu, held, procs, history>>

-----------------------------------------------------------------------------

Request(c) ==
  \/ Create(c) \/ Insert(c) \/ InsertFails(c)
  \/ PutPart(c) \/ UploadPart(c) \/ RecordPart(c)
  \/ Complete(c) \/ ClaimCompletion(c) \/ Head(c)
  \/ CompleteUpload(c) \/ CompleteFails(c) \/ Promote(c) \/ Reload(c) \/ Commit(c)
  \/ Abort(c) \/ AbortInR2(c) \/ DeleteAborted(c) \/ GiveUp(c)

Claim(w) == Reap(w) \/ RetryAbort(w) \/ Inspect(w) \/ Resolve(w)
CallR2(w) == ReapInR2(w) \/ InspectObject(w) \/ EraseObject(w)
WriteD1(w) == DeleteReaped(w) \/ PromoteStale(w) \/ Reopen(w) \/ CommitStale(w)

Next ==
  \/ \E c \in Client : Request(c)
  \/ \E w \in Worker : Claim(w) \/ CallR2(w) \/ ResolvePage(w) \/ WriteD1(w) \/ ReaperFails(w)
  \/ Expire \/ Archive \/ Unarchive \/ Accept \/ RemoveRows \/ EraseTarget

Spec == Init /\ [][Next]_vars

\* Requests end, deadlines pass, cron claims what is due, no call of the reaper
\* fails for ever, and not every claim runs out under the invocation that made it.
Fairness ==
  /\ \A c \in Client : WF_vars(client[c].pc # "idle" /\ Request(c))
  /\ WF_vars(Expire)
  /\ \A w \in Worker :
       /\ WF_vars(Claim(w) \/ CallR2(w) \/ ResolvePage(w) \/ WriteD1(w))
       /\ SF_vars(row.lease = w /\ CallR2(w))
       /\ SF_vars(row.lease = w /\ ResolvePage(w))
       /\ SF_vars(row.lease = w /\ WriteD1(w))

FairSpec == Spec /\ Fairness

-----------------------------------------------------------------------------

\* An attachment's object is in R2: no session is committed before the upload
\* has crossed R2's completion, and nothing erases the object of a page that
\* is there.
RowHasObject == attachment => object

\* Once an upload is aborted its session is no client's to resume: it stays
\* reaping or aborting (reapUpload's comment), whichever of abort, row and
\* reply failed.  The one exception is a session whose insertion was not seen.
AbortedIsFenced ==
  ~At("none") /\ row.upload \notin lost /\ mpu[row.upload] = "aborted"
    => row.state \in {"reaping", "aborting"}

\* The parts of a session that was dropped are not left in R2 with nothing to
\* find them by, unless an object that was there already answered for them.
RecordedIsFound ==
  \A u \in recorded : mpu[u] = "open" => row.upload = u \/ u \in adopted

-----------------------------------------------------------------------------
(* The inductive invariant.                                                *)

\* What says that R2 has the object is right until the page is gone, and only
\* then does the reaper erase it.
ObjectKnown ==
  /\ \/ attachment \/ At("r2_complete")
     \/ \E c \in Client : client[c].pc = "promoting"
     \/ \E w \in Worker : reaper[w].pc = "promoting"
     => object \/ page = "gone"
  /\ attachment => page # "gone"
  /\ \A w \in Worker : reaper[w].pc \in {"erasing", "erased"} => page = "gone"

\* A multipart upload has at most one session in its life: the row, a client
\* and the reaper speak of uploads that had one, an insertion of one that had none.
UploadsKnown ==
  /\ \A u \in recorded : mpu[u] # "unused"
  /\ ~At("none") => row.upload \in recorded
  /\ \A w \in Worker : reaper[w].pc # "idle" => reaper[w].upload \in recorded
  /\ \A c \in Client : client[c].pc \notin {"idle", "inserting"} => client[c].upload \in recorded
  /\ \A c \in Client : client[c].pc = "inserting" =>
       /\ client[c].upload \in Upload \ recorded /\ mpu[client[c].upload] = "open"
       /\ \A d \in Client \ {c} : client[d].pc = "inserting" => client[d].upload # client[c].upload

\* A client that aborts has the session to itself.
AbortIsSole ==
  \A c \in Client : client[c].pc \in {"aborting", "deleting"} =>
    /\ client[c].claimed
    /\ row = [state |-> "aborting", upload |-> client[c].upload, due |-> FALSE, lease |-> NoLease]
    /\ client[c].pc = "deleting" => mpu[row.upload] # "open"
    /\ \A d \in Client \ {c} : client[d].pc \notin {"aborting", "deleting"}

\* A claim that stands is for the session as its holder read it, and an upload
\* that the reaper gives up is given up by its session.
LeaseIsFence ==
  \A w \in Worker :
    /\ reaper[w].pc # "idle" /\ row.lease = w
         => row.state = reaper[w].state /\ row.upload = reaper[w].upload
    /\ reaper[w].pc \in {"aborting", "deleting"} /\ row.upload = reaper[w].upload
         => row.state \in {"reaping", "aborting"}
    /\ reaper[w].pc = "deleting" => mpu[reaper[w].upload] # "open"
    /\ reaper[w].pc \in {"resolving", "erasing", "erased"} => reaper[w].state = "r2_complete"

\* An upload that is open although its session is complete was answered for by
\* another's object.
OpenIsAdopted ==
  At("r2_complete") /\ mpu[row.upload] = "open" => row.upload \in adopted

UploadInv ==
  /\ ObjectKnown /\ UploadsKnown /\ AbortIsSole /\ LeaseIsFence /\ OpenIsAdopted
  /\ AbortedIsFenced /\ RecordedIsFound

-----------------------------------------------------------------------------

\* No session stays for ever.
SessionEnds == []<>At("none")
=============================================================================
