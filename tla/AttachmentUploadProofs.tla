----------------------- MODULE AttachmentUploadProofs -----------------------
(***************************************************************************)
(* Proofs about AttachmentUpload for any number of requests, invocations,  *)
(* parts and uploads.  An attachment has its object, an aborted upload is  *)
(* nobody's to resume, and no upload that had a session is left open with  *)
(* nothing to find it by.  Each part of the invariant has a lemma with one *)
(* step for each action that writes what the part reads.                   *)
(***************************************************************************)
EXTENDS AttachmentUpload, TLAPS

-----------------------------------------------------------------------------
(* What the small writes do, field by field.                               *)

\* The initial records are typed.
LEMMA BlankTyped ==
  /\ Idle \in Requesting /\ Resting \in Reaping /\ NoRow \in Session /\ NoParts \in [Part -> 0..MaxUploads]
  /\ NoRow.state = "none" /\ NoRow.upload = 0
  /\ \A u \in Upload : Fresh(u) \in Session /\ Fresh(u).state = "active" /\ Fresh(u).upload = u
  BY ConstantsAssumption
  DEF Idle, NoParts, Requesting, ClientPc, Resting, Reaping, ReaperPc, NoRow, Session, Fresh,
      SessionState, Upload

\* A request whose record is replaced by a typed one.
LEMMA ReplaceEffect ==
  ASSUME ClientsTyped, NEW c \in Client, NEW q \in Requesting, client' = [client EXCEPT ![c] = q]
  PROVE ClientsTyped' /\ client'[c] = q /\ \A d \in Client \ {c} : client'[d] = client[d]
  BY DEF ClientsTyped

\* A request that goes on keeps all but its place.
LEMMA GotoEffect ==
  ASSUME ClientsTyped, NEW c \in Client, NEW pc \in ClientPc, Goto(c, pc)
  PROVE /\ ClientsTyped'
        /\ client'[c].pc = pc /\ client'[c].upload = client[c].upload
        /\ client'[c].claimed = client[c].claimed
        /\ \A d \in Client \ {c} : client'[d] = client[d]
  BY DEF Goto, ClientsTyped, Requesting

\* A request that ends leaves the others alone.
LEMMA LeaveEffect ==
  ASSUME ClientsTyped, NEW c \in Client, Leave(c)
  PROVE /\ ClientsTyped' /\ client'[c].pc = "idle"
        /\ \A d \in Client \ {c} : client'[d] = client[d]
<1>1. Idle \in Requesting /\ Idle.pc = "idle"
  BY BlankTyped DEF Idle
<1>2. QED
  BY <1>1 DEF Leave, ClientsTyped

\* A claim of the reaper that goes on keeps all but its place.
LEMMA GoEffect ==
  ASSUME ReapersTyped, NEW w \in Worker, NEW pc \in ReaperPc, Go(w, pc)
  PROVE /\ ReapersTyped'
        /\ reaper'[w].pc = pc /\ reaper'[w].upload = reaper[w].upload
        /\ reaper'[w].state = reaper[w].state
        /\ \A v \in Worker \ {w} : reaper'[v] = reaper[v]
  BY DEF Go, ReapersTyped, Reaping

\* A claim of the reaper that ends leaves the others alone.
LEMMA RestEffect ==
  ASSUME ReapersTyped, NEW w \in Worker, Rest(w)
  PROVE /\ ReapersTyped' /\ reaper'[w].pc = "idle"
        /\ \A v \in Worker \ {w} : reaper'[v] = reaper[v]
<1>1. Resting \in Reaping /\ Resting.pc = "idle"
  BY BlankTyped DEF Resting
<1>2. QED
  BY <1>1 DEF Rest, ReapersTyped

\* A claim remembers the session as it writes it.
LEMMA StartEffect ==
  ASSUME ReapersTyped, SessionTyped, NEW w \in Worker, NEW s \in SessionState \ {"none"},
         NEW pc \in ReaperPc, Start(w, s, pc), ~At("none")
  PROVE /\ ReapersTyped' /\ SessionTyped'
        /\ row' = Leased(w, s)
        /\ reaper'[w] = [pc |-> pc, upload |-> row.upload, state |-> s]
        /\ \A v \in Worker \ {w} : reaper'[v] = reaper[v]
  BY DEF Start, ReapersTyped, SessionTyped, Reaping, Leased, Session, At

\* A renewed session is a session of the same upload.
LEMMA RefreshedTyped ==
  ASSUME SessionTyped, ~At("none"), NEW s \in SessionState \ {"none"}
  PROVE /\ Refreshed(s) \in Session /\ Refreshed(s).upload = row.upload /\ row.upload # 0
        /\ Refreshed(s).state = s
  BY DEF SessionTyped, At, Refreshed, Session

\* Claiming the completion: done, overtaken by an equal request, or refused.
LEMMA ClaimCompletionEffect ==
  ASSUME ClientsTyped, SessionTyped, NEW c \in Client, ClaimCompletion(c)
  PROVE /\ ClientsTyped'
        /\ \/ row' = row /\ client'[c].pc = "idle"
           \/ /\ At("active") /\ row' = Refreshed("completing")
              /\ client'[c].pc = "heading" /\ client'[c].upload = row.upload
           \/ /\ row' = row /\ row.state \in {"completing", "r2_complete"}
              /\ client'[c].pc \in {"heading", "committing"} /\ client'[c].upload = row.upload
        /\ \A d \in Client \ {c} : client'[d] = client[d]
<1>1. row.upload \in 0..MaxUploads /\ row.state \in SessionState
  BY DEF SessionTyped, Session
<1>2. "heading" \in ClientPc /\ "committing" \in ClientPc
  BY DEF ClientPc
<1>3. CASE /\ At("active") /\ row' = Refreshed("completing")
           /\ client' = [client EXCEPT ![c].pc = "heading", ![c].upload = row.upload,
                                       ![c].claimed = TRUE]
  <2>1. /\ client'[c].pc = "heading" /\ client'[c].upload = row.upload
        /\ \A d \in Client \ {c} : client'[d] = client[d]
    BY <1>3 DEF ClientsTyped, Requesting
  <2>2. PICK pc \in ClientPc, b \in BOOLEAN :
          client' = [client EXCEPT ![c].pc = pc, ![c].upload = row.upload, ![c].claimed = b]
    BY <1>2, <1>3
  <2>3. ClientsTyped'
    BY <1>1, <2>2 DEF ClientsTyped, Requesting
  <2>. QED
    BY <1>3, <2>1, <2>3
<1>4. CASE /\ row' = row /\ row.state \in {"completing", "r2_complete"}
           /\ client' = [client EXCEPT ![c].pc = Continue(row.state), ![c].upload = row.upload]
  <2>1. Continue(row.state) \in {"heading", "committing"}
    BY <1>4 DEF Continue
  <2>. QED
    BY <1>1, <1>2, <1>4, <2>1 DEF ClientsTyped, Requesting
<1>5. CASE row' = row /\ Leave(c)
  BY <1>5, LeaveEffect
<1>. QED
  BY <1>3, <1>4, <1>5 DEF ClaimCompletion

\* What a request does to the requests: it goes on at one of these places with its
\* upload, or it is over, and the others stay.
Moved(c, pcs) ==
  /\ client'[c].pc = "idle" \/ (client'[c].pc \in pcs /\ client'[c].upload = client[c].upload)
  /\ \A d \in Client \ {c} : client'[d] = client[d]

\* R2 completes the upload of the request and of nobody else.
LEMMA CompleteUploadEffect ==
  ASSUME ClientsTyped, NEW c \in Client, CompleteUpload(c)
  PROVE /\ client[c].pc = "completing" /\ Moved(c, {"completing", "promoting"})
        /\ mpu' = [mpu EXCEPT ![client[c].upload] = "completed"]
        /\ UNCHANGED <<row, reaper, recorded, lost, adopted>>
<1>1. "promoting" \in ClientPc
  BY DEF ClientPc
<1>2. ASSUME Goto(c, "promoting") PROVE Moved(c, {"completing", "promoting"})
  BY <1>1, <1>2, GotoEffect DEF Moved
<1>3. ASSUME UNCHANGED client PROVE Moved(c, {"completing", "promoting"})
  BY <1>3 DEF CompleteUpload, Moved
<1>4. Moved(c, {"completing", "promoting"})
  BY <1>2, <1>3 DEF CompleteUpload
<1>. QED
  BY <1>4 DEF CompleteUpload, d1, history

\* A completion that R2 refused leaves R2 alone.
LEMMA CompleteFailsEffect ==
  ASSUME ClientsTyped, NEW c \in Client, CompleteFails(c)
  PROVE /\ client[c].pc = "completing" /\ Moved(c, {"promoting"})
        /\ row' = row \/ (At("completing") /\ row' = Refreshed("completing"))
        /\ UNCHANGED <<mpu, reaper, recorded, lost, adopted>>
<1>1. "promoting" \in ClientPc
  BY DEF ClientPc
<1>2. Moved(c, {"promoting"})
  BY <1>1, GotoEffect, LeaveEffect DEF CompleteFails, Moved
<1>. QED
  BY <1>2 DEF CompleteFails, r2, history

\* The second look at the session writes nothing.
LEMMA ReloadEffect ==
  ASSUME ClientsTyped, NEW c \in Client, Reload(c)
  PROVE /\ client[c].pc = "reloading" /\ Moved(c, {"committing"})
        /\ UNCHANGED <<row, mpu, reaper, recorded, lost, adopted>>
<1>1. "committing" \in ClientPc
  BY DEF ClientPc
<1>2. Moved(c, {"committing"})
  BY <1>1, GotoEffect, LeaveEffect DEF Reload, Moved
<1>. QED
  BY <1>2 DEF Reload, d1, r2, history

\* Only a session that is completing is promoted.
LEMMA PromoteEffect ==
  ASSUME ClientsTyped, NEW c \in Client, Promote(c)
  PROVE /\ client[c].pc = "promoting" /\ Moved(c, {"reloading"})
        /\ row' = row \/ (At("completing") /\ row' = Refreshed("r2_complete"))
        /\ UNCHANGED <<mpu, reaper, recorded, lost>>
<1>1. Moved(c, {"reloading"})
  BY DEF Promote, Moved, ClientsTyped, Requesting
<1>. QED
  BY <1>1 DEF Promote, PromoteRow, r2

\* A request to complete starts from a session that is there.
LEMMA CompleteEffect ==
  ASSUME ClientsTyped, SessionTyped, NEW c \in Client, Complete(c)
  PROVE /\ client[c].pc = "idle" /\ ~At("none")
        /\ client'[c].pc \in {"claiming", "heading", "committing"} /\ client'[c].upload = row.upload
        /\ \A d \in Client \ {c} : client'[d] = client[d]
        /\ UNCHANGED <<page, row, attachment, object, mpu, reaper, recorded, lost, adopted>>
<1>1. Continue(row.state) \in {"claiming", "heading", "committing"}
  BY DEF Complete, Continue
<1>2. PICK q : /\ client' = [client EXCEPT ![c] = q]
               /\ q = [Idle EXCEPT !.pc = Continue(row.state), !.etags = parts,
                                   !.upload = row.upload]
  BY DEF Complete
<1>3. q.pc = Continue(row.state) /\ q.upload = row.upload
  BY <1>2 DEF Idle
<1>4. client'[c] = q /\ \A d \in Client \ {c} : client'[d] = client[d]
  BY <1>2 DEF ClientsTyped
<1>. QED
  BY <1>1, <1>3, <1>4 DEF Complete, Begin, At, d1, r2, history

\* A failed insertion aborts its own upload at most, and may have inserted the session.
LEMMA InsertFailsEffect ==
  ASSUME StoresTyped, ClientsTyped, NEW c \in Client, InsertFails(c)
  PROVE /\ client[c].pc = "inserting" /\ client'[c].pc = "idle"
        /\ \A d \in Client \ {c} : client'[d] = client[d]
        /\ \A u \in Upload : mpu'[u] = mpu[u] \/ (u = client[c].upload /\ mpu'[u] = "aborted")
        /\ \/ UNCHANGED <<row, recorded, lost>>
           \/ /\ At("none") /\ row' = Fresh(client[c].upload)
              /\ recorded' = recorded \cup {client[c].upload}
              /\ lost' = lost \cup {client[c].upload}
        /\ UNCHANGED <<page, attachment, object, reaper, adopted>>
<1>1. \A u \in Upload : mpu'[u] = mpu[u] \/ (u = client[c].upload /\ mpu'[u] = "aborted")
  BY DEF InsertFails, AbortUpload, StoresTyped
<1>2. client'[c].pc = "idle" /\ \A d \in Client \ {c} : client'[d] = client[d]
  BY LeaveEffect DEF InsertFails
<1>. QED
  BY <1>1, <1>2 DEF InsertFails, Record

\* The request that aborts has the upload of the session, and has claimed it.
LEMMA AbortEffect ==
  ASSUME ClientsTyped, NEW c \in Client, Abort(c)
  PROVE /\ client'[c].pc = "aborting" /\ client'[c].claimed /\ client'[c].upload = row.upload
        /\ \A d \in Client \ {c} : client'[d] = client[d]
<1>1. PICK q : /\ client' = [client EXCEPT ![c] = q]
               /\ q = [Idle EXCEPT !.pc = "aborting", !.upload = row.upload, !.claimed = TRUE]
  BY DEF Abort
<1>2. q.pc = "aborting" /\ q.claimed = TRUE /\ q.upload = row.upload
  BY <1>1 DEF Idle
<1>3. client'[c] = q /\ \A d \in Client \ {c} : client'[d] = client[d]
  BY <1>1 DEF ClientsTyped
<1>. QED
  BY <1>2, <1>3

-----------------------------------------------------------------------------
(* Types.                                                                  *)

\* What D1 and R2 hold, and the history, stay typed.
LEMMA StoresTypedKept ==
  ASSUME TypeOK, UploadInv, Next
  PROVE StoresTyped'
<1>. USE ConstantsAssumption DEF TypeOK, d1, r2, procs, history, Upload
<1>1. ASSUME NEW c \in Client, Create(c) PROVE StoresTyped'
  BY <1>1 DEF Create, Begin, StoresTyped
<1>2. ASSUME NEW c \in Client, Insert(c) PROVE StoresTyped'
  <2>1. client[c].upload \in Upload
    BY <1>2 DEF Insert, UploadInv, UploadsKnown
  <2>. QED
    BY <1>2, <2>1 DEF Insert, Record, StoresTyped
<1>3. ASSUME NEW c \in Client, InsertFails(c) PROVE StoresTyped'
  <2>1. client[c].upload \in Upload
    BY <1>3 DEF InsertFails, UploadInv, UploadsKnown
  <2>. QED
    BY <1>3, <2>1 DEF InsertFails, Record, AbortUpload, StoresTyped
<1>4. ASSUME NEW c \in Client, PutPart(c) PROVE StoresTyped'
  BY <1>4 DEF PutPart, Begin, StoresTyped
<1>5. ASSUME NEW c \in Client, UploadPart(c) PROVE StoresTyped'
  BY <1>5 DEF UploadPart, TypeOK, ClientsTyped, Requesting, StoresTyped
<1>6. ASSUME NEW c \in Client, RecordPart(c) PROVE StoresTyped'
  BY <1>6 DEF RecordPart, TypeOK, ClientsTyped, Requesting, StoresTyped
<1>7. ASSUME NEW c \in Client, Complete(c) PROVE StoresTyped'
  BY <1>7 DEF Complete, Begin, StoresTyped
<1>8. ASSUME NEW c \in Client, CompleteUpload(c) PROVE StoresTyped'
  BY <1>8 DEF CompleteUpload, StoresTyped
<1>9. ASSUME NEW c \in Client, Promote(c) PROVE StoresTyped'
  BY <1>9 DEF Promote, PromoteRow, At, UploadInv, UploadsKnown, TypeOK, StoresTyped
<1>10. ASSUME NEW c \in Client, Commit(c) PROVE StoresTyped'
  BY <1>10, BlankTyped DEF Commit, CommitBatch, DropRow, StoresTyped
<1>11. ASSUME NEW c \in Client, Abort(c) PROVE StoresTyped'
  BY <1>11 DEF Abort, Begin, StoresTyped
<1>12. ASSUME NEW c \in Client, AbortInR2(c) PROVE StoresTyped'
  BY <1>12 DEF AbortInR2, AbortUpload, StoresTyped
<1>13. ASSUME NEW c \in Client, DeleteAborted(c) PROVE StoresTyped'
  BY <1>13, BlankTyped DEF DeleteAborted, DropRow, StoresTyped
<1>14. ASSUME NEW c \in Client, GiveUp(c) PROVE StoresTyped'
  BY <1>14 DEF GiveUp, AbortUpload, StoresTyped
<1>15. ASSUME NEW w \in Worker, ReapInR2(w) PROVE StoresTyped'
  BY <1>15 DEF ReapInR2, AbortUpload, StoresTyped
<1>16. ASSUME NEW w \in Worker, EraseObject(w) PROVE StoresTyped'
  BY <1>16 DEF EraseObject, StoresTyped
<1>17. ASSUME NEW w \in Worker, DeleteReaped(w) PROVE StoresTyped'
  BY <1>17, BlankTyped DEF DeleteReaped, DropRow, StoresTyped
<1>18. ASSUME NEW w \in Worker, PromoteStale(w) PROVE StoresTyped'
  BY <1>18 DEF PromoteStale, PromoteRow, Holds, At, UploadInv, UploadsKnown, TypeOK, StoresTyped
<1>19. ASSUME NEW w \in Worker, CommitStale(w) PROVE StoresTyped'
  BY <1>19, BlankTyped DEF CommitStale, CommitBatch, DropRow, StoresTyped
<1>20. ASSUME NEW w \in Worker, ReaperFails(w) PROVE StoresTyped'
  BY <1>20 DEF ReaperFails, AbortUpload, StoresTyped
<1>21. CASE Archive
  BY <1>21 DEF Archive, StoresTyped
<1>22. CASE Unarchive
  BY <1>22 DEF Unarchive, StoresTyped
<1>23. CASE Accept
  BY <1>23 DEF Accept, StoresTyped
<1>24. CASE RemoveRows
  BY <1>24, BlankTyped DEF RemoveRows, DropRow, StoresTyped
<1>25. CASE EraseTarget
  BY <1>25 DEF EraseTarget, StoresTyped
<1>26. CASE
       \/ \E c \in Client : ClaimCompletion(c) \/ Head(c) \/ CompleteFails(c) \/ Reload(c)
       \/ \E w \in Worker : Reap(w) \/ RetryAbort(w) \/ Inspect(w) \/ Resolve(w) \/
                InspectObject(w) \/ ResolvePage(w) \/ Reopen(w)
       \/ Expire
  <2>1. UNCHANGED <<page, parts, attachment, target, object, mpu, held, requests, recorded,
      lost, adopted>>
    BY <1>26 DEF ClaimCompletion, Head, CompleteFails, Reload, Reap, RetryAbort, Inspect,
      Resolve, InspectObject, ResolvePage, Reopen, Expire, Start, d1, r2, procs, history
  <2>. QED
    BY <2>1 DEF StoresTyped, TypeOK, UploadInv
<1>27. ASSUME NEW c \in Client, Request(c) PROVE StoresTyped'
  BY <1>27, <1>1, <1>2, <1>3, <1>4, <1>5, <1>6, <1>7, <1>8, <1>9, <1>10, <1>11, <1>12, <1>13,
    <1>14, <1>26 DEF Request
<1>28. ASSUME NEW w \in Worker, Claim(w) \/ CallR2(w) \/ ResolvePage(w) \/ WriteD1(w) \/
    ReaperFails(w)
       PROVE StoresTyped'
  BY <1>28, <1>15, <1>16, <1>17, <1>18, <1>19, <1>20, <1>26 DEF Claim, CallR2, WriteD1
<1>. QED
  BY <1>27, <1>28, <1>21, <1>22, <1>23, <1>24, <1>25, <1>26 DEF Next

\* The session stays typed: a lapsed claim puts it back in a state it could be in.
LEMMA SessionTypedKept ==
  ASSUME TypeOK, UploadInv, Next
  PROVE SessionTyped'
<1>. USE ConstantsAssumption DEF TypeOK
<1>1. ASSUME NEW c \in Client, Insert(c) PROVE SessionTyped'
  <2>1. client[c].upload \in Upload /\ row' = Fresh(client[c].upload)
    BY <1>1 DEF Insert, Record, UploadInv, UploadsKnown
  <2>. QED
    BY <2>1, BlankTyped DEF Upload, SessionTyped
<1>2. ASSUME NEW c \in Client, InsertFails(c) PROVE SessionTyped'
  <2>1. client[c].upload \in Upload
    BY <1>2 DEF InsertFails, UploadInv, UploadsKnown
  <2>2. row' = row \/ row' = Fresh(client[c].upload)
    BY <1>2 DEF InsertFails, Record
  <2>. QED
    BY <2>1, <2>2, BlankTyped DEF Upload, SessionTyped
<1>3. ASSUME NEW c \in Client, PutPart(c) PROVE SessionTyped'
  <2>1. row' = row \/ (~At("none") /\ row' = Refreshed("active") /\ "active" \in SessionState \
    {"none"})
    BY <1>3 DEF PutPart, At, SessionState
  <2>. QED
    BY <2>1, RefreshedTyped DEF SessionTyped
<1>4. ASSUME NEW c \in Client, RecordPart(c) PROVE SessionTyped'
  <2>1. row' = row \/ (~At("none") /\ row' = Refreshed("active") /\ "active" \in SessionState \
    {"none"})
    BY <1>4 DEF RecordPart, At, SessionState
  <2>. QED
    BY <2>1, RefreshedTyped DEF SessionTyped
<1>5. ASSUME NEW c \in Client, ClaimCompletion(c) PROVE SessionTyped'
  <2>1. row' = row \/ (~At("none") /\ row' = Refreshed("completing") /\ "completing" \in
    SessionState \ {"none"})
    BY <1>5 DEF ClaimCompletion, At, SessionState
  <2>. QED
    BY <2>1, RefreshedTyped DEF SessionTyped
<1>6. ASSUME NEW c \in Client, CompleteFails(c) PROVE SessionTyped'
  <2>1. row' = row \/ (~At("none") /\ row' = Refreshed("completing") /\ "completing" \in
    SessionState \ {"none"})
    BY <1>6 DEF CompleteFails, At, SessionState
  <2>. QED
    BY <2>1, RefreshedTyped DEF SessionTyped
<1>7. ASSUME NEW c \in Client, Promote(c) PROVE SessionTyped'
  <2>1. row' = row \/ (~At("none") /\ row' = Refreshed("r2_complete") /\ "r2_complete" \in
    SessionState \ {"none"})
    BY <1>7 DEF Promote, PromoteRow, At, SessionState
  <2>. QED
    BY <2>1, RefreshedTyped DEF SessionTyped
<1>8. ASSUME NEW c \in Client, Commit(c) PROVE SessionTyped'
  <2>1. row' = row \/ row' = NoRow
    BY <1>8 DEF Commit, CommitBatch, DropRow
  <2>. QED
    BY <2>1, BlankTyped DEF SessionTyped
<1>9. ASSUME NEW c \in Client, Abort(c) PROVE SessionTyped'
  <2>1. row' = row \/ (~At("none") /\ row' = Refreshed("aborting") /\ "aborting" \in
    SessionState \ {"none"})
    BY <1>9 DEF Abort, At, SessionState
  <2>. QED
    BY <2>1, RefreshedTyped DEF SessionTyped
<1>10. ASSUME NEW c \in Client, DeleteAborted(c) PROVE SessionTyped'
  <2>1. row' = row \/ row' = NoRow
    BY <1>10 DEF DeleteAborted, DropRow
  <2>. QED
    BY <2>1, BlankTyped DEF SessionTyped
<1>11. ASSUME NEW c \in Client, GiveUp(c) PROVE SessionTyped'
  <2>1. row' = row \/ (~At("none") /\ row' = Refreshed("aborting") /\ "aborting" \in
    SessionState \ {"none"})
    BY <1>11 DEF GiveUp, At, SessionState
  <2>. QED
    BY <2>1, RefreshedTyped DEF SessionTyped
<1>12. ASSUME NEW w \in Worker, Reap(w) PROVE SessionTyped'
  BY <1>12, StartEffect DEF Reap, SessionState, ReaperPc, At
<1>13. ASSUME NEW w \in Worker, RetryAbort(w) PROVE SessionTyped'
  BY <1>13, StartEffect DEF RetryAbort, SessionState, ReaperPc, At
<1>14. ASSUME NEW w \in Worker, Inspect(w) PROVE SessionTyped'
  BY <1>14, StartEffect DEF Inspect, SessionState, ReaperPc, At
<1>15. ASSUME NEW w \in Worker, Resolve(w) PROVE SessionTyped'
  BY <1>15, StartEffect DEF Resolve, SessionState, ReaperPc, At
<1>16. ASSUME NEW w \in Worker, DeleteReaped(w) PROVE SessionTyped'
  <2>1. row' = row \/ row' = NoRow
    BY <1>16 DEF DeleteReaped, DropRow
  <2>. QED
    BY <2>1, BlankTyped DEF SessionTyped
<1>17. ASSUME NEW w \in Worker, PromoteStale(w) PROVE SessionTyped'
  <2>1. row' = row \/ (~At("none") /\ row' = Refreshed("r2_complete") /\ "r2_complete" \in
    SessionState \ {"none"})
    BY <1>17 DEF PromoteStale, PromoteRow, Holds, At, SessionState
  <2>. QED
    BY <2>1, RefreshedTyped DEF SessionTyped
<1>18. ASSUME NEW w \in Worker, Reopen(w) PROVE SessionTyped'
  <2>1. \/ row' = row
        \/ /\ ~At("none")
           /\ row' = [state |-> "active", upload |-> row.upload, due |-> TRUE,
                       lease |-> NoLease]
    BY <1>18 DEF Reopen, Holds, At
  <2>2. ~At("none") => row.upload \in (0..MaxUploads) \ {0}
    BY DEF SessionTyped, Session, At
  <2>3. "active" \in SessionState
    BY DEF SessionState
  <2>4. CASE row' = row
    BY <2>4 DEF SessionTyped
  <2>5. CASE row' # row
    <3>1. row' \in Session
      <4>1. row.upload \in 0..MaxUploads
        BY DEF SessionTyped, Session
      <4>2. [state |-> "active", upload |-> row.upload, due |-> TRUE, lease |-> NoLease] \in
    Session
        BY <2>3, <4>1 DEF Session
      <4>. QED
        BY <2>1, <2>5, <4>2
    <3>2. row'.state = "active" /\ row'.upload # 0
      BY <2>1, <2>2, <2>5
    <3>. QED
      BY <3>1, <3>2 DEF SessionTyped
  <2>. QED
    BY <2>4, <2>5 DEF SessionTyped
<1>19. ASSUME NEW w \in Worker, CommitStale(w) PROVE SessionTyped'
  <2>1. \/ row' = row \/ row' = NoRow
        \/ row.lease = w /\ row' = Refreshed(row.state)
    BY <1>19 DEF CommitStale, CommitBatch, DropRow, Rescheduled, UploadInv, LeaseIsFence
  <2>2. row.lease = w => ~At("none") /\ row.state \in SessionState \ {"none"}
    BY <1>19 DEF CommitStale, UploadInv, LeaseIsFence, UploadsKnown, StoresTyped, SessionTyped,
    Upload, Session, At
  <2>. QED
    BY <2>1, <2>2, BlankTyped, RefreshedTyped DEF SessionTyped
<1>20. ASSUME NEW w \in Worker, ReaperFails(w) PROVE SessionTyped'
  <2>1. \/ row' = row
        \/ row.lease = w /\ row' = Refreshed(row.state)
    BY <1>20 DEF ReaperFails, Rescheduled, UploadInv, LeaseIsFence
  <2>2. row.lease = w => ~At("none") /\ row.state \in SessionState \ {"none"}
    BY <1>20 DEF ReaperFails, UploadInv, LeaseIsFence, UploadsKnown, StoresTyped, SessionTyped,
    Upload, Session, At
  <2>. QED
    BY <2>1, <2>2, RefreshedTyped DEF SessionTyped
<1>21. CASE Expire
  BY <1>21 DEF Expire, Session, At, SessionTyped
<1>22. CASE RemoveRows
  <2>1. row' = row \/ row' = NoRow
    BY <1>22 DEF RemoveRows, DropRow
  <2>. QED
    BY <2>1, BlankTyped DEF SessionTyped
<1>23. CASE
       \/ \E c \in Client : Create(c) \/ UploadPart(c) \/ Complete(c) \/ Head(c) \/
                CompleteUpload(c) \/ Reload(c) \/ AbortInR2(c)
       \/ \E w \in Worker : ReapInR2(w) \/ InspectObject(w) \/ EraseObject(w) \/ ResolvePage(w)
       \/ Archive \/ Unarchive \/ Accept \/ EraseTarget
  <2>1. UNCHANGED row
    BY <1>23 DEF Create, UploadPart, Complete, Head, CompleteUpload, Reload, AbortInR2,
      ReapInR2, InspectObject, EraseObject, ResolvePage, Archive, Unarchive, Accept,
      EraseTarget, d1, r2, procs, history
  <2>. QED
    BY <2>1 DEF SessionTyped, TypeOK, UploadInv
<1>24. ASSUME NEW c \in Client, Request(c) PROVE SessionTyped'
  BY <1>24, <1>1, <1>2, <1>3, <1>4, <1>5, <1>6, <1>7, <1>8, <1>9, <1>10, <1>11, <1>23 DEF
    Request
<1>25. ASSUME NEW w \in Worker, Claim(w) \/ CallR2(w) \/ ResolvePage(w) \/ WriteD1(w) \/
    ReaperFails(w)
       PROVE SessionTyped'
  BY <1>25, <1>12, <1>13, <1>14, <1>15, <1>16, <1>17, <1>18, <1>19, <1>20, <1>23 DEF Claim,
    CallR2, WriteD1
<1>. QED
  BY <1>24, <1>25, <1>21, <1>22, <1>23 DEF Next

\* The requests stay typed.
LEMMA ClientsTypedKept ==
  ASSUME TypeOK, UploadInv, Next
  PROVE ClientsTyped'
<1>. USE ConstantsAssumption DEF TypeOK
<1>1. ASSUME NEW c \in Client, Create(c) PROVE ClientsTyped'
  <2>1. PICK u \in Upload :
          client' = [client EXCEPT ![c] = [Idle EXCEPT !.pc = "inserting", !.upload = u]]
    BY <1>1 DEF Create
  <2>2. [Idle EXCEPT !.pc = "inserting", !.upload = u] \in Requesting
    <3>1. "inserting" \in ClientPc /\ u \in 0..MaxUploads
      BY <2>1 DEF ClientPc, Upload
    <3>. QED
      BY <3>1, BlankTyped DEF Requesting
  <2>. QED
    BY <2>1, <2>2, ReplaceEffect
<1>2. ASSUME NEW c \in Client, Insert(c) PROVE ClientsTyped'
  BY <1>2, LeaveEffect DEF Insert
<1>3. ASSUME NEW c \in Client, InsertFails(c) PROVE ClientsTyped'
  BY <1>3, LeaveEffect DEF InsertFails
<1>4. ASSUME NEW c \in Client, PutPart(c) PROVE ClientsTyped'
  <2>1. PICK p \in Part :
          client' = [client EXCEPT ![c] = [Idle EXCEPT !.pc = "uploading", !.part = {p},
                                                       !.upload = row.upload, !.claimed = TRUE]]
    BY <1>4 DEF PutPart
  <2>2. [Idle EXCEPT !.pc = "uploading", !.part = {p}, !.upload = row.upload, !.claimed = TRUE]
          \in Requesting
    <3>1. "uploading" \in ClientPc /\ row.upload \in 0..MaxUploads /\ {p} \in SUBSET Part
      BY <2>1 DEF ClientPc, SessionTyped, Session
    <3>. QED
      BY <3>1, BlankTyped DEF Requesting
  <2>. QED
    BY <2>1, <2>2, ReplaceEffect
<1>5. ASSUME NEW c \in Client, UploadPart(c) PROVE ClientsTyped'
  BY <1>5, GotoEffect, LeaveEffect DEF UploadPart, ClientPc
<1>6. ASSUME NEW c \in Client, RecordPart(c) PROVE ClientsTyped'
  BY <1>6, LeaveEffect DEF RecordPart
<1>7. ASSUME NEW c \in Client, Complete(c) PROVE ClientsTyped'
  <2>1. Continue(row.state) \in ClientPc
    BY DEF Continue, ClientPc
  <2>2. [Idle EXCEPT !.pc = Continue(row.state), !.etags = parts, !.upload = row.upload]
          \in Requesting
    BY <2>1, BlankTyped DEF Idle, Requesting, SessionTyped, Session, StoresTyped
  <2>. QED
    BY <1>7, <2>2, ReplaceEffect DEF Complete
<1>8. ASSUME NEW c \in Client, ClaimCompletion(c) PROVE ClientsTyped'
  BY <1>8, ClaimCompletionEffect
<1>9. ASSUME NEW c \in Client, Head(c) PROVE ClientsTyped'
  BY <1>9, GotoEffect, LeaveEffect DEF Head, ClientPc
<1>10. ASSUME NEW c \in Client, CompleteUpload(c) PROVE ClientsTyped'
  <2>1. ASSUME Goto(c, "promoting") PROVE ClientsTyped'
    BY <2>1, GotoEffect DEF ClientPc
  <2>2. ASSUME UNCHANGED client PROVE ClientsTyped'
    BY <2>2 DEF ClientsTyped
  <2>. QED
    BY <1>10, <2>1, <2>2 DEF CompleteUpload
<1>11. ASSUME NEW c \in Client, CompleteFails(c) PROVE ClientsTyped'
  BY <1>11, GotoEffect, LeaveEffect DEF CompleteFails, ClientPc
<1>12. ASSUME NEW c \in Client, Promote(c) PROVE ClientsTyped'
  <2>1. "reloading" \in ClientPc
    BY DEF ClientPc
  <2>. QED
    BY <1>12, <2>1 DEF Promote, ClientsTyped, Requesting
<1>13. ASSUME NEW c \in Client, Reload(c) PROVE ClientsTyped'
  BY <1>13, GotoEffect, LeaveEffect DEF Reload, ClientPc
<1>14. ASSUME NEW c \in Client, Commit(c) PROVE ClientsTyped'
  BY <1>14, LeaveEffect DEF Commit
<1>15. ASSUME NEW c \in Client, Abort(c) PROVE ClientsTyped'
  <2>1. [Idle EXCEPT !.pc = "aborting", !.upload = row.upload, !.claimed = TRUE] \in Requesting
    BY BlankTyped DEF Idle, Requesting, ClientPc, SessionTyped, Session
  <2>. QED
    BY <1>15, <2>1, ReplaceEffect DEF Abort
<1>16. ASSUME NEW c \in Client, AbortInR2(c) PROVE ClientsTyped'
  BY <1>16, GotoEffect, LeaveEffect DEF AbortInR2, ClientPc
<1>17. ASSUME NEW c \in Client, DeleteAborted(c) PROVE ClientsTyped'
  BY <1>17, LeaveEffect DEF DeleteAborted
<1>18. ASSUME NEW c \in Client, GiveUp(c) PROVE ClientsTyped'
  BY <1>18, LeaveEffect DEF GiveUp
<1>19. CASE
       \/ \E w \in Worker : Reap(w) \/ RetryAbort(w) \/ Inspect(w) \/ Resolve(w) \/ ReapInR2(w)
                \/ InspectObject(w) \/ EraseObject(w) \/ ResolvePage(w) \/ DeleteReaped(w) \/
                PromoteStale(w) \/ Reopen(w) \/ CommitStale(w) \/ ReaperFails(w)
       \/ Expire \/ Archive \/ Unarchive \/ Accept \/ RemoveRows \/ EraseTarget
  <2>1. UNCHANGED client
    BY <1>19 DEF Reap, RetryAbort, Inspect, Resolve, ReapInR2, InspectObject, EraseObject,
      ResolvePage, DeleteReaped, PromoteStale, Reopen, CommitStale, ReaperFails, Expire,
      Archive, Unarchive, Accept, RemoveRows, EraseTarget, Start, d1, r2, procs, history
  <2>. QED
    BY <2>1 DEF ClientsTyped, TypeOK, UploadInv
<1>20. ASSUME NEW c \in Client, Request(c) PROVE ClientsTyped'
  BY <1>20, <1>1, <1>2, <1>3, <1>4, <1>5, <1>6, <1>7, <1>8, <1>9, <1>10, <1>11, <1>12, <1>13,
    <1>14, <1>15, <1>16, <1>17, <1>18, <1>19 DEF Request
<1>21. ASSUME NEW w \in Worker, Claim(w) \/ CallR2(w) \/ ResolvePage(w) \/ WriteD1(w) \/
    ReaperFails(w)
       PROVE ClientsTyped'
  BY <1>21, <1>19 DEF Claim, CallR2, WriteD1
<1>. QED
  BY <1>20, <1>21, <1>19 DEF Next

\* The claims stay typed.
LEMMA ReapersTypedKept ==
  ASSUME TypeOK, UploadInv, Next
  PROVE ReapersTyped'
<1>. USE ConstantsAssumption DEF TypeOK
<1>1. ASSUME NEW w \in Worker, Reap(w) PROVE ReapersTyped'
  BY <1>1, StartEffect DEF Reap, SessionState, ReaperPc, At
<1>2. ASSUME NEW w \in Worker, RetryAbort(w) PROVE ReapersTyped'
  BY <1>2, StartEffect DEF RetryAbort, SessionState, ReaperPc, At
<1>3. ASSUME NEW w \in Worker, Inspect(w) PROVE ReapersTyped'
  BY <1>3, StartEffect DEF Inspect, SessionState, ReaperPc, At
<1>4. ASSUME NEW w \in Worker, Resolve(w) PROVE ReapersTyped'
  BY <1>4, StartEffect DEF Resolve, SessionState, ReaperPc, At
<1>5. ASSUME NEW w \in Worker, ReapInR2(w) PROVE ReapersTyped'
  BY <1>5, GoEffect DEF ReapInR2, ReaperPc
<1>6. ASSUME NEW w \in Worker, InspectObject(w) PROVE ReapersTyped'
  BY <1>6, GoEffect DEF InspectObject, ReaperPc
<1>7. ASSUME NEW w \in Worker, EraseObject(w) PROVE ReapersTyped'
  BY <1>7, GoEffect DEF EraseObject, ReaperPc
<1>8. ASSUME NEW w \in Worker, ResolvePage(w) PROVE ReapersTyped'
  BY <1>8, GoEffect DEF ResolvePage, ReaperPc
<1>9. ASSUME NEW w \in Worker, DeleteReaped(w) PROVE ReapersTyped'
  BY <1>9, RestEffect DEF DeleteReaped
<1>10. ASSUME NEW w \in Worker, PromoteStale(w) PROVE ReapersTyped'
  BY <1>10, RestEffect DEF PromoteStale
<1>11. ASSUME NEW w \in Worker, Reopen(w) PROVE ReapersTyped'
  BY <1>11, RestEffect DEF Reopen
<1>12. ASSUME NEW w \in Worker, CommitStale(w) PROVE ReapersTyped'
  BY <1>12, RestEffect DEF CommitStale
<1>13. ASSUME NEW w \in Worker, ReaperFails(w) PROVE ReapersTyped'
  BY <1>13, RestEffect DEF ReaperFails
<1>14. CASE
       \/ \E c \in Client : Create(c) \/ Insert(c) \/ InsertFails(c) \/ PutPart(c) \/
                UploadPart(c) \/ RecordPart(c) \/ Complete(c) \/ ClaimCompletion(c) \/ Head(c)
                \/ CompleteUpload(c) \/ CompleteFails(c) \/ Promote(c) \/ Reload(c) \/
                Commit(c) \/ Abort(c) \/ AbortInR2(c) \/ DeleteAborted(c) \/ GiveUp(c)
       \/ Expire \/ Archive \/ Unarchive \/ Accept \/ RemoveRows \/ EraseTarget
  <2>1. UNCHANGED reaper
    BY <1>14 DEF Create, Insert, InsertFails, PutPart, UploadPart, RecordPart, Complete,
      ClaimCompletion, Head, CompleteUpload, CompleteFails, Promote, Reload, Commit, Abort,
      AbortInR2, DeleteAborted, GiveUp, Expire, Archive, Unarchive, Accept, RemoveRows,
      EraseTarget, d1, r2, procs, history
  <2>. QED
    BY <2>1 DEF ReapersTyped, TypeOK, UploadInv
<1>15. ASSUME NEW c \in Client, Request(c) PROVE ReapersTyped'
  BY <1>15, <1>14 DEF Request
<1>16. ASSUME NEW w \in Worker, Claim(w) \/ CallR2(w) \/ ResolvePage(w) \/ WriteD1(w) \/
    ReaperFails(w)
       PROVE ReapersTyped'
  BY <1>16, <1>1, <1>2, <1>3, <1>4, <1>5, <1>6, <1>7, <1>8, <1>9, <1>10, <1>11, <1>12, <1>13,
    <1>14 DEF Claim, CallR2, WriteD1
<1>. QED
  BY <1>15, <1>16, <1>14 DEF Next

-----------------------------------------------------------------------------
(* The parts of the inductive invariant.                                   *)

\* A session becomes complete by its own upload, or by another's object.
LEMMA OpenIsAdoptedKept ==
  ASSUME TypeOK, UploadInv, Next
  PROVE OpenIsAdopted'
<1>. USE ConstantsAssumption DEF TypeOK, UploadInv, At
<1>1. ASSUME NEW c \in Client, Create(c) PROVE OpenIsAdopted'
  BY <1>1 DEF Create, StoresTyped, SessionTyped, UploadsKnown, LeaseIsFence, Upload, Begin, At,
    Idle, d1, history, OpenIsAdopted
<1>2. ASSUME NEW c \in Client, Insert(c) PROVE OpenIsAdopted'
  BY <1>2 DEF Insert, StoresTyped, SessionTyped, UploadsKnown, LeaseIsFence, Upload, At,
    Record, Leave, r2, Fresh, Idle, OpenIsAdopted
<1>3. ASSUME NEW c \in Client, InsertFails(c) PROVE OpenIsAdopted'
  <2>1. /\ client[c].pc = "inserting" /\ client'[c].pc = "idle"
        /\ \A d \in Client \ {c} : client'[d] = client[d]
        /\ \A u \in Upload : mpu'[u] = mpu[u] \/ (u = client[c].upload /\ mpu'[u] = "aborted")
        /\ \/ UNCHANGED <<row, recorded, lost>>
           \/ /\ At("none") /\ row' = Fresh(client[c].upload)
              /\ recorded' = recorded \cup {client[c].upload}
              /\ lost' = lost \cup {client[c].upload}
        /\ UNCHANGED <<reaper, adopted>>
    BY <1>3, InsertFailsEffect
  <2>2. recorded \subseteq Upload
    BY DEF StoresTyped
  <2>3. CASE UNCHANGED <<row, recorded, lost>>
    BY <2>1, <2>2, <2>3 DEF UploadsKnown, OpenIsAdopted
  <2>4. CASE /\ At("none") /\ row' = Fresh(client[c].upload)
             /\ recorded' = recorded \cup {client[c].upload}
             /\ lost' = lost \cup {client[c].upload}
    <3>1. row'.state = "active" /\ row'.upload = client[c].upload /\ row'.lease = NoLease
      BY <2>4 DEF Fresh
    <3>2. row.upload = 0 /\ 0 \notin Upload
      BY <2>4 DEF SessionTyped, Upload
    <3>. QED
      BY <2>1, <2>2, <2>4, <3>1, <3>2 DEF UploadsKnown, OpenIsAdopted
  <2>. QED
    BY <2>1, <2>3, <2>4 DEF OpenIsAdopted
<1>4. ASSUME NEW c \in Client, PutPart(c) PROVE OpenIsAdopted'
  BY <1>4 DEF PutPart, StoresTyped, SessionTyped, UploadsKnown, LeaseIsFence, Upload, Begin,
    At, Refreshed, Idle, r2, history, OpenIsAdopted
<1>5. ASSUME NEW c \in Client, RecordPart(c) PROVE OpenIsAdopted'
  BY <1>5 DEF RecordPart, StoresTyped, SessionTyped, UploadsKnown, LeaseIsFence, Upload, At,
    Refreshed, Leave, r2, history, Idle, OpenIsAdopted
<1>6. ASSUME NEW c \in Client, ClaimCompletion(c) PROVE OpenIsAdopted'
  BY <1>6 DEF ClaimCompletion, StoresTyped, SessionTyped, UploadsKnown, LeaseIsFence, Upload,
    At, Refreshed, Leave, r2, history, Idle, OpenIsAdopted
<1>7. ASSUME NEW c \in Client, CompleteUpload(c) PROVE OpenIsAdopted'
  BY <1>7 DEF CompleteUpload, StoresTyped, SessionTyped, UploadsKnown, LeaseIsFence, Upload,
    Goto, Leave, d1, history, Idle, OpenIsAdopted
<1>8. ASSUME NEW c \in Client, CompleteFails(c) PROVE OpenIsAdopted'
  BY <1>8 DEF CompleteFails, StoresTyped, SessionTyped, UploadsKnown, LeaseIsFence, Upload,
    Goto, At, Refreshed, Leave, r2, history, Idle, OpenIsAdopted
<1>9. ASSUME NEW c \in Client, Promote(c) PROVE OpenIsAdopted'
  BY <1>9 DEF Promote, StoresTyped, SessionTyped, UploadsKnown, LeaseIsFence, Upload,
    PromoteRow, At, r2, Refreshed, OpenIsAdopted
<1>10. ASSUME NEW c \in Client, Commit(c) PROVE OpenIsAdopted'
  BY <1>10 DEF Commit, StoresTyped, SessionTyped, UploadsKnown, LeaseIsFence, Upload, Fits,
    CommitBatch, Leave, r2, history, At, DropRow, Idle, NoRow, OpenIsAdopted
<1>11. ASSUME NEW c \in Client, Abort(c) PROVE OpenIsAdopted'
  BY <1>11 DEF Abort, StoresTyped, SessionTyped, UploadsKnown, LeaseIsFence, Upload, Begin, At,
    Refreshed, Idle, r2, history, OpenIsAdopted
<1>12. ASSUME NEW c \in Client, AbortInR2(c) PROVE OpenIsAdopted'
  BY <1>12 DEF AbortInR2, StoresTyped, SessionTyped, UploadsKnown, LeaseIsFence, Upload,
    AbortUpload, Goto, d1, history, OpenIsAdopted
<1>13. ASSUME NEW c \in Client, DeleteAborted(c) PROVE OpenIsAdopted'
  BY <1>13 DEF DeleteAborted, StoresTyped, SessionTyped, UploadsKnown, LeaseIsFence, Upload,
    At, DropRow, Leave, r2, history, NoRow, Idle, OpenIsAdopted
<1>14. ASSUME NEW c \in Client, GiveUp(c) PROVE OpenIsAdopted'
  BY <1>14 DEF GiveUp, StoresTyped, SessionTyped, UploadsKnown, LeaseIsFence, Upload,
    AbortUpload, At, Refreshed, Leave, history, Idle, OpenIsAdopted
<1>15. ASSUME NEW w \in Worker, Reap(w) PROVE OpenIsAdopted'
  BY <1>15 DEF Reap, StoresTyped, SessionTyped, UploadsKnown, LeaseIsFence, Upload, At, Start,
    Leased, r2, history, OpenIsAdopted
<1>16. ASSUME NEW w \in Worker, RetryAbort(w) PROVE OpenIsAdopted'
  BY <1>16 DEF RetryAbort, StoresTyped, SessionTyped, UploadsKnown, LeaseIsFence, Upload,
    Start, Leased, r2, history, OpenIsAdopted
<1>17. ASSUME NEW w \in Worker, Inspect(w) PROVE OpenIsAdopted'
  BY <1>17 DEF Inspect, StoresTyped, SessionTyped, UploadsKnown, LeaseIsFence, Upload, At,
    Start, Leased, r2, history, OpenIsAdopted
<1>18. ASSUME NEW w \in Worker, Resolve(w) PROVE OpenIsAdopted'
  BY <1>18 DEF Resolve, StoresTyped, SessionTyped, UploadsKnown, LeaseIsFence, Upload, At,
    Start, Leased, r2, history, OpenIsAdopted
<1>19. ASSUME NEW w \in Worker, ReapInR2(w) PROVE OpenIsAdopted'
  BY <1>19 DEF ReapInR2, StoresTyped, SessionTyped, UploadsKnown, LeaseIsFence, Upload,
    AbortUpload, Go, d1, history, OpenIsAdopted
<1>20. ASSUME NEW w \in Worker, DeleteReaped(w) PROVE OpenIsAdopted'
  BY <1>20 DEF DeleteReaped, StoresTyped, SessionTyped, UploadsKnown, LeaseIsFence, Upload,
    Holds, DropRow, Rest, r2, history, At, NoRow, Resting, OpenIsAdopted
<1>21. ASSUME NEW w \in Worker, PromoteStale(w) PROVE OpenIsAdopted'
  BY <1>21 DEF PromoteStale, StoresTyped, SessionTyped, UploadsKnown, LeaseIsFence, Upload,
    PromoteRow, Holds, Rest, r2, Refreshed, At, Resting, OpenIsAdopted
<1>22. ASSUME NEW w \in Worker, Reopen(w) PROVE OpenIsAdopted'
  BY <1>22 DEF Reopen, StoresTyped, SessionTyped, UploadsKnown, LeaseIsFence, Upload, Holds,
    Rest, r2, history, At, Resting, OpenIsAdopted
<1>23. ASSUME NEW w \in Worker, CommitStale(w) PROVE OpenIsAdopted'
  BY <1>23 DEF CommitStale, StoresTyped, SessionTyped, UploadsKnown, LeaseIsFence, Upload,
    Fits, CommitBatch, Rescheduled, Rest, r2, history, At, DropRow, Refreshed, Resting, NoRow,
    OpenIsAdopted
<1>24. ASSUME NEW w \in Worker, ReaperFails(w) PROVE OpenIsAdopted'
  BY <1>24 DEF ReaperFails, StoresTyped, SessionTyped, UploadsKnown, LeaseIsFence, Upload,
    AbortUpload, Rescheduled, Rest, history, Refreshed, Resting, OpenIsAdopted
<1>25. CASE Expire
  BY <1>25 DEF Expire, StoresTyped, SessionTyped, UploadsKnown, LeaseIsFence, Upload, At, r2,
    procs, history, OpenIsAdopted
<1>26. CASE RemoveRows
  BY <1>26 DEF RemoveRows, StoresTyped, SessionTyped, UploadsKnown, LeaseIsFence, Upload, At,
    DropRow, r2, procs, history, NoRow, OpenIsAdopted
<1>27. CASE
       \/ \E c \in Client : UploadPart(c) \/ Complete(c) \/ Head(c) \/ Reload(c)
       \/ \E w \in Worker : InspectObject(w) \/ EraseObject(w) \/ ResolvePage(w)
       \/ Archive \/ Unarchive \/ Accept \/ EraseTarget
  <2>1. UNCHANGED <<row, mpu, adopted>>
    BY <1>27 DEF UploadPart, Complete, Head, Reload, InspectObject, EraseObject, ResolvePage,
      Archive, Unarchive, Accept, EraseTarget, d1, r2, procs, history
  <2>. QED
    BY <2>1 DEF OpenIsAdopted, TypeOK, UploadInv
<1>28. ASSUME NEW c \in Client, Request(c) PROVE OpenIsAdopted'
  BY <1>28, <1>1, <1>2, <1>3, <1>4, <1>5, <1>6, <1>7, <1>8, <1>9, <1>10, <1>11, <1>12, <1>13,
    <1>14, <1>27 DEF Request
<1>29. ASSUME NEW w \in Worker, Claim(w) \/ CallR2(w) \/ ResolvePage(w) \/ WriteD1(w) \/
    ReaperFails(w)
       PROVE OpenIsAdopted'
  BY <1>29, <1>15, <1>16, <1>17, <1>18, <1>19, <1>20, <1>21, <1>22, <1>23, <1>24, <1>27 DEF
    Claim, CallR2, WriteD1
<1>. QED
  BY <1>28, <1>29, <1>25, <1>26, <1>27 DEF Next

\* No step takes an aborted upload out of reaping and aborting: a refresh and a
\* reschedule keep the state, by the lease, and a new session has a new upload.
LEMMA AbortedIsFencedKept ==
  ASSUME TypeOK, UploadInv, Next
  PROVE AbortedIsFenced'
<1>. USE ConstantsAssumption DEF TypeOK, UploadInv, At
<1>1. ASSUME NEW c \in Client, Create(c) PROVE AbortedIsFenced'
  BY <1>1 DEF Create, StoresTyped, SessionTyped, UploadsKnown, AbortIsSole, LeaseIsFence,
    Upload, Begin, At, Idle, d1, history, AbortedIsFenced
<1>2. ASSUME NEW c \in Client, Insert(c) PROVE AbortedIsFenced'
  BY <1>2 DEF Insert, StoresTyped, SessionTyped, UploadsKnown, AbortIsSole, LeaseIsFence,
    Upload, At, Record, Leave, r2, Fresh, Idle, AbortedIsFenced
<1>3. ASSUME NEW c \in Client, InsertFails(c) PROVE AbortedIsFenced'
  <2>1. /\ client[c].pc = "inserting" /\ client'[c].pc = "idle"
        /\ \A d \in Client \ {c} : client'[d] = client[d]
        /\ \A u \in Upload : mpu'[u] = mpu[u] \/ (u = client[c].upload /\ mpu'[u] = "aborted")
        /\ \/ UNCHANGED <<row, recorded, lost>>
           \/ /\ At("none") /\ row' = Fresh(client[c].upload)
              /\ recorded' = recorded \cup {client[c].upload}
              /\ lost' = lost \cup {client[c].upload}
        /\ UNCHANGED <<reaper, adopted>>
    BY <1>3, InsertFailsEffect
  <2>2. recorded \subseteq Upload
    BY DEF StoresTyped
  <2>3. CASE UNCHANGED <<row, recorded, lost>>
    BY <2>1, <2>2, <2>3 DEF UploadsKnown, AbortedIsFenced
  <2>4. CASE /\ At("none") /\ row' = Fresh(client[c].upload)
             /\ recorded' = recorded \cup {client[c].upload}
             /\ lost' = lost \cup {client[c].upload}
    <3>1. row'.state = "active" /\ row'.upload = client[c].upload /\ row'.lease = NoLease
      BY <2>4 DEF Fresh
    <3>2. row.upload = 0 /\ 0 \notin Upload
      BY <2>4 DEF SessionTyped, Upload
    <3>. QED
      BY <2>1, <2>2, <2>4, <3>1, <3>2 DEF UploadsKnown, AbortedIsFenced
  <2>. QED
    BY <2>1, <2>3, <2>4 DEF AbortedIsFenced
<1>4. ASSUME NEW c \in Client, PutPart(c) PROVE AbortedIsFenced'
  BY <1>4 DEF PutPart, StoresTyped, SessionTyped, UploadsKnown, AbortIsSole, LeaseIsFence,
    Upload, Begin, At, Refreshed, Idle, r2, history, AbortedIsFenced
<1>5. ASSUME NEW c \in Client, RecordPart(c) PROVE AbortedIsFenced'
  BY <1>5 DEF RecordPart, StoresTyped, SessionTyped, UploadsKnown, AbortIsSole, LeaseIsFence,
    Upload, At, Refreshed, Leave, r2, history, Idle, AbortedIsFenced
<1>6. ASSUME NEW c \in Client, ClaimCompletion(c) PROVE AbortedIsFenced'
  BY <1>6 DEF ClaimCompletion, StoresTyped, SessionTyped, UploadsKnown, AbortIsSole,
    LeaseIsFence, Upload, At, Refreshed, Leave, r2, history, Idle, AbortedIsFenced
<1>7. ASSUME NEW c \in Client, CompleteUpload(c) PROVE AbortedIsFenced'
  BY <1>7 DEF CompleteUpload, StoresTyped, SessionTyped, UploadsKnown, AbortIsSole,
    LeaseIsFence, Upload, Goto, Leave, d1, history, Idle, AbortedIsFenced
<1>8. ASSUME NEW c \in Client, CompleteFails(c) PROVE AbortedIsFenced'
  BY <1>8 DEF CompleteFails, StoresTyped, SessionTyped, UploadsKnown, AbortIsSole,
    LeaseIsFence, Upload, Goto, At, Refreshed, Leave, r2, history, Idle, AbortedIsFenced
<1>9. ASSUME NEW c \in Client, Promote(c) PROVE AbortedIsFenced'
  BY <1>9 DEF Promote, StoresTyped, SessionTyped, UploadsKnown, AbortIsSole, LeaseIsFence,
    Upload, PromoteRow, At, r2, Refreshed, AbortedIsFenced
<1>10. ASSUME NEW c \in Client, Commit(c) PROVE AbortedIsFenced'
  BY <1>10 DEF Commit, StoresTyped, SessionTyped, UploadsKnown, AbortIsSole, LeaseIsFence,
    Upload, Fits, CommitBatch, Leave, r2, history, At, DropRow, Idle, NoRow, AbortedIsFenced
<1>11. ASSUME NEW c \in Client, Abort(c) PROVE AbortedIsFenced'
  BY <1>11 DEF Abort, StoresTyped, SessionTyped, UploadsKnown, AbortIsSole, LeaseIsFence,
    Upload, Begin, At, Refreshed, Idle, r2, history, AbortedIsFenced
<1>12. ASSUME NEW c \in Client, AbortInR2(c) PROVE AbortedIsFenced'
  BY <1>12 DEF AbortInR2, StoresTyped, SessionTyped, UploadsKnown, AbortIsSole, LeaseIsFence,
    Upload, AbortUpload, Goto, d1, history, AbortedIsFenced
<1>13. ASSUME NEW c \in Client, DeleteAborted(c) PROVE AbortedIsFenced'
  BY <1>13 DEF DeleteAborted, StoresTyped, SessionTyped, UploadsKnown, AbortIsSole,
    LeaseIsFence, Upload, At, DropRow, Leave, r2, history, NoRow, Idle, AbortedIsFenced
<1>14. ASSUME NEW c \in Client, GiveUp(c) PROVE AbortedIsFenced'
  BY <1>14 DEF GiveUp, StoresTyped, SessionTyped, UploadsKnown, AbortIsSole, LeaseIsFence,
    Upload, AbortUpload, At, Refreshed, Leave, history, Idle, AbortedIsFenced
<1>15. ASSUME NEW w \in Worker, Reap(w) PROVE AbortedIsFenced'
  BY <1>15 DEF Reap, StoresTyped, SessionTyped, UploadsKnown, AbortIsSole, LeaseIsFence,
    Upload, At, Start, Leased, r2, history, AbortedIsFenced
<1>16. ASSUME NEW w \in Worker, RetryAbort(w) PROVE AbortedIsFenced'
  BY <1>16 DEF RetryAbort, StoresTyped, SessionTyped, UploadsKnown, AbortIsSole, LeaseIsFence,
    Upload, Start, Leased, r2, history, AbortedIsFenced
<1>17. ASSUME NEW w \in Worker, Inspect(w) PROVE AbortedIsFenced'
  BY <1>17 DEF Inspect, StoresTyped, SessionTyped, UploadsKnown, AbortIsSole, LeaseIsFence,
    Upload, At, Start, Leased, r2, history, AbortedIsFenced
<1>18. ASSUME NEW w \in Worker, Resolve(w) PROVE AbortedIsFenced'
  BY <1>18 DEF Resolve, StoresTyped, SessionTyped, UploadsKnown, AbortIsSole, LeaseIsFence,
    Upload, At, Start, Leased, r2, history, AbortedIsFenced
<1>19. ASSUME NEW w \in Worker, ReapInR2(w) PROVE AbortedIsFenced'
  BY <1>19 DEF ReapInR2, StoresTyped, SessionTyped, UploadsKnown, AbortIsSole, LeaseIsFence,
    Upload, AbortUpload, Go, d1, history, AbortedIsFenced
<1>20. ASSUME NEW w \in Worker, DeleteReaped(w) PROVE AbortedIsFenced'
  BY <1>20 DEF DeleteReaped, StoresTyped, SessionTyped, UploadsKnown, AbortIsSole,
    LeaseIsFence, Upload, Holds, DropRow, Rest, r2, history, At, NoRow, Resting, AbortedIsFenced
<1>21. ASSUME NEW w \in Worker, PromoteStale(w) PROVE AbortedIsFenced'
  BY <1>21 DEF PromoteStale, StoresTyped, SessionTyped, UploadsKnown, AbortIsSole,
    LeaseIsFence, Upload, PromoteRow, Holds, Rest, r2, Refreshed, At, Resting, AbortedIsFenced
<1>22. ASSUME NEW w \in Worker, Reopen(w) PROVE AbortedIsFenced'
  BY <1>22 DEF Reopen, StoresTyped, SessionTyped, UploadsKnown, AbortIsSole, LeaseIsFence,
    Upload, Holds, Rest, r2, history, At, Resting, AbortedIsFenced
<1>23. ASSUME NEW w \in Worker, CommitStale(w) PROVE AbortedIsFenced'
  BY <1>23 DEF CommitStale, StoresTyped, SessionTyped, UploadsKnown, AbortIsSole, LeaseIsFence,
    Upload, Fits, CommitBatch, Rescheduled, Rest, r2, history, At, DropRow, Refreshed, Resting,
    NoRow, AbortedIsFenced
<1>24. ASSUME NEW w \in Worker, ReaperFails(w) PROVE AbortedIsFenced'
  BY <1>24 DEF ReaperFails, StoresTyped, SessionTyped, UploadsKnown, AbortIsSole, LeaseIsFence,
    Upload, AbortUpload, Rescheduled, Rest, history, Refreshed, Resting, AbortedIsFenced
<1>25. CASE Expire
  BY <1>25 DEF Expire, StoresTyped, SessionTyped, UploadsKnown, AbortIsSole, LeaseIsFence,
    Upload, At, r2, procs, history, AbortedIsFenced
<1>26. CASE RemoveRows
  BY <1>26 DEF RemoveRows, StoresTyped, SessionTyped, UploadsKnown, AbortIsSole, LeaseIsFence,
    Upload, At, DropRow, r2, procs, history, NoRow, AbortedIsFenced
<1>27. CASE
       \/ \E c \in Client : UploadPart(c) \/ Complete(c) \/ Head(c) \/ Reload(c)
       \/ \E w \in Worker : InspectObject(w) \/ EraseObject(w) \/ ResolvePage(w)
       \/ Archive \/ Unarchive \/ Accept \/ EraseTarget
  <2>1. UNCHANGED <<row, mpu, lost>>
    BY <1>27 DEF UploadPart, Complete, Head, Reload, InspectObject, EraseObject, ResolvePage,
      Archive, Unarchive, Accept, EraseTarget, d1, r2, procs, history
  <2>. QED
    BY <2>1 DEF AbortedIsFenced, TypeOK, UploadInv
<1>28. ASSUME NEW c \in Client, Request(c) PROVE AbortedIsFenced'
  BY <1>28, <1>1, <1>2, <1>3, <1>4, <1>5, <1>6, <1>7, <1>8, <1>9, <1>10, <1>11, <1>12, <1>13,
    <1>14, <1>27 DEF Request
<1>29. ASSUME NEW w \in Worker, Claim(w) \/ CallR2(w) \/ ResolvePage(w) \/ WriteD1(w) \/
    ReaperFails(w)
       PROVE AbortedIsFenced'
  BY <1>29, <1>15, <1>16, <1>17, <1>18, <1>19, <1>20, <1>21, <1>22, <1>23, <1>24, <1>27 DEF
    Claim, CallR2, WriteD1
<1>. QED
  BY <1>28, <1>29, <1>25, <1>26, <1>27 DEF Next

\* Whoever drops a row has aborted its upload or has its completion: a client has
\* the session to itself, the reaper holds the lease.
LEMMA RecordedIsFoundKept ==
  ASSUME TypeOK, UploadInv, Next
  PROVE RecordedIsFound'
<1>. USE ConstantsAssumption DEF TypeOK, UploadInv, At
<1>1. ASSUME NEW c \in Client, Create(c) PROVE RecordedIsFound'
  BY <1>1 DEF Create, StoresTyped, SessionTyped, UploadsKnown, AbortIsSole, LeaseIsFence,
    OpenIsAdopted, Upload, Begin, At, Idle, d1, history, RecordedIsFound
<1>2. ASSUME NEW c \in Client, Insert(c) PROVE RecordedIsFound'
  BY <1>2 DEF Insert, StoresTyped, SessionTyped, UploadsKnown, AbortIsSole, LeaseIsFence,
    OpenIsAdopted, Upload, At, Record, Leave, r2, Fresh, Idle, RecordedIsFound
<1>3. ASSUME NEW c \in Client, InsertFails(c) PROVE RecordedIsFound'
  <2>1. /\ client[c].pc = "inserting" /\ client'[c].pc = "idle"
        /\ \A d \in Client \ {c} : client'[d] = client[d]
        /\ \A u \in Upload : mpu'[u] = mpu[u] \/ (u = client[c].upload /\ mpu'[u] = "aborted")
        /\ \/ UNCHANGED <<row, recorded, lost>>
           \/ /\ At("none") /\ row' = Fresh(client[c].upload)
              /\ recorded' = recorded \cup {client[c].upload}
              /\ lost' = lost \cup {client[c].upload}
        /\ UNCHANGED <<reaper, adopted>>
    BY <1>3, InsertFailsEffect
  <2>2. recorded \subseteq Upload
    BY DEF StoresTyped
  <2>3. CASE UNCHANGED <<row, recorded, lost>>
    BY <2>1, <2>2, <2>3 DEF UploadsKnown, RecordedIsFound
  <2>4. CASE /\ At("none") /\ row' = Fresh(client[c].upload)
             /\ recorded' = recorded \cup {client[c].upload}
             /\ lost' = lost \cup {client[c].upload}
    <3>1. row'.state = "active" /\ row'.upload = client[c].upload /\ row'.lease = NoLease
      BY <2>4 DEF Fresh
    <3>2. row.upload = 0 /\ 0 \notin Upload
      BY <2>4 DEF SessionTyped, Upload
    <3>. QED
      BY <2>1, <2>2, <2>4, <3>1, <3>2 DEF UploadsKnown, RecordedIsFound
  <2>. QED
    BY <2>1, <2>3, <2>4 DEF RecordedIsFound
<1>4. ASSUME NEW c \in Client, PutPart(c) PROVE RecordedIsFound'
  BY <1>4 DEF PutPart, StoresTyped, SessionTyped, UploadsKnown, AbortIsSole, LeaseIsFence,
    OpenIsAdopted, Upload, Begin, At, Refreshed, Idle, r2, history, RecordedIsFound
<1>5. ASSUME NEW c \in Client, RecordPart(c) PROVE RecordedIsFound'
  BY <1>5 DEF RecordPart, StoresTyped, SessionTyped, UploadsKnown, AbortIsSole, LeaseIsFence,
    OpenIsAdopted, Upload, At, Refreshed, Leave, r2, history, Idle, RecordedIsFound
<1>6. ASSUME NEW c \in Client, ClaimCompletion(c) PROVE RecordedIsFound'
  BY <1>6 DEF ClaimCompletion, StoresTyped, SessionTyped, UploadsKnown, AbortIsSole,
    LeaseIsFence, OpenIsAdopted, Upload, At, Refreshed, Leave, r2, history, Idle,
    RecordedIsFound
<1>7. ASSUME NEW c \in Client, CompleteUpload(c) PROVE RecordedIsFound'
  BY <1>7 DEF CompleteUpload, StoresTyped, SessionTyped, UploadsKnown, AbortIsSole,
    LeaseIsFence, OpenIsAdopted, Upload, Goto, Leave, d1, history, Idle, RecordedIsFound
<1>8. ASSUME NEW c \in Client, CompleteFails(c) PROVE RecordedIsFound'
  BY <1>8 DEF CompleteFails, StoresTyped, SessionTyped, UploadsKnown, AbortIsSole,
    LeaseIsFence, OpenIsAdopted, Upload, Goto, At, Refreshed, Leave, r2, history, Idle,
    RecordedIsFound
<1>9. ASSUME NEW c \in Client, Promote(c) PROVE RecordedIsFound'
  BY <1>9 DEF Promote, StoresTyped, SessionTyped, UploadsKnown, AbortIsSole, LeaseIsFence,
    OpenIsAdopted, Upload, PromoteRow, At, r2, Refreshed, RecordedIsFound
<1>10. ASSUME NEW c \in Client, Commit(c) PROVE RecordedIsFound'
  BY <1>10 DEF Commit, StoresTyped, SessionTyped, UploadsKnown, AbortIsSole, LeaseIsFence,
    OpenIsAdopted, Upload, Fits, CommitBatch, Leave, r2, history, At, DropRow, Idle, NoRow,
    RecordedIsFound
<1>11. ASSUME NEW c \in Client, Abort(c) PROVE RecordedIsFound'
  BY <1>11 DEF Abort, StoresTyped, SessionTyped, UploadsKnown, AbortIsSole, LeaseIsFence,
    OpenIsAdopted, Upload, Begin, At, Refreshed, Idle, r2, history, RecordedIsFound
<1>12. ASSUME NEW c \in Client, AbortInR2(c) PROVE RecordedIsFound'
  BY <1>12 DEF AbortInR2, StoresTyped, SessionTyped, UploadsKnown, AbortIsSole, LeaseIsFence,
    OpenIsAdopted, Upload, AbortUpload, Goto, d1, history, RecordedIsFound
<1>13. ASSUME NEW c \in Client, DeleteAborted(c) PROVE RecordedIsFound'
  BY <1>13 DEF DeleteAborted, StoresTyped, SessionTyped, UploadsKnown, AbortIsSole,
    LeaseIsFence, OpenIsAdopted, Upload, At, DropRow, Leave, r2, history, NoRow, Idle,
    RecordedIsFound
<1>14. ASSUME NEW c \in Client, GiveUp(c) PROVE RecordedIsFound'
  BY <1>14 DEF GiveUp, StoresTyped, SessionTyped, UploadsKnown, AbortIsSole, LeaseIsFence,
    OpenIsAdopted, Upload, AbortUpload, At, Refreshed, Leave, history, Idle, RecordedIsFound
<1>15. ASSUME NEW w \in Worker, Reap(w) PROVE RecordedIsFound'
  BY <1>15 DEF Reap, StoresTyped, SessionTyped, UploadsKnown, AbortIsSole, LeaseIsFence,
    OpenIsAdopted, Upload, At, Start, Leased, r2, history, RecordedIsFound
<1>16. ASSUME NEW w \in Worker, RetryAbort(w) PROVE RecordedIsFound'
  BY <1>16 DEF RetryAbort, StoresTyped, SessionTyped, UploadsKnown, AbortIsSole, LeaseIsFence,
    OpenIsAdopted, Upload, Start, Leased, r2, history, RecordedIsFound
<1>17. ASSUME NEW w \in Worker, Inspect(w) PROVE RecordedIsFound'
  BY <1>17 DEF Inspect, StoresTyped, SessionTyped, UploadsKnown, AbortIsSole, LeaseIsFence,
    OpenIsAdopted, Upload, At, Start, Leased, r2, history, RecordedIsFound
<1>18. ASSUME NEW w \in Worker, Resolve(w) PROVE RecordedIsFound'
  BY <1>18 DEF Resolve, StoresTyped, SessionTyped, UploadsKnown, AbortIsSole, LeaseIsFence,
    OpenIsAdopted, Upload, At, Start, Leased, r2, history, RecordedIsFound
<1>19. ASSUME NEW w \in Worker, ReapInR2(w) PROVE RecordedIsFound'
  BY <1>19 DEF ReapInR2, StoresTyped, SessionTyped, UploadsKnown, AbortIsSole, LeaseIsFence,
    OpenIsAdopted, Upload, AbortUpload, Go, d1, history, RecordedIsFound
<1>20. ASSUME NEW w \in Worker, DeleteReaped(w) PROVE RecordedIsFound'
  BY <1>20 DEF DeleteReaped, StoresTyped, SessionTyped, UploadsKnown, AbortIsSole,
    LeaseIsFence, OpenIsAdopted, Upload, Holds, DropRow, Rest, r2, history, At, NoRow, Resting,
    RecordedIsFound
<1>21. ASSUME NEW w \in Worker, PromoteStale(w) PROVE RecordedIsFound'
  BY <1>21 DEF PromoteStale, StoresTyped, SessionTyped, UploadsKnown, AbortIsSole,
    LeaseIsFence, OpenIsAdopted, Upload, PromoteRow, Holds, Rest, r2, Refreshed, At, Resting,
    RecordedIsFound
<1>22. ASSUME NEW w \in Worker, Reopen(w) PROVE RecordedIsFound'
  BY <1>22 DEF Reopen, StoresTyped, SessionTyped, UploadsKnown, AbortIsSole, LeaseIsFence,
    OpenIsAdopted, Upload, Holds, Rest, r2, history, At, Resting, RecordedIsFound
<1>23. ASSUME NEW w \in Worker, CommitStale(w) PROVE RecordedIsFound'
  BY <1>23 DEF CommitStale, StoresTyped, SessionTyped, UploadsKnown, AbortIsSole, LeaseIsFence,
    OpenIsAdopted, Upload, Fits, CommitBatch, Rescheduled, Rest, r2, history, At, DropRow,
    Refreshed, Resting, NoRow, RecordedIsFound
<1>24. ASSUME NEW w \in Worker, ReaperFails(w) PROVE RecordedIsFound'
  BY <1>24 DEF ReaperFails, StoresTyped, SessionTyped, UploadsKnown, AbortIsSole, LeaseIsFence,
    OpenIsAdopted, Upload, AbortUpload, Rescheduled, Rest, history, Refreshed, Resting,
    RecordedIsFound
<1>25. CASE Expire
  BY <1>25 DEF Expire, StoresTyped, SessionTyped, UploadsKnown, AbortIsSole, LeaseIsFence,
    OpenIsAdopted, Upload, At, r2, procs, history, RecordedIsFound
<1>26. CASE RemoveRows
  BY <1>26 DEF RemoveRows, StoresTyped, SessionTyped, UploadsKnown, AbortIsSole, LeaseIsFence,
    OpenIsAdopted, Upload, At, DropRow, r2, procs, history, NoRow, RecordedIsFound
<1>27. CASE
       \/ \E c \in Client : UploadPart(c) \/ Complete(c) \/ Head(c) \/ Reload(c)
       \/ \E w \in Worker : InspectObject(w) \/ EraseObject(w) \/ ResolvePage(w)
       \/ Archive \/ Unarchive \/ Accept \/ EraseTarget
  <2>1. UNCHANGED <<recorded, row, mpu, adopted>>
    BY <1>27 DEF UploadPart, Complete, Head, Reload, InspectObject, EraseObject, ResolvePage,
      Archive, Unarchive, Accept, EraseTarget, d1, r2, procs, history
  <2>. QED
    BY <2>1 DEF RecordedIsFound, TypeOK, UploadInv
<1>28. ASSUME NEW c \in Client, Request(c) PROVE RecordedIsFound'
  BY <1>28, <1>1, <1>2, <1>3, <1>4, <1>5, <1>6, <1>7, <1>8, <1>9, <1>10, <1>11, <1>12, <1>13,
    <1>14, <1>27 DEF Request
<1>29. ASSUME NEW w \in Worker, Claim(w) \/ CallR2(w) \/ ResolvePage(w) \/ WriteD1(w) \/
    ReaperFails(w)
       PROVE RecordedIsFound'
  BY <1>29, <1>15, <1>16, <1>17, <1>18, <1>19, <1>20, <1>21, <1>22, <1>23, <1>24, <1>27 DEF
    Claim, CallR2, WriteD1
<1>. QED
  BY <1>28, <1>29, <1>25, <1>26, <1>27 DEF Next

\* Every write to a session other than its holder's takes the lease away.
LEMMA LeaseIsFenceKept ==
  ASSUME TypeOK, UploadInv, Next
  PROVE LeaseIsFence'
<1>. USE ConstantsAssumption DEF TypeOK, UploadInv, At
<1>1. ASSUME NEW c \in Client, Create(c) PROVE LeaseIsFence'
  BY <1>1 DEF Create, StoresTyped, SessionTyped, ReapersTyped, UploadsKnown, AbortIsSole,
    Upload, Begin, At, Idle, d1, history, LeaseIsFence
<1>2. ASSUME NEW c \in Client, Insert(c) PROVE LeaseIsFence'
  BY <1>2 DEF Insert, StoresTyped, SessionTyped, ReapersTyped, UploadsKnown, AbortIsSole,
    Upload, At, Record, Leave, r2, Fresh, Idle, LeaseIsFence
<1>3. ASSUME NEW c \in Client, InsertFails(c) PROVE LeaseIsFence'
  <2>1. /\ client[c].pc = "inserting" /\ client'[c].pc = "idle"
        /\ \A d \in Client \ {c} : client'[d] = client[d]
        /\ \A u \in Upload : mpu'[u] = mpu[u] \/ (u = client[c].upload /\ mpu'[u] = "aborted")
        /\ \/ UNCHANGED <<row, recorded, lost>>
           \/ /\ At("none") /\ row' = Fresh(client[c].upload)
              /\ recorded' = recorded \cup {client[c].upload}
              /\ lost' = lost \cup {client[c].upload}
        /\ UNCHANGED <<reaper, adopted>>
    BY <1>3, InsertFailsEffect
  <2>2. recorded \subseteq Upload
    BY DEF StoresTyped
  <2>3. CASE UNCHANGED <<row, recorded, lost>>
    BY <2>1, <2>2, <2>3 DEF UploadsKnown, LeaseIsFence
  <2>4. CASE /\ At("none") /\ row' = Fresh(client[c].upload)
             /\ recorded' = recorded \cup {client[c].upload}
             /\ lost' = lost \cup {client[c].upload}
    <3>1. row'.state = "active" /\ row'.upload = client[c].upload /\ row'.lease = NoLease
      BY <2>4 DEF Fresh
    <3>2. row.upload = 0 /\ 0 \notin Upload
      BY <2>4 DEF SessionTyped, Upload
    <3>. QED
      BY <2>1, <2>2, <2>4, <3>1, <3>2 DEF UploadsKnown, LeaseIsFence
  <2>. QED
    BY <2>1, <2>3, <2>4 DEF LeaseIsFence
<1>4. ASSUME NEW c \in Client, PutPart(c) PROVE LeaseIsFence'
  BY <1>4 DEF PutPart, StoresTyped, SessionTyped, ReapersTyped, UploadsKnown, AbortIsSole,
    Upload, Begin, At, Refreshed, Idle, r2, history, LeaseIsFence
<1>5. ASSUME NEW c \in Client, RecordPart(c) PROVE LeaseIsFence'
  BY <1>5 DEF RecordPart, StoresTyped, SessionTyped, ReapersTyped, UploadsKnown, AbortIsSole,
    Upload, At, Refreshed, Leave, r2, history, Idle, LeaseIsFence
<1>6. ASSUME NEW c \in Client, ClaimCompletion(c) PROVE LeaseIsFence'
  BY <1>6 DEF ClaimCompletion, StoresTyped, SessionTyped, ReapersTyped, UploadsKnown,
    AbortIsSole, Upload, At, Refreshed, Leave, r2, history, Idle, LeaseIsFence
<1>7. ASSUME NEW c \in Client, CompleteUpload(c) PROVE LeaseIsFence'
  BY <1>7 DEF CompleteUpload, StoresTyped, SessionTyped, ReapersTyped, UploadsKnown,
    AbortIsSole, Upload, Goto, Leave, d1, history, Idle, LeaseIsFence
<1>8. ASSUME NEW c \in Client, CompleteFails(c) PROVE LeaseIsFence'
  BY <1>8 DEF CompleteFails, StoresTyped, SessionTyped, ReapersTyped, UploadsKnown,
    AbortIsSole, Upload, Goto, At, Refreshed, Leave, r2, history, Idle, LeaseIsFence
<1>9. ASSUME NEW c \in Client, Promote(c) PROVE LeaseIsFence'
  BY <1>9 DEF Promote, StoresTyped, SessionTyped, ReapersTyped, UploadsKnown, AbortIsSole,
    Upload, PromoteRow, At, r2, Refreshed, LeaseIsFence
<1>10. ASSUME NEW c \in Client, Commit(c) PROVE LeaseIsFence'
  BY <1>10 DEF Commit, StoresTyped, SessionTyped, ReapersTyped, UploadsKnown, AbortIsSole,
    Upload, Fits, CommitBatch, Leave, r2, history, At, DropRow, Idle, NoRow, LeaseIsFence
<1>11. ASSUME NEW c \in Client, Abort(c) PROVE LeaseIsFence'
  BY <1>11 DEF Abort, StoresTyped, SessionTyped, ReapersTyped, UploadsKnown, AbortIsSole,
    Upload, Begin, At, Refreshed, Idle, r2, history, LeaseIsFence
<1>12. ASSUME NEW c \in Client, AbortInR2(c) PROVE LeaseIsFence'
  BY <1>12 DEF AbortInR2, StoresTyped, SessionTyped, ReapersTyped, UploadsKnown, AbortIsSole,
    Upload, AbortUpload, Goto, d1, history, LeaseIsFence
<1>13. ASSUME NEW c \in Client, DeleteAborted(c) PROVE LeaseIsFence'
  BY <1>13 DEF DeleteAborted, StoresTyped, SessionTyped, ReapersTyped, UploadsKnown,
    AbortIsSole, Upload, At, DropRow, Leave, r2, history, NoRow, Idle, LeaseIsFence
<1>14. ASSUME NEW c \in Client, GiveUp(c) PROVE LeaseIsFence'
  BY <1>14 DEF GiveUp, StoresTyped, SessionTyped, ReapersTyped, UploadsKnown, AbortIsSole,
    Upload, AbortUpload, At, Refreshed, Leave, history, Idle, LeaseIsFence
<1>15. ASSUME NEW w \in Worker, Reap(w) PROVE LeaseIsFence'
  BY <1>15 DEF Reap, StoresTyped, SessionTyped, ReapersTyped, UploadsKnown, AbortIsSole,
    Upload, At, Start, Leased, r2, history, LeaseIsFence
<1>16. ASSUME NEW w \in Worker, RetryAbort(w) PROVE LeaseIsFence'
  BY <1>16 DEF RetryAbort, StoresTyped, SessionTyped, ReapersTyped, UploadsKnown, AbortIsSole,
    Upload, Start, Leased, r2, history, LeaseIsFence
<1>17. ASSUME NEW w \in Worker, Inspect(w) PROVE LeaseIsFence'
  BY <1>17 DEF Inspect, StoresTyped, SessionTyped, ReapersTyped, UploadsKnown, AbortIsSole,
    Upload, At, Start, Leased, r2, history, LeaseIsFence
<1>18. ASSUME NEW w \in Worker, Resolve(w) PROVE LeaseIsFence'
  BY <1>18 DEF Resolve, StoresTyped, SessionTyped, ReapersTyped, UploadsKnown, AbortIsSole,
    Upload, At, Start, Leased, r2, history, LeaseIsFence
<1>19. ASSUME NEW w \in Worker, ReapInR2(w) PROVE LeaseIsFence'
  BY <1>19 DEF ReapInR2, StoresTyped, SessionTyped, ReapersTyped, UploadsKnown, AbortIsSole,
    Upload, AbortUpload, Go, d1, history, LeaseIsFence
<1>20. ASSUME NEW w \in Worker, InspectObject(w) PROVE LeaseIsFence'
  BY <1>20 DEF InspectObject, StoresTyped, SessionTyped, ReapersTyped, UploadsKnown,
    AbortIsSole, Upload, Go, d1, r2, history, LeaseIsFence
<1>21. ASSUME NEW w \in Worker, EraseObject(w) PROVE LeaseIsFence'
  BY <1>21 DEF EraseObject, StoresTyped, SessionTyped, ReapersTyped, UploadsKnown, AbortIsSole,
    Upload, Go, d1, history, LeaseIsFence
<1>22. ASSUME NEW w \in Worker, ResolvePage(w) PROVE LeaseIsFence'
  <2>1. /\ \A v \in Worker \ {w} : reaper'[v] = reaper[v]
        /\ reaper'[w].pc \in {"committing", "erasing"} /\ reaper[w].pc = "resolving"
        /\ reaper'[w].state = reaper[w].state /\ reaper'[w].upload = reaper[w].upload
        /\ UNCHANGED <<row, mpu>>
    BY <1>22 DEF ResolvePage, Go, d1, r2, ReapersTyped, Reaping
  <2>. QED
    BY <2>1 DEF LeaseIsFence
<1>23. ASSUME NEW w \in Worker, DeleteReaped(w) PROVE LeaseIsFence'
  BY <1>23 DEF DeleteReaped, StoresTyped, SessionTyped, ReapersTyped, UploadsKnown,
    AbortIsSole, Upload, Holds, DropRow, Rest, r2, history, At, NoRow, Resting, LeaseIsFence
<1>24. ASSUME NEW w \in Worker, PromoteStale(w) PROVE LeaseIsFence'
  BY <1>24 DEF PromoteStale, StoresTyped, SessionTyped, ReapersTyped, UploadsKnown,
    AbortIsSole, Upload, PromoteRow, Holds, Rest, r2, Refreshed, At, Resting, LeaseIsFence
<1>25. ASSUME NEW w \in Worker, Reopen(w) PROVE LeaseIsFence'
  BY <1>25 DEF Reopen, StoresTyped, SessionTyped, ReapersTyped, UploadsKnown, AbortIsSole,
    Upload, Holds, Rest, r2, history, At, Resting, LeaseIsFence
<1>26. ASSUME NEW w \in Worker, CommitStale(w) PROVE LeaseIsFence'
  BY <1>26 DEF CommitStale, StoresTyped, SessionTyped, ReapersTyped, UploadsKnown, AbortIsSole,
    Upload, Fits, CommitBatch, Rescheduled, Rest, r2, history, At, DropRow, Refreshed, Resting,
    NoRow, LeaseIsFence
<1>27. ASSUME NEW w \in Worker, ReaperFails(w) PROVE LeaseIsFence'
  BY <1>27 DEF ReaperFails, StoresTyped, SessionTyped, ReapersTyped, UploadsKnown, AbortIsSole,
    Upload, AbortUpload, Rescheduled, Rest, history, Refreshed, Resting, LeaseIsFence
<1>28. CASE Expire
  BY <1>28 DEF Expire, StoresTyped, SessionTyped, ReapersTyped, UploadsKnown, AbortIsSole,
    Upload, At, r2, procs, history, LeaseIsFence
<1>29. CASE RemoveRows
  BY <1>29 DEF RemoveRows, StoresTyped, SessionTyped, ReapersTyped, UploadsKnown, AbortIsSole,
    Upload, At, DropRow, r2, procs, history, NoRow, LeaseIsFence
<1>30. CASE
       \/ \E c \in Client : UploadPart(c) \/ Complete(c) \/ Head(c) \/ Reload(c)
       \/ Archive \/ Unarchive \/ Accept \/ EraseTarget
  <2>1. UNCHANGED <<reaper, row, mpu>>
    BY <1>30 DEF UploadPart, Complete, Head, Reload, Archive, Unarchive, Accept, EraseTarget,
      d1, r2, procs, history
  <2>. QED
    BY <2>1 DEF LeaseIsFence, TypeOK, UploadInv
<1>31. ASSUME NEW c \in Client, Request(c) PROVE LeaseIsFence'
  BY <1>31, <1>1, <1>2, <1>3, <1>4, <1>5, <1>6, <1>7, <1>8, <1>9, <1>10, <1>11, <1>12, <1>13,
    <1>14, <1>30 DEF Request
<1>32. ASSUME NEW w \in Worker, Claim(w) \/ CallR2(w) \/ ResolvePage(w) \/ WriteD1(w) \/
    ReaperFails(w)
       PROVE LeaseIsFence'
  BY <1>32, <1>15, <1>16, <1>17, <1>18, <1>19, <1>20, <1>21, <1>22, <1>23, <1>24, <1>25, <1>26,
    <1>27, <1>30 DEF Claim, CallR2, WriteD1
<1>. QED
  BY <1>31, <1>32, <1>28, <1>29, <1>30 DEF Next

\* The object is seen, or put, before anyone says it is there.
LEMMA ObjectKnownKept ==
  ASSUME TypeOK, UploadInv, Next
  PROVE ObjectKnown'
<1>. USE ConstantsAssumption DEF TypeOK, UploadInv, At
<1>1. ASSUME NEW c \in Client, Create(c) PROVE ObjectKnown'
  BY <1>1 DEF Create, StoresTyped, SessionTyped, ClientsTyped, ReapersTyped, LeaseIsFence,
    Upload, Begin, At, Idle, d1, history, ObjectKnown
<1>2. ASSUME NEW c \in Client, Insert(c) PROVE ObjectKnown'
  BY <1>2 DEF Insert, StoresTyped, SessionTyped, ClientsTyped, ReapersTyped, LeaseIsFence,
    Upload, At, Record, Leave, r2, Fresh, Idle, ObjectKnown
<1>3. ASSUME NEW c \in Client, InsertFails(c) PROVE ObjectKnown'
  BY <1>3 DEF InsertFails, StoresTyped, SessionTyped, ClientsTyped, ReapersTyped, LeaseIsFence,
    Upload, AbortUpload, At, Record, Leave, Fresh, Idle, ObjectKnown
<1>4. ASSUME NEW c \in Client, PutPart(c) PROVE ObjectKnown'
  BY <1>4 DEF PutPart, StoresTyped, SessionTyped, ClientsTyped, ReapersTyped, LeaseIsFence,
    Upload, Begin, At, Refreshed, Idle, r2, history, ObjectKnown
<1>5. ASSUME NEW c \in Client, UploadPart(c) PROVE ObjectKnown'
  BY <1>5 DEF UploadPart, StoresTyped, SessionTyped, ClientsTyped, ReapersTyped, LeaseIsFence,
    Upload, Goto, d1, history, ObjectKnown
<1>6. ASSUME NEW c \in Client, RecordPart(c) PROVE ObjectKnown'
  BY <1>6 DEF RecordPart, StoresTyped, SessionTyped, ClientsTyped, ReapersTyped, LeaseIsFence,
    Upload, At, Refreshed, Leave, r2, history, Idle, ObjectKnown
<1>7. ASSUME NEW c \in Client, Complete(c) PROVE ObjectKnown'
  <2>1. /\ ~At("none") /\ client'[c].pc \in {"claiming", "heading", "committing"}
        /\ client'[c].upload = row.upload
        /\ \A d \in Client \ {c} : client'[d] = client[d]
        /\ UNCHANGED <<page, row, attachment, object, mpu, reaper, recorded>>
    BY <1>7, CompleteEffect
  <2>. QED
    BY <2>1 DEF At, ObjectKnown
<1>8. ASSUME NEW c \in Client, ClaimCompletion(c) PROVE ObjectKnown'
  <2>1. client[c].pc = "claiming" /\ UNCHANGED <<page, attachment, object, reaper, mpu,
    recorded>>
    BY <1>8 DEF ClaimCompletion, r2, history
  <2>2. /\ \/ row' = row /\ client'[c].pc = "idle"
           \/ /\ At("active") /\ row' = Refreshed("completing")
              /\ client'[c].pc = "heading" /\ client'[c].upload = row.upload
           \/ /\ row' = row /\ ~At("none") 
              /\ client'[c].pc \in {"heading", "committing"} /\ client'[c].upload = row.upload
        /\ \A d \in Client \ {c} : client'[d] = client[d]
    BY <1>8, ClaimCompletionEffect DEF At
  <2>. QED
    BY <2>1, <2>2 DEF At, Refreshed, ObjectKnown
<1>9. ASSUME NEW c \in Client, Head(c) PROVE ObjectKnown'
  BY <1>9 DEF Head, StoresTyped, SessionTyped, ClientsTyped, ReapersTyped, LeaseIsFence,
    Upload, Goto, d1, r2, history, ObjectKnown
<1>10. ASSUME NEW c \in Client, CompleteUpload(c) PROVE ObjectKnown'
  BY <1>10 DEF CompleteUpload, StoresTyped, SessionTyped, ClientsTyped, ReapersTyped,
    LeaseIsFence, Upload, Goto, Leave, d1, history, Idle, ObjectKnown
<1>11. ASSUME NEW c \in Client, CompleteFails(c) PROVE ObjectKnown'
  BY <1>11 DEF CompleteFails, StoresTyped, SessionTyped, ClientsTyped, ReapersTyped,
    LeaseIsFence, Upload, Goto, At, Refreshed, Leave, r2, history, Idle, ObjectKnown
<1>12. ASSUME NEW c \in Client, Promote(c) PROVE ObjectKnown'
  BY <1>12 DEF Promote, StoresTyped, SessionTyped, ClientsTyped, ReapersTyped, LeaseIsFence,
    Upload, PromoteRow, At, r2, Refreshed, ObjectKnown
<1>13. ASSUME NEW c \in Client, Reload(c) PROVE ObjectKnown'
  BY <1>13 DEF Reload, StoresTyped, SessionTyped, ClientsTyped, ReapersTyped, LeaseIsFence,
    Upload, At, Goto, Leave, d1, r2, history, Idle, ObjectKnown
<1>14. ASSUME NEW c \in Client, Commit(c) PROVE ObjectKnown'
  BY <1>14 DEF Commit, StoresTyped, SessionTyped, ClientsTyped, ReapersTyped, LeaseIsFence,
    Upload, Fits, CommitBatch, Leave, r2, history, At, DropRow, Idle, NoRow, ObjectKnown
<1>15. ASSUME NEW c \in Client, Abort(c) PROVE ObjectKnown'
  BY <1>15 DEF Abort, StoresTyped, SessionTyped, ClientsTyped, ReapersTyped, LeaseIsFence,
    Upload, Begin, At, Refreshed, Idle, r2, history, ObjectKnown
<1>16. ASSUME NEW c \in Client, AbortInR2(c) PROVE ObjectKnown'
  BY <1>16 DEF AbortInR2, StoresTyped, SessionTyped, ClientsTyped, ReapersTyped, LeaseIsFence,
    Upload, AbortUpload, Goto, d1, history, ObjectKnown
<1>17. ASSUME NEW c \in Client, DeleteAborted(c) PROVE ObjectKnown'
  BY <1>17 DEF DeleteAborted, StoresTyped, SessionTyped, ClientsTyped, ReapersTyped,
    LeaseIsFence, Upload, At, DropRow, Leave, r2, history, NoRow, Idle, ObjectKnown
<1>18. ASSUME NEW c \in Client, GiveUp(c) PROVE ObjectKnown'
  BY <1>18 DEF GiveUp, StoresTyped, SessionTyped, ClientsTyped, ReapersTyped, LeaseIsFence,
    Upload, AbortUpload, At, Refreshed, Leave, history, Idle, ObjectKnown
<1>19. ASSUME NEW w \in Worker, Reap(w) PROVE ObjectKnown'
  BY <1>19 DEF Reap, StoresTyped, SessionTyped, ClientsTyped, ReapersTyped, LeaseIsFence,
    Upload, At, Start, Leased, r2, history, ObjectKnown
<1>20. ASSUME NEW w \in Worker, RetryAbort(w) PROVE ObjectKnown'
  BY <1>20 DEF RetryAbort, StoresTyped, SessionTyped, ClientsTyped, ReapersTyped, LeaseIsFence,
    Upload, Start, Leased, r2, history, ObjectKnown
<1>21. ASSUME NEW w \in Worker, Inspect(w) PROVE ObjectKnown'
  BY <1>21 DEF Inspect, StoresTyped, SessionTyped, ClientsTyped, ReapersTyped, LeaseIsFence,
    Upload, At, Start, Leased, r2, history, ObjectKnown
<1>22. ASSUME NEW w \in Worker, Resolve(w) PROVE ObjectKnown'
  BY <1>22 DEF Resolve, StoresTyped, SessionTyped, ClientsTyped, ReapersTyped, LeaseIsFence,
    Upload, At, Start, Leased, r2, history, ObjectKnown
<1>23. ASSUME NEW w \in Worker, ReapInR2(w) PROVE ObjectKnown'
  BY <1>23 DEF ReapInR2, StoresTyped, SessionTyped, ClientsTyped, ReapersTyped, LeaseIsFence,
    Upload, AbortUpload, Go, d1, history, ObjectKnown
<1>24. ASSUME NEW w \in Worker, InspectObject(w) PROVE ObjectKnown'
  BY <1>24 DEF InspectObject, StoresTyped, SessionTyped, ClientsTyped, ReapersTyped,
    LeaseIsFence, Upload, Go, d1, r2, history, ObjectKnown
<1>25. ASSUME NEW w \in Worker, EraseObject(w) PROVE ObjectKnown'
  BY <1>25 DEF EraseObject, StoresTyped, SessionTyped, ClientsTyped, ReapersTyped,
    LeaseIsFence, Upload, Go, d1, history, ObjectKnown
<1>26. ASSUME NEW w \in Worker, ResolvePage(w) PROVE ObjectKnown'
  BY <1>26 DEF ResolvePage, StoresTyped, SessionTyped, ClientsTyped, ReapersTyped,
    LeaseIsFence, Upload, Go, d1, r2, history, ObjectKnown
<1>27. ASSUME NEW w \in Worker, DeleteReaped(w) PROVE ObjectKnown'
  BY <1>27 DEF DeleteReaped, StoresTyped, SessionTyped, ClientsTyped, ReapersTyped,
    LeaseIsFence, Upload, Holds, DropRow, Rest, r2, history, At, NoRow, Resting, ObjectKnown
<1>28. ASSUME NEW w \in Worker, PromoteStale(w) PROVE ObjectKnown'
  BY <1>28 DEF PromoteStale, StoresTyped, SessionTyped, ClientsTyped, ReapersTyped,
    LeaseIsFence, Upload, PromoteRow, Holds, Rest, r2, Refreshed, At, Resting, ObjectKnown
<1>29. ASSUME NEW w \in Worker, Reopen(w) PROVE ObjectKnown'
  BY <1>29 DEF Reopen, StoresTyped, SessionTyped, ClientsTyped, ReapersTyped, LeaseIsFence,
    Upload, Holds, Rest, r2, history, At, Resting, ObjectKnown
<1>30. ASSUME NEW w \in Worker, CommitStale(w) PROVE ObjectKnown'
  BY <1>30 DEF CommitStale, StoresTyped, SessionTyped, ClientsTyped, ReapersTyped,
    LeaseIsFence, Upload, Fits, CommitBatch, Rescheduled, Rest, r2, history, At, DropRow,
    Refreshed, Resting, NoRow, ObjectKnown
<1>31. ASSUME NEW w \in Worker, ReaperFails(w) PROVE ObjectKnown'
  BY <1>31 DEF ReaperFails, StoresTyped, SessionTyped, ClientsTyped, ReapersTyped,
    LeaseIsFence, Upload, AbortUpload, Rescheduled, Rest, history, Refreshed, Resting,
    ObjectKnown
<1>32. CASE Expire
  BY <1>32 DEF Expire, StoresTyped, SessionTyped, ClientsTyped, ReapersTyped, LeaseIsFence,
    Upload, At, r2, procs, history, ObjectKnown
<1>33. CASE Archive
  BY <1>33 DEF Archive, StoresTyped, SessionTyped, ClientsTyped, ReapersTyped, LeaseIsFence,
    Upload, r2, procs, history, ObjectKnown
<1>34. CASE Unarchive
  BY <1>34 DEF Unarchive, StoresTyped, SessionTyped, ClientsTyped, ReapersTyped, LeaseIsFence,
    Upload, r2, procs, history, ObjectKnown
<1>35. CASE Accept
  BY <1>35 DEF Accept, StoresTyped, SessionTyped, ClientsTyped, ReapersTyped, LeaseIsFence,
    Upload, At, r2, procs, history, ObjectKnown
<1>36. CASE RemoveRows
  BY <1>36 DEF RemoveRows, StoresTyped, SessionTyped, ClientsTyped, ReapersTyped, LeaseIsFence,
    Upload, At, DropRow, r2, procs, history, NoRow, ObjectKnown
<1>37. CASE EraseTarget
  BY <1>37 DEF EraseTarget, StoresTyped, SessionTyped, ClientsTyped, ReapersTyped,
    LeaseIsFence, Upload, procs, history, ObjectKnown
<1>38. ASSUME NEW c \in Client, Request(c) PROVE ObjectKnown'
  BY <1>38, <1>1, <1>2, <1>3, <1>4, <1>5, <1>6, <1>7, <1>8, <1>9, <1>10, <1>11, <1>12, <1>13,
    <1>14, <1>15, <1>16, <1>17, <1>18 DEF Request
<1>39. ASSUME NEW w \in Worker, Claim(w) \/ CallR2(w) \/ ResolvePage(w) \/ WriteD1(w) \/
    ReaperFails(w)
       PROVE ObjectKnown'
  BY <1>39, <1>19, <1>20, <1>21, <1>22, <1>23, <1>24, <1>25, <1>26, <1>27, <1>28, <1>29, <1>30,
    <1>31 DEF Claim, CallR2, WriteD1
<1>. QED
  BY <1>38, <1>39, <1>32, <1>33, <1>34, <1>35, <1>36, <1>37 DEF Next

\* Uploads are recorded once.
LEMMA UploadsKnownKept ==
  ASSUME TypeOK, UploadInv, Next
  PROVE UploadsKnown'
<1>. USE ConstantsAssumption DEF TypeOK, UploadInv, At
<1>1. ASSUME NEW c \in Client, Create(c) PROVE UploadsKnown'
  BY <1>1 DEF Create, StoresTyped, SessionTyped, ClientsTyped, ReapersTyped, Upload, Begin, At,
    Idle, d1, history, UploadsKnown
<1>2. ASSUME NEW c \in Client, Insert(c) PROVE UploadsKnown'
  BY <1>2 DEF Insert, StoresTyped, SessionTyped, ClientsTyped, ReapersTyped, Upload, At,
    Record, Leave, r2, Fresh, Idle, UploadsKnown
<1>3. ASSUME NEW c \in Client, InsertFails(c) PROVE UploadsKnown'
  <2>1. /\ client[c].pc = "inserting" /\ client'[c].pc = "idle"
        /\ \A d \in Client \ {c} : client'[d] = client[d]
        /\ \A u \in Upload : mpu'[u] = mpu[u] \/ (u = client[c].upload /\ mpu'[u] = "aborted")
        /\ \/ UNCHANGED <<row, recorded, lost>>
           \/ /\ At("none") /\ row' = Fresh(client[c].upload)
              /\ recorded' = recorded \cup {client[c].upload}
              /\ lost' = lost \cup {client[c].upload}
        /\ UNCHANGED <<reaper, adopted>>
    BY <1>3, InsertFailsEffect
  <2>2. recorded \subseteq Upload
    BY DEF StoresTyped
  <2>3. CASE UNCHANGED <<row, recorded, lost>>
    BY <2>1, <2>2, <2>3 DEF UploadsKnown
  <2>4. CASE /\ At("none") /\ row' = Fresh(client[c].upload)
             /\ recorded' = recorded \cup {client[c].upload}
             /\ lost' = lost \cup {client[c].upload}
    <3>1. row'.state = "active" /\ row'.upload = client[c].upload /\ row'.lease = NoLease
      BY <2>4 DEF Fresh
    <3>2. row.upload = 0 /\ 0 \notin Upload
      BY <2>4 DEF SessionTyped, Upload
    <3>. QED
      BY <2>1, <2>2, <2>4, <3>1, <3>2 DEF UploadsKnown
  <2>. QED
    BY <2>1, <2>3, <2>4 DEF UploadsKnown
<1>4. ASSUME NEW c \in Client, PutPart(c) PROVE UploadsKnown'
  BY <1>4 DEF PutPart, StoresTyped, SessionTyped, ClientsTyped, ReapersTyped, Upload, Begin,
    At, Refreshed, Idle, r2, history, UploadsKnown
<1>5. ASSUME NEW c \in Client, UploadPart(c) PROVE UploadsKnown'
  BY <1>5 DEF UploadPart, StoresTyped, SessionTyped, ClientsTyped, ReapersTyped, Upload, Goto,
    d1, history, UploadsKnown
<1>6. ASSUME NEW c \in Client, RecordPart(c) PROVE UploadsKnown'
  BY <1>6 DEF RecordPart, StoresTyped, SessionTyped, ClientsTyped, ReapersTyped, Upload, At,
    Refreshed, Leave, r2, history, Idle, UploadsKnown
<1>7. ASSUME NEW c \in Client, Complete(c) PROVE UploadsKnown'
  <2>1. /\ ~At("none") /\ client'[c].pc \in {"claiming", "heading", "committing"}
        /\ client'[c].upload = row.upload
        /\ \A d \in Client \ {c} : client'[d] = client[d]
        /\ UNCHANGED <<page, row, attachment, object, mpu, reaper, recorded>>
    BY <1>7, CompleteEffect
  <2>. QED
    BY <2>1 DEF At, UploadsKnown
<1>8. ASSUME NEW c \in Client, ClaimCompletion(c) PROVE UploadsKnown'
  <2>1. client[c].pc = "claiming" /\ UNCHANGED <<page, attachment, object, reaper, mpu,
    recorded>>
    BY <1>8 DEF ClaimCompletion, r2, history
  <2>2. /\ \/ row' = row /\ client'[c].pc = "idle"
           \/ /\ At("active") /\ row' = Refreshed("completing")
              /\ client'[c].pc = "heading" /\ client'[c].upload = row.upload
           \/ /\ row' = row /\ ~At("none") 
              /\ client'[c].pc \in {"heading", "committing"} /\ client'[c].upload = row.upload
        /\ \A d \in Client \ {c} : client'[d] = client[d]
    BY <1>8, ClaimCompletionEffect DEF At
  <2>. QED
    BY <2>1, <2>2 DEF At, Refreshed, UploadsKnown
<1>9. ASSUME NEW c \in Client, Head(c) PROVE UploadsKnown'
  BY <1>9 DEF Head, StoresTyped, SessionTyped, ClientsTyped, ReapersTyped, Upload, Goto, d1,
    r2, history, UploadsKnown
<1>10. ASSUME NEW c \in Client, CompleteUpload(c) PROVE UploadsKnown'
  <2>1. /\ client[c].pc = "completing" /\ Moved(c, {"completing", "promoting"})
        /\ mpu' = [mpu EXCEPT ![client[c].upload] = "completed"]
        /\ UNCHANGED <<row, reaper, recorded>>
    BY <1>10, CompleteUploadEffect
  <2>. QED
    BY <2>1 DEF Moved, At, Refreshed, Fresh, UploadsKnown
<1>11. ASSUME NEW c \in Client, CompleteFails(c) PROVE UploadsKnown'
  <2>1. /\ client[c].pc = "completing" /\ Moved(c, {"promoting"})
        /\ row' = row \/ (At("completing") /\ row' = Refreshed("completing"))
        /\ UNCHANGED <<mpu, reaper, recorded>>
    BY <1>11, CompleteFailsEffect
  <2>. QED
    BY <2>1 DEF Moved, At, Refreshed, Fresh, UploadsKnown
<1>12. ASSUME NEW c \in Client, Promote(c) PROVE UploadsKnown'
  <2>1. /\ client[c].pc = "promoting" /\ Moved(c, {"reloading"})
        /\ row' = row \/ (At("completing") /\ row' = Refreshed("r2_complete"))
        /\ UNCHANGED <<mpu, reaper, recorded>>
    BY <1>12, PromoteEffect
  <2>. QED
    BY <2>1 DEF Moved, At, Refreshed, Fresh, UploadsKnown
<1>13. ASSUME NEW c \in Client, Reload(c) PROVE UploadsKnown'
  <2>1. /\ client[c].pc = "reloading" /\ Moved(c, {"committing"})
        /\ UNCHANGED <<row, mpu, reaper, recorded>>
    BY <1>13, ReloadEffect
  <2>. QED
    BY <2>1 DEF Moved, At, Refreshed, Fresh, UploadsKnown
<1>14. ASSUME NEW c \in Client, Commit(c) PROVE UploadsKnown'
  BY <1>14 DEF Commit, StoresTyped, SessionTyped, ClientsTyped, ReapersTyped, Upload, Fits,
    CommitBatch, Leave, r2, history, At, DropRow, Idle, NoRow, UploadsKnown
<1>15. ASSUME NEW c \in Client, Abort(c) PROVE UploadsKnown'
  BY <1>15 DEF Abort, StoresTyped, SessionTyped, ClientsTyped, ReapersTyped, Upload, Begin, At,
    Refreshed, Idle, r2, history, UploadsKnown
<1>16. ASSUME NEW c \in Client, AbortInR2(c) PROVE UploadsKnown'
  BY <1>16 DEF AbortInR2, StoresTyped, SessionTyped, ClientsTyped, ReapersTyped, Upload,
    AbortUpload, Goto, d1, history, UploadsKnown
<1>17. ASSUME NEW c \in Client, DeleteAborted(c) PROVE UploadsKnown'
  BY <1>17 DEF DeleteAborted, StoresTyped, SessionTyped, ClientsTyped, ReapersTyped, Upload,
    At, DropRow, Leave, r2, history, NoRow, Idle, UploadsKnown
<1>18. ASSUME NEW c \in Client, GiveUp(c) PROVE UploadsKnown'
  BY <1>18 DEF GiveUp, StoresTyped, SessionTyped, ClientsTyped, ReapersTyped, Upload,
    AbortUpload, At, Refreshed, Leave, history, Idle, UploadsKnown
<1>19. ASSUME NEW w \in Worker, Reap(w) PROVE UploadsKnown'
  BY <1>19 DEF Reap, StoresTyped, SessionTyped, ClientsTyped, ReapersTyped, Upload, At, Start,
    Leased, r2, history, UploadsKnown
<1>20. ASSUME NEW w \in Worker, RetryAbort(w) PROVE UploadsKnown'
  BY <1>20 DEF RetryAbort, StoresTyped, SessionTyped, ClientsTyped, ReapersTyped, Upload,
    Start, Leased, r2, history, UploadsKnown
<1>21. ASSUME NEW w \in Worker, Inspect(w) PROVE UploadsKnown'
  BY <1>21 DEF Inspect, StoresTyped, SessionTyped, ClientsTyped, ReapersTyped, Upload, At,
    Start, Leased, r2, history, UploadsKnown
<1>22. ASSUME NEW w \in Worker, Resolve(w) PROVE UploadsKnown'
  BY <1>22 DEF Resolve, StoresTyped, SessionTyped, ClientsTyped, ReapersTyped, Upload, At,
    Start, Leased, r2, history, UploadsKnown
<1>23. ASSUME NEW w \in Worker, ReapInR2(w) PROVE UploadsKnown'
  BY <1>23 DEF ReapInR2, StoresTyped, SessionTyped, ClientsTyped, ReapersTyped, Upload,
    AbortUpload, Go, d1, history, UploadsKnown
<1>24. ASSUME NEW w \in Worker, InspectObject(w) PROVE UploadsKnown'
  BY <1>24 DEF InspectObject, StoresTyped, SessionTyped, ClientsTyped, ReapersTyped, Upload,
    Go, d1, r2, history, UploadsKnown
<1>25. ASSUME NEW w \in Worker, EraseObject(w) PROVE UploadsKnown'
  BY <1>25 DEF EraseObject, StoresTyped, SessionTyped, ClientsTyped, ReapersTyped, Upload, Go,
    d1, history, UploadsKnown
<1>26. ASSUME NEW w \in Worker, ResolvePage(w) PROVE UploadsKnown'
  BY <1>26 DEF ResolvePage, StoresTyped, SessionTyped, ClientsTyped, ReapersTyped, Upload, Go,
    d1, r2, history, UploadsKnown
<1>27. ASSUME NEW w \in Worker, DeleteReaped(w) PROVE UploadsKnown'
  BY <1>27 DEF DeleteReaped, StoresTyped, SessionTyped, ClientsTyped, ReapersTyped, Upload,
    Holds, DropRow, Rest, r2, history, At, NoRow, Resting, UploadsKnown
<1>28. ASSUME NEW w \in Worker, PromoteStale(w) PROVE UploadsKnown'
  BY <1>28 DEF PromoteStale, StoresTyped, SessionTyped, ClientsTyped, ReapersTyped, Upload,
    PromoteRow, Holds, Rest, r2, Refreshed, At, Resting, UploadsKnown
<1>29. ASSUME NEW w \in Worker, Reopen(w) PROVE UploadsKnown'
  BY <1>29 DEF Reopen, StoresTyped, SessionTyped, ClientsTyped, ReapersTyped, Upload, Holds,
    Rest, r2, history, At, Resting, UploadsKnown
<1>30. ASSUME NEW w \in Worker, CommitStale(w) PROVE UploadsKnown'
  BY <1>30 DEF CommitStale, StoresTyped, SessionTyped, ClientsTyped, ReapersTyped, Upload,
    Fits, CommitBatch, Rescheduled, Rest, r2, history, At, DropRow, Refreshed, Resting, NoRow,
    UploadsKnown
<1>31. ASSUME NEW w \in Worker, ReaperFails(w) PROVE UploadsKnown'
  <2>1. reaper'[w].pc = "idle" /\ \A v \in Worker \ {w} : reaper'[v] = reaper[v]
    BY <1>31, RestEffect DEF ReaperFails
  <2>2. \A u \in Upload : mpu'[u] = mpu[u] \/ (mpu[u] = "open" /\ mpu'[u] = "aborted" /\ u =
    reaper[w].upload)
    BY <1>31 DEF ReaperFails, AbortUpload, StoresTyped
  <2>3. row' = row \/ row'.upload = row.upload
    BY <1>31 DEF ReaperFails, Rescheduled, Refreshed
  <2>4. ~At("none")' => ~At("none")
    BY <1>31 DEF ReaperFails, Rescheduled, Refreshed, LeaseIsFence, UploadsKnown, SessionTyped,
    StoresTyped, Upload
  <2>5. recorded \subseteq Upload /\ UNCHANGED <<client, recorded>>
    BY <1>31 DEF ReaperFails, StoresTyped, history
  <2>6. reaper[w].upload \in recorded
    BY <1>31 DEF ReaperFails, UploadsKnown
  <2>7. \A u \in recorded : mpu'[u] # "unused"
    BY <2>2, <2>5 DEF UploadsKnown
  <2>8. ~At("none")' => row'.upload \in recorded
    BY <2>3, <2>4 DEF UploadsKnown
  <2>9. ASSUME NEW c \in Client, client[c].pc = "inserting"
        PROVE /\ client[c].upload \in Upload \ recorded /\ mpu'[client[c].upload] = "open"
              /\ \A d \in Client \ {c} :
                   client[d].pc = "inserting" => client[d].upload # client[c].upload
    BY <2>2, <2>6, <2>9 DEF UploadsKnown
  <2>. QED
    BY <2>1, <2>5, <2>7, <2>8, <2>9 DEF UploadsKnown
<1>32. CASE Expire
  BY <1>32 DEF Expire, StoresTyped, SessionTyped, ClientsTyped, ReapersTyped, Upload, At, r2,
    procs, history, UploadsKnown
<1>33. CASE RemoveRows
  BY <1>33 DEF RemoveRows, StoresTyped, SessionTyped, ClientsTyped, ReapersTyped, Upload, At,
    DropRow, r2, procs, history, NoRow, UploadsKnown
<1>34. CASE
       Archive \/ Unarchive \/ Accept \/ EraseTarget
  <2>1. UNCHANGED <<recorded, mpu, row, reaper, client>>
    BY <1>34 DEF Archive, Unarchive, Accept, EraseTarget, d1, r2, procs, history
  <2>. QED
    BY <2>1 DEF UploadsKnown, TypeOK, UploadInv
<1>35. ASSUME NEW c \in Client, Request(c) PROVE UploadsKnown'
  BY <1>35, <1>1, <1>2, <1>3, <1>4, <1>5, <1>6, <1>7, <1>8, <1>9, <1>10, <1>11, <1>12, <1>13,
    <1>14, <1>15, <1>16, <1>17, <1>18, <1>34 DEF Request
<1>36. ASSUME NEW w \in Worker, Claim(w) \/ CallR2(w) \/ ResolvePage(w) \/ WriteD1(w) \/
    ReaperFails(w)
       PROVE UploadsKnown'
  BY <1>36, <1>19, <1>20, <1>21, <1>22, <1>23, <1>24, <1>25, <1>26, <1>27, <1>28, <1>29, <1>30,
    <1>31, <1>34 DEF Claim, CallR2, WriteD1
<1>. QED
  BY <1>35, <1>36, <1>32, <1>33, <1>34 DEF Next

\* A session that is being aborted is not due while its client is alive, and no other
\* route touches it.
LEMMA AbortIsSoleKept ==
  ASSUME TypeOK, UploadInv, Next
  PROVE AbortIsSole'
<1>. USE ConstantsAssumption DEF TypeOK, UploadInv, At
<1>1. ASSUME NEW c \in Client, Create(c) PROVE AbortIsSole'
  BY <1>1 DEF Create, StoresTyped, SessionTyped, ClientsTyped, UploadsKnown, LeaseIsFence,
    Upload, Begin, At, Idle, d1, history, AbortIsSole
<1>2. ASSUME NEW c \in Client, Insert(c) PROVE AbortIsSole'
  BY <1>2 DEF Insert, StoresTyped, SessionTyped, ClientsTyped, UploadsKnown, LeaseIsFence,
    Upload, At, Record, Leave, r2, Fresh, Idle, AbortIsSole
<1>3. ASSUME NEW c \in Client, InsertFails(c) PROVE AbortIsSole'
  <2>1. /\ client[c].pc = "inserting" /\ client'[c].pc = "idle"
        /\ \A d \in Client \ {c} : client'[d] = client[d]
        /\ \A u \in Upload : mpu'[u] = mpu[u] \/ (u = client[c].upload /\ mpu'[u] = "aborted")
        /\ \/ UNCHANGED <<row, recorded, lost>>
           \/ /\ At("none") /\ row' = Fresh(client[c].upload)
              /\ recorded' = recorded \cup {client[c].upload}
              /\ lost' = lost \cup {client[c].upload}
        /\ UNCHANGED <<reaper, adopted>>
    BY <1>3, InsertFailsEffect
  <2>2. recorded \subseteq Upload
    BY DEF StoresTyped
  <2>3. CASE UNCHANGED <<row, recorded, lost>>
    BY <2>1, <2>2, <2>3 DEF UploadsKnown, AbortIsSole
  <2>4. CASE /\ At("none") /\ row' = Fresh(client[c].upload)
             /\ recorded' = recorded \cup {client[c].upload}
             /\ lost' = lost \cup {client[c].upload}
    <3>1. row'.state = "active" /\ row'.upload = client[c].upload /\ row'.lease = NoLease
      BY <2>4 DEF Fresh
    <3>2. row.upload = 0 /\ 0 \notin Upload
      BY <2>4 DEF SessionTyped, Upload
    <3>. QED
      BY <2>1, <2>2, <2>4, <3>1, <3>2 DEF UploadsKnown, AbortIsSole
  <2>. QED
    BY <2>1, <2>3, <2>4 DEF AbortIsSole
<1>4. ASSUME NEW c \in Client, PutPart(c) PROVE AbortIsSole'
  BY <1>4 DEF PutPart, StoresTyped, SessionTyped, ClientsTyped, UploadsKnown, LeaseIsFence,
    Upload, Begin, At, Refreshed, Idle, r2, history, AbortIsSole
<1>5. ASSUME NEW c \in Client, UploadPart(c) PROVE AbortIsSole'
  BY <1>5 DEF UploadPart, StoresTyped, SessionTyped, ClientsTyped, UploadsKnown, LeaseIsFence,
    Upload, Goto, d1, history, AbortIsSole
<1>6. ASSUME NEW c \in Client, RecordPart(c) PROVE AbortIsSole'
  <2>1. row' = row \/ (\A d \in Client : client[d].pc \notin {"aborting", "deleting"})
    BY <1>6 DEF RecordPart, AbortIsSole, At
  <2>2. mpu' = mpu /\ client'[c].pc = "idle" /\ \A d \in Client \ {c} : client'[d] = client[d]
    BY <1>6, LeaveEffect DEF RecordPart, r2
  <2>. QED
    BY <2>1, <2>2 DEF AbortIsSole
<1>7. ASSUME NEW c \in Client, Complete(c) PROVE AbortIsSole'
  <2>1. /\ ~At("none") /\ client'[c].pc \in {"claiming", "heading", "committing"}
        /\ client'[c].upload = row.upload
        /\ \A d \in Client \ {c} : client'[d] = client[d]
        /\ UNCHANGED <<page, row, attachment, object, mpu, reaper, recorded>>
    BY <1>7, CompleteEffect
  <2>. QED
    BY <2>1 DEF At, AbortIsSole
<1>8. ASSUME NEW c \in Client, ClaimCompletion(c) PROVE AbortIsSole'
  <2>1. client[c].pc = "claiming" /\ UNCHANGED <<page, attachment, object, reaper, mpu,
    recorded>>
    BY <1>8 DEF ClaimCompletion, r2, history
  <2>2. /\ \/ row' = row /\ client'[c].pc = "idle"
           \/ /\ At("active") /\ row' = Refreshed("completing")
              /\ client'[c].pc = "heading" /\ client'[c].upload = row.upload
           \/ /\ row' = row /\ ~At("none") 
              /\ client'[c].pc \in {"heading", "committing"} /\ client'[c].upload = row.upload
        /\ \A d \in Client \ {c} : client'[d] = client[d]
    BY <1>8, ClaimCompletionEffect DEF At
  <2>. QED
    BY <2>1, <2>2 DEF At, Refreshed, AbortIsSole
<1>9. ASSUME NEW c \in Client, Head(c) PROVE AbortIsSole'
  BY <1>9 DEF Head, StoresTyped, SessionTyped, ClientsTyped, UploadsKnown, LeaseIsFence,
    Upload, Goto, d1, r2, history, AbortIsSole
<1>10. ASSUME NEW c \in Client, CompleteUpload(c) PROVE AbortIsSole'
  <2>1. /\ client[c].pc = "completing" /\ Moved(c, {"completing", "promoting"})
        /\ mpu' = [mpu EXCEPT ![client[c].upload] = "completed"]
        /\ UNCHANGED <<row, reaper, recorded>>
    BY <1>10, CompleteUploadEffect
  <2>. QED
    BY <2>1 DEF Moved, At, Refreshed, Fresh, AbortIsSole
<1>11. ASSUME NEW c \in Client, CompleteFails(c) PROVE AbortIsSole'
  <2>1. /\ client[c].pc = "completing" /\ Moved(c, {"promoting"})
        /\ row' = row \/ (At("completing") /\ row' = Refreshed("completing"))
        /\ UNCHANGED <<mpu, reaper, recorded>>
    BY <1>11, CompleteFailsEffect
  <2>. QED
    BY <2>1 DEF Moved, At, Refreshed, Fresh, AbortIsSole
<1>12. ASSUME NEW c \in Client, Promote(c) PROVE AbortIsSole'
  <2>1. /\ client[c].pc = "promoting" /\ Moved(c, {"reloading"})
        /\ row' = row \/ (At("completing") /\ row' = Refreshed("r2_complete"))
        /\ UNCHANGED <<mpu, reaper, recorded>>
    BY <1>12, PromoteEffect
  <2>. QED
    BY <2>1 DEF Moved, At, Refreshed, Fresh, AbortIsSole
<1>13. ASSUME NEW c \in Client, Reload(c) PROVE AbortIsSole'
  <2>1. /\ client[c].pc = "reloading" /\ Moved(c, {"committing"})
        /\ UNCHANGED <<row, mpu, reaper, recorded>>
    BY <1>13, ReloadEffect
  <2>. QED
    BY <2>1 DEF Moved, At, Refreshed, Fresh, AbortIsSole
<1>14. ASSUME NEW c \in Client, Commit(c) PROVE AbortIsSole'
  BY <1>14 DEF Commit, StoresTyped, SessionTyped, ClientsTyped, UploadsKnown, LeaseIsFence,
    Upload, Fits, CommitBatch, Leave, r2, history, At, DropRow, Idle, NoRow, AbortIsSole
<1>15. ASSUME NEW c \in Client, Abort(c) PROVE AbortIsSole'
  <2>1. /\ client'[c].pc = "aborting" /\ client'[c].claimed /\ client'[c].upload = row.upload
        /\ \A d \in Client \ {c} : client'[d] = client[d]
    BY <1>15, AbortEffect
  <2>2. At("active") /\ row' = Refreshed("aborting")
    BY <1>15 DEF Abort
  <2>3. \A d \in Client : client[d].pc \notin {"aborting", "deleting"}
    BY <2>2 DEF AbortIsSole, At
  <2>. QED
    BY <1>15, <2>1, <2>2, <2>3 DEF Abort, r2, Refreshed, AbortIsSole
<1>16. ASSUME NEW c \in Client, AbortInR2(c) PROVE AbortIsSole'
  BY <1>16 DEF AbortInR2, StoresTyped, SessionTyped, ClientsTyped, UploadsKnown, LeaseIsFence,
    Upload, AbortUpload, Goto, d1, history, AbortIsSole
<1>17. ASSUME NEW c \in Client, DeleteAborted(c) PROVE AbortIsSole'
  BY <1>17 DEF DeleteAborted, StoresTyped, SessionTyped, ClientsTyped, UploadsKnown,
    LeaseIsFence, Upload, At, DropRow, Leave, r2, history, NoRow, Idle, AbortIsSole
<1>18. ASSUME NEW c \in Client, GiveUp(c) PROVE AbortIsSole'
  BY <1>18 DEF GiveUp, StoresTyped, SessionTyped, ClientsTyped, UploadsKnown, LeaseIsFence,
    Upload, AbortUpload, At, Refreshed, Leave, history, Idle, AbortIsSole
<1>19. ASSUME NEW w \in Worker, Reap(w) PROVE AbortIsSole'
  BY <1>19 DEF Reap, StoresTyped, SessionTyped, ClientsTyped, UploadsKnown, LeaseIsFence,
    Upload, At, Start, Leased, r2, history, AbortIsSole
<1>20. ASSUME NEW w \in Worker, RetryAbort(w) PROVE AbortIsSole'
  BY <1>20 DEF RetryAbort, StoresTyped, SessionTyped, ClientsTyped, UploadsKnown, LeaseIsFence,
    Upload, Start, Leased, r2, history, AbortIsSole
<1>21. ASSUME NEW w \in Worker, Inspect(w) PROVE AbortIsSole'
  BY <1>21 DEF Inspect, StoresTyped, SessionTyped, ClientsTyped, UploadsKnown, LeaseIsFence,
    Upload, At, Start, Leased, r2, history, AbortIsSole
<1>22. ASSUME NEW w \in Worker, Resolve(w) PROVE AbortIsSole'
  BY <1>22 DEF Resolve, StoresTyped, SessionTyped, ClientsTyped, UploadsKnown, LeaseIsFence,
    Upload, At, Start, Leased, r2, history, AbortIsSole
<1>23. ASSUME NEW w \in Worker, ReapInR2(w) PROVE AbortIsSole'
  BY <1>23 DEF ReapInR2, StoresTyped, SessionTyped, ClientsTyped, UploadsKnown, LeaseIsFence,
    Upload, AbortUpload, Go, d1, history, AbortIsSole
<1>24. ASSUME NEW w \in Worker, DeleteReaped(w) PROVE AbortIsSole'
  BY <1>24 DEF DeleteReaped, StoresTyped, SessionTyped, ClientsTyped, UploadsKnown,
    LeaseIsFence, Upload, Holds, DropRow, Rest, r2, history, At, NoRow, Resting, AbortIsSole
<1>25. ASSUME NEW w \in Worker, PromoteStale(w) PROVE AbortIsSole'
  <2>1. row' = row \/ (\A d \in Client : client[d].pc \notin {"aborting", "deleting"})
    BY <1>25 DEF PromoteStale, AbortIsSole, PromoteRow, Holds
  <2>2. UNCHANGED <<client, mpu>>
    BY <1>25 DEF PromoteStale, r2
  <2>. QED
    BY <2>1, <2>2 DEF AbortIsSole
<1>26. ASSUME NEW w \in Worker, Reopen(w) PROVE AbortIsSole'
  <2>1. row' = row \/ (\A d \in Client : client[d].pc \notin {"aborting", "deleting"})
    BY <1>26 DEF Reopen, AbortIsSole, PromoteRow, Holds
  <2>2. UNCHANGED <<client, mpu>>
    BY <1>26 DEF Reopen, r2
  <2>. QED
    BY <2>1, <2>2 DEF AbortIsSole
<1>27. ASSUME NEW w \in Worker, CommitStale(w) PROVE AbortIsSole'
  BY <1>27 DEF CommitStale, StoresTyped, SessionTyped, ClientsTyped, UploadsKnown,
    LeaseIsFence, Upload, Fits, CommitBatch, Rescheduled, Rest, r2, history, At, DropRow,
    Refreshed, Resting, NoRow, AbortIsSole
<1>28. ASSUME NEW w \in Worker, ReaperFails(w) PROVE AbortIsSole'
  BY <1>28 DEF ReaperFails, StoresTyped, SessionTyped, ClientsTyped, UploadsKnown,
    LeaseIsFence, Upload, AbortUpload, Rescheduled, Rest, history, Refreshed, Resting,
    AbortIsSole
<1>29. CASE Expire
  BY <1>29 DEF Expire, StoresTyped, SessionTyped, ClientsTyped, UploadsKnown, LeaseIsFence,
    Upload, At, r2, procs, history, AbortIsSole
<1>30. CASE RemoveRows
  BY <1>30 DEF RemoveRows, StoresTyped, SessionTyped, ClientsTyped, UploadsKnown, LeaseIsFence,
    Upload, At, DropRow, r2, procs, history, NoRow, AbortIsSole
<1>31. CASE
       \/ \E w \in Worker : InspectObject(w) \/ EraseObject(w) \/ ResolvePage(w)
       \/ Archive \/ Unarchive \/ Accept \/ EraseTarget
  <2>1. UNCHANGED <<client, row, mpu>>
    BY <1>31 DEF InspectObject, EraseObject, ResolvePage, Archive, Unarchive, Accept,
      EraseTarget, d1, r2, procs, history
  <2>. QED
    BY <2>1 DEF AbortIsSole, TypeOK, UploadInv
<1>32. ASSUME NEW c \in Client, Request(c) PROVE AbortIsSole'
  BY <1>32, <1>1, <1>2, <1>3, <1>4, <1>5, <1>6, <1>7, <1>8, <1>9, <1>10, <1>11, <1>12, <1>13,
    <1>14, <1>15, <1>16, <1>17, <1>18, <1>31 DEF Request
<1>33. ASSUME NEW w \in Worker, Claim(w) \/ CallR2(w) \/ ResolvePage(w) \/ WriteD1(w) \/
    ReaperFails(w)
       PROVE AbortIsSole'
  BY <1>33, <1>19, <1>20, <1>21, <1>22, <1>23, <1>24, <1>25, <1>26, <1>27, <1>28, <1>31 DEF
    Claim, CallR2, WriteD1
<1>. QED
  BY <1>32, <1>33, <1>29, <1>30, <1>31 DEF Next

-----------------------------------------------------------------------------
(* The theorems.                                                           *)

LEMMA InitHolds == Init => TypeOK /\ UploadInv
<1>. SUFFICES ASSUME Init PROVE TypeOK /\ UploadInv
  OBVIOUS
<1>1. TypeOK
  <2>1. 1 \in Upload /\ 0 \in 0..MaxUploads /\ 1 \in 0..MaxUploads
    BY ConstantsAssumption DEF Upload
  <2>2. SessionTyped
    BY <2>1, BlankTyped DEF Init, SessionTyped
  <2>3. StoresTyped
    <3>1. /\ parts \in [Part -> 0..MaxUploads] /\ recorded \subseteq Upload
          /\ held \in [Upload -> SUBSET Part]
      BY <2>1, BlankTyped DEF Init
    <3>2. mpu \in [Upload -> {"unused", "open", "completed", "aborted"}]
      BY DEF Init
    <3>3. requests \in 0..MaxRequests
      BY ConstantsAssumption DEF Init
    <3>. QED
      BY <3>1, <3>2, <3>3 DEF Init, StoresTyped
  <2>4. ClientsTyped /\ ReapersTyped
    BY BlankTyped DEF Init, ClientsTyped, ReapersTyped
  <2>. QED
    BY <2>2, <2>3, <2>4 DEF TypeOK
<1>2. /\ \A c \in Client : client[c].pc = "idle"
      /\ \A w \in Worker : reaper[w].pc = "idle"
  BY DEF Init, Idle, Resting
<1>3. \/ row.state = "none" /\ recorded = {}
      \/ row.state = "active" /\ row.upload = 1 /\ recorded = {1} /\ mpu[1] = "open"
  BY ConstantsAssumption DEF Init, NoRow, Fresh, Upload
<1>4. ObjectKnown /\ AbortIsSole /\ LeaseIsFence
  BY <1>2, <1>3 DEF Init, ObjectKnown, AbortIsSole, LeaseIsFence, At
<1>5. UploadsKnown
  BY <1>2, <1>3 DEF UploadsKnown, At
<1>6. OpenIsAdopted /\ AbortedIsFenced /\ RecordedIsFound
  BY <1>3 DEF OpenIsAdopted, AbortedIsFenced, RecordedIsFound, At
<1>. QED
  BY <1>1, <1>4, <1>5, <1>6 DEF UploadInv

LEMMA StepHolds == TypeOK /\ UploadInv /\ [Next]_vars => (TypeOK /\ UploadInv)'
<1>. SUFFICES ASSUME TypeOK, UploadInv, [Next]_vars PROVE (TypeOK /\ UploadInv)'
  OBVIOUS
<1>1. CASE Next
  <2>1. TypeOK'
    BY <1>1, StoresTypedKept, SessionTypedKept, ClientsTypedKept, ReapersTypedKept DEF TypeOK
  <2>2. UploadInv'
    BY <1>1, ObjectKnownKept, UploadsKnownKept, AbortIsSoleKept, LeaseIsFenceKept,
       OpenIsAdoptedKept, AbortedIsFencedKept, RecordedIsFoundKept DEF UploadInv
  <2>. QED
    BY <2>1, <2>2
<1>2. CASE UNCHANGED vars
  <2>. USE <1>2 DEF vars, d1, r2, procs, history
  <2>1. TypeOK'
    BY DEF TypeOK, StoresTyped, SessionTyped, ClientsTyped, ReapersTyped
  <2>2. ObjectKnown' /\ UploadsKnown' /\ AbortIsSole' /\ LeaseIsFence'
    BY DEF UploadInv, ObjectKnown, UploadsKnown, AbortIsSole, LeaseIsFence, At
  <2>3. OpenIsAdopted' /\ AbortedIsFenced' /\ RecordedIsFound'
    BY DEF UploadInv, OpenIsAdopted, AbortedIsFenced, RecordedIsFound, At
  <2>. QED
    BY <2>1, <2>2, <2>3 DEF UploadInv
<1>. QED
  BY <1>1, <1>2

LEMMA Invariance == Spec => [](TypeOK /\ UploadInv)
  BY InitHolds, StepHolds, PTL DEF Spec

\* Every reachable state of the session, R2, the requests and the reaper is typed.
THEOREM UploadTypeCorrect == Spec => []TypeOK
  BY Invariance, PTL

\* The complete route and the reaper commit an attachment only from a session whose
\* object is there, and nothing deletes that object before the page is gone.
THEOREM AttachmentHasObject == Spec => []RowHasObject
<1>1. UploadInv => RowHasObject
  BY DEF UploadInv, ObjectKnown, RowHasObject
<1>. QED
  BY <1>1, Invariance, PTL

\* An upload that was aborted in R2 has a session that no route resumes, whatever
\* failed between the claim, the abort and the deletion of the row.
THEOREM AbortedStaysFenced == Spec => []AbortedIsFenced
<1>1. UploadInv => AbortedIsFenced
  BY DEF UploadInv
<1>. QED
  BY <1>1, Invariance, PTL

\* The reaper and the abort route drop a session only after its upload was aborted
\* or completed, also when a claim ran out and another invocation took over.
THEOREM RecordedStaysFound == Spec => []RecordedIsFound
<1>1. UploadInv => RecordedIsFound
  BY DEF UploadInv
<1>. QED
  BY <1>1, Invariance, PTL
=============================================================================
