------------------------ MODULE DateRemindersProofs ------------------------
(***************************************************************************)
(* Proofs about DateReminders for any number of cron runs, moments, edits  *)
(* and requests.  A notification says what the page says, and a moment     *)
(* that was asked for once is notified once.                               *)
(*                                                                         *)
(* What a process holds is compared with the world twice, by generation    *)
(* and by the sequence of the projection: as long as both are what it read *)
(* its decision is right, and once one has changed it never matches again. *)
(***************************************************************************)
EXTENDS DateReminders, TLAPS

Procs == Run \cup {Room}

Note == [gen : Nat, due : Time, ask : 0 .. MaxAsks]

-----------------------------------------------------------------------------
(* The inductive invariant.                                                *)

\* What a process w holds of the row r, the projection j, the notifications s and the
\* count of requests a.
Follows(w, r, j, s, a) ==
  /\ w.gen <= r.gen
  /\ w.pc \in {"read", "apply", "batch"} => w.seq <= j.seq
  /\ w.pc \in {"read", "apply"} /\ w.seq = j.seq => w.date = j.date
  /\ w.pc \in {"page", "room", "batch"} /\ w.gen = r.gen => r.due = w.due /\ r.choice = w.choice
  /\ w.pc = "batch" /\ w.seq = j.seq => j.date # Absent /\ DueAt(j.date, w.choice) = w.due
  /\ w.pc = "apply" /\ w.statement = "move" =>
       /\ w.due \in Time
       /\ w.gen = r.gen /\ w.seq = j.seq =>
            /\ w.due = DueAt(j.date, r.choice) /\ w.due # r.due
            /\ \A n \in s : n.ask = a => n.due < w.due

ProcsFollow == \A p \in Procs : Follows(proc[p], row, proj, sent, asks)

\* The projection is of the content or of an earlier one.
PageOrdered == proj.seq <= doc.seq /\ (proj.seq = doc.seq => proj = doc)

\* A reminder that stands is due at a moment, which has come if it is claimed; a
\* request sets it to a moment, and has one left.
RowDue ==
  /\ row.state \in Standing => row.due \in Time
  /\ row.state \in {"claimed", "delivered"} => row.due <= now
  /\ put.pc = "save" => put.due \in Time /\ asks < MaxAsks

\* Whoever was notified was notified of a moment before the one the same reminder is
\* set for now.
SentPast ==
  \A n \in sent :
    /\ n.due <= now /\ n.gen <= row.gen /\ n.ask <= asks
    /\ n.ask = asks /\ row.state \in Standing /\ row.gen # n.gen => n.due < row.due

WorldInv == PageOrdered /\ RowDue /\ SentPast

RemindersInv == TypeOK /\ WorldInv /\ ProcsFollow

-----------------------------------------------------------------------------
(* Constants and records.                                                  *)

LEMMA Bounds ==
  /\ MaxTime \in Nat /\ MaxEdits \in Nat /\ MaxAsks \in Nat /\ MaxMishaps \in Nat
  /\ Choice \subseteq 0 .. MaxTime /\ 0 \in 0 .. MaxTime /\ 0 \in 0 .. MaxEdits
  /\ 0 \in 0 .. MaxAsks /\ 0 \in 0 .. MaxMishaps
  BY ConstantsAssumption

LEMMA IdleTyped ==
  /\ Idle \in Proc /\ Idle.pc = "idle" /\ Idle.gen = 0 /\ Idle.then = "idle"
  BY Bounds DEF Idle, Proc, Relative, Absent, Statement

LEMMA NoPutTyped == NoPut \in Put /\ NoPut.pc = "idle"
  BY Bounds DEF NoPut, Put, Relative

\* When a reminder is due.
LEMMA DueAtTyped ==
  ASSUME NEW d \in {Absent} \cup Time, NEW c \in Choice \cup {Relative}
  PROVE DueAt(d, c) \in 0 .. MaxTime
<1>1. Time \subseteq 0 .. MaxTime /\ Absent \in 0 .. MaxTime
  BY Bounds DEF Time, Absent
<1>. QED
  BY <1>1, Bounds DEF DueAt

LEMMA UnclaimedTyped ==
  ASSUME NEW r \in Row
  PROVE /\ Unclaimed(r) \in Row /\ Unclaimed(r).gen = r.gen /\ Unclaimed(r).due = r.due
        /\ Unclaimed(r).choice = r.choice /\ Unclaimed(r).state = r.state
        /\ Unclaimed(r).missing = r.missing
<1>. DEFINE u == [r EXCEPT !.claim = None]
<1>1. u \in Row /\ u.gen = r.gen /\ u.due = r.due /\ u.choice = r.choice /\ u.state = r.state
        /\ u.missing = r.missing
  BY DEF Row
<1>2. Unclaimed(r) = [u EXCEPT !.old = FALSE]
  BY DEF Unclaimed
<1>. HIDE DEF u
<1>. QED
  BY <1>1, <1>2 DEF Row

LEMMA CanceledTyped ==
  ASSUME NEW r \in Row
  PROVE /\ Canceled(r) \in Row /\ Canceled(r).gen = r.gen + 1
        /\ Canceled(r).state = "canceled"
        /\ \A m \in {"no", "new", "old"} :
             /\ [Canceled(r) EXCEPT !.missing = m] \in Row
             /\ [Canceled(r) EXCEPT !.missing = m].gen = r.gen + 1
             /\ [Canceled(r) EXCEPT !.missing = m].state = "canceled"
<1>. DEFINE u == Unclaimed(r)
            g == u.gen + 1
            c == [u EXCEPT !.state = "canceled", !.gen = g, !.missing = "no"]
<1>1. u \in Row /\ u.gen = r.gen
  BY UnclaimedTyped
<1>2. g \in Nat /\ g = r.gen + 1
  BY <1>1 DEF Row
<1>3. Canceled(r) = c
  BY DEF Canceled
<1>4. c \in Row /\ c.gen = g /\ c.state = "canceled"
  <2>. HIDE DEF u, g
  <2>. QED
    BY <1>1, <1>2 DEF Row, Standing
<1>. HIDE DEF c, g
<1>5. \A m \in {"no", "new", "old"} :
        /\ [c EXCEPT !.missing = m] \in Row
        /\ [c EXCEPT !.missing = m].gen = g
        /\ [c EXCEPT !.missing = m].state = "canceled"
  BY <1>4 DEF Row
<1>. QED
  BY <1>2, <1>3, <1>4, <1>5

-----------------------------------------------------------------------------
(* The shapes of a step.                                                   *)

\* Nothing a process compares comes back: the generation and the sequence grow, and
\* what is notified is what the projection shows.
Onward ==
  /\ proj' = proj \/ proj'.seq > proj.seq
  /\ row'.gen >= row.gen
  /\ row'.gen = row.gen => row'.due = row.due /\ row'.choice = row.choice
  /\ asks' = asks \/ row'.gen > row.gen
  /\ \/ sent' = sent
     \/ /\ asks' = asks /\ row'.gen = row.gen /\ proj' = proj
        /\ DueAt(proj.date, row.choice) = row.due

\* So what a process held, it holds.
LEMMA FollowsOn ==
  ASSUME row \in Row, row' \in Row, proj \in Content, proj' \in Content, Onward,
         NEW w \in Proc, Follows(w, row, proj, sent, asks)
  PROVE Follows(w, row', proj', sent', asks')
<1>1. /\ w.gen \in Nat /\ row.gen \in Nat /\ row'.gen \in Nat
      /\ w.seq \in Nat /\ proj.seq \in Nat /\ proj'.seq \in Nat
  BY Bounds DEF Row, Proc, Content
<1>2. w.gen <= row'.gen
  BY <1>1 DEF Onward, Follows
<1>3. w.gen = row'.gen => row'.gen = row.gen /\ asks' = asks
  BY <1>1 DEF Onward, Follows
<1>4. w.pc \in {"read", "apply", "batch"} => w.seq <= proj'.seq
  BY <1>1 DEF Onward, Follows
<1>5. w.pc \in {"read", "apply", "batch"} /\ w.seq = proj'.seq => proj' = proj
  BY <1>1 DEF Onward, Follows
<1>6. w.pc \in {"read", "apply"} /\ w.seq = proj'.seq => w.date = proj'.date
  BY <1>5 DEF Follows
<1>7. w.pc \in {"page", "room", "batch"} /\ w.gen = row'.gen =>
        row'.due = w.due /\ row'.choice = w.choice
  BY <1>3 DEF Follows, Onward
<1>8. w.pc = "batch" /\ w.seq = proj'.seq =>
        proj'.date # Absent /\ DueAt(proj'.date, w.choice) = w.due
  BY <1>5 DEF Follows
<1>9. ASSUME w.pc = "apply", w.statement = "move", w.gen = row'.gen, w.seq = proj'.seq
      PROVE /\ w.due = DueAt(proj'.date, row'.choice) /\ w.due # row'.due
            /\ \A n \in sent' : n.ask = asks' => n.due < w.due
  <2>1. proj' = proj /\ row'.gen = row.gen /\ asks' = asks
    BY <1>3, <1>5, <1>9
  <2>2. row'.due = row.due /\ row'.choice = row.choice
    BY <2>1 DEF Onward
  <2>3. /\ w.due = DueAt(proj.date, row.choice) /\ w.due # row.due
        /\ \A n \in sent : n.ask = asks => n.due < w.due
    BY <1>9, <2>1 DEF Follows
  <2>4. sent' = sent
    BY <2>3 DEF Onward
  <2>. QED
    BY <2>1, <2>2, <2>3, <2>4
<1>10. w.pc = "apply" /\ w.statement = "move" => w.due \in Time
  BY DEF Follows
<1>. QED
  BY <1>2, <1>4, <1>6, <1>7, <1>8, <1>9, <1>10 DEF Follows

ProcsTyped == proc \in [Procs -> Proc]

\* All processes hold what they held, but one that holds something else.
LEMMA OneProc ==
  ASSUME RemindersInv, row' \in Row, proj' \in Content, Onward, NEW p \in Procs, NEW w \in Proc,
         proc' = [proc EXCEPT ![p] = w], Follows(w, row', proj', sent', asks')
  PROVE ProcsTyped' /\ ProcsFollow'
<1>1. proc \in [Procs -> Proc] /\ row \in Row /\ proj \in Content
  BY DEF RemindersInv, TypeOK, Procs
<1>2. ASSUME NEW q \in Procs PROVE Follows(proc'[q], row', proj', sent', asks')
  <2>1. CASE q = p
    BY <1>1, <2>1
  <2>2. CASE q # p
    <3>1. proc'[q] = proc[q] /\ proc[q] \in Proc /\ Follows(proc[q], row, proj, sent, asks)
      BY <1>1, <2>2 DEF RemindersInv, ProcsFollow
    <3>. QED
      BY <1>1, <3>1, FollowsOn
  <2>. QED
    BY <2>1, <2>2
<1>. QED
  BY <1>1, <1>2 DEF ProcsTyped, ProcsFollow

LEMMA NoProc ==
  ASSUME RemindersInv, row' \in Row, proj' \in Content, Onward, proc' = proc
  PROVE ProcsTyped' /\ ProcsFollow'
<1>1. proc \in [Procs -> Proc] /\ row \in Row /\ proj \in Content
  BY DEF RemindersInv, TypeOK, Procs
<1>2. ASSUME NEW q \in Procs PROVE Follows(proc'[q], row', proj', sent', asks')
  BY <1>1, FollowsOn DEF RemindersInv, ProcsFollow
<1>. QED
  BY <1>1, <1>2 DEF ProcsTyped, ProcsFollow

\* The row is still for the same moment, or it has been cancelled.
RowKept ==
  /\ row' \in Row /\ row'.gen = row.gen /\ row'.due = row.due /\ row'.choice = row.choice
  /\ row'.state \in Standing => row.state \in Standing
  /\ row'.state \in {"claimed", "delivered"} => row.due <= now

RowOut == row' \in Row /\ row'.state = "canceled" /\ row'.gen = row.gen + 1

\* A step of one that leaves the page, the requests and the notifications alone.
LEMMA WorldKept ==
  ASSUME RemindersInv, RowKept \/ RowOut, UNCHANGED <<now, doc, proj, put, asks, sent>>
  PROVE Onward /\ WorldInv' /\ row' \in Row
<1>1. row \in Row /\ row' \in Row /\ proj' = proj
  BY DEF RemindersInv, TypeOK, RowKept, RowOut
<1>2. row.gen \in Nat /\ row'.gen \in Nat
  BY <1>1 DEF Row
<1>3. Onward
  BY <1>2 DEF Onward, RowKept, RowOut
<1>4. RowDue'
  BY DEF RemindersInv, WorldInv, RowDue, RowKept, RowOut, Standing
<1>5. ASSUME NEW n \in sent
      PROVE /\ n.due <= now /\ n.gen <= row'.gen /\ n.ask <= asks
            /\ n.ask = asks /\ row'.state \in Standing /\ row'.gen # n.gen => n.due < row'.due
  <2>1. n.due <= now /\ n.gen <= row.gen /\ n.ask <= asks /\ n.gen \in Nat
    BY DEF RemindersInv, WorldInv, SentPast, TypeOK
  <2>2. n.ask = asks /\ row.state \in Standing /\ row.gen # n.gen => n.due < row.due
    BY DEF RemindersInv, WorldInv, SentPast
  <2>. QED
    BY <1>2, <2>1, <2>2 DEF RowKept, RowOut, Standing
<1>. QED
  BY <1>1, <1>3, <1>4, <1>5 DEF WorldInv, PageOrdered, RemindersInv, SentPast

\* What a step of a process writes: the row, itself, and a mishap.
LEMMA ProcStep ==
  ASSUME RemindersInv, RowKept \/ RowOut, UNCHANGED <<now, page, put, asks, sent>>,
         (mishaps' = mishaps) \/ Mishap, NEW p \in Procs, NEW w \in Proc,
         proc' = [proc EXCEPT ![p] = w], Follows(w, row', proj, sent, asks)
  PROVE RemindersInv'
<1>1. UNCHANGED <<doc, proj, open, member>>
  BY DEF page
<1>2. Onward /\ WorldInv' /\ row' \in Row
  BY <1>1, WorldKept
<1>3. proj' \in Content
  BY <1>1 DEF RemindersInv, TypeOK
<1>4. ProcsTyped' /\ ProcsFollow'
  BY <1>1, <1>2, <1>3, OneProc
<1>5. mishaps' \in 0 .. MaxMishaps
  BY Bounds DEF Mishap, RemindersInv, TypeOK
<1>6. TypeOK'
  BY <1>1, <1>2, <1>4, <1>5 DEF RemindersInv, TypeOK, ProcsTyped, Procs
<1>. QED
  BY <1>2, <1>4, <1>6 DEF RemindersInv

\* A step of nobody.
LEMMA RowStep ==
  ASSUME RemindersInv, RowKept \/ RowOut, UNCHANGED <<now, doc, proj, put, asks, sent, proc>>,
         open' \in BOOLEAN, member' \in BOOLEAN, (mishaps' = mishaps) \/ Mishap
  PROVE RemindersInv'
<1>1. Onward /\ WorldInv' /\ row' \in Row
  BY WorldKept
<1>2. proj' \in Content
  BY DEF RemindersInv, TypeOK
<1>3. ProcsTyped' /\ ProcsFollow'
  BY <1>1, <1>2, NoProc
<1>4. mishaps' \in 0 .. MaxMishaps
  BY Bounds DEF Mishap, RemindersInv, TypeOK
<1>5. TypeOK'
  BY <1>1, <1>3, <1>4 DEF RemindersInv, TypeOK, ProcsTyped, Procs
<1>. QED
  BY <1>1, <1>3, <1>5 DEF RemindersInv

LEMMA RowSame == RemindersInv /\ row' = row => RowKept
  BY DEF RemindersInv, TypeOK, WorldInv, RowDue, RowKept

\* A process that compares nothing any more.
Quiet == {"idle", "due", "uncounted", "release", "sweep", "sweepOut", "sweepRoom"}

LEMMA QuietFollows ==
  ASSUME NEW w, NEW r, NEW j, NEW s, NEW a, w.pc \in Quiet, w.gen <= r.gen
  PROVE Follows(w, r, j, s, a)
  BY DEF Follows, Quiet

\* The places behind a sweep, a crash or an end: with nothing of what was read.
LEMMA IdleFollows ==
  ASSUME NEW pc \in Quiet, NEW r \in Row, NEW j, NEW s, NEW a, NEW b \in BOOLEAN
  PROVE /\ [Idle EXCEPT !.pc = pc, !.again = b] \in Proc
        /\ Follows([Idle EXCEPT !.pc = pc, !.again = b], r, j, s, a)
        /\ [Idle EXCEPT !.pc = pc] \in Proc /\ Follows([Idle EXCEPT !.pc = pc], r, j, s, a)
        /\ Idle \in Proc /\ Follows(Idle, r, j, s, a)
<1>1. r.gen \in Nat
  BY DEF Row
<1>2. [Idle EXCEPT !.pc = pc, !.again = b] \in Proc /\ [Idle EXCEPT !.pc = pc] \in Proc
  BY IdleTyped DEF Proc, Quiet
<1>3. [Idle EXCEPT !.pc = pc, !.again = b].pc = pc /\ [Idle EXCEPT !.pc = pc, !.again = b].gen = 0
        /\ [Idle EXCEPT !.pc = pc].pc = pc /\ [Idle EXCEPT !.pc = pc].gen = 0
  BY IdleTyped DEF Proc
<1>4. Idle.pc \in Quiet /\ 0 <= r.gen
  BY <1>1, IdleTyped DEF Quiet
<1>. QED
  BY <1>2, <1>3, <1>4, IdleTyped, QuietFollows

\* The rest of a process that goes on to such a place.
LEMMA QuietStep ==
  ASSUME RemindersInv, RowKept \/ RowOut, UNCHANGED <<now, page, put, asks, sent>>,
         (mishaps' = mishaps) \/ Mishap, NEW p \in Procs, NEW w \in Proc,
         proc' = [proc EXCEPT ![p] = w], w.pc \in Quiet, w.gen = 0 \/ w.gen = proc[p].gen
  PROVE RemindersInv'
<1>1. proc[p] \in Proc /\ Follows(proc[p], row, proj, sent, asks) /\ row \in Row /\ row' \in Row
  BY DEF RemindersInv, TypeOK, ProcsFollow, Procs, RowKept, RowOut
<1>2. /\ w.gen \in Nat /\ row.gen \in Nat /\ row'.gen \in Nat /\ row'.gen >= row.gen
      /\ proc[p].gen <= row.gen
  BY <1>1 DEF Row, Proc, Follows, RowKept, RowOut
<1>3. w.gen <= row'.gen
  BY <1>1, <1>2 DEF Proc
<1>. QED
  BY <1>3, QuietFollows, ProcStep

LEMMA GotoQuiet ==
  ASSUME RemindersInv, RowKept \/ RowOut, UNCHANGED <<now, page, put, asks, sent>>,
         (mishaps' = mishaps) \/ Mishap, NEW p \in Procs, NEW pc \in Quiet, Goto(p, pc)
  PROVE RemindersInv'
<1>. DEFINE w == [proc[p] EXCEPT !.pc = pc]
<1>1. proc \in [Procs -> Proc]
  BY DEF RemindersInv, TypeOK, Procs
<1>2. w \in Proc /\ w.pc = pc /\ w.gen = proc[p].gen /\ proc' = [proc EXCEPT ![p] = w]
  BY <1>1 DEF Proc, Quiet, Goto
<1>. HIDE DEF w
<1>. QED
  BY <1>2, QuietStep

LEMMA GoneIdle ==
  ASSUME RemindersInv, RowKept \/ RowOut, UNCHANGED <<now, page, put, asks, sent>>,
         (mishaps' = mishaps) \/ Mishap, NEW p \in Procs,
         \/ proc' = [proc EXCEPT ![p] = Idle]
         \/ proc' = [proc EXCEPT ![p] = [Idle EXCEPT !.pc = "sweep"]]
  PROVE RemindersInv'
<1>1. row' \in Row
  BY DEF RowKept, RowOut
<1>2. "sweep" \in Quiet
  BY DEF Quiet
<1>3. /\ [Idle EXCEPT !.pc = "sweep"] \in Proc /\ Idle \in Proc
      /\ Follows([Idle EXCEPT !.pc = "sweep"], row', proj, sent, asks)
      /\ Follows(Idle, row', proj, sent, asks)
  BY <1>1, <1>2, IdleFollows
<1>. QED
  BY <1>3, ProcStep

-----------------------------------------------------------------------------
(* The page, its people and time.                                          *)

LEMMA PageSteps ==
  ASSUME RemindersInv,
         Tick \/ Edit \/ Compact \/ Archive \/ Membership \/ PutRead \/ Delete \/ ClaimAges
           \/ MissingAges
  PROVE RemindersInv'
<1>. USE DEF RemindersInv
<1>0. /\ row \in Row /\ proc \in [Procs -> Proc] /\ doc \in Content /\ proj \in Content
      /\ now \in 0 .. MaxTime
  BY DEF TypeOK, Procs
<1>1. CASE Archive \/ Membership
  <2>1. RowKept
    BY <1>1, RowSame DEF Archive, Membership
  <2>2. UNCHANGED <<now, doc, proj, put, asks, sent, proc>> /\ Mishap
          /\ open' \in BOOLEAN /\ member' \in BOOLEAN
    BY <1>1 DEF Archive, Membership, TypeOK
  <2>. QED
    BY <2>1, <2>2, RowStep
<1>2. CASE ClaimAges \/ MissingAges
  <2>1. row' = [row EXCEPT !.old = TRUE] \/ row' = [row EXCEPT !.missing = "old"]
    BY <1>2 DEF ClaimAges, MissingAges
  <2>2. RowKept
    BY <1>0, <2>1 DEF WorldInv, RowDue, RowKept, Row
  <2>3. UNCHANGED <<now, doc, proj, put, asks, sent, proc>> /\ ((mishaps' = mishaps) \/ Mishap)
          /\ open' \in BOOLEAN /\ member' \in BOOLEAN
    BY <1>2 DEF ClaimAges, MissingAges, TypeOK, page
  <2>. QED
    BY <2>2, <2>3, RowStep
<1>3. CASE Delete
  <2>1. RowOut
    <3>1. row.missing \in {"no", "new", "old"}
      BY <1>0 DEF Row
    <3>. QED
      BY <1>0, <1>3, <3>1, CanceledTyped DEF Delete, RowOut
  <2>2. UNCHANGED <<now, doc, proj, put, asks, sent, proc>> /\ mishaps' = mishaps
          /\ open' \in BOOLEAN /\ member' \in BOOLEAN
    BY <1>3 DEF Delete, TypeOK, page
  <2>. QED
    BY <2>1, <2>2, RowStep
<1>4. CASE Tick
  <2>1. UNCHANGED <<page, row, put, proc, asks, sent, mishaps>> /\ now' = now + 1 /\ now < MaxTime
    BY <1>4 DEF Tick
  <2>2. now' \in 0 .. MaxTime
    BY <1>0, <2>1, Bounds
  <2>3. TypeOK'
    BY <2>1, <2>2 DEF TypeOK, page
  <2>4. RowDue'
    <3>1. row.due \in Nat
      BY <1>0, Bounds DEF Row
    <3>. QED
      BY <1>0, <2>1, <3>1 DEF WorldInv, RowDue
  <2>5. SentPast'
    <3>1. \A n \in sent : n.due \in Nat
      BY Bounds DEF TypeOK, Time
    <3>. QED
      BY <1>0, <2>1, <3>1 DEF WorldInv, SentPast
  <2>6. PageOrdered' /\ ProcsFollow'
    BY <2>1 DEF page, PageOrdered, ProcsFollow, WorldInv
  <2>. QED
    BY <2>3, <2>4, <2>5, <2>6 DEF WorldInv
<1>5. CASE Edit
  <2>1. PICK d \in {Absent} \cup Time : doc' = [seq |-> doc.seq + 1, date |-> d]
    BY <1>5 DEF Edit
  <2>2. /\ UNCHANGED <<now, proj, open, member, row, put, proc, asks, sent, mishaps>>
        /\ doc.seq < MaxEdits
    BY <1>5 DEF Edit
  <2>3. doc.seq \in 0 .. MaxEdits /\ proj.seq \in 0 .. MaxEdits
    BY <1>0 DEF Content
  <2>4. doc'.seq = doc.seq + 1 /\ doc.seq + 1 \in 0 .. MaxEdits
    BY <2>1, <2>2, <2>3, Bounds
  <2>5. doc' \in Content
    BY <2>1, <2>4 DEF Content
  <2>6. TypeOK'
    BY <2>2, <2>5 DEF TypeOK
  <2>7. PageOrdered'
    BY <2>2, <2>3, <2>4 DEF PageOrdered, WorldInv
  <2>8. RowDue' /\ SentPast' /\ ProcsFollow'
    BY <2>2 DEF WorldInv, RowDue, SentPast, ProcsFollow
  <2>. QED
    BY <2>6, <2>7, <2>8 DEF WorldInv
<1>6. CASE PutRead
  <2>1. PICK c \in Choice :
          /\ DueAt(doc.date, c) > now
          /\ put' = [pc |-> "save", choice |-> c, due |-> DueAt(doc.date, c), seq |-> doc.seq]
    BY <1>6 DEF PutRead
  <2>2. UNCHANGED <<now, page, row, proc, asks, sent, mishaps>>
    BY <1>6 DEF PutRead
  <2>3. DueAt(doc.date, c) \in 0 .. MaxTime /\ doc.seq \in 0 .. MaxEdits
    BY <1>0, DueAtTyped DEF Content
  <2>4. DueAt(doc.date, c) \in Time
    BY <1>0, <2>1, <2>3, Bounds DEF Time
  <2>5. put' \in Put
    BY <2>1, <2>3 DEF Put
  <2>6. TypeOK'
    BY <2>2, <2>5 DEF TypeOK, page
  <2>7. RowDue'
    BY <1>6, <2>1, <2>2, <2>4 DEF WorldInv, RowDue, PutRead
  <2>8. PageOrdered' /\ SentPast' /\ ProcsFollow'
    BY <2>2 DEF page, WorldInv, PageOrdered, SentPast, ProcsFollow
  <2>. QED
    BY <2>6, <2>7, <2>8 DEF WorldInv
<1>7. CASE Compact
  <2>. DEFINE w == [proc[Room] EXCEPT !.pc = "read", !.seq = doc.seq, !.date = doc.date]
  <2>1. UNCHANGED <<now, doc, open, member, row, put, asks, sent, mishaps>> /\ proj' = doc
          /\ doc # proj
    BY <1>7 DEF Compact
  <2>2. Room \in Procs /\ proc[Room] \in Proc
    BY <1>0 DEF Procs
  <2>3. w \in Proc /\ w.pc = "read" /\ w.seq = doc.seq /\ w.date = doc.date
          /\ w.gen = proc[Room].gen
    BY <1>0, <2>2 DEF Proc, Content
  <2>4. proc' = [proc EXCEPT ![Room] = w]
    BY <1>0, <1>7, <2>2 DEF Compact
  <2>. HIDE DEF w
  <2>5. doc.seq \in Nat /\ proj.seq \in Nat /\ row.gen \in Nat
    BY <1>0, Bounds DEF Content, Row
  <2>6. Onward
    BY <2>1, <2>5 DEF Onward, WorldInv, PageOrdered
  <2>7. Follows(w, row', proj', sent', asks')
    <3>1. w.gen <= row'.gen
      BY <2>1, <2>2, <2>3 DEF ProcsFollow, Follows
    <3>. QED
      BY <2>1, <2>3, <2>5, <3>1 DEF Follows
  <2>8. ProcsTyped' /\ ProcsFollow'
    BY <1>0, <2>1, <2>2, <2>3, <2>4, <2>6, <2>7, OneProc
  <2>9. TypeOK'
    BY <2>1, <2>8 DEF TypeOK, ProcsTyped, Procs
  <2>10. PageOrdered'
    BY <2>1, <2>5 DEF PageOrdered
  <2>11. RowDue' /\ SentPast'
    BY <2>1 DEF WorldInv, RowDue, SentPast
  <2>. QED
    BY <2>8, <2>9, <2>10, <2>11 DEF WorldInv
<1>. QED
  BY <1>1, <1>2, <1>3, <1>4, <1>5, <1>6, <1>7

\* A request that sets the reminder begins a new count.
LEMMA PutSaveStep == RemindersInv /\ PutSave => RemindersInv'
<1>. SUFFICES ASSUME RemindersInv, PutSave PROVE RemindersInv'
  OBVIOUS
<1>. USE DEF RemindersInv
<1>0. /\ row \in Row /\ put \in Put /\ asks \in 0 .. MaxAsks /\ put.pc = "save"
      /\ UNCHANGED <<now, page, proc, sent, mishaps>> /\ put' = NoPut
  BY DEF TypeOK, PutSave
<1>1. put' \in Put /\ put'.pc = "idle"
  BY <1>0, NoPutTyped
<1>2. CASE UNCHANGED <<row, asks>>
  <2>1. TypeOK'
    BY <1>0, <1>1, <1>2 DEF TypeOK, page
  <2>2. RowDue'
    BY <1>0, <1>1, <1>2 DEF WorldInv, RowDue
  <2>3. PageOrdered' /\ SentPast' /\ ProcsFollow'
    BY <1>0, <1>2 DEF page, WorldInv, PageOrdered, SentPast, ProcsFollow
  <2>. QED
    BY <2>1, <2>2, <2>3 DEF WorldInv
<1>3. CASE /\ row' = [state |-> "active", gen |-> row.gen + 1, due |-> put.due,
                      choice |-> put.choice, claim |-> None, old |-> FALSE, missing |-> "no"]
           /\ asks' = asks + 1
  <2>1. /\ put.due \in 0 .. MaxTime /\ put.choice \in Choice \cup {Relative} /\ row.gen \in Nat
        /\ put.due \in Time /\ asks < MaxAsks
    BY <1>0 DEF Put, Row, WorldInv, RowDue
  <2>. DEFINE g == row.gen + 1
  <2>2. row' \in Row /\ row'.gen = g /\ row'.due = put.due /\ row'.state = "active"
    <3>1. g \in Nat
      BY <2>1
    <3>2. row' = [state |-> "active", gen |-> g, due |-> put.due, choice |-> put.choice,
                  claim |-> None, old |-> FALSE, missing |-> "no"]
      BY <1>3
    <3>. HIDE DEF g
    <3>. QED
      BY <2>1, <3>1, <3>2 DEF Row, Standing
  <2>3. g > row.gen /\ asks' \in 0 .. MaxAsks /\ asks' > asks
    BY <1>0, <1>3, <2>1, Bounds
  <2>4. UNCHANGED <<now, doc, proj, open, member, proc, sent, mishaps>>
    BY <1>0 DEF page
  <2>5. Onward
    BY <2>1, <2>2, <2>3, <2>4 DEF Onward
  <2>6. ProcsTyped' /\ ProcsFollow'
    <3>1. proj' \in Content
      BY <2>4 DEF TypeOK
    <3>. QED
      BY <2>2, <2>4, <2>5, <3>1, NoProc
  <2>7. TypeOK'
    BY <1>1, <2>2, <2>3, <2>4, <2>6 DEF TypeOK, ProcsTyped, Procs
  <2>8. RowDue'
    BY <1>1, <2>1, <2>2 DEF RowDue
  <2>9. SentPast'
    <3>1. \A n \in sent : n.gen \in Nat /\ n.ask \in Nat
      BY Bounds DEF TypeOK
    <3>2. \A n \in sent : n.due <= now /\ n.gen <= row.gen /\ n.ask <= asks
      BY DEF WorldInv, SentPast
    <3>3. asks \in Nat /\ row.gen \in Nat /\ asks' \in Nat
      BY <1>0, <2>1, <2>3, Bounds
    <3>. QED
      BY <1>3, <2>2, <2>4, <3>1, <3>2, <3>3 DEF SentPast
  <2>10. PageOrdered'
    BY <2>4 DEF WorldInv, PageOrdered
  <2>. QED
    BY <2>6, <2>7, <2>8, <2>9, <2>10 DEF WorldInv
<1>. QED
  BY <1>2, <1>3 DEF PutSave

-----------------------------------------------------------------------------
(* reconcileDateRemindersForPage.                                          *)

LEMMA AfterReconcileTyped ==
  ASSUME RemindersInv, NEW p \in Procs
  PROVE /\ AfterReconcile(p) \in Proc /\ AfterReconcile(p).pc \in Quiet
        /\ AfterReconcile(p).gen = 0 \/ AfterReconcile(p).gen = proc[p].gen
<1>1. proc[p] \in Proc
  BY DEF RemindersInv, TypeOK, Procs
<1>2. CASE proc[p].then = "release"
  <2>. DEFINE w == [proc[p] EXCEPT !.pc = "release", !.then = "sweep", !.statement = "nothing"]
  <2>1. w \in Proc /\ w.pc = "release" /\ w.gen = proc[p].gen
    BY <1>1 DEF Proc, Statement
  <2>2. AfterReconcile(p) = w
    BY <1>2 DEF AfterReconcile
  <2>. HIDE DEF w
  <2>. QED
    BY <2>1, <2>2 DEF Quiet
<1>3. CASE proc[p].then # "release"
  BY <1>3, IdleTyped DEF AfterReconcile, Quiet
<1>. QED
  BY <1>2, <1>3

\* What is decided is a statement, and a date is moved only into the future.
LEMMA DecisionTyped ==
  ASSUME NEW r \in Row, NEW d
  PROVE /\ Decision(r, d) \in Statement
        /\ Decision(r, d) = "move" =>
             d # Absent /\ DueAt(d, r.choice) # r.due /\ ~(DueAt(d, r.choice) <= now)
<1>1. CASE d = Absent
  <2>1. r.missing = "no" \/ r.missing = "old" \/ r.missing = "new"
    BY DEF Row
  <2>. QED
    BY <1>1, <2>1 DEF Decision, Statement
<1>2. CASE d # Absent
  BY <1>2 DEF Decision, Statement
<1>. QED
  BY <1>1, <1>2

LEMMA ReconcileReadStep ==
  ASSUME RemindersInv, NEW p \in Procs, ReconcileRead(p)
  PROVE RemindersInv'
<1>0. /\ row \in Row /\ proc \in [Procs -> Proc] /\ proc[p] \in Proc /\ proj \in Content
      /\ now \in 0 .. MaxTime /\ Follows(proc[p], row, proj, sent, asks)
  BY DEF RemindersInv, TypeOK, Procs, ProcsFollow
<1>1. UNCHANGED <<now, page, put, asks, sent, mishaps>> /\ row' = row /\ proc[p].pc = "read"
  BY DEF ReconcileRead
<1>2. RowKept
  BY <1>1, RowSame
<1>3. CASE proc' = [proc EXCEPT ![p] = AfterReconcile(p)]
  BY <1>1, <1>2, <1>3, AfterReconcileTyped, QuietStep
<1>4. CASE proc' = [proc EXCEPT ![p].pc = "apply", ![p].gen = row.gen,
                               ![p].due = DueAt(proc[p].date, row.choice),
                               ![p].statement = Decision(row, proc[p].date)]
  <2>. DEFINE due == DueAt(proc[p].date, row.choice)
              statement == Decision(row, proc[p].date)
              w == [proc[p] EXCEPT !.pc = "apply", !.gen = row.gen, !.due = due,
                                   !.statement = statement]
  <2>1. row.gen \in Nat /\ row.choice \in Choice \cup {Relative} /\ due \in 0 .. MaxTime
    <3>1. row.gen \in Nat /\ row.choice \in Choice \cup {Relative}
      BY <1>0 DEF Row
    <3>2. proc[p].date \in {Absent} \cup Time
      BY <1>0 DEF Proc
    <3>. QED
      BY <3>1, <3>2, DueAtTyped
  <2>2. /\ statement \in Statement
        /\ statement = "move" => proc[p].date # Absent /\ due # row.due /\ ~(due <= now)
    BY <1>0, DecisionTyped
  <2>3. proc' = [proc EXCEPT ![p] = w]
    BY <1>0, <1>4
  <2>. HIDE DEF statement
  <2>4. /\ w \in Proc /\ w.pc = "apply" /\ w.gen = row.gen /\ w.due = due
        /\ w.statement = statement /\ w.seq = proc[p].seq /\ w.date = proc[p].date
    <3>. HIDE DEF due
    <3>. QED
      BY <1>0, <2>1, <2>2 DEF Proc
  <2>. HIDE DEF w
  <2>5. ASSUME w.statement = "move"
        PROVE /\ w.due \in Time
              /\ w.seq = proj.seq =>
                   /\ w.due = DueAt(proj.date, row.choice) /\ w.due # row.due
                   /\ \A n \in sent : n.ask = asks => n.due < w.due
    <3>. DEFINE d == w.due
    <3>1. d \in 0 .. MaxTime /\ ~(d <= now) /\ d # row.due
      BY <2>1, <2>2, <2>4, <2>5
    <3>2. d \in Time
      BY <1>0, <3>1, Bounds DEF Time
    <3>3. \A n \in sent : n.due <= now /\ n.due \in Nat
      BY Bounds DEF RemindersInv, WorldInv, SentPast, TypeOK, Time
    <3>4. \A n \in sent : n.due < d
      <4>. HIDE DEF d
      <4>. QED
        BY <1>0, <3>1, <3>3, Bounds
    <3>5. w.seq = proj.seq => proc[p].date = proj.date
      BY <1>0, <1>1, <2>4 DEF Follows
    <3>. QED
      BY <2>4, <3>1, <3>2, <3>4, <3>5
  <2>6. w.seq <= proj.seq /\ (w.seq = proj.seq => w.date = proj.date)
    BY <1>0, <1>1, <2>4 DEF Follows
  <2>7. Follows(w, row', proj, sent, asks)
    BY <1>1, <2>1, <2>4, <2>5, <2>6 DEF Follows
  <2>. QED
    BY <1>1, <1>2, <2>3, <2>4, <2>7, ProcStep
<1>. QED
  BY <1>3, <1>4 DEF ReconcileRead

\* A reminder that is moved goes on to a later moment than any it was notified of.
LEMMA MoveStep ==
  ASSUME RemindersInv, NEW p \in Procs, ReconcileApply(p), StillSo(p),
         proc[p].statement = "move"
  PROVE RemindersInv'
<1>. USE DEF RemindersInv
<1>0. /\ row \in Row /\ proc \in [Procs -> Proc] /\ proc[p] \in Proc /\ proj \in Content
      /\ Follows(proc[p], row, proj, sent, asks)
  BY DEF TypeOK, Procs, ProcsFollow
<1>1. /\ UNCHANGED <<now, doc, proj, open, member, put, asks, sent, mishaps>>
      /\ proc[p].pc = "apply" /\ proc' = [proc EXCEPT ![p] = AfterReconcile(p)]
      /\ row.gen = proc[p].gen /\ row.state \in Standing /\ proj.seq = proc[p].seq
  BY DEF ReconcileApply, StillSo, page
<1>2. proc[p].due \in Time /\ \A n \in sent : n.ask = asks => n.due < proc[p].due
  BY <1>0, <1>1 DEF Follows
<1>. DEFINE g == row.gen + 1
            u == Unclaimed(row)
<1>3. u \in Row /\ u.gen = row.gen /\ row.gen \in Nat
  BY <1>0, UnclaimedTyped DEF Row
<1>4. row' = [u EXCEPT !.state = "active", !.gen = g, !.due = proc[p].due, !.missing = "no"]
  <2>1. row' = Written(p)
    BY DEF ReconcileApply
  <2>2. Written(p) = [u EXCEPT !.state = "active", !.gen = @ + 1, !.due = proc[p].due,
                               !.missing = "no"]
    BY DEF Written
  <2>. QED
    BY <1>3, <2>1, <2>2
<1>5. g \in Nat /\ g > row.gen /\ proc[p].due \in 0 .. MaxTime
  BY <1>0, <1>3 DEF Proc
<1>6. row' \in Row /\ row'.gen = g /\ row'.due = proc[p].due /\ row'.state = "active"
  <2>. HIDE DEF u, g
  <2>. QED
    BY <1>3, <1>4, <1>5 DEF Row, Standing
<1>. HIDE DEF u
<1>7. Onward
  BY <1>1, <1>3, <1>5, <1>6 DEF Onward
<1>8. AfterReconcile(p) \in Proc /\ Follows(AfterReconcile(p), row', proj', sent', asks')
  <2>1. AfterReconcile(p).gen <= row'.gen
    <3>1. 0 <= g /\ proc[p].gen <= g
      BY <1>1, <1>3, <1>5
    <3>. QED
      BY <1>6, <3>1, AfterReconcileTyped
  <2>. QED
    BY <2>1, AfterReconcileTyped, QuietFollows
<1>9. ProcsTyped' /\ ProcsFollow'
  <2>1. proj' \in Content
    BY <1>0, <1>1
  <2>. QED
    BY <1>1, <1>6, <1>7, <1>8, <2>1, OneProc
<1>10. TypeOK'
  BY <1>1, <1>6, <1>9 DEF TypeOK, ProcsTyped, Procs
<1>11. RowDue'
  BY <1>1, <1>2, <1>6 DEF WorldInv, RowDue
<1>12. SentPast'
  <2>1. \A n \in sent : n.gen \in Nat
    BY DEF TypeOK
  <2>2. \A n \in sent : n.due <= now /\ n.gen <= row.gen /\ n.ask <= asks
    BY DEF WorldInv, SentPast
  <2>. QED
    BY <1>1, <1>2, <1>3, <1>6, <2>1, <2>2 DEF SentPast
<1>13. PageOrdered'
  BY <1>1 DEF WorldInv, PageOrdered
<1>. QED
  BY <1>9, <1>10, <1>11, <1>12, <1>13 DEF WorldInv

\* Whatever else is written keeps the moment or cancels the reminder.
LEMMA WrittenKeeps ==
  ASSUME RemindersInv, NEW p \in Procs, ReconcileApply(p),
         ~StillSo(p) \/ proc[p].statement # "move"
  PROVE RowKept \/ RowOut
<1>. USE DEF RemindersInv
<1>0. row \in Row /\ proc[p] \in Proc
  BY DEF TypeOK, Procs
<1>1. CASE ~StillSo(p)
  BY <1>1, RowSame DEF ReconcileApply
<1>2. CASE StillSo(p) /\ proc[p].statement = "cancel"
  BY <1>0, <1>2, CanceledTyped DEF ReconcileApply, Written, RowOut
<1>3. CASE StillSo(p) /\ proc[p].statement = "mark"
  <2>. DEFINE u == Unclaimed(row)
              m == IF u.missing = "no" THEN "new" ELSE u.missing
  <2>1. row' = [u EXCEPT !.state = Freed(row), !.missing = m]
    <3>1. row' = [u EXCEPT !.state = Freed(row), !.missing = IF @ = "no" THEN "new" ELSE @]
      BY <1>3 DEF ReconcileApply, Written
    <3>. QED
      BY <1>0, <3>1, UnclaimedTyped DEF Row
  <2>2. /\ u \in Row /\ u.gen = row.gen /\ u.due = row.due /\ u.choice = row.choice
        /\ m \in {"no", "new", "old"}
    BY <1>0, UnclaimedTyped DEF Row
  <2>3. /\ row.state \in Standing /\ Freed(row) \in Standing
        /\ Freed(row) # "claimed" /\ (Freed(row) = "delivered" => row.state = "delivered")
    BY <1>3 DEF StillSo, Freed, Standing
  <2>. HIDE DEF u, m
  <2>4. /\ row' \in Row /\ row'.gen = u.gen /\ row'.due = u.due /\ row'.choice = u.choice
        /\ row'.state = Freed(row)
    BY <2>1, <2>2, <2>3 DEF Row
  <2>. QED
    BY <2>2, <2>3, <2>4 DEF WorldInv, RowDue, RowKept
<1>4. CASE StillSo(p) /\ proc[p].statement = "free" /\ row.state = "claimed"
  <2>. DEFINE u == Unclaimed(row)
  <2>1. row' = [u EXCEPT !.state = "active"]
    BY <1>4 DEF ReconcileApply, Written
  <2>2. u \in Row /\ u.gen = row.gen /\ u.due = row.due /\ u.choice = row.choice
    BY <1>0, UnclaimedTyped
  <2>. HIDE DEF u
  <2>3. /\ row' \in Row /\ row'.gen = u.gen /\ row'.due = u.due /\ row'.choice = u.choice
        /\ row'.state = "active"
    BY <2>1, <2>2 DEF Row, Standing
  <2>. QED
    BY <1>4, <2>2, <2>3 DEF RowKept, Standing
<1>5. CASE StillSo(p) /\ proc[p].statement = "clear"
  <2>1. row' = [row EXCEPT !.missing = "no"]
    BY <1>5 DEF ReconcileApply, Written
  <2>. QED
    BY <1>0, <2>1 DEF WorldInv, RowDue, RowKept, Row
<1>6. CASE StillSo(p) /\ (proc[p].statement = "nothing"
                         \/ (proc[p].statement = "free" /\ row.state # "claimed"))
  <2>1. row' = row
    BY <1>6 DEF ReconcileApply, Written
  <2>. QED
    BY <2>1, RowSame
<1>. QED
  BY <1>0, <1>1, <1>2, <1>3, <1>4, <1>5, <1>6 DEF Proc, Statement

LEMMA ReconcileSteps ==
  ASSUME RemindersInv, NEW p \in Procs, Reconcile(p) \/ ReconcileFail(p) \/ Crash(p)
  PROVE RemindersInv'
<1>1. CASE ReconcileRead(p)
  BY <1>1, ReconcileReadStep
<1>2. CASE ReconcileApply(p)
  <2>1. CASE StillSo(p) /\ proc[p].statement = "move"
    BY <1>2, <2>1, MoveStep
  <2>2. CASE ~StillSo(p) \/ proc[p].statement # "move"
    <3>1. RowKept \/ RowOut
      BY <1>2, <2>2, WrittenKeeps
    <3>2. UNCHANGED <<now, page, put, asks, sent, mishaps>>
            /\ proc' = [proc EXCEPT ![p] = AfterReconcile(p)]
      BY <1>2 DEF ReconcileApply
    <3>. QED
      BY <3>1, <3>2, AfterReconcileTyped, QuietStep
  <2>. QED
    BY <2>1, <2>2
<1>3. CASE ReconcileFail(p) \/ Crash(p)
  <2>1. /\ UNCHANGED <<now, page, row, put, asks, sent>> /\ Mishap
        /\ proc' = [proc EXCEPT ![p] = Idle]
    BY <1>3 DEF ReconcileFail, Crash
  <2>. QED
    BY <2>1, RowSame, GoneIdle
<1>. QED
  BY <1>1, <1>2, <1>3 DEF Reconcile

-----------------------------------------------------------------------------
(* deliverDueDateReminders and sweepDateReminders.                         *)

LEMMA ClaimStep == ASSUME RemindersInv, NEW r \in Run, Claim(r) PROVE RemindersInv'
<1>0. /\ row \in Row /\ proc \in [Procs -> Proc] /\ proc[r] \in Proc /\ r \in Procs
  BY DEF RemindersInv, TypeOK, Procs
<1>1. UNCHANGED <<now, page, put, asks, sent, mishaps>>
  BY DEF Claim
<1>2. CASE ~Claimable(r)
  <2>1. row' = row /\ proc' = [proc EXCEPT ![r] = [Idle EXCEPT !.pc = "sweep"]]
    BY <1>2 DEF Claim
  <2>. QED
    BY <1>0, <1>1, <2>1, RowSame, GoneIdle
<1>3. CASE Claimable(r)
  <2>. DEFINE w == [proc[r] EXCEPT !.pc = "page", !.gen = row.gen, !.due = row.due,
                                   !.choice = row.choice]
  <2>1. row' = [row EXCEPT !.state = "claimed", !.claim = r, !.old = FALSE]
    BY <1>3 DEF Claim
  <2>2. /\ row' \in Row /\ row'.gen = row.gen /\ row'.due = row.due /\ row'.choice = row.choice
    BY <1>0, <2>1 DEF Row, Standing
  <2>3. RowKept
    BY <1>3, <2>1, <2>2 DEF Claimable, RowKept
  <2>4. /\ w \in Proc /\ w.pc = "page" /\ w.gen = row.gen /\ w.due = row.due
        /\ w.choice = row.choice
    BY <1>0 DEF Proc, Row
  <2>5. proc' = [proc EXCEPT ![r] = w]
    BY <1>0, <1>3 DEF Claim
  <2>. HIDE DEF w
  <2>6. Follows(w, row', proj, sent, asks)
    <3>1. row.gen \in Nat
      BY <1>0 DEF Row
    <3>. QED
      BY <2>2, <2>4, <3>1 DEF Follows
  <2>. QED
    BY <1>0, <1>1, <2>3, <2>4, <2>5, <2>6, ProcStep
<1>. QED
  BY <1>2, <1>3

LEMMA CheckPageStep == ASSUME RemindersInv, NEW r \in Run, CheckPage(r) PROVE RemindersInv'
<1>0. /\ row \in Row /\ proc \in [Procs -> Proc] /\ proc[r] \in Proc /\ r \in Procs
      /\ Follows(proc[r], row, proj, sent, asks)
  BY DEF RemindersInv, TypeOK, Procs, ProcsFollow
<1>1. UNCHANGED <<now, page, put, asks, sent, mishaps>> /\ proc[r].pc = "page"
  BY DEF CheckPage
<1>2. CASE Goto(r, "room") /\ row' = row
  <2>. DEFINE w == [proc[r] EXCEPT !.pc = "room"]
  <2>1. /\ w \in Proc /\ w.pc = "room" /\ w.gen = proc[r].gen /\ w.due = proc[r].due
        /\ w.choice = proc[r].choice /\ proc' = [proc EXCEPT ![r] = w]
    BY <1>0, <1>2 DEF Proc, Goto
  <2>. HIDE DEF w
  <2>2. Follows(w, row', proj, sent, asks)
    BY <1>0, <1>1, <1>2, <2>1 DEF Follows
  <2>. QED
    BY <1>0, <1>1, <1>2, <2>1, <2>2, RowSame, ProcStep
<1>3. CASE ~(open /\ member)
  <2>1. proc' = [proc EXCEPT ![r] = [Idle EXCEPT !.pc = "sweep"]]
    BY <1>3 DEF CheckPage
  <2>2. RowKept \/ RowOut
    <3>1. row.missing \in {"no", "new", "old"}
      BY <1>0 DEF Row
    <3>2. row' = row \/ row' = [Canceled(row) EXCEPT !.missing = row.missing]
      BY <1>3 DEF CheckPage
    <3>3. CASE row' = [Canceled(row) EXCEPT !.missing = row.missing]
      <4>. DEFINE c == [Canceled(row) EXCEPT !.missing = row.missing]
      <4>1. c \in Row /\ c.gen = row.gen + 1 /\ c.state = "canceled"
        BY <1>0, <3>1, CanceledTyped
      <4>. QED
        BY <3>3, <4>1 DEF RowOut
    <3>. QED
      BY <3>2, <3>3, RowSame
  <2>. QED
    BY <1>0, <1>1, <2>1, <2>2, GoneIdle
<1>. QED
  BY <1>2, <1>3 DEF CheckPage

LEMMA ReadRoomStep ==
  ASSUME RemindersInv, NEW r \in Run, ReadRoom(r) \/ SweepRead(r)
  PROVE RemindersInv'
<1>0. /\ row \in Row /\ proc \in [Procs -> Proc] /\ proc[r] \in Proc /\ r \in Procs
      /\ Follows(proc[r], row, proj, sent, asks) /\ doc \in Content
  BY DEF RemindersInv, TypeOK, Procs, ProcsFollow
<1>1. UNCHANGED <<now, page, put, asks, sent, mishaps>> /\ row' = row /\ doc = proj
  BY DEF ReadRoom, SweepRead, Current
<1>2. proj.seq \in 0 .. MaxEdits /\ proj.date \in {Absent} \cup Time /\ proj.seq <= proj.seq
        /\ Absent \in {Absent} \cup Time
  BY <1>0, <1>1, Bounds DEF Content
<1>3. ASSUME NEW w \in Proc, proc' = [proc EXCEPT ![r] = w], w.gen = proc[r].gen,
             w.seq = proj.seq,
             \/ w.pc = "read" /\ w.date = proj.date
             \/ /\ w.pc = "batch" /\ w.due = proc[r].due /\ w.choice = proc[r].choice
                /\ proc[r].pc = "room"
                /\ proj.date # Absent /\ DueAt(proj.date, proc[r].choice) = proc[r].due
      PROVE RemindersInv'
  <2>1. Follows(w, row', proj, sent, asks)
    BY <1>0, <1>1, <1>2, <1>3 DEF Follows
  <2>. QED
    BY <1>0, <1>1, <1>3, <2>1, RowSame, ProcStep
<1>4. CASE SweepRead(r)
  <2>. DEFINE w == [proc[r] EXCEPT !.pc = "read", !.seq = doc.seq, !.date = doc.date]
  <2>1. /\ w \in Proc /\ w.pc = "read" /\ w.gen = proc[r].gen /\ w.seq = proj.seq
        /\ w.date = proj.date
    BY <1>0, <1>1, <1>2 DEF Proc
  <2>2. proc' = [proc EXCEPT ![r] = w]
    BY <1>0, <1>4 DEF SweepRead
  <2>. HIDE DEF w
  <2>. QED
    BY <1>3, <2>1, <2>2
<1>5. CASE ReadRoom(r)
  <2>. DEFINE matches == doc.date # Absent /\ DueAt(doc.date, proc[r].choice) = proc[r].due
  <2>1. CASE matches
    <3>. DEFINE w == [proc[r] EXCEPT !.pc = "batch", !.then = "idle", !.seq = doc.seq,
                                     !.date = Absent]
    <3>1. /\ w \in Proc /\ w.pc = "batch" /\ w.gen = proc[r].gen /\ w.seq = proj.seq
          /\ w.due = proc[r].due /\ w.choice = proc[r].choice
      BY <1>0, <1>1, <1>2 DEF Proc
    <3>2. proc' = [proc EXCEPT ![r] = w]
      BY <1>0, <1>5, <2>1 DEF ReadRoom
    <3>3. proc[r].pc = "room"
      BY <1>5 DEF ReadRoom
    <3>. HIDE DEF w
    <3>. QED
      BY <1>1, <1>3, <2>1, <3>1, <3>2, <3>3
  <2>2. CASE ~matches
    <3>. DEFINE w == [proc[r] EXCEPT !.pc = "read", !.then = "release", !.seq = doc.seq,
                                     !.date = doc.date]
    <3>1. /\ w \in Proc /\ w.pc = "read" /\ w.gen = proc[r].gen /\ w.seq = proj.seq
          /\ w.date = proj.date
      BY <1>0, <1>1, <1>2 DEF Proc
    <3>2. proc' = [proc EXCEPT ![r] = w]
      BY <1>0, <1>5, <2>2 DEF ReadRoom
    <3>. HIDE DEF w
    <3>. QED
      BY <1>3, <3>1, <3>2
  <2>. QED
    BY <2>1, <2>2
<1>. QED
  BY <1>4, <1>5

LEMMA FailStep == ASSUME RemindersInv, NEW r \in Run, Fail(r) PROVE RemindersInv'
<1>. DEFINE w == [proc[r] EXCEPT !.pc = "release", !.then = "sweep", !.statement = "nothing"]
<1>0. proc \in [Procs -> Proc] /\ proc[r] \in Proc /\ r \in Procs
  BY DEF RemindersInv, TypeOK, Procs
<1>1. UNCHANGED <<now, page, row, put, asks, sent>> /\ ((mishaps' = mishaps) \/ Mishap)
        /\ proc' = [proc EXCEPT ![r] = w]
  BY <1>0 DEF Fail
<1>2. w \in Proc /\ w.pc \in Quiet /\ w.gen = proc[r].gen
  BY <1>0 DEF Proc, Statement, Quiet
<1>. HIDE DEF w
<1>. QED
  BY <1>0, <1>1, <1>2, RowSame, QuietStep

LEMMA ReleaseStep == ASSUME RemindersInv, NEW r \in Run, Release(r) PROVE RemindersInv'
<1>0. /\ row \in Row /\ proc[r] \in Proc /\ r \in Procs
  BY DEF RemindersInv, TypeOK, Procs
<1>. DEFINE again == proc[r].then = "due"
            w == [Idle EXCEPT !.pc = proc[r].then, !.again = again]
<1>1. UNCHANGED <<now, page, put, asks, sent, mishaps>> /\ proc' = [proc EXCEPT ![r] = w]
  BY DEF Release
<1>2. proc[r].then \in Quiet
  BY <1>0 DEF Proc, Quiet
<1>3. again \in BOOLEAN
  OBVIOUS
<1>4. RowKept
  <2>1. CASE Holds(r)
    <3>. DEFINE u == Unclaimed(row)
    <3>1. row' = [u EXCEPT !.state = "active"] /\ row.state = "claimed"
      BY <2>1 DEF Release, Holds
    <3>2. u \in Row /\ u.gen = row.gen /\ u.due = row.due /\ u.choice = row.choice
      BY <1>0, UnclaimedTyped
    <3>. HIDE DEF u
    <3>3. /\ row' \in Row /\ row'.gen = u.gen /\ row'.due = u.due /\ row'.choice = u.choice
          /\ row'.state = "active"
      BY <3>1, <3>2 DEF Row, Standing
    <3>. QED
      BY <3>1, <3>2, <3>3 DEF RowKept, Standing
  <2>2. CASE ~Holds(r)
    BY <2>2, RowSame DEF Release
  <2>. QED
    BY <2>1, <2>2
<1>. HIDE DEF again
<1>5. w \in Proc /\ Follows(w, row', proj, sent, asks)
  <2>1. row' \in Row
    BY <1>4 DEF RowKept
  <2>. QED
    BY <1>2, <1>3, <2>1, IdleFollows
<1>. HIDE DEF w
<1>. QED
  BY <1>0, <1>1, <1>4, <1>5, ProcStep

LEMMA SweepSteps ==
  ASSUME RemindersInv, NEW r \in Run,
         Start(r) \/ TakeBack(r) \/ SweepNothing(r) \/ SweepPick(r) \/ SweepOut(r) \/ SweepFail(r)
  PROVE RemindersInv'
<1>0. /\ row \in Row /\ row.gen \in Nat /\ r \in Procs
      /\ {"due", "idle", "sweepRoom", "sweepOut"} \subseteq Quiet
  BY DEF RemindersInv, TypeOK, Procs, Row, Quiet
<1>1. UNCHANGED <<now, page, put, asks, sent, mishaps>>
  BY DEF Start, TakeBack, SweepNothing, SweepPick, SweepOut, SweepFail
<1>2. RowKept \/ RowOut
  <2>1. row' = row \/ row' = [row EXCEPT !.state = "canceled", !.gen = @ + 1]
    BY DEF Start, TakeBack, SweepNothing, SweepPick, SweepOut, SweepFail
  <2>2. CASE row' = [row EXCEPT !.state = "canceled", !.gen = @ + 1]
    <3>. DEFINE g == row.gen + 1
    <3>1. row' = [row EXCEPT !.state = "canceled", !.gen = g] /\ g \in Nat
      BY <1>0, <2>2 DEF Row
    <3>. HIDE DEF g
    <3>2. row' \in Row /\ row'.state = "canceled" /\ row'.gen = g
      BY <1>0, <3>1 DEF Row, Standing
    <3>. QED
      BY <3>2 DEF RowOut, g
  <2>. QED
    BY <2>1, <2>2, RowSame
<1>3. \/ \E pc \in Quiet : Goto(r, pc)
      \/ proc' = [proc EXCEPT ![r] = Idle]
      \/ proc' = [proc EXCEPT ![r] = [Idle EXCEPT !.pc = "sweep"]]
  BY <1>0 DEF Start, TakeBack, SweepNothing, SweepPick, SweepOut, SweepFail, Goto
<1>. QED
  BY <1>0, <1>1, <1>2, <1>3, GotoQuiet, GoneIdle

-----------------------------------------------------------------------------
(* The delivery.                                                           *)

\* What is delivered is what the page shows, and is due.
LEMMA DeliverableIsCurrent ==
  ASSUME RemindersInv, NEW r \in Run, proc[r].pc = "batch", Deliverable(r)
  PROVE /\ row.state = "claimed" /\ proj.date # Absent
        /\ DueAt(proj.date, row.choice) = row.due /\ row.due <= now /\ row.due \in Time
<1>1. Follows(proc[r], row, proj, sent, asks)
  BY DEF RemindersInv, ProcsFollow, Procs
<1>2. row.gen = proc[r].gen /\ row.state = "claimed" /\ proj.seq = proc[r].seq
  BY DEF Deliverable, Holds
<1>3. row.due = proc[r].due /\ row.choice = proc[r].choice /\ proj.date # Absent
        /\ DueAt(proj.date, proc[r].choice) = proc[r].due
  BY <1>1, <1>2 DEF Follows
<1>. QED
  BY <1>2, <1>3 DEF RemindersInv, WorldInv, RowDue, Standing

\* The row of a delivery.
LEMMA DeliveredKept ==
  ASSUME RemindersInv, NEW r \in Run, proc[r].pc = "batch", Deliverable(r),
         row' = [Unclaimed(row) EXCEPT !.state = "delivered", !.missing = "no"]
  PROVE RowKept
<1>. DEFINE u == Unclaimed(row)
<1>1. u \in Row /\ u.gen = row.gen /\ u.due = row.due /\ u.choice = row.choice
  BY UnclaimedTyped DEF RemindersInv, TypeOK
<1>2. row' = [u EXCEPT !.state = "delivered", !.missing = "no"]
  OBVIOUS
<1>. HIDE DEF u
<1>3. row' \in Row /\ row'.gen = u.gen /\ row'.due = u.due /\ row'.choice = u.choice
  BY <1>1, <1>2 DEF Row, Standing
<1>. QED
  BY <1>1, <1>3, DeliverableIsCurrent DEF RowKept, Standing

\* A notification goes in: it is of this generation, which had none.
LEMMA NotifyStep ==
  ASSUME RemindersInv, NEW r \in Run, Deliver(r), Deliverable(r),
         open, member, ~\E n \in sent : n.gen = row.gen
  PROVE RemindersInv'
<1>. USE DEF RemindersInv
<1>. DEFINE new == [gen |-> row.gen, due |-> row.due, ask |-> asks]
<1>0. /\ row \in Row /\ proc \in [Procs -> Proc] /\ r \in Procs /\ proj \in Content
      /\ row.gen \in Nat /\ asks \in 0 .. MaxAsks /\ asks \in Nat /\ proc[r].pc = "batch"
  BY Bounds DEF TypeOK, Procs, Row, Deliver
<1>1. /\ sent' = sent \cup {new} /\ proc' = [proc EXCEPT ![r] = [Idle EXCEPT !.pc = "sweep"]]
      /\ row' = [Unclaimed(row) EXCEPT !.state = "delivered", !.missing = "no"]
      /\ UNCHANGED <<now, doc, proj, open, member, put, asks, mishaps>>
  BY DEF Deliver, page
<1>2. RowKept
  BY <1>0, <1>1, DeliveredKept
<1>3. /\ row.state = "claimed" /\ DueAt(proj.date, row.choice) = row.due /\ row.due <= now
      /\ row.due \in Time
  BY <1>0, DeliverableIsCurrent
<1>4. new \in Note /\ new.gen = row.gen /\ new.due = row.due /\ new.ask = asks
  BY <1>0, <1>3 DEF Note
<1>. HIDE DEF new
<1>5. Onward
  BY <1>0, <1>1, <1>2, <1>3 DEF Onward, RowKept
<1>6. ProcsTyped' /\ ProcsFollow'
  <2>1. row' \in Row /\ proj' \in Content /\ "sweep" \in Quiet
    BY <1>0, <1>1, <1>2 DEF RowKept, Quiet
  <2>2. [Idle EXCEPT !.pc = "sweep"] \in Proc
          /\ Follows([Idle EXCEPT !.pc = "sweep"], row', proj', sent', asks')
    BY <2>1, IdleFollows
  <2>. QED
    BY <1>0, <1>1, <1>5, <2>1, <2>2, OneProc
<1>7. TypeOK'
  <2>1. sent' \subseteq Note
    BY <1>1, <1>4 DEF TypeOK, Note
  <2>. QED
    BY <1>1, <1>2, <1>6, <2>1 DEF TypeOK, ProcsTyped, Procs, RowKept, Note
<1>8. RowDue'
  BY <1>1, <1>2, <1>3 DEF WorldInv, RowDue, RowKept, Standing
<1>9. SentPast'
  <2>1. ASSUME NEW n \in sent'
        PROVE /\ n.due <= now /\ n.gen <= row'.gen /\ n.ask <= asks
              /\ n.ask = asks /\ row'.state \in Standing /\ row'.gen # n.gen => n.due < row'.due
    <3>1. CASE n \in sent
      BY <1>2, <1>3, <3>1 DEF WorldInv, SentPast, RowKept, Standing
    <3>2. CASE n = new
      BY <1>0, <1>2, <1>3, <1>4, <3>2 DEF RowKept
    <3>. QED
      BY <1>1, <2>1, <3>1, <3>2
  <2>. QED
    BY <1>1, <2>1 DEF SentPast
<1>10. PageOrdered'
  BY <1>1 DEF WorldInv, PageOrdered
<1>. QED
  BY <1>6, <1>7, <1>8, <1>9, <1>10 DEF WorldInv

LEMMA DeliverStep == ASSUME RemindersInv, NEW r \in Run, Deliver(r) PROVE RemindersInv'
<1>0. /\ proc \in [Procs -> Proc] /\ proc[r] \in Proc /\ r \in Procs /\ proc[r].pc = "batch"
      /\ UNCHANGED <<now, page, put, asks, mishaps>>
  BY DEF RemindersInv, TypeOK, Procs, Deliver
<1>1. CASE Deliverable(r) /\ open /\ member /\ ~\E n \in sent : n.gen = row.gen
  BY <1>1, NotifyStep
<1>2. CASE Deliverable(r) /\ ~(open /\ member /\ ~\E n \in sent : n.gen = row.gen)
  <2>1. /\ row' = [Unclaimed(row) EXCEPT !.state = "delivered", !.missing = "no"]
        /\ sent' = sent /\ Goto(r, "uncounted")
    BY <1>2 DEF Deliver
  <2>2. RowKept
    BY <1>0, <1>2, <2>1, DeliveredKept
  <2>3. "uncounted" \in Quiet
    BY DEF Quiet
  <2>. QED
    BY <1>0, <2>1, <2>2, <2>3, GotoQuiet
<1>3. CASE ~Deliverable(r)
  <2>1. /\ UNCHANGED <<row, sent>>
        /\ proc' = [proc EXCEPT ![r].pc = "release", ![r].again = TRUE,
                                ![r].then = IF proc[r].again THEN "sweep" ELSE "due"]
    BY <1>3 DEF Deliver
  <2>. DEFINE then == IF proc[r].again THEN "sweep" ELSE "due"
              w == [proc[r] EXCEPT !.pc = "release", !.again = TRUE, !.then = then]
  <2>2. proc' = [proc EXCEPT ![r] = w] /\ then \in {"sweep", "due"}
    BY <1>0, <2>1
  <2>. HIDE DEF then
  <2>3. w \in Proc /\ w.pc = "release" /\ w.gen = proc[r].gen
    BY <1>0, <2>2 DEF Proc
  <2>. HIDE DEF w
  <2>. QED
    BY <1>0, <2>1, <2>2, <2>3, RowSame, QuietStep DEF Quiet
<1>. QED
  BY <1>1, <1>2, <1>3

-----------------------------------------------------------------------------
(* The invariant, and what follows from it.                                *)

LEMMA InitInv == Init => RemindersInv
<1>. SUFFICES ASSUME Init PROVE RemindersInv
  OBVIOUS
<1>. USE Bounds DEF Init
<1>1. doc \in Content /\ proj = doc
  BY DEF Content
<1>2. row \in Row /\ row.state = "none" /\ row.gen = 0
  BY DEF Row, Relative
<1>3. put \in Put /\ put.pc = "idle"
  BY NoPutTyped
<1>4. ProcsTyped
  BY IdleTyped DEF ProcsTyped, Procs
<1>5. TypeOK
  BY <1>1, <1>2, <1>3, <1>4 DEF TypeOK, ProcsTyped, Procs
<1>6. WorldInv
  <2>1. doc.seq \in Nat
    BY <1>1 DEF Content
  <2>. QED
    BY <1>1, <1>2, <1>3, <2>1 DEF WorldInv, PageOrdered, RowDue, SentPast, Standing
<1>7. ProcsFollow
  <2>1. "idle" \in Quiet
    BY DEF Quiet
  <2>2. Follows(Idle, row, proj, sent, asks)
    BY <1>2, <2>1, IdleFollows
  <2>. QED
    BY <2>2 DEF ProcsFollow, Procs
<1>. QED
  BY <1>5, <1>6, <1>7 DEF RemindersInv

LEMMA InvStep == RemindersInv /\ [Next]_vars => RemindersInv'
<1>. SUFFICES ASSUME RemindersInv, [Next]_vars PROVE RemindersInv'
  OBVIOUS
<1>1. CASE UNCHANGED vars
  <2>1. RowKept
    BY <1>1, RowSame DEF vars
  <2>2. UNCHANGED <<now, doc, proj, put, asks, sent, proc>> /\ mishaps' = mishaps
          /\ open' \in BOOLEAN /\ member' \in BOOLEAN
    BY <1>1 DEF vars, page, RemindersInv, TypeOK
  <2>. QED
    BY <2>1, <2>2, RowStep
<1>2. CASE Tick \/ Edit \/ Compact \/ Archive \/ Membership \/ PutRead \/ Delete \/ ClaimAges
             \/ MissingAges
  BY <1>2, PageSteps
<1>3. CASE PutSave
  BY <1>3, PutSaveStep
<1>4. ASSUME NEW p \in Procs, Reconcile(p) \/ ReconcileFail(p) \/ Crash(p) PROVE RemindersInv'
  BY <1>4, ReconcileSteps
<1>5. ASSUME NEW r \in Run,
             Start(r) \/ Step(r) \/ ReadRoom(r) \/ Fail(r) \/ SweepNothing(r) \/ SweepPick(r)
               \/ SweepRead(r)
      PROVE RemindersInv'
  BY <1>5, ClaimStep, CheckPageStep, DeliverStep, ReleaseStep, SweepSteps, ReadRoomStep, FailStep
  DEF Step
<1>. QED
  BY <1>1, <1>2, <1>3, <1>4, <1>5 DEF Next, Procs

LEMMA RemindersAlways == Spec => []RemindersInv
<1>1. RemindersInv /\ [Next]_vars => RemindersInv'
  BY InvStep
<1>. QED
  BY <1>1, InitInv, PTL DEF Spec

\* The page, the reminder, the requests and the runs are typed in every reachable state,
\* for any numbers of runs, moments, edits and requests.
THEOREM RemindersTypeCorrect == Spec => []TypeOK
<1>1. RemindersInv => TypeOK
  BY DEF RemindersInv
<1>. QED
  BY <1>1, RemindersAlways, PTL

\* Two notifications of one request have different moments: between them the reminder
\* was moved, and it moves only to a moment that is to come.
LEMMA OnceStep == RemindersInv /\ OncePerMoment /\ [Next]_vars => OncePerMoment'
<1>. SUFFICES ASSUME RemindersInv, OncePerMoment, [Next]_vars PROVE OncePerMoment'
  OBVIOUS
<1>1. CASE sent' = sent
  BY <1>1 DEF OncePerMoment
<1>2. ASSUME NEW r \in Run, Deliver(r), sent' # sent PROVE OncePerMoment'
  <2>. DEFINE new == [gen |-> row.gen, due |-> row.due, ask |-> asks]
  <2>1. /\ sent' = sent \cup {new} /\ Deliverable(r) /\ proc[r].pc = "batch"
        /\ ~\E n \in sent : n.gen = row.gen
    BY <1>2 DEF Deliver
  <2>2. new.gen = row.gen /\ new.due = row.due /\ new.ask = asks
    OBVIOUS
  <2>3. row.state \in Standing /\ row.due \in Nat
    BY <2>1, Bounds, DeliverableIsCurrent DEF Standing, Time
  <2>4. ASSUME NEW n \in sent, n.ask = asks PROVE n.due < row.due /\ n.due \in Nat
    BY <2>1, <2>3, <2>4, Bounds DEF RemindersInv, WorldInv, SentPast, TypeOK, Time
  <2>. HIDE DEF new
  <2>5. \A n \in sent : ~(n.due = new.due /\ n.ask = new.ask)
    BY <2>2, <2>3, <2>4
  <2>. QED
    BY <2>1, <2>5 DEF OncePerMoment
<1>3. sent' = sent \/ \E r \in Run : Deliver(r)
  BY DEF Next, vars, Tick, Edit, Compact, Archive, Membership, PutRead, PutSave, Delete, ClaimAges,
         MissingAges, Reconcile, ReconcileRead, ReconcileApply, ReconcileFail, Crash, Start, Step,
         Claim, CheckPage, ReadRoom, Fail, TakeBack, Release, SweepNothing, SweepPick, SweepOut,
         SweepRead, SweepFail
<1>. QED
  BY <1>1, <1>2, <1>3

\* A moment that was asked for once is notified once, whoever claims it, takes it over,
\* fails or tries again, and wherever the date moves in between.
THEOREM MomentIsNotifiedOnce == Spec => []OncePerMoment
<1>1. Init => OncePerMoment
  BY DEF Init, OncePerMoment
<1>2. RemindersInv /\ OncePerMoment /\ [Next]_vars => OncePerMoment'
  BY OnceStep
<1>. QED
  BY <1>1, <1>2, RemindersAlways, PTL DEF Spec

\* Whoever is notified is notified of what the projection of the page shows at that
\* instant, whatever the run has read before and whatever happened since.
THEOREM NotificationsAreCurrent == Spec => NotifiesCurrent
<1>1. RemindersInv /\ [Next]_vars =>
        [\A n \in sent' \ sent :
           /\ open /\ member /\ row.state = "claimed" /\ row.gen = n.gen
           /\ proj.date # Absent /\ DueAt(proj.date, row.choice) = n.due
           /\ n.due <= now]_vars
  <2>. SUFFICES ASSUME RemindersInv, Next, NEW n \in sent' \ sent
                PROVE /\ open /\ member /\ row.state = "claimed" /\ row.gen = n.gen
                      /\ proj.date # Absent /\ DueAt(proj.date, row.choice) = n.due
                      /\ n.due <= now
    OBVIOUS
  <2>1. PICK r \in Run : Deliver(r)
    BY DEF Next, Tick, Edit, Compact, Archive, Membership, PutRead, PutSave, Delete, ClaimAges,
           MissingAges, Reconcile, ReconcileRead, ReconcileApply, ReconcileFail, Crash, Start,
           Step, Claim, CheckPage, ReadRoom, Fail, TakeBack, Release, SweepNothing, SweepPick,
           SweepOut, SweepRead, SweepFail
  <2>2. /\ Deliverable(r) /\ open /\ member /\ proc[r].pc = "batch"
        /\ n = [gen |-> row.gen, due |-> row.due, ask |-> asks]
    BY <2>1 DEF Deliver
  <2>. QED
    BY <2>2, DeliverableIsCurrent
<1>. QED
  BY <1>1, RemindersAlways, PTL DEF Spec, NotifiesCurrent
=============================================================================
