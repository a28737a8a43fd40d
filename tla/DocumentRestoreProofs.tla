------------------------ MODULE DocumentRestoreProofs ------------------------
(***************************************************************************)
(* Proofs about DocumentRestore for any number of epochs and edits: D1     *)
(* decides whether a restore took place, and what the rooms put, keep and  *)
(* delete in R2 agrees with it, whichever of them reconciles when.         *)
(*                                                                         *)
(* The invariant speaks of pages that exist.  Its heart is what a room     *)
(* knows of the page while it is somewhere in a restore: until its batch,  *)
(* nobody but this room can move the page from its epoch.                  *)
(***************************************************************************)
EXTENDS DocumentRestore, SequenceTheorems, TLAPS

RoomState ==
  [status: {"down", "starting", "up"}, pc: Step, purged: BOOLEAN, doc: SUBSET Edit,
   dirty: BOOLEAN, running: Caller \cup {"none"}, seen: SUBSET Edit, put: BOOLEAN,
   waiting: Seq(Caller), latch: BOOLEAN, chosen: SUBSET Edit, backup: SUBSET Version]

StoreState ==
  [meta: BOOLEAN, retired: BOOLEAN, pending: BOOLEAN, backup: SUBSET Version,
   deferred: BOOLEAN, quiet: BOOLEAN, alarm: BOOLEAN, log: SUBSET Edit]

-----------------------------------------------------------------------------
(* The inductive invariant.                                                *)

AtEpoch == {"validating", "compacting", "backingUp", "seeding", "committing", "undoing",
            "undoingOld"}
Announced == {"backingUp", "seeding", "committing"}
Unannounced == {"validating", "compacting", "archiveReading", "archiving"}
Resolving == {"reconciling", "undoingOld", "undoingLater"}
OfRestore == Step \ {"idle", "archiveReading", "archiving"}

\* The step of a room whose compaction is to leave a version.
StepOf(caller) == IF caller = "restore" THEN "compacting" ELSE "archiving"

\* One call at most is about a version, and the room is at its step.
OneVersioned(m) ==
  /\ m.running \notin {"none", "plain"} =>
       m.pc = StepOf(m.running) /\ \A i \in 1..Len(m.waiting) : m.waiting[i] = "plain"
  /\ \A i \in 1..Len(m.waiting) : m.waiting[i] # "plain" =>
       /\ m.pc = StepOf(m.waiting[i])
       /\ \A j \in 1..Len(m.waiting) : m.waiting[j] # "plain" => j = i

\* An object has what its storage says it is there for.
Lives(m, s) ==
  /\ ~m.purged
  /\ m.status = "down" => m = Down
  /\ m.status = "starting" =>
       m.pc \in Resolving /\ s.pending /\ m.running = "none" /\ m.waiting = <<>>
  /\ m.status = "up" => s.meta
  /\ ~s.meta => s = Blank

\* What a room e knows of the page, whose epoch is c.
Place(e, c, m, s) ==
  /\ s.pending \/ m.pc \in OfRestore => e < MaxEpoch
  /\ m.pc \in AtEpoch => c = e
  /\ m.pc = "undoingLater" => c > e + 1
  /\ m.pc # "undoingDeleted"
  /\ s.retired => c > e
  /\ s.meta /\ ~s.retired /\ ~s.pending => c = e

BackupsOf(e) == {v \in Version : v.kind = "backup" /\ v.epoch = e}

\* The object knows what is recorded of its restore.
Recalls(e, m, s) ==
  /\ m.pc \in Announced => s.pending /\ m.backup = s.backup
  /\ m.pc \in Unannounced => ~s.pending
  /\ m.pc # "idle" => s.backup \subseteq m.backup
  /\ m.backup \subseteq BackupsOf(e) /\ s.backup \subseteq BackupsOf(e)

Own(e, c, m, s) ==
  OneVersioned(m) /\ Lives(m, s) /\ Place(e, c, m, s) /\ Recalls(e, m, s)

AllOwn == \A e \in Room : Own(e, current, room[e], store[e])

FutureIsBlank ==
  \A e \in Room : e > current => room[e] = Down /\ store[e] = Blank /\ acked[e] = {}

\* The snapshot of the epoch is there, and of a later one only while its restore is
\* recorded.
SnapshotsAgree ==
  /\ \A e \in Room : e > current /\ snapshots[e].exists =>
       e = current + 1 /\ store[current].pending
  /\ current > 1 => snapshots[current].exists
  /\ room[current].pc = "committing" => snapshots[current + 1].exists

\* An object without a row is a recorded backup; a restore that took place has its rows.
ObjectsAgree ==
  /\ \A v \in objects \ rows : v \in store[v.epoch].backup
  /\ \A e \in Room : e < current => store[e].backup \subseteq rows
  /\ \A v \in rows : v.kind = "backup" => v.epoch < current

\* What was acknowledged in the page's epoch, where a is acked, n the snapshot and o
\* the objects.
Keeps(m, s, a, n, o) ==
  /\ a \subseteq s.log \cup n.seen
  /\ m.status = "up" => a \subseteq m.doc /\ s.log \subseteq m.doc /\ n.seen \subseteq m.doc
  /\ m.running # "none" => n.seen \subseteq m.seen /\ m.seen \subseteq m.doc
  /\ m.running # "none" /\ m.put => n.seen = m.seen
  /\ m.running = "restore" => s.log \subseteq m.seen
  /\ m.pc \in Announced =>
       (m.backup = {} => s.log = {}) /\ \A v \in m.backup : a \subseteq v.seen
  /\ m.pc \in {"seeding", "committing"} => m.backup \subseteq o

CurrentKeeps ==
  Keeps(room[current], store[current], acked[current], snapshots[current], objects)

Live == AllOwn /\ FutureIsBlank /\ SnapshotsAgree /\ ObjectsAgree /\ CurrentKeeps

RestoreInv == TypeOK /\ (~deleted => Live)

-----------------------------------------------------------------------------
(* Types.                                                                  *)

PageTyped == current \in Room /\ archived \in BOOLEAN /\ deleted \in BOOLEAN

DataTyped ==
  /\ rows \in SUBSET Version /\ objects \in SUBSET Version
  /\ snapshots \in [Room -> Snapshot] /\ acked \in [Room -> SUBSET Edit]

RoomsTyped ==
  /\ store \in [Room -> StoreState] /\ room \in [Room -> RoomState]
  /\ \A e \in Room : store[e].backup # {} => store[e].pending

LEMMA TypeParts ==
  /\ TypeOK <=> PageTyped /\ DataTyped /\ RoomsTyped
  /\ TypeOK' <=> PageTyped' /\ DataTyped' /\ RoomsTyped'
BY DEF TypeOK, PageTyped, DataTyped, RoomsTyped, StoreState, RoomState

LEMMA Rooms == Room \subseteq Nat /\ 1 \in Room /\ MaxEpoch \in Room
               /\ \A e \in Room : e >= 1 /\ e <= MaxEpoch /\ (e < MaxEpoch => e + 1 \in Room)
BY ConstantsAssumption DEF Room

LEMMA DownTyped == Down \in RoomState /\ Blank \in StoreState
BY DEF Down, Blank, RoomState, StoreState, Step, Caller

\* A room and its storage are replaced.
LEMMA Replaced ==
  ASSUME RoomsTyped, NEW e \in Room, NEW m, NEW s, Set(e, m, s)
  PROVE  /\ room'[e] = m /\ store'[e] = s
         /\ \A f \in Room : f # e => room'[f] = room[f] /\ store'[f] = store[f]
BY DEF RoomsTyped, Set

LEMMA SetTyped ==
  ASSUME RoomsTyped, NEW e \in Room, NEW m \in RoomState, NEW s \in StoreState,
         s.backup # {} => s.pending, Set(e, m, s)
  PROVE  RoomsTyped'
<1>1. room' \in [Room -> RoomState] /\ store' \in [Room -> StoreState]
  BY DEF RoomsTyped, Set
<1>2. ASSUME NEW f \in Room PROVE store'[f].backup # {} => store'[f].pending
  <2>1. CASE f = e
    BY <2>1, Replaced
  <2>2. CASE f # e
    BY <2>2, Replaced DEF RoomsTyped
  <2>3. QED
    BY <2>1, <2>2
<1>3. QED
  BY <1>1, <1>2 DEF RoomsTyped

LEMMA OfRoom ==
  ASSUME RoomsTyped, NEW e \in Room
  PROVE  room[e] \in RoomState /\ store[e] \in StoreState
         /\ (store[e].backup # {} => store[e].pending)
BY DEF RoomsTyped

LEMMA PcTyped ==
  ASSUME NEW m \in RoomState, NEW pc \in Step
  PROVE  [m EXCEPT !.pc = pc] \in RoomState
BY DEF RoomState

LEMMA CaptureTyped ==
  ASSUME NEW m \in RoomState, NEW s \in StoreState, NEW caller \in Caller
  PROVE  Capture(m, s, caller) \in RoomState /\ Compacting(m, s, caller) \in RoomState
<1>1. Capture(m, s, caller) \in RoomState
  BY DEF Capture, RoomState, StoreState
<1> DEFINE q == Append(m.waiting, caller)
<1>2. m.waiting \in Seq(Caller)
  BY DEF RoomState
<1>3. q \in Seq(Caller)
  BY <1>2, AppendProperties
<1>4. [m EXCEPT !.waiting = Append(@, caller)] = [m EXCEPT !.waiting = q]
  BY DEF RoomState
<1> HIDE DEF q
<1>5. [m EXCEPT !.waiting = q] \in RoomState
  BY <1>3 DEF RoomState
<1>6. QED
  BY <1>1, <1>4, <1>5 DEF Compacting

LEMMA LoadedTyped ==
  ASSUME RoomsTyped, DataTyped, NEW e \in Room, NEW s \in StoreState
  PROVE  Loaded(e, s) \in RoomState
<1> DEFINE read == snapshots[e].seen \cup s.log
           behind == s.log # {}
           latched == room[e].latch
<1>1. read \in SUBSET Edit /\ behind \in BOOLEAN
  BY DEF DataTyped, Snapshot, StoreState
<1>2. latched \in BOOLEAN
  BY OfRoom DEF RoomState
<1>3. Loaded(e, s) = [Down EXCEPT !.status = "up", !.dirty = behind, !.doc = read,
                                  !.latch = latched]
  BY DEF Loaded
<1> HIDE DEF read, behind, latched
<1>4. QED
  BY <1>1, <1>2, <1>3, DownTyped DEF RoomState

LEMMA SeededTyped ==
  ASSUME DataTyped, NEW e \in Room
  PROVE  Seeded(e) \in StoreState /\ Seeded(e).backup = {} /\ Seeded(e).pending = FALSE
<1>1. IsCurrent(e) \in BOOLEAN
  BY DEF IsCurrent
<1>2. snapshots[e].seen \in SUBSET Edit
  BY DEF DataTyped, Snapshot
<1>3. QED
  BY <1>1, <1>2, DownTyped DEF Seeded, Blank, StoreState

LEMMA ReconciledTyped ==
  ASSUME RoomsTyped, DataTyped, NEW e \in Room, NEW s \in StoreState,
         s.backup # {} => s.pending, Reconciled(e, s)
  PROVE  RoomsTyped'
<1>1. [room[e] EXCEPT !.pc = "idle"] \in RoomState
  BY OfRoom, PcTyped DEF Step
<1>2. QED
  BY <1>1, LoadedTyped, SetTyped DEF Reconciled

LEMMA SettleTyped ==
  ASSUME RoomsTyped, NEW e \in Room, NEW b \in BOOLEAN
  PROVE  /\ Cleared(store[e], b) \in StoreState /\ Cleared(store[e], b).backup = {}
         /\ Defer(room[e], store[e]) \in StoreState
         /\ Defer(room[e], store[e]).backup = store[e].backup
         /\ Defer(room[e], store[e]).pending = store[e].pending
<1>1. store[e] \in StoreState
  BY OfRoom
<1>2. Cleared(store[e], b) \in StoreState /\ Cleared(store[e], b).backup = {}
  BY <1>1 DEF Cleared, StoreState
<1>3. [store[e] EXCEPT !.deferred = TRUE, !.quiet = TRUE, !.alarm = TRUE] \in StoreState
  BY <1>1 DEF StoreState
<1>4. /\ [store[e] EXCEPT !.deferred = TRUE, !.quiet = TRUE, !.alarm = TRUE].backup
           = store[e].backup
      /\ [store[e] EXCEPT !.deferred = TRUE, !.quiet = TRUE, !.alarm = TRUE].pending
           = store[e].pending
  BY <1>1 DEF StoreState
<1>5. QED
  BY <1>1, <1>2, <1>3, <1>4 DEF Defer

LEMMA ToSets ==
  ASSUME RoomsTyped, NEW e \in Room, NEW pc, To(e, pc)
  PROVE  Set(e, [room[e] EXCEPT !.pc = pc], store[e])
<1>1. room' = [room EXCEPT ![e] = [room[e] EXCEPT !.pc = pc]]
  BY DEF To
<1>2. store' = [store EXCEPT ![e] = store[e]]
  BY DEF To, RoomsTyped
<1>3. QED
  BY <1>1, <1>2 DEF Set

LEMMA ToTyped ==
  ASSUME RoomsTyped, NEW e \in Room, NEW pc \in Step, To(e, pc)
  PROVE  RoomsTyped'
<1>1. [room[e] EXCEPT !.pc = pc] \in RoomState
  BY OfRoom, PcTyped
<1>2. QED
  BY <1>1, ToSets, OfRoom, SetTyped

LEMMA ClearTyped ==
  ASSUME RoomsTyped, NEW e \in Room, NEW m \in RoomState, NEW b \in BOOLEAN, Clear(e, m, b)
  PROVE  RoomsTyped'
<1>1. CASE m.purged
  <2>1. Set(e, m, store[e])
    BY <1>1 DEF Clear
  <2>2. QED
    BY <2>1, OfRoom, SetTyped
<1>2. CASE ~m.purged
  <2>1. Set(e, m, Cleared(store[e], b))
    BY <1>2 DEF Clear
  <2>2. QED
    BY <2>1, SettleTyped, SetTyped
<1>3. QED
  BY <1>1, <1>2

LEMMA CommittedTyped ==
  ASSUME RoomsTyped, NEW e \in Room, Committed(e)
  PROVE  RoomsTyped'
<1>1. CASE Clear(e, [room[e] EXCEPT !.pc = "idle"], TRUE)
  <2>1. [room[e] EXCEPT !.pc = "idle"] \in RoomState
    BY OfRoom, PcTyped DEF Step
  <2>2. QED
    BY <1>1, <2>1, ClearTyped
<1>2. CASE To(e, "idle")
  BY <1>2, ToTyped DEF Step
<1>3. QED
  BY <1>1, <1>2 DEF Committed

LEMMA RecordedTyped ==
  ASSUME RoomsTyped, NEW e \in Room, NEW m \in RoomState, NEW s \in StoreState,
         NEW b \in SUBSET Version, Recorded(e, m, s, b)
  PROVE  RoomsTyped'
<1> DEFINE pc == IF b = {} THEN "seeding" ELSE "backingUp"
<1>0. pc \in Step
  BY DEF Step
<1> HIDE DEF pc
<1>1. [m EXCEPT !.pc = pc, !.backup = b] \in RoomState
  BY <1>0 DEF RoomState
<1>2. [s EXCEPT !.pending = TRUE, !.backup = b, !.deferred = FALSE, !.quiet = FALSE]
        \in StoreState
  BY DEF StoreState
<1>3. [s EXCEPT !.pending = TRUE, !.backup = b, !.deferred = FALSE, !.quiet = FALSE].pending
  BY DEF StoreState
<1>4. QED
  BY <1>1, <1>2, <1>3, SetTyped DEF Recorded, pc

LEMMA EndedTyped ==
  ASSUME RoomsTyped, NEW e \in Room, NEW m \in RoomState, NEW s \in StoreState,
         s.backup # {} => s.pending, NEW caller, Ended(e, m, s, caller)
  PROVE  RoomsTyped'
<1>1. [m EXCEPT !.pc = "idle"] \in RoomState /\ [m EXCEPT !.pc = "checking"] \in RoomState
  BY PcTyped DEF Step
<1>2. QED
  BY <1>1, SetTyped, RecordedTyped DEF Ended

-----------------------------------------------------------------------------
(* Every step keeps the types.                                             *)

\* What a step that leaves the page and the stores alone keeps.
LEMMA DataKept ==
  ASSUME DataTyped, UNCHANGED rows, UNCHANGED r2, UNCHANGED acked
  PROVE  DataTyped'
BY DEF DataTyped, r2

LEMMA PageKept ==
  ASSUME PageTyped, UNCHANGED page
  PROVE  PageTyped'
BY DEF PageTyped, page

LEMMA LifeTyped ==
  ASSUME PageTyped, DataTyped, RoomsTyped, NEW e \in Room, Start(e) \/ Stop(e) \/ Purge(e)
  PROVE  RoomsTyped'
<1>1. CASE Start(e)
  <2>1. CASE ~store[e].meta
    <3>1. Set(e, Loaded(e, Seeded(e)), Seeded(e))
      BY <1>1, <2>1 DEF Start
    <3>2. QED
      BY <3>1, SeededTyped, LoadedTyped, SetTyped
  <2>2. CASE store[e].meta /\ store[e].pending
    <3> DEFINE m == [Down EXCEPT !.status = "starting", !.latch = TRUE, !.pc = "reconciling",
                                 !.backup = store[e].backup]
    <3>1. Set(e, m, store[e])
      BY <1>1, <2>2 DEF Start
    <3>2. m \in RoomState
      BY OfRoom, DownTyped DEF RoomState, StoreState, Step
    <3>3. QED
      BY <3>1, <3>2, OfRoom, SetTyped
  <2>3. CASE store[e].meta /\ ~store[e].pending
    <3> DEFINE s == [store[e] EXCEPT !.alarm = @ \/ store[e].log # {}]
    <3>1. Set(e, Loaded(e, store[e]), s)
      BY <1>1, <2>3 DEF Start
    <3>2. s \in StoreState /\ s.backup = store[e].backup /\ s.pending = store[e].pending
      BY OfRoom DEF StoreState
    <3>3. QED
      BY <3>1, <3>2, OfRoom, LoadedTyped, SetTyped
  <2>4. QED
    BY <2>1, <2>2, <2>3
<1>2. CASE Stop(e)
  <2> DEFINE a == store[e].alarm \/ (room[e].status = "up" /\ ~room[e].purged
             /\ room[e].pc \in {"reconciling", "undoingOld", "undoingDeleted", "undoingLater"})
             s == [store[e] EXCEPT !.alarm = a]
  <2>1. Set(e, Down, s)
    BY <1>2 DEF Stop
  <2>2. a \in BOOLEAN
    BY OfRoom DEF StoreState
  <2> HIDE DEF a
  <2>3. s \in StoreState /\ s.backup = store[e].backup /\ s.pending = store[e].pending
    BY <2>2, OfRoom DEF StoreState
  <2>4. QED
    BY <2>1, <2>3, OfRoom, DownTyped, SetTyped
<1>3. CASE Purge(e)
  <2>1. [room[e] EXCEPT !.status = "up", !.purged = TRUE] \in RoomState
    BY OfRoom DEF RoomState
  <2>2. Blank.backup = {}
    BY DEF Blank
  <2>3. QED
    BY <1>3, <2>1, <2>2, DownTyped, SetTyped DEF Purge
<1>4. QED
  BY <1>1, <1>2, <1>3

LEMMA EditTyped ==
  ASSUME DataTyped, RoomsTyped, NEW e \in Room, NEW x \in Edit, Save(e, x)
  PROVE  DataTyped' /\ RoomsTyped'
<1> DEFINE m == [room[e] EXCEPT !.doc = @ \cup {x}, !.dirty = TRUE]
           s == [store[e] EXCEPT !.log = @ \cup {x}, !.alarm = TRUE]
<1>1. Set(e, m, s) /\ acked' = [acked EXCEPT ![e] = @ \cup {x}] /\ UNCHANGED <<rows, r2>>
  BY DEF Save
<1>2. m \in RoomState
  BY OfRoom DEF RoomState
<1>3. s \in StoreState /\ s.backup = store[e].backup /\ s.pending = store[e].pending
  BY OfRoom DEF StoreState
<1>4. RoomsTyped'
  BY <1>1, <1>2, <1>3, OfRoom, SetTyped
<1>5. DataTyped'
  BY <1>1 DEF DataTyped, r2
<1>6. QED
  BY <1>4, <1>5

\* A room that has no compaction any more.
Rested(m) == [m EXCEPT !.running = "none", !.seen = {}, !.put = FALSE]

LEMMA RestedTyped ==
  ASSUME NEW m \in RoomState
  PROVE  Rested(m) \in RoomState
BY DEF Rested, RoomState

LEMMA CompactionTyped ==
  ASSUME DataTyped, RoomsTyped, NEW e \in Room, CompactionStep(e)
  PROVE  DataTyped' /\ RoomsTyped'
<1>1. CASE Compact(e)
  <2>1. Set(e, Compacting(room[e], store[e], "plain"), store[e])
    BY <1>1 DEF Compact
  <2>2. QED
    BY <1>1, <2>1, CaptureTyped, OfRoom, SetTyped, DataKept DEF Compact, Caller
<1>2. CASE Turn(e)
  <2> DEFINE caller == Head(room[e].waiting)
             m == [room[e] EXCEPT !.waiting = Tail(@)]
             n == Capture(m, store[e], caller)
  <2>1. room[e].waiting \in Seq(Caller) /\ room[e].waiting # <<>>
    BY <1>2, OfRoom DEF Turn, TurnDue, RoomState
  <2>2. caller \in Caller /\ Tail(room[e].waiting) \in Seq(Caller)
    BY <2>1, HeadTailProperties
  <2>3. m \in RoomState
    BY <2>2, OfRoom DEF RoomState
  <2>4. \/ Ended(e, n, store[e], caller)
        \/ Set(e, n, store[e])
    BY <1>2 DEF Turn
  <2> HIDE DEF caller, m
  <2>5. n \in RoomState
    BY <2>2, <2>3, CaptureTyped, OfRoom
  <2> HIDE DEF n
  <2>6. RoomsTyped'
    BY <2>4, <2>5, OfRoom, SetTyped, EndedTyped
  <2>7. QED
    BY <1>2, <2>6, DataKept DEF Turn
<1>3. CASE PutSnapshot(e)
  <2> DEFINE m == [room[e] EXCEPT !.put = TRUE]
  <2>1. Set(e, m, store[e])
    BY <1>3 DEF PutSnapshot, Set, RoomsTyped
  <2>2. m \in RoomState
    BY OfRoom DEF RoomState
  <2>3. RoomsTyped'
    BY <2>1, <2>2, OfRoom, SetTyped
  <2>4. Stored(room[e].seen) \in Snapshot
    BY OfRoom DEF Stored, Snapshot, RoomState
  <2>5. DataTyped'
    BY <1>3, <2>4 DEF PutSnapshot, DataTyped
  <2>6. QED
    BY <2>3, <2>5
<1>4. CASE FinishCompaction(e)
  <2> DEFINE s == [store[e] EXCEPT !.log = Trimmed(e)]
  <2>1. Ended(e, Rested(room[e]), s, room[e].running)
    BY <1>4 DEF FinishCompaction, Rested
  <2>2. s \in StoreState /\ s.backup = store[e].backup /\ s.pending = store[e].pending
    BY OfRoom DEF StoreState, Trimmed
  <2>3. RoomsTyped'
    BY <2>1, <2>2, RestedTyped, OfRoom, EndedTyped
  <2>4. Saved(e) \in Version
    BY OfRoom DEF Saved, Version, RoomState
  <2>5. /\ rows' \in {rows, rows \cup {Saved(e)}} /\ objects' \in {objects, objects \cup {Saved(e)}}
        /\ UNCHANGED <<snapshots, acked>>
    BY <1>4 DEF FinishCompaction
  <2>6. DataTyped'
    BY <2>4, <2>5 DEF DataTyped
  <2>7. QED
    BY <2>3, <2>6
<1>5. CASE FailCompaction(e)
  <2> DEFINE d == ~room[e].purged
             a == store[e].alarm \/ ~room[e].purged
             m == [Rested(room[e]) EXCEPT !.dirty = d]
             pc == IF room[e].running = "restore" THEN "checking"
                   ELSE IF room[e].running = "archive" THEN "idle" ELSE m.pc
             s == [store[e] EXCEPT !.alarm = a]
  <2>1. Set(e, [m EXCEPT !.pc = pc], s)
    BY <1>5, OfRoom DEF FailCompaction, Rested, RoomState
  <2>2. d \in BOOLEAN /\ a \in BOOLEAN
    BY OfRoom DEF RoomState, StoreState
  <2> HIDE DEF d, a
  <2>3. m \in RoomState
    BY <2>2, RestedTyped, OfRoom DEF RoomState
  <2>4. pc \in Step
    BY <2>3 DEF RoomState, Step
  <2>5. s \in StoreState /\ s.backup = store[e].backup /\ s.pending = store[e].pending
    BY <2>2, OfRoom DEF StoreState
  <2> HIDE DEF m, pc, s
  <2>6. [m EXCEPT !.pc = pc] \in RoomState
    BY <2>3, <2>4, PcTyped
  <2>7. RoomsTyped'
    BY <2>1, <2>5, <2>6, OfRoom, SetTyped
  <2>8. QED
    BY <1>5, <2>7, DataKept DEF FailCompaction
<1>6. QED
  BY <1>1, <1>2, <1>3, <1>4, <1>5 DEF CompactionStep

LEMMA ArchiveTyped ==
  ASSUME RoomsTyped, NEW e \in Room, RequestArchive(e) \/ Archive(e)
  PROVE  RoomsTyped'
<1>1. CASE RequestArchive(e)
  <2>1. To(e, "archiveReading")
    BY <1>1 DEF RequestArchive, To
  <2>2. QED
    BY <2>1, ToTyped DEF Step
<1>2. CASE Archive(e)
  <2> DEFINE m == [room[e] EXCEPT !.pc = "archiving"]
  <2>1. \/ Set(e, Compacting(m, store[e], "archive"), store[e])
        \/ Set(e, [m EXCEPT !.pc = "idle"], store[e])
    BY <1>2 DEF Archive
  <2>2. m \in RoomState
    BY OfRoom, PcTyped DEF Step
  <2> HIDE DEF m
  <2>3. QED
    BY <2>1, <2>2, PcTyped, CaptureTyped, OfRoom, SetTyped DEF Step, Caller
<1>3. QED
  BY <1>1, <1>2

LEMMA DeleteTyped ==
  ASSUME DataTyped, NEW seeds, NEW backups, Delete(seeds, backups), UNCHANGED <<rows, acked>>
  PROVE  DataTyped'
<1>1. Missing \in Snapshot
  BY DEF Missing, Snapshot
<1>2. \A f \in Room : snapshots[f] \in Snapshot
  BY DEF DataTyped
<1>3. snapshots' \in [Room -> Snapshot]
  BY <1>1, <1>2 DEF Delete
<1>4. QED
  BY <1>3 DEF Delete, DataTyped

LEMMA RestoringTyped ==
  ASSUME TypeOK, NEW e \in Room, Restoring(e), Commit(e) /\ ~deleted => e < MaxEpoch
  PROVE  TypeOK'
<1> USE TypeParts
<1>1. CASE RequestRestore(e)
  <2>1. To(e, "validating")
    BY <1>1 DEF RequestRestore, To
  <2>2. QED
    BY <1>1, <2>1, ToTyped, DataKept, PageKept DEF RequestRestore, Step, To
<1>2. CASE Refuse(e)
  <2>1. To(e, "idle")
    BY <1>2 DEF Refuse, To
  <2>2. QED
    BY <1>2, <2>1, ToTyped, DataKept, PageKept DEF Refuse, Step, To
<1>3. ASSUME NEW v \in Version, Validate(e, v) PROVE TypeOK'
  <2> DEFINE m == [room[e] EXCEPT !.pc = "compacting", !.chosen = v.seen]
  <2>1. \/ Set(e, Compacting(m, store[e], "restore"), store[e])
        \/ Recorded(e, m, store[e], {Backup(e)})
    BY <1>3 DEF Validate
  <2>2. m \in RoomState
    <3>1. v.seen \in SUBSET Edit /\ "compacting" \in Step
      BY DEF Version, Step
    <3>2. QED
      BY <3>1, OfRoom DEF RoomState
  <2>3. {Backup(e)} \in SUBSET Version
    BY OfRoom DEF Backup, Version, RoomState
  <2> HIDE DEF m
  <2>4. RoomsTyped'
    BY <2>1, <2>2, <2>3, CaptureTyped, OfRoom, SetTyped, RecordedTyped DEF Caller
  <2>5. QED
    BY <1>3, <2>4, DataKept, PageKept DEF Validate
<1>4. CASE PutBackup(e)
  <2>1. RoomsTyped'
    BY <1>4, ToTyped DEF PutBackup, Step
  <2>2. objects' \in {objects, objects \cup room[e].backup} /\ UNCHANGED <<rows, snapshots, acked>>
    BY <1>4 DEF PutBackup
  <2>3. room[e].backup \in SUBSET Version
    BY OfRoom DEF RoomState
  <2>4. DataTyped'
    BY <2>2, <2>3 DEF DataTyped
  <2>5. QED
    BY <1>4, <2>1, <2>4, PageKept DEF PutBackup
<1>5. CASE PutSeed(e)
  <2>1. RoomsTyped'
    BY <1>5, ToTyped DEF PutSeed, Step
  <2>2. Stored(room[e].chosen) \in Snapshot
    BY OfRoom DEF RoomState, Stored, Snapshot
  <2>3. DataTyped'
    BY <1>5, <2>2 DEF PutSeed, DataTyped
  <2>4. QED
    BY <1>5, <2>1, <2>3, PageKept DEF PutSeed
<1>6. CASE Commit(e)
  <2>1. RoomsTyped'
    BY <1>6, ToTyped, CommittedTyped DEF Commit, Step
  <2>2. rows' \in {rows, rows \cup room[e].backup} /\ UNCHANGED <<snapshots, objects, acked>>
    BY <1>6 DEF Commit, r2
  <2>3. room[e].backup \in SUBSET Version
    BY OfRoom DEF RoomState
  <2>4. DataTyped'
    BY <2>2, <2>3 DEF DataTyped
  <2>5. current' = current \/ (current' = e + 1 /\ ~deleted)
    BY <1>6 DEF Commit, MayCommit, IsCurrent
  <2>6. PageTyped'
    BY <1>6, <2>5, Rooms DEF Commit, PageTyped
  <2>7. QED
    BY <2>1, <2>4, <2>6
<1>7. CASE Check(e)
  <2>1. RoomsTyped'
    <3>1. CASE Committed(e)
      BY <3>1, CommittedTyped
    <3>2. CASE To(e, "undoing")
      BY <3>2, ToTyped DEF Step
    <3>3. CASE Set(e, [room[e] EXCEPT !.pc = "idle"], Defer(room[e], store[e]))
      BY <3>3, PcTyped, OfRoom, SettleTyped, SetTyped DEF Step
    <3>4. QED
      BY <1>7, <3>1, <3>2, <3>3 DEF Check
  <2>2. QED
    BY <1>7, <2>1, DataKept, PageKept DEF Check
<1>8. CASE Undo(e)
  <2>1. [room[e] EXCEPT !.pc = "idle"] \in RoomState
    BY PcTyped, OfRoom DEF Step
  <2>2. \/ Clear(e, [room[e] EXCEPT !.pc = "idle"], FALSE)
        \/ Set(e, [room[e] EXCEPT !.pc = "idle"], Defer(room[e], store[e]))
    BY <1>8 DEF Undo
  <2>3. RoomsTyped'
    BY <2>1, <2>2, ClearTyped, OfRoom, SettleTyped, SetTyped
  <2>4. DataTyped'
    BY <1>8, DeleteTyped DEF Undo
  <2>5. QED
    BY <1>8, <2>3, <2>4, PageKept DEF Undo
<1>9. QED
  BY <1>1, <1>2, <1>3, <1>4, <1>5, <1>6, <1>7, <1>8 DEF Restoring

LEMMA RecoveryTyped ==
  ASSUME TypeOK, NEW e \in Room, Recovery(e)
  PROVE  TypeOK'
<1> USE TypeParts
<1>1. CASE EndQuiet(e)
  <2>1. Set(e, room[e], [store[e] EXCEPT !.quiet = FALSE])
    BY <1>1 DEF EndQuiet, Set, RoomsTyped
  <2>2. [store[e] EXCEPT !.quiet = FALSE] \in StoreState
        /\ [store[e] EXCEPT !.quiet = FALSE].backup = store[e].backup
        /\ [store[e] EXCEPT !.quiet = FALSE].pending = store[e].pending
    BY OfRoom DEF StoreState
  <2>3. RoomsTyped'
    BY <2>1, <2>2, OfRoom, SetTyped
  <2>4. QED
    BY <1>1, <2>3, DataKept, PageKept DEF EndQuiet
<1>2. CASE Alarm(e)
  <2> DEFINE s == [store[e] EXCEPT !.alarm = FALSE]
  <2>1. s \in StoreState /\ s.backup = store[e].backup /\ s.pending = store[e].pending
    BY OfRoom DEF StoreState
  <2>2. CASE AlarmPending(e)
    <3> DEFINE m == [room[e] EXCEPT !.latch = FALSE]
               n == [room[e] EXCEPT !.pc = "reconciling", !.backup = store[e].backup]
    <3>1. Set(e, m, store[e]) \/ Set(e, n, s)
      BY <2>2 DEF AlarmPending, Rearmed
    <3>2. m \in RoomState /\ n \in RoomState
      BY OfRoom DEF RoomState, StoreState, Step
    <3>3. QED
      BY <1>2, <2>1, <3>1, <3>2, OfRoom, SetTyped, DataKept, PageKept DEF Alarm
  <2>3. CASE AlarmSettled(e)
    <3>1. Set(e, Compacting(room[e], store[e], "plain"), s) \/ Set(e, room[e], s)
      BY <2>3 DEF AlarmSettled
    <3>2. RoomsTyped'
      BY <2>1, <3>1, OfRoom, SetTyped, CaptureTyped DEF Caller
    <3>3. QED
      BY <1>2, <3>2, DataKept, PageKept DEF Alarm
  <2>4. QED
    BY <1>2, <2>2, <2>3 DEF Alarm
<1>3. CASE ReadEpoch(e)
  <2>1. RoomsTyped'
    <3>1. CASE Reconciled(e, store[e])
      BY <3>1, OfRoom, ReconciledTyped
    <3>2. CASE Reconciled(e, Cleared(store[e], TRUE))
      BY <3>2, SettleTyped, ReconciledTyped
    <3>3. CASE To(e, "undoingOld") \/ To(e, "undoingLater") \/ To(e, "undoingDeleted")
      BY <3>3, ToTyped DEF Step
    <3>4. QED
      BY <1>3, <3>1, <3>2, <3>3 DEF ReadEpoch
  <2>2. QED
    BY <1>3, <2>1, DataKept, PageKept DEF ReadEpoch
<1>4. CASE Reconcile(e)
  <2>1. Reconciled(e, store[e]) \/ Reconciled(e, Cleared(store[e], Retires(e)))
    BY <1>4 DEF Reconcile
  <2>2. Retires(e) \in BOOLEAN
    BY DEF Retires
  <2>3. RoomsTyped'
    BY <2>1, <2>2, OfRoom, SettleTyped, ReconciledTyped
  <2>4. DataTyped'
    BY <1>4, DeleteTyped DEF Reconcile
  <2>5. QED
    BY <1>4, <2>3, <2>4, PageKept DEF Reconcile
<1>5. CASE FailReconcile(e)
  <2>1. RoomsTyped'
    BY <1>5, OfRoom, SettleTyped, ReconciledTyped DEF FailReconcile
  <2>2. DataTyped'
    BY <1>5, DeleteTyped, DataKept DEF FailReconcile
  <2>3. QED
    BY <1>5, <2>1, <2>2, PageKept DEF FailReconcile
<1>6. QED
  BY <1>1, <1>2, <1>3, <1>4, <1>5 DEF Recovery

LEMMA StepTyped ==
  ASSUME RestoreInv, Next
  PROVE  TypeOK'
<1>1. PageTyped /\ DataTyped /\ RoomsTyped
  BY TypeParts DEF RestoreInv
<1>2. CASE ToggleArchived \/ DeletePage
  <2>1. DataTyped' /\ RoomsTyped' /\ PageTyped'
    BY <1>1, <1>2 DEF ToggleArchived, DeletePage, DataTyped, RoomsTyped, PageTyped, r2
  <2>2. QED
    BY <2>1, TypeParts
<1>3. ASSUME NEW e \in Room, Start(e) \/ Stop(e) \/ Purge(e) PROVE TypeOK'
  <2>1. UNCHANGED page /\ UNCHANGED rows /\ UNCHANGED r2 /\ UNCHANGED acked
    BY <1>3 DEF Start, Stop, Purge
  <2>2. QED
    BY <1>1, <1>3, <2>1, LifeTyped, DataKept, PageKept, TypeParts
<1>4. ASSUME NEW e \in Room, NEW x \in Edit, Save(e, x) PROVE TypeOK'
  BY <1>1, <1>4, EditTyped, PageKept, TypeParts DEF Save
<1>5. ASSUME NEW e \in Room, CompactionStep(e) PROVE TypeOK'
  <2>1. UNCHANGED page
    BY <1>5 DEF CompactionStep, Compact, Turn, PutSnapshot, FinishCompaction, FailCompaction
  <2>2. QED
    BY <1>1, <1>5, <2>1, CompactionTyped, PageKept, TypeParts
<1>6. ASSUME NEW e \in Room, Restoring(e) PROVE TypeOK'
  <2>1. Commit(e) /\ ~deleted => e < MaxEpoch
    BY DEF Commit, RestoreInv, Live, AllOwn, Own, Place, OfRestore, Step
  <2>2. QED
    BY <1>6, <2>1, RestoringTyped DEF RestoreInv
<1>7. ASSUME NEW e \in Room, Recovery(e) PROVE TypeOK'
  BY <1>7, RecoveryTyped DEF RestoreInv
<1>8. ASSUME NEW e \in Room, RequestArchive(e) \/ Archive(e) PROVE TypeOK'
  <2>1. UNCHANGED page /\ UNCHANGED rows /\ UNCHANGED r2 /\ UNCHANGED acked
    BY <1>8 DEF RequestArchive, Archive
  <2>2. QED
    BY <1>1, <1>8, <2>1, ArchiveTyped, DataKept, PageKept, TypeParts
<1>9. QED
  BY <1>2, <1>3, <1>4, <1>5, <1>6, <1>7, <1>8 DEF Next

-----------------------------------------------------------------------------
(* What a step of one room leaves alone.                                   *)

LEMMA Reached ==
  ASSUME TypeOK, Live, NEW e \in Room
  PROVE  e > current =>
           /\ room[e].status = "down" /\ room[e].pc = "idle" /\ room[e].running = "none"
           /\ room[e].waiting = <<>> /\ ~store[e].pending /\ ~store[e].alarm /\ ~store[e].quiet
BY DEF Live, FutureIsBlank, Down, Blank

LEMMA Mine ==
  ASSUME TypeOK, Live, NEW e \in Room
  PROVE  /\ e \in Nat /\ current \in Room /\ current \in Nat
         /\ Own(e, current, room[e], store[e])
         /\ (e = current => Keeps(room[e], store[e], acked[e], snapshots[e], objects))
BY TypeParts, Rooms DEF Live, AllOwn, CurrentKeeps, PageTyped

\* The room of e becomes m, its storage s.
LEMMA OwnElsewhere ==
  ASSUME TypeOK, Live, NEW e \in Room, NEW m, NEW s, Set(e, m, s),
         current' = current, e <= current, Own(e, current, m, s),
         \A f \in Room : f > current => acked'[f] = acked[f]
  PROVE  AllOwn' /\ FutureIsBlank'
<1>1. /\ room'[e] = m /\ store'[e] = s
      /\ \A f \in Room : f # e => room'[f] = room[f] /\ store'[f] = store[f]
  BY Replaced, TypeParts
<1>2. ASSUME NEW f \in Room PROVE Own(f, current', room'[f], store'[f])
  BY <1>1 DEF Live, AllOwn
<1>3. ASSUME NEW f \in Room, f > current'
      PROVE  room'[f] = Down /\ store'[f] = Blank /\ acked'[f] = {}
  BY <1>1, <1>3, Mine, Rooms DEF Live, FutureIsBlank
<1>4. QED
  BY <1>2, <1>3 DEF AllOwn, FutureIsBlank

\* Meanwhile versions may be saved, each with its row.
LEMMA VersionStep ==
  ASSUME TypeOK, Live, NEW e \in Room, NEW m, NEW s, Set(e, m, s),
         UNCHANGED page, UNCHANGED snapshots, UNCHANGED acked,
         rows \subseteq rows', objects \subseteq objects',
         objects' \ rows' \subseteq objects \ rows,
         \A v \in rows' \ rows : v.kind # "backup",
         e <= current, Own(e, current, m, s),
         \/ s.pending = store[e].pending /\ s.backup = store[e].backup
         \/ e < current /\ s.backup \subseteq store[e].backup
         \/ e = current /\ ~store[e].pending,
         e = current /\ m.pc = "committing" => snapshots[e + 1].exists,
         e = current => Keeps(m, s, acked[e], snapshots[e], objects')
  PROVE  Live'
<1>1. /\ room'[e] = m /\ store'[e] = s
      /\ \A f \in Room : f # e => room'[f] = room[f] /\ store'[f] = store[f]
  BY Replaced, TypeParts
<1>2. current' = current /\ snapshots' = snapshots /\ acked' = acked
  BY DEF page
<1>3. AllOwn' /\ FutureIsBlank'
  BY <1>2, OwnElsewhere
<1>4. current \in Room /\ e \in Nat /\ current \in Nat
  BY Mine
<1>5. SnapshotsAgree'
  <2>1. ASSUME NEW f \in Room, f > current, snapshots[f].exists
        PROVE  f = current + 1 /\ store'[current].pending
    BY <1>1, <1>4, <2>1 DEF Live, SnapshotsAgree
  <2>2. room'[current].pc = "committing" => snapshots[current + 1].exists
    BY <1>1, <1>4 DEF Live, SnapshotsAgree
  <2>3. QED
    BY <1>2, <2>1, <2>2 DEF Live, SnapshotsAgree
<1>6. ObjectsAgree'
  <2>1. ASSUME NEW v \in objects' \ rows' PROVE v \in store'[v.epoch].backup
    <3>0. v \in objects \ rows
      BY <2>1
    <3>1. v \in store[v.epoch].backup /\ v.epoch \in Room
      BY <3>0, TypeParts DEF Live, ObjectsAgree, DataTyped, Version
    <3>2. ASSUME v.epoch = e PROVE s.backup = store[e].backup
      <4>1. store[e].pending
        BY <3>1, <3>2, OfRoom, TypeParts
      <4>2. ~(e < current)
        BY <3>0, <3>1, <3>2 DEF Live, ObjectsAgree
      <4>3. QED
        BY <4>1, <4>2
    <3>3. QED
      BY <1>1, <3>1, <3>2
  <2>2. ASSUME NEW f \in Room, f < current PROVE store'[f].backup \subseteq rows'
    <3>1. store[f].backup \subseteq rows
      BY <2>2 DEF Live, ObjectsAgree
    <3>2. f = e => s.backup \subseteq store[e].backup
      BY <2>2, <1>4
    <3>3. QED
      BY <1>1, <3>1, <3>2
  <2>3. QED
    BY <1>2, <2>1, <2>2 DEF Live, ObjectsAgree
<1>7. CurrentKeeps'
  <2>1. CASE e = current
    BY <1>1, <1>2, <2>1 DEF CurrentKeeps
  <2>2. CASE e # current
    <3>1. Keeps(room[current], store[current], acked[current], snapshots[current], objects')
      BY DEF Live, CurrentKeeps, Keeps
    <3>2. QED
      BY <1>1, <1>2, <1>4, <2>2, <3>1 DEF CurrentKeeps
  <2>3. QED
    BY <2>1, <2>2
<1>8. QED
  BY <1>3, <1>5, <1>6, <1>7 DEF Live

LEMMA RoomStep ==
  ASSUME TypeOK, Live, NEW e \in Room, NEW m, NEW s, Set(e, m, s),
         UNCHANGED page, UNCHANGED rows, UNCHANGED r2, UNCHANGED acked,
         e <= current, Own(e, current, m, s),
         \/ s.pending = store[e].pending /\ s.backup = store[e].backup
         \/ e < current /\ s.backup \subseteq store[e].backup
         \/ e = current /\ ~store[e].pending,
         e = current /\ m.pc = "committing" => snapshots[e + 1].exists,
         e = current => Keeps(m, s, acked[e], snapshots[e], objects)
  PROVE  Live'
BY VersionStep DEF r2

-----------------------------------------------------------------------------
(* An object starts, and stops.                                            *)

LEMMA LoadedFields ==
  ASSUME NEW e \in Room, NEW s
  PROVE  /\ Loaded(e, s).status = "up" /\ Loaded(e, s).pc = "idle" /\ ~Loaded(e, s).purged
         /\ Loaded(e, s).doc = snapshots[e].seen \cup s.log /\ Loaded(e, s).running = "none"
         /\ Loaded(e, s).waiting = <<>> /\ Loaded(e, s).backup = {}
BY DEF Loaded, Down

\* An object whose document is loaded agrees with a storage that agrees with the page.
LEMMA LoadedOwn ==
  ASSUME NEW e \in Room, NEW c, NEW s, s.meta, s.retired => c > e, s.pending => e < MaxEpoch,
         ~s.retired /\ ~s.pending => c = e, s.backup \subseteq BackupsOf(e)
  PROVE  Own(e, c, Loaded(e, s), s)
<1> DEFINE m == Loaded(e, s)
<1>1. /\ m.status = "up" /\ m.pc = "idle" /\ ~m.purged /\ m.running = "none"
      /\ m.waiting = <<>> /\ m.backup = {}
  BY LoadedFields
<1> HIDE DEF m
<1>2. OneVersioned(m)
  BY <1>1 DEF OneVersioned
<1>3. Lives(m, s)
  BY <1>1 DEF Lives
<1>4. Place(e, c, m, s)
  BY <1>1 DEF Place, AtEpoch, OfRestore
<1>5. Recalls(e, m, s)
  BY <1>1 DEF Recalls, Announced, Unannounced
<1>6. QED
  BY <1>2, <1>3, <1>4, <1>5 DEF Own, m

LEMMA LoadedKeeps ==
  ASSUME NEW e \in Room, NEW s, acked[e] \subseteq s.log \cup snapshots[e].seen
  PROVE  Keeps(Loaded(e, s), s, acked[e], snapshots[e], objects)
BY LoadedFields DEF Keeps, Announced

LEMMA SeededFields ==
  ASSUME NEW e \in Room
  PROVE  /\ Seeded(e).meta /\ (Seeded(e).retired <=> ~IsCurrent(e)) /\ ~Seeded(e).pending
         /\ Seeded(e).backup = {}
BY DEF Seeded, Blank

LEMMA DownOwn ==
  ASSUME NEW e \in Room, NEW c, NEW m, NEW s, Own(e, c, m, s), m \in RoomState,
         s \in StoreState, NEW a, a => m.status = "up" \/ s.alarm, a \in BOOLEAN
  PROVE  Own(e, c, Down, [s EXCEPT !.alarm = a])
<1> DEFINE t == [s EXCEPT !.alarm = a]
<1>1. /\ t.meta = s.meta /\ t.retired = s.retired /\ t.pending = s.pending
      /\ t.backup = s.backup
  BY DEF StoreState
<1>2. ~s.meta => t = Blank
  <2>1. SUFFICES ASSUME ~s.meta PROVE t = Blank
    OBVIOUS
  <2>2. s = Blank /\ m.status # "up"
    BY <2>1 DEF Own, Lives
  <2>3. a <=> s.alarm
    BY <2>2 DEF Blank
  <2>4. s.alarm \in BOOLEAN
    BY DEF StoreState
  <2>5. a = s.alarm
    BY <2>3, <2>4, Zenon
  <2>6. [s EXCEPT !.alarm = s.alarm] = s
    BY DEF StoreState
  <2>7. QED
    BY <2>2, <2>5, <2>6
<1> HIDE DEF t
<1>3. OneVersioned(Down)
  BY DEF OneVersioned, Down
<1>4. Lives(Down, t)
  BY <1>1, <1>2 DEF Lives, Down
<1>5. Place(e, c, Down, t)
  BY <1>1 DEF Own, Place, Down, AtEpoch, OfRestore
<1>6. Recalls(e, Down, t)
  BY <1>1 DEF Own, Recalls, Down, Announced, Unannounced
<1>7. QED
  BY <1>3, <1>4, <1>5, <1>6 DEF Own, t

LEMMA LifeStep ==
  ASSUME TypeOK, Live, ~deleted, NEW e \in Room, Start(e) \/ Stop(e) \/ Purge(e)
  PROVE  Live'
<1> DEFINE w == room[e]
           s == store[e]
<1>1. w \in RoomState /\ s \in StoreState /\ Own(e, current, w, s)
  BY Mine, OfRoom, TypeParts
<1>2. e = current => Keeps(w, s, acked[e], snapshots[e], objects)
  BY Mine
<1>3. e \in Nat /\ current \in Nat
  BY Mine
<1>4. UNCHANGED page /\ UNCHANGED rows /\ UNCHANGED r2 /\ UNCHANGED acked
  BY DEF Start, Stop, Purge
<1>5. CASE Start(e) /\ ~s.meta
  <2> DEFINE t == Seeded(e)
  <2>1. Set(e, Loaded(e, t), t) /\ e <= current
    BY <1>5 DEF Start
  <2>2. s = Blank
    BY <1>1, <1>5 DEF Own, Lives
  <2>3. /\ t.meta /\ (t.retired <=> ~IsCurrent(e)) /\ ~t.pending /\ t.backup = {}
    BY SeededFields
  <2>4. acked[e] \subseteq t.log \cup snapshots[e].seen \/ e # current
    BY <1>2, <2>2 DEF Keeps, Blank
  <2> HIDE DEF t
  <2>5. Own(e, current, Loaded(e, t), t)
    <3>1. t.retired <=> current # e
      BY <2>3 DEF IsCurrent
    <3>2. (t.retired => current > e) /\ (~t.retired => current = e)
      BY <1>3, <2>1, <3>1
    <3>3. t.backup \subseteq BackupsOf(e)
      BY <2>3
    <3>4. QED
      BY <2>3, <3>2, <3>3, LoadedOwn
  <2>6. e = current => Keeps(Loaded(e, t), t, acked[e], snapshots[e], objects)
    BY <2>4, LoadedKeeps
  <2>7. t.pending = s.pending /\ t.backup = s.backup
    <3>0. s.pending = FALSE /\ s.backup = {}
      BY <2>2 DEF Blank
    <3>1. t.pending = FALSE /\ t.backup = {}
      BY SeededTyped, TypeParts DEF t
    <3>2. QED
      BY <3>0, <3>1
  <2>8. Loaded(e, t).pc = "idle"
    BY LoadedFields
  <2>9. QED
    BY <1>4, <2>1, <2>5, <2>6, <2>7, <2>8, RoomStep
<1>6. CASE Start(e) /\ s.meta /\ s.pending
  <2> DEFINE m == [Down EXCEPT !.status = "starting", !.latch = TRUE, !.pc = "reconciling",
                               !.backup = s.backup]
  <2>1. Set(e, m, s) /\ e <= current
    BY <1>6 DEF Start
  <2>2. /\ m.status = "starting" /\ m.pc = "reconciling" /\ ~m.purged /\ m.running = "none"
        /\ m.waiting = <<>> /\ m.backup = s.backup
    BY DEF Down
  <2> HIDE DEF m
  <2>3. OneVersioned(m) /\ Lives(m, s)
    BY <1>1, <1>6, <2>2 DEF Own, OneVersioned, Lives, Resolving
  <2>4. Place(e, current, m, s) /\ Recalls(e, m, s)
    BY <1>1, <1>6, <2>2 DEF Own, Place, Recalls, AtEpoch, OfRestore, Announced, Unannounced, Step
  <2>5. e = current => Keeps(m, s, acked[e], snapshots[e], objects)
    BY <1>2, <2>2 DEF Keeps, Announced
  <2>6. QED
    BY <1>4, <2>1, <2>2, <2>3, <2>4, <2>5, RoomStep DEF Own
<1>7. CASE Start(e) /\ s.meta /\ ~s.pending
  <2> DEFINE a == s.alarm \/ s.log # {}
             t == [s EXCEPT !.alarm = a]
  <2>1. Set(e, Loaded(e, s), t) /\ e <= current
    BY <1>7 DEF Start
  <2>2. /\ t.meta = s.meta /\ t.retired = s.retired /\ t.pending = s.pending
        /\ t.backup = s.backup /\ t.log = s.log
    BY <1>1 DEF StoreState
  <2>3. Loaded(e, s) = Loaded(e, t)
    BY <2>2 DEF Loaded
  <2> HIDE DEF t
  <2>4. Own(e, current, Loaded(e, t), t)
    BY <1>1, <1>7, <2>2, LoadedOwn DEF Own, Place, Recalls
  <2>5. e = current => Keeps(Loaded(e, t), t, acked[e], snapshots[e], objects)
    BY <1>2, <2>2, LoadedKeeps DEF Keeps
  <2>6. Loaded(e, t).pc = "idle"
    BY LoadedFields
  <2>7. QED
    BY <1>4, <2>1, <2>2, <2>3, <2>4, <2>5, <2>6, RoomStep
<1>8. CASE Stop(e)
  <2> DEFINE a == s.alarm \/ (w.status = "up" /\ ~w.purged
             /\ w.pc \in {"reconciling", "undoingOld", "undoingDeleted", "undoingLater"})
             t == [s EXCEPT !.alarm = a]
  <2>1. Set(e, Down, t) /\ w.status # "down"
    BY <1>8 DEF Stop
  <2>2. e <= current
    BY <1>3, <2>1, Reached
  <2>3. (a => w.status = "up" \/ s.alarm) /\ a \in BOOLEAN
    BY <1>1 DEF StoreState
  <2> HIDE DEF a
  <2>4. Own(e, current, Down, t)
    BY <1>1, <2>3, DownOwn
  <2>5. t.pending = s.pending /\ t.backup = s.backup /\ t.log = s.log
    BY <1>1 DEF StoreState
  <2> HIDE DEF t
  <2>6. e = current => Keeps(Down, t, acked[e], snapshots[e], objects)
    BY <1>2, <2>5 DEF Keeps, Down, Announced
  <2>7. Down.pc = "idle"
    BY DEF Down
  <2>8. QED
    BY <1>4, <2>1, <2>2, <2>4, <2>5, <2>6, <2>7, RoomStep
<1>9. QED
  BY <1>5, <1>6, <1>7, <1>8 DEF Start, Purge

-----------------------------------------------------------------------------
(* Edits and compactions.                                                  *)

\* A running object at the same step, with the same knowledge of its restore.
LEMMA SameStep ==
  ASSUME NEW e, NEW c, NEW w, NEW s, NEW m, NEW t, Own(e, c, w, s), w.status = "up",
         OneVersioned(m), m.status = "up", m.pc = w.pc, ~m.purged, m.backup = w.backup,
         t.meta = s.meta, t.retired = s.retired, t.pending = s.pending, t.backup = s.backup
  PROVE  Own(e, c, m, t)
<1>1. Lives(m, t)
  BY DEF Own, Lives
<1>2. Place(e, c, m, t)
  BY DEF Own, Place
<1>3. Recalls(e, m, t)
  BY DEF Own, Recalls
<1>4. QED
  BY <1>1, <1>2, <1>3 DEF Own

AllPlain(m) == m.running \in {"none", "plain"}
               /\ \A i \in 1..Len(m.waiting) : m.waiting[i] = "plain"

LEMMA NoneVersioned ==
  ASSUME NEW m, AllPlain(m)
  PROVE  OneVersioned(m)
BY DEF AllPlain, OneVersioned

\* At any other step no call about a version is under way.
LEMMA PlainElsewhere ==
  ASSUME NEW m \in RoomState, OneVersioned(m), m.pc \notin {"compacting", "archiving"}
  PROVE  AllPlain(m)
BY DEF OneVersioned, AllPlain, StepOf, RoomState, Caller

LEMMA CaptureFields ==
  ASSUME NEW m \in RoomState, NEW s \in StoreState, NEW caller \in Caller
  PROVE  /\ Capture(m, s, caller).status = m.status
         /\ Capture(m, s, caller).pc = m.pc
         /\ Capture(m, s, caller).purged = m.purged
         /\ Capture(m, s, caller).backup = m.backup
         /\ Capture(m, s, caller).waiting = m.waiting
         /\ Capture(m, s, caller).doc = m.doc
BY DEF Capture, RoomState

LEMMA CaptureRuns ==
  ASSUME NEW m \in RoomState, NEW s \in StoreState, NEW caller \in Caller
  PROVE  IF s.log = {} THEN Capture(m, s, caller).running = m.running
         ELSE /\ Capture(m, s, caller).running = caller
              /\ Capture(m, s, caller).seen = m.doc
              /\ ~Capture(m, s, caller).put
BY DEF Capture, RoomState

Queued(m, q) == [m EXCEPT !.waiting = q]

LEMMA QueueFields ==
  ASSUME NEW m \in RoomState, NEW q
  PROVE  /\ Queued(m, q).status = m.status
         /\ Queued(m, q).pc = m.pc
         /\ Queued(m, q).purged = m.purged
         /\ Queued(m, q).backup = m.backup
         /\ Queued(m, q).running = m.running
         /\ Queued(m, q).doc = m.doc
         /\ Queued(m, q).seen = m.seen
         /\ Queued(m, q).put = m.put
         /\ Queued(m, q).waiting = q
BY DEF RoomState, Queued

LEMMA CompactingCases ==
  ASSUME NEW m \in RoomState, NEW s \in StoreState, NEW caller \in Caller
  PROVE  /\ m.running = "none" /\ m.waiting = <<>> =>
              Compacting(m, s, caller) = Capture(m, s, caller)
         /\ ~(m.running = "none" /\ m.waiting = <<>>) =>
              Compacting(m, s, caller) = Queued(m, Append(m.waiting, caller))
BY DEF Compacting, Queued, RoomState

LEMMA CompactingFields ==
  ASSUME NEW m \in RoomState, NEW s \in StoreState, NEW caller \in Caller
  PROVE  /\ Compacting(m, s, caller).status = m.status
         /\ Compacting(m, s, caller).pc = m.pc
         /\ Compacting(m, s, caller).purged = m.purged
         /\ Compacting(m, s, caller).backup = m.backup
         /\ Compacting(m, s, caller).doc = m.doc
<1> DEFINE q == Append(m.waiting, caller)
<1> HIDE DEF q
<1>1. \/ Compacting(m, s, caller) = Capture(m, s, caller)
      \/ Compacting(m, s, caller) = Queued(m, q)
  BY CompactingCases DEF q
<1>2. QED
  BY <1>1, CaptureFields, QueueFields

\* A call about a version begins at its step, behind plain calls.
LEMMA CompactingOneVersioned ==
  ASSUME NEW m \in RoomState, NEW s \in StoreState, NEW caller \in Caller, OneVersioned(m),
         caller = "plain" \/ (m.pc = StepOf(caller) /\ AllPlain(m))
  PROVE  OneVersioned(Compacting(m, s, caller))
<1>1. CASE m.running = "none" /\ m.waiting = <<>>
  <2> DEFINE n == Capture(m, s, caller)
  <2>1. Compacting(m, s, caller) = n
    BY <1>1, CompactingCases
  <2>2. n.waiting = <<>> /\ n.pc = m.pc /\ n.running \in {"none", caller}
    BY <1>1, CaptureFields, CaptureRuns
  <2> HIDE DEF n
  <2>3. OneVersioned(n)
    BY <2>2 DEF OneVersioned
  <2>4. QED
    BY <2>1, <2>3
<1>2. CASE ~(m.running = "none" /\ m.waiting = <<>>)
  <2> DEFINE q == Append(m.waiting, caller)
             n == Queued(m, q)
  <2>1. Compacting(m, s, caller) = n
    BY <1>2, CompactingCases
  <2>2. m.waiting \in Seq(Caller)
    BY DEF RoomState
  <2>3. /\ Len(q) = Len(m.waiting) + 1 /\ q[Len(m.waiting) + 1] = caller
        /\ \A i \in 1..Len(m.waiting) : q[i] = m.waiting[i]
    BY <2>2, AppendProperties
  <2>4. Len(m.waiting) \in Nat
    BY <2>2, LenProperties
  <2> HIDE DEF q
  <2>5. n.waiting = q /\ n.pc = m.pc /\ n.running = m.running
    BY QueueFields
  <2> HIDE DEF n
  <2> DEFINE last == Len(m.waiting) + 1
  <2>6. \A i \in 1..Len(q) : i = last \/ i \in 1..Len(m.waiting)
    BY <2>3, <2>4
  <2>7. ASSUME caller = "plain" PROVE OneVersioned(n)
    <3>1. \A i \in 1..Len(q) : q[i] # "plain" => i \in 1..Len(m.waiting) /\ q[i] = m.waiting[i]
      BY <2>3, <2>6, <2>7
    <3>2. n.running \notin {"none", "plain"} =>
            n.pc = StepOf(n.running) /\ \A i \in 1..Len(q) : q[i] = "plain"
      BY <2>5, <3>1 DEF OneVersioned
    <3>3. ASSUME NEW i \in 1..Len(q), q[i] # "plain"
          PROVE  /\ n.pc = StepOf(q[i])
                 /\ \A j \in 1..Len(q) : q[j] # "plain" => j = i
      BY <2>5, <3>1, <3>3 DEF OneVersioned
    <3>4. QED
      BY <2>5, <3>2, <3>3 DEF OneVersioned
  <2>8. ASSUME m.pc = StepOf(caller) /\ AllPlain(m) PROVE OneVersioned(n)
    <3>1. \A i \in 1..Len(q) : q[i] # "plain" => i = last /\ q[i] = caller
      BY <2>3, <2>6, <2>8 DEF AllPlain
    <3>2. n.running \in {"none", "plain"} /\ n.pc = StepOf(caller)
      BY <2>5, <2>8 DEF AllPlain
    <3>3. QED
      BY <2>5, <3>1, <3>2 DEF OneVersioned
  <2>9. QED
    BY <2>1, <2>7, <2>8
<1>3. QED
  BY <1>1, <1>2

LEMMA CompactingKeeps ==
  ASSUME NEW m \in RoomState, NEW s \in StoreState, NEW caller \in Caller, NEW a, NEW n, NEW o,
         m.status = "up", Keeps(m, s, a, n, o)
  PROVE  /\ Keeps(Compacting(m, s, caller), s, a, n, o)
         /\ m.running = "none" => Keeps(Capture(m, s, caller), s, a, n, o)
<1>1. m.running = "none" => Keeps(Capture(m, s, caller), s, a, n, o)
  <2> DEFINE w == Capture(m, s, caller)
  <2>1. SUFFICES ASSUME m.running = "none" PROVE Keeps(w, s, a, n, o)
    OBVIOUS
  <2>2. /\ w.status = m.status /\ w.pc = m.pc /\ w.backup = m.backup /\ w.doc = m.doc
        /\ s.log = {} => w.running = "none"
        /\ s.log # {} => w.seen = m.doc /\ ~w.put
    BY <2>1, CaptureFields, CaptureRuns
  <2> HIDE DEF w
  <2>3. QED
    BY <2>2 DEF Keeps
<1>2. Keeps(Queued(m, Append(m.waiting, caller)), s, a, n, o)
  <2> DEFINE w == Queued(m, Append(m.waiting, caller))
  <2>2. /\ w.status = m.status /\ w.pc = m.pc /\ w.backup = m.backup /\ w.doc = m.doc
        /\ w.running = m.running /\ w.seen = m.seen /\ w.put = m.put
    BY QueueFields, Zenon
  <2> HIDE DEF w
  <2>3. Keeps(w, s, a, n, o)
    BY <2>2 DEF Keeps
  <2>4. QED
    BY <2>3 DEF w
<1>3. QED
  BY <1>1, <1>2, CompactingCases

LEMMA SaveStep ==
  ASSUME TypeOK, Live, ~deleted, NEW e \in Room, NEW x \in Edit, Save(e, x)
  PROVE  Live'
<1> DEFINE w == room[e]
           s == store[e]
           m == [w EXCEPT !.doc = @ \cup {x}, !.dirty = TRUE]
           t == [s EXCEPT !.log = @ \cup {x}, !.alarm = TRUE]
<1>1. /\ w \in RoomState /\ s \in StoreState /\ Own(e, current, w, s)
      /\ e \in Nat /\ current \in Nat /\ current \in Room
  BY Mine, OfRoom, TypeParts
<1>2. /\ Set(e, m, t) /\ acked' = [acked EXCEPT ![e] = @ \cup {x}]
      /\ UNCHANGED page /\ UNCHANGED rows /\ UNCHANGED r2
      /\ w.status = "up" /\ ~s.retired /\ ~s.pending
      /\ w.pc \notin {"compacting", "backingUp", "seeding", "committing"}
  BY DEF Save, Up, Closed, InTransition
<1>3. current = e
  BY <1>1, <1>2 DEF Own, Lives, Place
<1>4. /\ m.status = "up" /\ m.pc = w.pc /\ m.purged = w.purged /\ m.backup = w.backup
      /\ m.running = w.running /\ m.waiting = w.waiting /\ m.seen = w.seen /\ m.put = w.put
      /\ m.doc = w.doc \cup {x}
  BY <1>1, <1>2 DEF RoomState
<1>5. /\ t.meta = s.meta /\ t.retired = s.retired /\ t.pending = s.pending
      /\ t.backup = s.backup /\ t.log = s.log \cup {x}
  BY <1>1 DEF StoreState
<1>6. acked'[e] = acked[e] \cup {x} /\ \A f \in Room : f # e => acked'[f] = acked[f]
  BY <1>2, TypeParts DEF DataTyped
<1>7. /\ room'[e] = m /\ store'[e] = t
      /\ \A f \in Room : f # e => room'[f] = room[f] /\ store'[f] = store[f]
  BY <1>2, Replaced, TypeParts
<1> HIDE DEF m, t
<1>8. Own(e, current, m, t)
  <2>1. OneVersioned(m)
    BY <1>1, <1>4 DEF Own, OneVersioned
  <2>2. ~m.purged
    BY <1>1, <1>4 DEF Own, Lives
  <2>3. QED
    BY <1>1, <1>2, <1>4, <1>5, <2>1, <2>2, SameStep
<1>9. /\ current' = current /\ rows' = rows /\ objects' = objects /\ snapshots' = snapshots
  BY <1>2 DEF page, r2
<1>10. AllOwn' /\ FutureIsBlank'
  BY <1>1, <1>2, <1>3, <1>6, <1>8, <1>9, OwnElsewhere
<1>11. SnapshotsAgree'
  BY <1>2, <1>3, <1>4, <1>5, <1>7, <1>9 DEF Live, SnapshotsAgree
<1>12. ObjectsAgree'
  <2>1. ASSUME NEW v \in objects \ rows PROVE v \in store'[v.epoch].backup
    <3>1. v \in store[v.epoch].backup /\ v.epoch \in Room
      BY TypeParts DEF Live, ObjectsAgree, DataTyped, Version
    <3>2. QED
      BY <1>5, <1>7, <3>1
  <2>2. QED
    BY <1>5, <1>7, <1>9, <2>1 DEF Live, ObjectsAgree
<1>13. CurrentKeeps'
  <2>1. Keeps(w, s, acked[e], snapshots[e], objects)
    BY <1>3, Mine
  <2>2. w.running # "restore"
    BY <1>1, <1>2 DEF Own, OneVersioned, StepOf
  <2>3. Keeps(m, t, acked'[e], snapshots[e], objects)
    BY <1>2, <1>4, <1>5, <1>6, <2>1, <2>2 DEF Keeps, Announced
  <2>4. QED
    BY <1>3, <1>7, <1>9, <2>3 DEF CurrentKeeps
<1>14. QED
  BY <1>10, <1>11, <1>12, <1>13 DEF Live

\* A caller whose compaction has ended, or had nothing to do, goes on from n and t.
LEMMA EndedStep ==
  ASSUME TypeOK, Live, NEW e \in Room, NEW n \in RoomState, NEW t \in StoreState,
         NEW caller \in Caller, Ended(e, n, t, caller),
         UNCHANGED page, UNCHANGED snapshots, UNCHANGED acked,
         rows \subseteq rows', objects \subseteq objects',
         objects' \ rows' \subseteq objects \ rows,
         \A v \in rows' \ rows : v.kind # "backup",
         e <= current, room[e].status = "up", n.status = "up", n.pc = room[e].pc,
         ~n.purged, n.backup = room[e].backup, OneVersioned(n),
         caller # "plain" => n.pc = StepOf(caller) /\ AllPlain(n),
         t.meta = store[e].meta, t.retired = store[e].retired,
         t.pending = store[e].pending, t.backup = store[e].backup,
         e = current => Keeps(n, t, acked[e], snapshots[e], objects'),
         caller = "restore" => t.log = {}
  PROVE  Live'
<1>1. Own(e, current, room[e], store[e]) /\ e \in Nat /\ current \in Nat
  BY Mine
<1>2. CASE caller = "plain"
  <2>1. Set(e, n, t)
    BY <1>2 DEF Ended
  <2>2. Own(e, current, n, t)
    BY <1>1, SameStep
  <2>3. e = current /\ n.pc = "committing" => snapshots[e + 1].exists
    BY DEF Live, SnapshotsAgree
  <2>4. QED
    BY <2>1, <2>2, <2>3, VersionStep
<1>3. CASE caller = "archive"
  <2> DEFINE m == [n EXCEPT !.pc = "idle"]
  <2>1. Set(e, m, t)
    BY <1>3 DEF Ended
  <2>2. /\ m.status = "up" /\ m.pc = "idle" /\ ~m.purged /\ m.backup = n.backup
        /\ m.running = n.running /\ m.waiting = n.waiting /\ m.doc = n.doc
        /\ m.seen = n.seen /\ m.put = n.put
    BY DEF RoomState
  <2> HIDE DEF m
  <2>3. OneVersioned(m)
    <3>1. AllPlain(m)
      BY <1>3, <2>2 DEF AllPlain
    <3>2. QED
      BY <3>1, NoneVersioned
  <2>4. Lives(m, t)
    BY <1>1, <2>2 DEF Own, Lives
  <2>5. Place(e, current, m, t)
    BY <1>1, <2>2 DEF Own, Place, AtEpoch, OfRestore
  <2>6. Recalls(e, m, t)
    BY <1>1, <2>2 DEF Own, Recalls, Announced, Unannounced
  <2>7. e = current => Keeps(m, t, acked[e], snapshots[e], objects')
    BY <2>2 DEF Keeps, Announced
  <2>8. QED
    BY <2>1, <2>2, <2>3, <2>4, <2>5, <2>6, <2>7, VersionStep DEF Own
<1>4. CASE caller = "restore"
  <2> DEFINE m == [n EXCEPT !.pc = "seeding", !.backup = {}]
             r == [t EXCEPT !.pending = TRUE, !.backup = {}, !.deferred = FALSE, !.quiet = FALSE]
  <2>1. Set(e, m, r)
    BY <1>4 DEF Ended, Recorded
  <2>2. /\ m.status = "up" /\ m.pc = "seeding" /\ ~m.purged /\ m.backup = {}
        /\ m.running = n.running /\ m.waiting = n.waiting /\ m.doc = n.doc
        /\ m.seen = n.seen /\ m.put = n.put
    BY DEF RoomState
  <2>3. /\ r.meta = t.meta /\ r.retired = t.retired /\ r.pending /\ r.backup = {}
        /\ r.log = t.log
    BY DEF StoreState
  <2> HIDE DEF m, r
  <2>4. room[e].pc = "compacting"
    BY <1>4 DEF StepOf
  <2>5. current = e /\ ~store[e].pending /\ e < MaxEpoch
    BY <1>1, <2>4 DEF Own, Place, Recalls, AtEpoch, Unannounced, OfRestore, Step
  <2>6. OneVersioned(m)
    <3>1. AllPlain(m)
      BY <1>4, <2>2 DEF AllPlain
    <3>2. QED
      BY <3>1, NoneVersioned
  <2>7. Lives(m, r)
    BY <1>1, <2>2, <2>3 DEF Own, Lives
  <2>8. Place(e, current, m, r)
    BY <1>1, <2>2, <2>3, <2>5 DEF Own, Place, AtEpoch
  <2>9. Recalls(e, m, r)
    BY <2>2, <2>3 DEF Recalls, Announced, Unannounced
  <2>10. Keeps(m, r, acked[e], snapshots[e], objects')
    BY <1>4, <2>2, <2>3, <2>5 DEF Keeps
  <2>11. QED
    BY <2>1, <2>2, <2>5, <2>6, <2>7, <2>8, <2>9, <2>10, VersionStep DEF Own
<1>5. QED
  BY <1>2, <1>3, <1>4 DEF Caller

LEMMA RestedFields ==
  ASSUME NEW m \in RoomState
  PROVE  /\ Rested(m).status = m.status /\ Rested(m).pc = m.pc
         /\ Rested(m).purged = m.purged /\ Rested(m).backup = m.backup
         /\ Rested(m).waiting = m.waiting /\ Rested(m).doc = m.doc
         /\ Rested(m).running = "none"
BY DEF Rested, RoomState

LEMMA RunningIsUp ==
  ASSUME TypeOK, Live, NEW e \in Room, room[e].running # "none" \/ room[e].waiting # <<>>
  PROVE  room[e].status = "up" /\ e <= current /\ store[e].meta
<1>1. /\ room[e] \in RoomState /\ Own(e, current, room[e], store[e])
      /\ e \in Nat /\ current \in Nat
  BY Mine, OfRoom, TypeParts
<1>2. room[e].status \notin {"down", "starting"}
  BY <1>1 DEF Own, Lives, Down
<1>3. room[e].status = "up"
  BY <1>1, <1>2 DEF RoomState
<1>4. QED
  BY <1>1, <1>3, Reached DEF Own, Lives

\* The call whose turn it is leaves the queue.
LEMMA TailOneVersioned ==
  ASSUME NEW m \in RoomState, OneVersioned(m), m.waiting # <<>>, m.running = "none"
  PROVE  /\ OneVersioned(Queued(m, Tail(m.waiting)))
         /\ Head(m.waiting) # "plain" =>
              m.pc = StepOf(Head(m.waiting)) /\ AllPlain(Queued(m, Tail(m.waiting)))
<1> DEFINE q == m.waiting
           r == Tail(q)
           n == Queued(m, r)
<1>1. q \in Seq(Caller) /\ q # <<>>
  BY DEF RoomState
<1>2. /\ Len(q) \in Nat /\ Len(q) # 0 /\ Len(r) = Len(q) - 1 /\ Head(q) = q[1]
      /\ \A i \in 1..Len(r) : r[i] = q[i + 1]
  BY <1>1, LenProperties, HeadTailProperties, EmptySeq
<1> HIDE DEF r
<1>3. \A i \in 1..Len(r) : i + 1 \in 1..Len(q) /\ i \in Nat /\ r[i] = q[i + 1]
  BY <1>2
<1>4. n.waiting = r /\ n.pc = m.pc /\ n.running = "none"
  BY QueueFields
<1> HIDE DEF n
<1>5. ASSUME NEW i \in 1..Len(r), r[i] # "plain"
      PROVE  n.pc = StepOf(r[i]) /\ \A j \in 1..Len(r) : r[j] # "plain" => j = i
  <2>1. m.pc = StepOf(q[i + 1])
    BY <1>3, <1>5 DEF OneVersioned
  <2>2. ASSUME NEW j \in 1..Len(r), r[j] # "plain" PROVE j = i
    <3>1. j + 1 = i + 1
      BY <1>3, <1>5, <2>2 DEF OneVersioned
    <3>2. QED
      BY <3>1
  <2>3. QED
    BY <1>3, <1>4, <2>1, <2>2
<1>6. OneVersioned(n)
  BY <1>4, <1>5 DEF OneVersioned
<1>7. ASSUME q[1] # "plain" PROVE m.pc = StepOf(q[1]) /\ AllPlain(n)
  <2>1. 1 \in 1..Len(q)
    BY <1>2
  <2>2. m.pc = StepOf(q[1]) /\ \A j \in 1..Len(q) : q[j] # "plain" => j = 1
    BY <1>7, <2>1 DEF OneVersioned
  <2>3. \A i \in 1..Len(r) : r[i] = "plain"
    BY <1>3, <2>2
  <2>4. QED
    BY <1>4, <2>2, <2>3 DEF AllPlain
<1>8. QED
  BY <1>2, <1>6, <1>7 DEF n, r

LEMMA TurnStep ==
  ASSUME TypeOK, Live, NEW e \in Room, Turn(e)
  PROVE  Live'
<1> DEFINE w == room[e]
           s == store[e]
           caller == Head(w.waiting)
           m == Queued(w, Tail(w.waiting))
           n == Capture(m, s, caller)
<1>1. /\ w \in RoomState /\ s \in StoreState /\ Own(e, current, w, s)
      /\ (e = current => Keeps(w, s, acked[e], snapshots[e], objects))
  BY Mine, OfRoom, TypeParts
<1>2. w.running = "none" /\ w.waiting # <<>>
  BY DEF Turn, TurnDue
<1>3. w.status = "up" /\ e <= current /\ ~w.purged
  BY <1>1, <1>2, RunningIsUp DEF Own, Lives
<1>4. caller \in Caller /\ Tail(w.waiting) \in Seq(Caller)
  BY <1>1, <1>2, HeadTailProperties DEF RoomState
<1>5. /\ OneVersioned(m)
      /\ caller # "plain" => w.pc = StepOf(caller) /\ AllPlain(m)
  BY <1>1, <1>2, TailOneVersioned DEF Own
<1>6. m = [w EXCEPT !.waiting = Tail(@)]
  BY <1>1 DEF Queued, RoomState
<1>7. /\ m.status = w.status /\ m.pc = w.pc /\ m.purged = w.purged /\ m.backup = w.backup
      /\ m.running = w.running /\ m.doc = w.doc /\ m.seen = w.seen /\ m.put = w.put
  BY <1>1, QueueFields
<1>8. m \in RoomState
  BY <1>1, <1>4 DEF RoomState, Queued
<1>9. IF s.log = {} THEN Ended(e, n, s, caller) ELSE Set(e, n, s)
  BY <1>6 DEF Turn
<1>10. /\ UNCHANGED page /\ UNCHANGED rows /\ UNCHANGED snapshots /\ UNCHANGED objects
       /\ UNCHANGED r2 /\ UNCHANGED acked
  BY DEF Turn, r2
<1> HIDE DEF caller, m
<1>11. e = current => Keeps(m, s, acked[e], snapshots[e], objects)
  BY <1>1, <1>7 DEF Keeps
<1>12. n \in RoomState /\ (e = current => Keeps(n, s, acked[e], snapshots[e], objects))
  BY <1>1, <1>2, <1>3, <1>4, <1>7, <1>8, <1>11, CaptureTyped, CompactingKeeps
<1>13. /\ n.status = m.status /\ n.pc = m.pc /\ n.purged = m.purged /\ n.backup = m.backup
       /\ n.waiting = m.waiting
       /\ IF s.log = {} THEN n.running = "none" ELSE n.running = caller
  BY <1>1, <1>2, <1>4, <1>7, <1>8, CaptureFields, CaptureRuns
<1> HIDE DEF n
<1>14. CASE s.log = {}
  <2>1. OneVersioned(n) /\ (AllPlain(m) => AllPlain(n))
    BY <1>2, <1>5, <1>7, <1>13, <1>14 DEF OneVersioned, AllPlain
  <2>2. QED
    BY <1>1, <1>3, <1>4, <1>5, <1>7, <1>9, <1>10, <1>12, <1>13, <1>14, <2>1, EndedStep
<1>15. CASE s.log # {}
  <2>1. OneVersioned(n)
    <3>1. CASE caller = "plain"
      BY <1>5, <1>7, <1>13, <1>15, <3>1 DEF OneVersioned
    <3>2. CASE caller # "plain"
      BY <1>5, <1>7, <1>13, <1>15, <3>2 DEF OneVersioned, AllPlain
    <3>3. QED
      BY <3>1, <3>2
  <2>2. Own(e, current, n, s)
    BY <1>1, <1>3, <1>7, <1>13, <2>1, SameStep
  <2>3. e = current /\ n.pc = "committing" => snapshots[e + 1].exists
    BY <1>7, <1>13 DEF Live, SnapshotsAgree
  <2>4. QED
    BY <1>3, <1>9, <1>10, <1>12, <1>15, <2>2, <2>3, RoomStep
<1>16. QED
  BY <1>14, <1>15

\* A plain call begins a compaction or waits.
LEMMA PlainStep ==
  ASSUME TypeOK, Live, NEW e \in Room, NEW t \in StoreState,
         Set(e, Compacting(room[e], store[e], "plain"), t), room[e].status = "up",
         t.meta = store[e].meta, t.retired = store[e].retired, t.pending = store[e].pending,
         t.backup = store[e].backup, t.log = store[e].log,
         UNCHANGED page, UNCHANGED rows, UNCHANGED r2, UNCHANGED acked
  PROVE  Live'
<1> DEFINE w == room[e]
           s == store[e]
           m == Compacting(w, s, "plain")
<1>1. /\ w \in RoomState /\ s \in StoreState /\ Own(e, current, w, s)
      /\ (e = current => Keeps(w, s, acked[e], snapshots[e], objects))
      /\ e \in Nat /\ current \in Nat
  BY Mine, OfRoom, TypeParts
<1>2. "plain" \in Caller
  BY DEF Caller
<1>3. /\ m.status = "up" /\ m.pc = w.pc /\ m.purged = w.purged /\ m.backup = w.backup
  BY <1>1, <1>2, CompactingFields
<1>4. OneVersioned(m)
  BY <1>1, <1>2, CompactingOneVersioned DEF Own
<1>5. e = current => Keeps(m, s, acked[e], snapshots[e], objects)
  BY <1>1, <1>2, CompactingKeeps
<1> HIDE DEF m
<1>6. ~m.purged
  BY <1>1, <1>3 DEF Own, Lives
<1>7. Own(e, current, m, t)
  BY <1>1, <1>3, <1>4, <1>6, SameStep
<1>8. e = current => Keeps(m, t, acked[e], snapshots[e], objects)
  BY <1>5 DEF Keeps
<1>9. e = current /\ m.pc = "committing" => snapshots[e + 1].exists
  BY <1>3 DEF Live, SnapshotsAgree
<1>10. e <= current
  BY <1>1, Reached
<1>11. QED
  BY <1>7, <1>8, <1>9, <1>10, RoomStep DEF m

LEMMA PutSnapshotStep ==
  ASSUME TypeOK, Live, NEW e \in Room, PutSnapshot(e)
  PROVE  Live'
<1> DEFINE w == room[e]
           s == store[e]
           m == [w EXCEPT !.put = TRUE]
<1>1. /\ w \in RoomState /\ Own(e, current, w, s)
      /\ (e = current => Keeps(w, s, acked[e], snapshots[e], objects))
      /\ e \in Nat /\ current \in Nat
  BY Mine, OfRoom, TypeParts
<1>2. w.running # "none" /\ w.status = "up" /\ e <= current
  BY RunningIsUp DEF PutSnapshot
<1>3. Set(e, m, s)
  BY TypeParts DEF PutSnapshot, Set, RoomsTyped
<1>4. /\ m.status = w.status /\ m.pc = w.pc /\ m.purged = w.purged /\ m.backup = w.backup
      /\ m.running = w.running /\ m.waiting = w.waiting /\ m.doc = w.doc /\ m.seen = w.seen
  BY <1>1 DEF RoomState
<1>5. /\ room'[e] = m /\ store' = store
      /\ \A f \in Room : f # e => room'[f] = room[f]
  BY <1>3, Replaced, TypeParts DEF PutSnapshot
<1> HIDE DEF m
<1>6. /\ snapshots'[e].exists /\ snapshots'[e].seen = w.seen
      /\ \A f \in Room : f # e => snapshots'[f] = snapshots[f]
  BY TypeParts DEF PutSnapshot, DataTyped, Stored
<1>7. /\ current' = current /\ rows' = rows /\ objects' = objects /\ acked' = acked
  BY DEF PutSnapshot, page
<1>8. OneVersioned(m) /\ ~m.purged
  BY <1>1, <1>4 DEF Own, OneVersioned, Lives
<1>9. Own(e, current, m, s)
  BY <1>1, <1>2, <1>4, <1>8, SameStep
<1>10. AllOwn' /\ FutureIsBlank'
  BY <1>2, <1>3, <1>7, <1>9, OwnElsewhere
<1>11. SnapshotsAgree'
  <2>1. ASSUME NEW f \in Room, f > current, snapshots'[f].exists
        PROVE  f = current + 1 /\ store[current].pending
    BY <1>1, <1>2, <1>6, <2>1 DEF Live, SnapshotsAgree
  <2>2. current > 1 => snapshots'[current].exists
    BY <1>6, Mine DEF Live, SnapshotsAgree
  <2>3. room'[current].pc = "committing" => snapshots'[current + 1].exists
    <3>1. SUFFICES ASSUME room'[current].pc = "committing" PROVE snapshots'[current + 1].exists
      OBVIOUS
    <3>2. room[current].pc = "committing" /\ current \in Room
      BY <1>4, <1>5, <3>1, Mine
    <3>3. current + 1 \in Room /\ current + 1 # e
      BY <1>1, <1>2, <3>2, Rooms DEF Live, AllOwn, Own, Place, OfRestore, Step
    <3>4. QED
      BY <1>6, <3>2, <3>3 DEF Live, SnapshotsAgree
  <2>4. QED
    BY <1>5, <1>7, <2>1, <2>2, <2>3 DEF SnapshotsAgree
<1>12. ObjectsAgree'
  BY <1>5, <1>7 DEF Live, ObjectsAgree
<1>13. CurrentKeeps'
  <2>1. CASE e = current
    <3>1. Keeps(m, s, acked[e], snapshots'[e], objects)
      BY <1>1, <1>2, <1>4, <1>6, <2>1 DEF Keeps
    <3>2. QED
      BY <1>5, <1>7, <2>1, <3>1 DEF CurrentKeeps
  <2>2. CASE e # current
    BY <1>5, <1>6, <1>7, <2>2, Mine DEF Live, CurrentKeeps
  <2>3. QED
    BY <2>1, <2>2
<1>14. QED
  BY <1>10, <1>11, <1>12, <1>13 DEF Live

LEMMA FinishStep ==
  ASSUME TypeOK, Live, NEW e \in Room, FinishCompaction(e)
  PROVE  Live'
<1> DEFINE w == room[e]
           s == store[e]
           n == Rested(w)
           l == s.log \ w.seen
           t == [s EXCEPT !.log = l]
<1>1. /\ w \in RoomState /\ s \in StoreState /\ Own(e, current, w, s)
      /\ (e = current => Keeps(w, s, acked[e], snapshots[e], objects))
  BY Mine, OfRoom, TypeParts
<1>2. w.running # "none" /\ w.put /\ w.status = "up" /\ e <= current
  BY RunningIsUp DEF FinishCompaction
<1>3. Ended(e, n, t, w.running) /\ UNCHANGED page /\ UNCHANGED snapshots /\ UNCHANGED acked
  BY DEF FinishCompaction, Rested, Trimmed
<1>4. \/ rows' = rows /\ objects' = objects
      \/ rows' = rows \cup {Saved(e)} /\ objects' = objects \cup {Saved(e)}
  BY DEF FinishCompaction
<1>5. Saved(e).kind # "backup"
  BY DEF Saved
<1>6. /\ rows \subseteq rows' /\ objects \subseteq objects'
      /\ objects' \ rows' \subseteq objects \ rows
      /\ \A v \in rows' \ rows : v.kind # "backup"
  BY <1>4, <1>5
<1>7. /\ n \in RoomState /\ n.status = w.status /\ n.pc = w.pc /\ n.purged = w.purged
      /\ n.backup = w.backup /\ n.waiting = w.waiting /\ n.doc = w.doc /\ n.running = "none"
  BY <1>1, RestedTyped, RestedFields
<1>8. /\ t \in StoreState /\ t.meta = s.meta /\ t.retired = s.retired
      /\ t.pending = s.pending /\ t.backup = s.backup /\ t.log = l
  BY <1>1 DEF StoreState
<1>9. w.running \in Caller
  BY <1>1, <1>2 DEF RoomState
<1> HIDE DEF n, t
<1>10. OneVersioned(n) /\ ~n.purged
  BY <1>1, <1>7 DEF Own, OneVersioned, Lives
<1>11. w.running # "plain" => n.pc = StepOf(w.running) /\ AllPlain(n)
  BY <1>1, <1>2, <1>7 DEF Own, OneVersioned, AllPlain
<1>12. e = current => Keeps(n, t, acked[e], snapshots[e], objects')
  BY <1>1, <1>2, <1>6, <1>7, <1>8 DEF Keeps
<1>13. w.running = "restore" => t.log = {}
  <2>1. SUFFICES ASSUME w.running = "restore" PROVE t.log = {}
    OBVIOUS
  <2>2. e = current
    BY <1>1, <2>1 DEF Own, OneVersioned, StepOf, Place, AtEpoch
  <2>3. QED
    BY <1>1, <1>8, <2>1, <2>2 DEF Keeps
<1>14. QED
  BY <1>2, <1>3, <1>6, <1>7, <1>8, <1>9, <1>10, <1>11, <1>12, <1>13, EndedStep

LEMMA StepIsUp ==
  ASSUME TypeOK, Live, NEW e \in Room, room[e].pc \notin {"idle"} \cup Resolving
  PROVE  room[e].status = "up" /\ e <= current /\ store[e].meta
<1>1. /\ room[e] \in RoomState /\ Own(e, current, room[e], store[e])
      /\ e \in Nat /\ current \in Nat
  BY Mine, OfRoom, TypeParts
<1>2. room[e].status \notin {"down", "starting"}
  BY <1>1 DEF Own, Lives, Down
<1>3. room[e].status = "up"
  BY <1>1, <1>2 DEF RoomState
<1>4. QED
  BY <1>1, <1>3, Reached DEF Own, Lives

\* A running object goes to a step before its restore is recorded, or after its end.
LEMMA MovedStep ==
  ASSUME TypeOK, Live, NEW e \in Room, NEW m, NEW t, Set(e, m, t),
         UNCHANGED page, UNCHANGED rows, UNCHANGED r2, UNCHANGED acked,
         room[e].status = "up", m.status = "up", ~m.purged, m.backup = room[e].backup,
         OneVersioned(m), m.pc \notin Announced \cup {"undoingLater", "undoingDeleted"},
         m.pc \in OfRestore => e < MaxEpoch, m.pc \in AtEpoch => current = e,
         m.pc \in Unannounced => ~store[e].pending,
         m.pc # "idle" => store[e].backup \subseteq m.backup,
         t.meta = store[e].meta, t.retired = store[e].retired,
         t.pending = store[e].pending, t.backup = store[e].backup,
         e = current => Keeps(m, t, acked[e], snapshots[e], objects)
  PROVE  Live'
<1>1. Own(e, current, room[e], store[e]) /\ e \in Nat /\ current \in Nat
  BY Mine
<1>2. Lives(m, t)
  BY <1>1 DEF Own, Lives
<1>3. Place(e, current, m, t)
  BY <1>1 DEF Own, Place
<1>4. Recalls(e, m, t)
  BY <1>1 DEF Own, Recalls
<1>5. e <= current
  BY <1>1, Reached
<1>6. m.pc # "committing"
  BY DEF Announced
<1>7. QED
  BY <1>2, <1>3, <1>4, <1>5, <1>6, RoomStep DEF Own

LEMMA PcFields ==
  ASSUME NEW m \in RoomState, NEW pc
  PROVE  LET n == [m EXCEPT !.pc = pc]
         IN /\ n.status = m.status /\ n.pc = pc /\ n.purged = m.purged
            /\ n.backup = m.backup /\ n.running = m.running /\ n.waiting = m.waiting
            /\ n.doc = m.doc /\ n.seen = m.seen /\ n.put = m.put
BY DEF RoomState

\* What is kept does not depend on a step outside a recorded restore.
LEMMA KeepsElsewhere ==
  ASSUME NEW m, NEW n, NEW s, NEW t, NEW a, NEW p, NEW o, Keeps(m, s, a, p, o),
         n.status = m.status, n.doc = m.doc, n.seen = m.seen, n.put = m.put,
         n.running \in {m.running, "none"}, n.pc \notin Announced, t.log = s.log
  PROVE  Keeps(n, t, a, p, o)
BY DEF Keeps, Announced

\* A room with no call about a version, and no other change, goes to the step pc.
LEMMA ToStep ==
  ASSUME TypeOK, Live, NEW e \in Room, NEW pc, To(e, pc),
         UNCHANGED page, UNCHANGED rows, UNCHANGED r2, UNCHANGED acked,
         room[e].status = "up", AllPlain(room[e]),
         pc \notin Announced \cup {"undoingLater", "undoingDeleted"},
         pc \in OfRestore => e < MaxEpoch, pc \in AtEpoch => current = e,
         pc \in Unannounced => ~store[e].pending,
         pc # "idle" => store[e].backup \subseteq room[e].backup
  PROVE  Live'
<1> DEFINE w == room[e]
           m == [w EXCEPT !.pc = pc]
<1>1. /\ w \in RoomState /\ store[e] \in StoreState /\ Own(e, current, w, store[e])
      /\ (e = current => Keeps(w, store[e], acked[e], snapshots[e], objects))
  BY Mine, OfRoom, TypeParts
<1>2. Set(e, m, store[e])
  BY ToSets, TypeParts
<1>3. /\ m.status = w.status /\ m.pc = pc /\ m.purged = w.purged
      /\ m.backup = w.backup /\ m.running = w.running /\ m.waiting = w.waiting
      /\ m.doc = w.doc /\ m.seen = w.seen /\ m.put = w.put
  BY <1>1, PcFields
<1> HIDE DEF m
<1>4. OneVersioned(m)
  <2>1. AllPlain(m)
    BY <1>3 DEF AllPlain
  <2>2. QED
    BY <2>1, NoneVersioned
<1>5. ~m.purged
  BY <1>1, <1>3 DEF Own, Lives
<1>6. e = current => Keeps(m, store[e], acked[e], snapshots[e], objects)
  BY <1>1, <1>3, KeepsElsewhere
<1>7. QED
  BY <1>2, <1>3, <1>4, <1>5, <1>6, MovedStep

LEMMA FailStep ==
  ASSUME TypeOK, Live, NEW e \in Room, FailCompaction(e)
  PROVE  Live'
<1> DEFINE w == room[e]
           s == store[e]
           d == ~w.purged
           a == s.alarm \/ ~w.purged
           n == [Rested(w) EXCEPT !.dirty = d]
           pc == IF w.running = "restore" THEN "checking"
                 ELSE IF w.running = "archive" THEN "idle" ELSE n.pc
           m == [n EXCEPT !.pc = pc]
           t == [s EXCEPT !.alarm = a]
<1>1. /\ w \in RoomState /\ s \in StoreState /\ Own(e, current, w, s)
      /\ (e = current => Keeps(w, s, acked[e], snapshots[e], objects))
      /\ e \in Nat /\ current \in Nat
  BY Mine, OfRoom, TypeParts
<1>2. w.running # "none" /\ w.status = "up" /\ e <= current
  BY RunningIsUp DEF FailCompaction
<1>3. Set(e, m, t)
  BY <1>1 DEF FailCompaction, Rested, RoomState
<1>4. /\ UNCHANGED page /\ UNCHANGED rows /\ UNCHANGED r2 /\ UNCHANGED acked
  BY DEF FailCompaction
<1>5. d \in BOOLEAN /\ a \in BOOLEAN
  BY <1>1 DEF RoomState, StoreState
<1>6. /\ t.meta = s.meta /\ t.retired = s.retired /\ t.pending = s.pending
      /\ t.backup = s.backup /\ t.log = s.log
  BY <1>1 DEF StoreState
<1> HIDE DEF d, a
<1>7. /\ n \in RoomState /\ n.status = "up" /\ n.pc = w.pc /\ n.purged = w.purged
      /\ n.backup = w.backup /\ n.waiting = w.waiting /\ n.doc = w.doc /\ n.running = "none"
  BY <1>1, <1>2, <1>5, RestedTyped, RestedFields DEF RoomState
<1> HIDE DEF n, t
<1>8. /\ m.status = "up" /\ m.pc = pc /\ m.purged = w.purged /\ m.backup = w.backup
      /\ m.waiting = w.waiting /\ m.doc = w.doc /\ m.running = "none"
  BY <1>7, PcFields
<1> HIDE DEF m
<1>9. w.running \in {"plain", "restore", "archive"}
  BY <1>1, <1>2 DEF RoomState, Caller
<1>10. CASE w.running = "plain"
  <2>1. m.pc = w.pc
    BY <1>7, <1>8, <1>10
  <2>2. OneVersioned(m) /\ ~m.purged
    BY <1>1, <1>8, <2>1 DEF Own, OneVersioned, Lives
  <2>3. Own(e, current, m, t)
    BY <1>1, <1>2, <1>6, <1>8, <2>1, <2>2, SameStep
  <2>4. e = current => Keeps(m, t, acked[e], snapshots[e], objects)
    BY <1>1, <1>2, <1>6, <1>8, <2>1 DEF Keeps
  <2>5. e = current /\ m.pc = "committing" => snapshots[e + 1].exists
    BY <2>1 DEF Live, SnapshotsAgree
  <2>6. QED
    BY <1>2, <1>3, <1>4, <1>6, <2>3, <2>4, <2>5, RoomStep
<1>11. CASE w.running # "plain"
  <2>1. w.pc = StepOf(w.running) /\ AllPlain(m)
    BY <1>1, <1>2, <1>8, <1>11 DEF Own, OneVersioned, AllPlain
  <2>2. OneVersioned(m) /\ ~m.purged
    BY <1>1, <1>8, <2>1, NoneVersioned DEF Own, Lives
  <2>3. \/ m.pc = "checking" /\ w.pc = "compacting"
        \/ m.pc = "idle"
    BY <1>8, <1>9, <1>11, <2>1 DEF StepOf
  <2>4. m.pc # "idle" => e < MaxEpoch /\ s.backup \subseteq m.backup
    BY <1>1, <1>8, <2>3 DEF Own, Place, Recalls, OfRestore, Step
  <2>5. m.pc \notin Announced \cup {"undoingLater", "undoingDeleted"} \cup AtEpoch \cup Unannounced
    BY <2>3 DEF Announced, AtEpoch, Unannounced
  <2>6. e = current => Keeps(m, t, acked[e], snapshots[e], objects)
    BY <1>1, <1>2, <1>6, <1>8, <2>5 DEF Keeps, Announced
  <2>7. m.pc \in OfRestore => e < MaxEpoch
    BY <2>4 DEF OfRestore
  <2>8. QED
    BY <1>2, <1>3, <1>4, <1>6, <1>8, <2>2, <2>4, <2>5, <2>6, <2>7, MovedStep
<1>12. QED
  BY <1>10, <1>11

LEMMA ArchiveStep ==
  ASSUME TypeOK, Live, NEW e \in Room, RequestArchive(e) \/ Archive(e)
  PROVE  Live'
<1> DEFINE w == room[e]
           s == store[e]
<1>1. /\ w \in RoomState /\ s \in StoreState /\ Own(e, current, w, s)
      /\ (e = current => Keeps(w, s, acked[e], snapshots[e], objects))
      /\ (s.backup # {} => s.pending)
  BY Mine, OfRoom, TypeParts
<1>2. /\ UNCHANGED page /\ UNCHANGED rows /\ UNCHANGED r2 /\ UNCHANGED acked
  BY DEF RequestArchive, Archive
<1>3. CASE RequestArchive(e)
  <2>1. To(e, "archiveReading") /\ w.status = "up" /\ w.pc = "idle" /\ ~s.pending
    BY <1>3 DEF RequestArchive, To, Up, Busy
  <2>2. AllPlain(w)
    BY <1>1, <2>1, PlainElsewhere DEF Own
  <2>3. "archiveReading" \notin Announced \cup OfRestore \cup AtEpoch
                            \cup {"undoingLater", "undoingDeleted"}
    BY DEF Announced, OfRestore, AtEpoch
  <2>4. QED
    BY <1>1, <1>2, <2>1, <2>2, <2>3, ToStep
<1>4. CASE Archive(e)
  <2> DEFINE m == [w EXCEPT !.pc = "archiving"]
  <2>1. w.pc = "archiveReading" /\ w.status = "up" /\ ~s.pending /\ AllPlain(w)
    <3>1. w.pc = "archiveReading"
      BY <1>4 DEF Archive
    <3>2. w.status = "up"
      BY <3>1, StepIsUp DEF Resolving
    <3>3. QED
      BY <1>1, <3>1, <3>2, PlainElsewhere DEF Own, Recalls, Unannounced
  <2>2. /\ m.status = w.status /\ m.pc = "archiving" /\ m.purged = w.purged
        /\ m.backup = w.backup /\ m.running = w.running /\ m.waiting = w.waiting
        /\ m.doc = w.doc /\ m.seen = w.seen /\ m.put = w.put
    BY <1>1, PcFields
  <2>3. m \in RoomState
    BY <1>1, PcTyped DEF Step
  <2>4. \/ Set(e, Compacting(m, s, "archive"), s)
        \/ Set(e, [m EXCEPT !.pc = "idle"], s)
    BY <1>4 DEF Archive
  <2> HIDE DEF m
  <2>5. AllPlain(m) /\ ~m.purged
    BY <1>1, <2>1, <2>2 DEF AllPlain, Own, Lives
  <2>6. "archiving" \notin Announced \cup OfRestore \cup AtEpoch
                       \cup {"undoingLater", "undoingDeleted"}
        /\ "idle" \notin Announced \cup OfRestore \cup AtEpoch \cup Unannounced
                       \cup {"undoingLater", "undoingDeleted"}
    BY DEF Announced, OfRestore, AtEpoch, Unannounced
  <2>7. e = current => Keeps(m, s, acked[e], snapshots[e], objects)
    BY <1>1, <2>2, <2>6, KeepsElsewhere
  <2>8. CASE Set(e, Compacting(m, s, "archive"), s)
    <3> DEFINE n == Compacting(m, s, "archive")
    <3>1. "archive" \in Caller /\ m.pc = StepOf("archive")
      BY <2>2 DEF Caller, StepOf
    <3>2. /\ n.status = m.status /\ n.pc = m.pc /\ n.purged = m.purged
          /\ n.backup = m.backup
      BY <1>1, <2>3, <3>1, CompactingFields
    <3>3. OneVersioned(n)
      BY <1>1, <2>3, <2>5, <3>1, NoneVersioned, CompactingOneVersioned
    <3>4. e = current => Keeps(n, s, acked[e], snapshots[e], objects)
      BY <1>1, <2>1, <2>2, <2>3, <2>7, <3>1, CompactingKeeps
    <3> HIDE DEF n
    <3>5. QED
      BY <1>1, <1>2, <2>1, <2>2, <2>5, <2>6, <2>8, <3>2, <3>3, <3>4, MovedStep DEF n
  <2>9. CASE Set(e, [m EXCEPT !.pc = "idle"], s)
    <3> DEFINE n == [m EXCEPT !.pc = "idle"]
    <3>1. /\ n.status = m.status /\ n.pc = "idle" /\ n.purged = m.purged
          /\ n.backup = m.backup /\ n.running = m.running /\ n.waiting = m.waiting
          /\ n.doc = m.doc /\ n.seen = m.seen /\ n.put = m.put
      BY <2>3, PcFields
    <3>2. Set(e, n, s)
      BY <2>9
    <3> HIDE DEF n
    <3>3. OneVersioned(n)
      <4>1. AllPlain(n)
        BY <2>5, <3>1 DEF AllPlain
      <4>2. QED
        BY <4>1, NoneVersioned
    <3>4. e = current => Keeps(n, s, acked[e], snapshots[e], objects)
      BY <2>6, <2>7, <3>1, KeepsElsewhere
    <3>5. QED
      BY <1>1, <1>2, <2>1, <2>2, <2>5, <2>6, <3>1, <3>2, <3>3, <3>4, MovedStep
  <2>10. QED
    BY <2>4, <2>8, <2>9
<1>5. QED
  BY <1>3, <1>4

LEMMA CompactStep ==
  ASSUME TypeOK, Live, NEW e \in Room, CompactionStep(e)
  PROVE  Live'
<1>1. CASE Compact(e)
  <2>1. /\ Set(e, Compacting(room[e], store[e], "plain"), store[e])
        /\ UNCHANGED page /\ UNCHANGED rows /\ UNCHANGED r2 /\ UNCHANGED acked
        /\ room[e].status = "up" /\ store[e] \in StoreState
    BY <1>1, OfRoom, TypeParts DEF Compact, Up
  <2>2. QED
    BY <2>1, PlainStep
<1>2. QED
  BY <1>1, TurnStep, PutSnapshotStep, FinishStep, FailStep DEF CompactionStep

-----------------------------------------------------------------------------
(* A restore, up to what it puts in R2.                                    *)

LEMMA RequestStep ==
  ASSUME TypeOK, Live, ~deleted, NEW e \in Room, RequestRestore(e) \/ Refuse(e)
  PROVE  Live'
<1> DEFINE w == room[e]
           s == store[e]
<1>1. /\ w \in RoomState /\ s \in StoreState /\ Own(e, current, w, s)
      /\ e \in Nat /\ current \in Nat /\ (s.backup # {} => s.pending)
  BY Mine, OfRoom, TypeParts
<1>2. /\ UNCHANGED page /\ UNCHANGED rows /\ UNCHANGED r2 /\ UNCHANGED acked
  BY DEF RequestRestore, Refuse
<1>3. CASE RequestRestore(e)
  <2>1. /\ To(e, "validating") /\ w.status = "up" /\ w.pc = "idle" /\ ~s.pending
        /\ ~s.retired /\ e < MaxEpoch
    BY <1>3, Rooms DEF RequestRestore, To, Up, Busy
  <2>2. AllPlain(w)
    BY <1>1, <2>1, PlainElsewhere DEF Own
  <2>3. current = e
    BY <1>1, <2>1 DEF Own, Lives, Place
  <2>4. s.backup \subseteq w.backup
    BY <1>1, <2>1
  <2>5. "validating" \notin Announced \cup {"undoingLater", "undoingDeleted"}
    BY DEF Announced
  <2>6. QED
    BY <1>2, <2>1, <2>2, <2>3, <2>4, <2>5, ToStep
<1>4. CASE Refuse(e)
  <2>1. To(e, "idle") /\ w.pc = "validating"
    BY <1>4 DEF Refuse, To
  <2>2. w.status = "up"
    BY <2>1, StepIsUp DEF Resolving
  <2>3. AllPlain(w)
    BY <1>1, <2>1, PlainElsewhere DEF Own
  <2>4. "idle" \notin Announced \cup {"undoingLater", "undoingDeleted"} \cup OfRestore
                      \cup AtEpoch \cup Unannounced
    BY DEF Announced, OfRestore, AtEpoch, Unannounced
  <2>5. QED
    BY <1>2, <2>1, <2>2, <2>3, <2>4, ToStep
<1>5. QED
  BY <1>3, <1>4

LEMMA ValidateStep ==
  ASSUME TypeOK, Live, ~deleted, NEW e \in Room, NEW v \in Version, Validate(e, v)
  PROVE  Live'
<1> DEFINE w == room[e]
           s == store[e]
           k == v.seen
           m == [[w EXCEPT !.pc = "compacting"] EXCEPT !.chosen = k]
<1>1. /\ w \in RoomState /\ s \in StoreState /\ Own(e, current, w, s)
      /\ (e = current => Keeps(w, s, acked[e], snapshots[e], objects))
      /\ e \in Nat /\ current \in Nat /\ (s.backup # {} => s.pending)
  BY Mine, OfRoom, TypeParts
<1>2. /\ UNCHANGED page /\ UNCHANGED rows /\ UNCHANGED r2 /\ UNCHANGED acked
      /\ w.pc = "validating" /\ w.status = "up" /\ ~s.retired
  BY DEF Validate, Up
<1>3. current = e /\ e < MaxEpoch /\ ~s.pending /\ s.backup = {} /\ e <= current
  BY <1>1, <1>2 DEF Own, Place, AtEpoch, OfRestore, Step, Recalls, Unannounced
<1>4. AllPlain(w)
  BY <1>1, <1>2, PlainElsewhere DEF Own
<1>5. k \in SUBSET Edit
  BY DEF Version
<1>6. m = [w EXCEPT !.pc = "compacting", !.chosen = k]
  BY <1>1 DEF RoomState
<1>7. \/ Set(e, Compacting(m, s, "restore"), s)
      \/ Recorded(e, m, s, {Backup(e)}) /\ ~w.dirty
  BY <1>6 DEF Validate
<1> HIDE DEF k
<1>8. /\ m.status = w.status /\ m.pc = "compacting" /\ m.purged = w.purged
      /\ m.backup = w.backup /\ m.running = w.running /\ m.waiting = w.waiting
      /\ m.doc = w.doc /\ m.seen = w.seen /\ m.put = w.put
  BY <1>1 DEF RoomState
<1>9. m \in RoomState
  BY <1>1, <1>5 DEF RoomState, Step
<1> HIDE DEF m
<1>10. AllPlain(m) /\ ~m.purged
  BY <1>1, <1>4, <1>8 DEF AllPlain, Own, Lives
<1>11. Keeps(m, s, acked[e], snapshots[e], objects)
  <2>1. m.pc \notin Announced
    BY <1>8 DEF Announced
  <2>2. QED
    BY <1>1, <1>3, <1>8, <2>1, KeepsElsewhere
<1>12. CASE Set(e, Compacting(m, s, "restore"), s)
  <2> DEFINE n == Compacting(m, s, "restore")
  <2>1. "restore" \in Caller /\ m.pc = StepOf("restore")
    BY <1>8 DEF Caller, StepOf
  <2>2. /\ n.status = m.status /\ n.pc = m.pc /\ n.purged = m.purged
        /\ n.backup = m.backup
    BY <1>1, <1>9, <2>1, CompactingFields
  <2>3. OneVersioned(n)
    BY <1>1, <1>9, <1>10, <2>1, NoneVersioned, CompactingOneVersioned
  <2>4. Keeps(n, s, acked[e], snapshots[e], objects)
    BY <1>1, <1>2, <1>8, <1>9, <1>11, <2>1, CompactingKeeps
  <2>5. Set(e, n, s)
    BY <1>12
  <2> HIDE DEF n
  <2>6. n.pc \notin Announced \cup {"undoingLater", "undoingDeleted"}
    BY <1>8, <2>2 DEF Announced
  <2>7. QED
    BY <1>2, <1>3, <1>8, <1>10, <2>2, <2>3, <2>4, <2>5, <2>6, MovedStep
<1>13. CASE Recorded(e, m, s, {Backup(e)})
  <2> DEFINE b == {Backup(e)}
             n == [m EXCEPT !.pc = "backingUp", !.backup = b]
             t == [s EXCEPT !.pending = TRUE, !.backup = b, !.deferred = FALSE, !.quiet = FALSE]
  <2>1. Set(e, n, t)
    BY <1>13 DEF Recorded
  <2>2. b \subseteq BackupsOf(e) /\ b # {} /\ \A u \in b : u.seen = w.doc
    BY <1>1 DEF Backup, BackupsOf, Version, RoomState
  <2> HIDE DEF b
  <2>3. /\ n.status = m.status /\ n.pc = "backingUp" /\ n.purged = m.purged /\ n.backup = b
        /\ n.running = m.running /\ n.waiting = m.waiting /\ n.doc = m.doc
        /\ n.seen = m.seen /\ n.put = m.put
    BY <1>9 DEF RoomState
  <2>4. /\ t.meta = s.meta /\ t.retired = s.retired /\ t.pending /\ t.backup = b
        /\ t.log = s.log
    BY <1>1 DEF StoreState
  <2> HIDE DEF n, t
  <2>5. OneVersioned(n)
    <3>1. AllPlain(n)
      BY <1>10, <2>3 DEF AllPlain
    <3>2. QED
      BY <3>1, NoneVersioned
  <2>6. Lives(n, t)
    BY <1>1, <1>2, <1>8, <1>10, <2>3, <2>4 DEF Own, Lives
  <2>7. Place(e, current, n, t)
    BY <1>2, <1>3, <2>3, <2>4 DEF Place, AtEpoch
  <2>8. Recalls(e, n, t)
    BY <2>2, <2>3, <2>4 DEF Recalls, Announced, Unannounced
  <2>9. Keeps(n, t, acked[e], snapshots[e], objects)
    BY <1>2, <1>8, <1>10, <1>11, <2>2, <2>3, <2>4 DEF Keeps, AllPlain
  <2>10. QED
    BY <1>2, <1>3, <2>1, <2>3, <2>5, <2>6, <2>7, <2>8, <2>9, RoomStep DEF Own
<1>14. QED
  BY <1>7, <1>12, <1>13

\* A recorded restore goes on: what it puts is recorded.
LEMMA PutStep ==
  ASSUME TypeOK, Live, NEW e \in Room, NEW m, Set(e, m, store[e]),
         UNCHANGED page, UNCHANGED rows, UNCHANGED acked, e = current, store[e].pending,
         objects \subseteq objects', objects' \ objects \subseteq store[e].backup,
         \A f \in Room : f # e + 1 => snapshots'[f] = snapshots[f],
         Own(e, current, m, store[e]), m.pc = "committing" => snapshots'[e + 1].exists,
         Keeps(m, store[e], acked[e], snapshots[e], objects')
  PROVE  Live'
<1>1. /\ room'[e] = m /\ store'[e] = store[e]
      /\ \A f \in Room : f # e => room'[f] = room[f] /\ store'[f] = store[f]
  BY Replaced, TypeParts
<1>2. current' = current /\ rows' = rows /\ acked' = acked /\ e \in Nat
  BY Mine DEF page
<1>3. AllOwn' /\ FutureIsBlank'
  BY <1>2, OwnElsewhere
<1>4. SnapshotsAgree'
  <2>1. ASSUME NEW f \in Room, f > e, snapshots'[f].exists PROVE f = e + 1
    BY <1>2, <2>1 DEF Live, SnapshotsAgree
  <2>2. snapshots'[e] = snapshots[e]
    BY <1>2
  <2>3. QED
    BY <1>1, <1>2, <2>1, <2>2 DEF Live, SnapshotsAgree
<1>5. ObjectsAgree'
  <2>1. ASSUME NEW v \in objects' \ rows PROVE v \in store'[v.epoch].backup
    <3>1. CASE v \in objects
      <4>1. v \in store[v.epoch].backup /\ v.epoch \in Room
        BY <2>1, <3>1, TypeParts DEF Live, ObjectsAgree, DataTyped, Version
      <4>2. QED
        BY <1>1, <4>1
    <3>2. CASE v \notin objects
      BY <1>1, <2>1, <3>2 DEF Own, Recalls, BackupsOf
    <3>3. QED
      BY <3>1, <3>2
  <2>2. \A f \in Room : f < current => store'[f].backup \subseteq rows
    BY <1>1 DEF Live, ObjectsAgree
  <2>3. QED
    BY <1>2, <2>1, <2>2 DEF Live, ObjectsAgree
<1>6. CurrentKeeps'
  BY <1>1, <1>2 DEF CurrentKeeps
<1>7. QED
  BY <1>3, <1>4, <1>5, <1>6 DEF Live

\* What a room knows at the steps of a recorded restore, and at the next one.
LEMMA AnnouncedTo ==
  ASSUME TypeOK, Live, NEW e \in Room, room[e].pc \in Announced, NEW o,
         NEW pc \in {"seeding", "committing", "checking", "undoing"}
  PROVE  /\ e = current /\ e < MaxEpoch /\ e \in Nat /\ e + 1 \in Room
         /\ store[e].pending /\ room[e].backup = store[e].backup
         /\ room[e].backup \subseteq BackupsOf(e)
         /\ Own(e, current, [room[e] EXCEPT !.pc = pc], store[e])
         /\ (pc \in {"seeding", "committing"} => room[e].backup \subseteq o) =>
              Keeps([room[e] EXCEPT !.pc = pc], store[e], acked[e], snapshots[e], o)
<1> DEFINE w == room[e]
           s == store[e]
           m == [w EXCEPT !.pc = pc]
<1>1. /\ w \in RoomState /\ Own(e, current, w, s) /\ e \in Nat
      /\ (e = current => Keeps(w, s, acked[e], snapshots[e], objects))
  BY Mine, OfRoom, TypeParts
<1>2. /\ e = current /\ e < MaxEpoch /\ s.pending /\ w.backup = s.backup
      /\ w.backup \subseteq BackupsOf(e)
  BY <1>1 DEF Own, Place, Recalls, Announced, AtEpoch, OfRestore, Step
<1>3. w.status = "up"
  BY StepIsUp DEF Announced, Resolving
<1>4. /\ m.status = w.status /\ m.pc = pc /\ m.purged = w.purged
      /\ m.backup = w.backup /\ m.running = w.running /\ m.waiting = w.waiting
      /\ m.doc = w.doc /\ m.seen = w.seen /\ m.put = w.put
  BY <1>1, PcFields
<1>5. AllPlain(w)
  BY <1>1, PlainElsewhere DEF Own, Announced
<1> HIDE DEF m
<1>6. OneVersioned(m)
  <2>1. AllPlain(m)
    BY <1>4, <1>5 DEF AllPlain
  <2>2. QED
    BY <2>1, NoneVersioned
<1>7. Lives(m, s)
  BY <1>1, <1>3, <1>4 DEF Own, Lives
<1>8. Place(e, current, m, s)
  BY <1>1, <1>2, <1>4 DEF Own, Place
<1>9. Recalls(e, m, s)
  BY <1>1, <1>2, <1>4 DEF Own, Recalls, Unannounced
<1>10. Own(e, current, m, s)
  BY <1>6, <1>7, <1>8, <1>9 DEF Own
<1>11. (pc \in {"seeding", "committing"} => w.backup \subseteq o) =>
          Keeps(m, s, acked[e], snapshots[e], o)
  BY <1>1, <1>2, <1>4 DEF Keeps
<1>12. e + 1 \in Room
  BY <1>2, Rooms
<1>13. QED
  BY <1>1, <1>2, <1>10, <1>11, <1>12 DEF m

LEMMA AnnouncedStep ==
  ASSUME TypeOK, Live, NEW e \in Room, room[e].pc \in Announced,
         NEW pc \in {"seeding", "committing", "checking", "undoing"}, To(e, pc),
         UNCHANGED page, UNCHANGED rows, UNCHANGED acked,
         objects \subseteq objects', objects' \ objects \subseteq room[e].backup,
         \A f \in Room : f # e + 1 => snapshots'[f] = snapshots[f],
         pc = "committing" => snapshots'[e + 1].exists,
         pc \in {"seeding", "committing"} => room[e].backup \subseteq objects'
  PROVE  Live'
<1> DEFINE m == [room[e] EXCEPT !.pc = pc]
<1>1. /\ e = current /\ store[e].pending /\ room[e].backup = store[e].backup
      /\ Own(e, current, m, store[e])
      /\ Keeps(m, store[e], acked[e], snapshots[e], objects')
  BY AnnouncedTo
<1>2. Set(e, m, store[e]) /\ m.pc = pc
  BY ToSets, PcFields, OfRoom, TypeParts
<1> HIDE DEF m
<1>3. QED
  BY <1>1, <1>2, PutStep

LEMMA PutsStep ==
  ASSUME TypeOK, Live, ~deleted, NEW e \in Room, PutBackup(e) \/ PutSeed(e)
  PROVE  Live'
<1>1. CASE PutBackup(e)
  <2>1. /\ room[e].pc \in Announced
        /\ UNCHANGED page /\ UNCHANGED rows /\ UNCHANGED acked /\ UNCHANGED snapshots
    BY <1>1 DEF PutBackup, Announced
  <2>2. CASE objects' = objects \cup room[e].backup /\ (To(e, "seeding") \/ To(e, "checking"))
    BY <2>1, <2>2, AnnouncedStep
  <2>3. CASE UNCHANGED objects /\ To(e, "checking")
    BY <2>1, <2>3, AnnouncedStep
  <2>4. QED
    BY <1>1, <2>2, <2>3 DEF PutBackup
<1>2. CASE PutSeed(e)
  <2>1. /\ room[e].pc = "seeding" /\ room[e].pc \in Announced
        /\ UNCHANGED page /\ UNCHANGED rows /\ UNCHANGED acked /\ UNCHANGED objects
    BY <1>2 DEF PutSeed, Announced
  <2>2. /\ room[e].backup \subseteq objects /\ e + 1 \in Room
    <3>1. e = current /\ e + 1 \in Room
      BY <2>1, AnnouncedTo
    <3>2. QED
      BY <2>1, <3>1, Mine DEF Keeps
  <2>3. CASE /\ snapshots' = [snapshots EXCEPT ![e + 1] = Stored(room[e].chosen)]
             /\ To(e, "committing") \/ To(e, "checking")
    <3>1. /\ snapshots'[e + 1].exists
          /\ \A f \in Room : f # e + 1 => snapshots'[f] = snapshots[f]
      BY <2>2, <2>3, TypeParts DEF DataTyped, Stored
    <3>2. QED
      BY <2>1, <2>2, <2>3, <3>1, AnnouncedStep
  <2>4. CASE UNCHANGED snapshots /\ To(e, "checking")
    BY <2>1, <2>4, AnnouncedStep
  <2>5. QED
    BY <1>2, <2>3, <2>4 DEF PutSeed
<1>3. QED
  BY <1>1, <1>2

-----------------------------------------------------------------------------
(* The batch of a restore, and how its end is found out.                   *)

LEMMA ClearedFields ==
  ASSUME NEW s \in StoreState, NEW b
  PROVE  /\ Cleared(s, b).meta = s.meta /\ Cleared(s, b).retired = b
         /\ Cleared(s, b).pending = FALSE /\ Cleared(s, b).backup = {}
         /\ Cleared(s, b).log = s.log
BY DEF Cleared, StoreState

LEMMA DeferFields ==
  ASSUME NEW s \in StoreState, NEW m
  PROVE  /\ Defer(m, s).meta = s.meta /\ Defer(m, s).retired = s.retired
         /\ Defer(m, s).pending = s.pending /\ Defer(m, s).backup = s.backup
         /\ Defer(m, s).log = s.log
BY DEF Defer, StoreState

\* A running object whose restore has ended: what remains is what the page says.
LEMMA SettledOwn ==
  ASSUME TypeOK, Live, NEW e \in Room, NEW c \in Nat, NEW pc \in {"idle", "checking"}, NEW t,
         AllPlain(room[e]), room[e].status = "up", e < MaxEpoch, t.meta = store[e].meta,
         store[e].backup \subseteq room[e].backup, t.backup \subseteq store[e].backup,
         t.retired => c > e, ~t.retired /\ ~t.pending => c = e
  PROVE  Own(e, c, [room[e] EXCEPT !.pc = pc], t)
<1> DEFINE w == room[e]
           m == [w EXCEPT !.pc = pc]
<1>1. w \in RoomState /\ Own(e, current, w, store[e])
  BY Mine, OfRoom, TypeParts
<1>2. /\ m.status = w.status /\ m.pc = pc /\ m.purged = w.purged
      /\ m.backup = w.backup /\ m.running = w.running /\ m.waiting = w.waiting
  BY <1>1, PcFields
<1> HIDE DEF m
<1>3. OneVersioned(m)
  <2>1. AllPlain(m)
    BY <1>2 DEF AllPlain
  <2>2. QED
    BY <2>1, NoneVersioned
<1>4. Lives(m, t)
  BY <1>1, <1>2 DEF Own, Lives
<1>5. Place(e, c, m, t)
  BY <1>2 DEF Place, AtEpoch
<1>6. Recalls(e, m, t)
  BY <1>1, <1>2 DEF Own, Recalls, Announced, Unannounced
<1>7. QED
  BY <1>3, <1>4, <1>5, <1>6 DEF Own, m

\* The object and the storage that a committed restore leaves.
LEMMA CommittedLeaves ==
  ASSUME TypeOK, NEW e \in Room, ~room[e].purged, store[e].pending,
         Committed(e) \/ To(e, "checking")
  PROVE  \E pc \in {"idle", "checking"}, t \in StoreState :
           /\ Set(e, [room[e] EXCEPT !.pc = pc], t)
           /\ t.meta = store[e].meta /\ t.backup \subseteq store[e].backup
           /\ t.log = store[e].log
           /\ t = store[e] \/ (t.retired /\ ~t.pending)
<1>1. store[e] \in StoreState /\ RoomsTyped
  BY OfRoom, TypeParts
<1>2. CASE Clear(e, [room[e] EXCEPT !.pc = "idle"], TRUE)
  <2>1. ~[room[e] EXCEPT !.pc = "idle"].purged
    BY OfRoom, TypeParts, PcFields
  <2>2. Set(e, [room[e] EXCEPT !.pc = "idle"], Cleared(store[e], TRUE))
    BY <1>2, <2>1 DEF Clear
  <2> DEFINE t == Cleared(store[e], TRUE)
  <2>3. /\ t \in StoreState /\ t.meta = store[e].meta /\ t.backup = {}
        /\ t.log = store[e].log /\ t.retired /\ ~t.pending
    BY <1>1, ClearedFields, SettleTyped
  <2>4. Set(e, [room[e] EXCEPT !.pc = "idle"], t)
    BY <2>2
  <2> HIDE DEF t
  <2>5. QED
    BY <2>3, <2>4
<1>3. CASE To(e, "idle") \/ To(e, "checking")
  BY <1>1, <1>3, ToSets
<1>4. QED
  BY <1>2, <1>3 DEF Committed

LEMMA CommittingStep ==
  ASSUME TypeOK, Live, ~deleted, NEW e \in Room, room[e].pc = "committing",
         current' = e + 1, rows' = rows \cup room[e].backup,
         Committed(e) \/ To(e, "checking"),
         UNCHANGED <<archived, deleted, r2, acked>>
  PROVE  Live'
<1> DEFINE w == room[e]
           s == store[e]
<1>1. /\ e = current /\ e < MaxEpoch /\ e \in Nat /\ e + 1 \in Room
      /\ s.pending /\ w.backup = s.backup /\ w.backup \subseteq BackupsOf(e)
  BY AnnouncedTo DEF Announced
<1>2. w \in RoomState /\ s \in StoreState /\ Own(e, current, w, s)
  BY Mine, OfRoom, TypeParts
<1>3. ~w.purged /\ w.status = "up" /\ AllPlain(w)
  BY <1>2, StepIsUp, PlainElsewhere DEF Own, Lives, Resolving
<1>4. PICK pc \in {"idle", "checking"}, t \in StoreState :
        /\ Set(e, [w EXCEPT !.pc = pc], t)
        /\ t.meta = s.meta /\ t.backup \subseteq s.backup /\ t.log = s.log
        /\ t = s \/ (t.retired /\ ~t.pending)
  BY <1>1, <1>3, CommittedLeaves
<1> DEFINE m == [w EXCEPT !.pc = pc]
<1>5. /\ room'[e] = m /\ store'[e] = t
      /\ \A f \in Room : f # e => room'[f] = room[f] /\ store'[f] = store[f]
  BY <1>4, Replaced, TypeParts
<1>6. snapshots' = snapshots /\ objects' = objects /\ acked' = acked
  BY DEF r2
<1>7. Own(e, e + 1, m, t)
  <2>1. e + 1 \in Nat /\ e + 1 > e /\ (t.retired \/ t.pending)
    BY <1>1, <1>4
  <2>2. s.backup \subseteq w.backup
    BY <1>1
  <2>3. QED
    BY <1>1, <1>3, <1>4, <2>1, <2>2, SettledOwn
<1> HIDE DEF m
<1>8. room[e + 1] = Down /\ store[e + 1] = Blank /\ acked[e + 1] = {}
  BY <1>1 DEF Live, FutureIsBlank
<1>9. AllOwn'
  <2>1. ASSUME NEW f \in Room, f # e PROVE Own(f, e + 1, room[f], store[f])
    <3>1. Own(f, e, room[f], store[f]) /\ f \in Nat
      BY <1>1, Mine
    <3>2. f > e => room[f].pc = "idle" /\ ~store[f].meta /\ ~store[f].retired
      BY <1>1 DEF Live, FutureIsBlank, Down, Blank
    <3>3. Place(f, e + 1, room[f], store[f])
      <4>1. f < e \/ f > e
        BY <1>1, <2>1, <3>1
      <4>2. CASE f < e
        <5>1. /\ room[f].pc \notin AtEpoch
              /\ ~(store[f].meta /\ ~store[f].retired /\ ~store[f].pending)
          BY <2>1, <3>1, <4>2 DEF Own, Place
        <5>2. e + 1 > f /\ (e > f + 1 => e + 1 > f + 1)
          BY <1>1, <3>1, <4>2
        <5>3. QED
          BY <3>1, <5>1, <5>2 DEF Own, Place
      <4>3. CASE f > e
        BY <3>1, <3>2, <4>3 DEF Own, Place, AtEpoch, OfRestore
      <4>4. QED
        BY <4>1, <4>2, <4>3
    <3>4. QED
      BY <3>1, <3>3 DEF Own
  <2>2. QED
    BY <1>5, <1>7, <2>1 DEF AllOwn
<1>10. FutureIsBlank'
  <2>1. ASSUME NEW f \in Room, f > e + 1 PROVE f > current /\ f # e
    BY <1>1, <2>1, Mine
  <2>2. QED
    BY <1>5, <1>6, <2>1 DEF Live, FutureIsBlank
<1>11. SnapshotsAgree'
  <2>1. \A f \in Room : f > e + 1 => ~snapshots[f].exists
    <3>1. ASSUME NEW f \in Room, f > e + 1 PROVE f > current /\ f # current + 1
      BY <1>1, <3>1, Mine
    <3>2. QED
      BY <3>1 DEF Live, SnapshotsAgree
  <2>2. snapshots[e + 1].exists
    BY <1>1 DEF Live, SnapshotsAgree
  <2>3. room'[e + 1].pc # "committing"
    BY <1>1, <1>5, <1>8 DEF Down
  <2>4. QED
    BY <1>6, <2>1, <2>2, <2>3 DEF SnapshotsAgree
<1>12. ObjectsAgree'
  <2>1. ASSUME NEW v \in objects \ rows' PROVE v \in store'[v.epoch].backup
    <3>1. v \in store[v.epoch].backup /\ v.epoch \in Room /\ v \notin s.backup
      BY <1>1, <2>1, TypeParts DEF Live, ObjectsAgree, DataTyped, Version
    <3>2. QED
      BY <1>5, <3>1
  <2>2. ASSUME NEW f \in Room, f < e + 1 PROVE store'[f].backup \subseteq rows'
    <3>1. f = e \/ f < current
      BY <1>1, <2>2, Mine
    <3>2. CASE f = e
      BY <1>1, <1>4, <1>5, <3>2
    <3>3. CASE f < current /\ f # e
      BY <1>5, <3>3 DEF Live, ObjectsAgree
    <3>4. QED
      BY <3>1, <3>2, <3>3
  <2>3. ASSUME NEW v \in rows', v.kind = "backup" PROVE v.epoch < e + 1
    <3>1. CASE v \in rows
      <4>1. v.epoch < e /\ v.epoch \in Nat
        BY <1>1, <2>3, <3>1, TypeParts, Rooms DEF Live, ObjectsAgree, DataTyped, Version
      <4>2. QED
        BY <1>1, <4>1
    <3>2. CASE v \notin rows
      BY <1>1, <2>3, <3>2 DEF BackupsOf
    <3>3. QED
      BY <3>1, <3>2
  <2>4. QED
    BY <1>6, <2>1, <2>2, <2>3 DEF ObjectsAgree
<1>13. CurrentKeeps'
  <2>1. room'[e + 1] = Down /\ store'[e + 1] = Blank
    BY <1>1, <1>5, <1>8
  <2>2. Keeps(Down, Blank, {}, snapshots[e + 1], objects)
    BY DEF Keeps, Down, Announced
  <2>3. QED
    BY <1>6, <1>8, <2>1, <2>2 DEF CurrentKeeps
<1>14. QED
  BY <1>9, <1>10, <1>11, <1>12, <1>13 DEF Live

LEMMA CommitStep ==
  ASSUME TypeOK, Live, ~deleted, NEW e \in Room, Commit(e)
  PROVE  Live'
<1>1. /\ room[e].pc = "committing" /\ room[e].pc \in Announced
      /\ UNCHANGED <<archived, deleted, r2, acked>>
  BY DEF Commit, Announced
<1>2. ASSUME UNCHANGED <<current, rows>>, To(e, "undoing") \/ To(e, "checking") PROVE Live'
  BY <1>1, <1>2, AnnouncedStep DEF page, r2
<1>3. ASSUME current' = e + 1, rows' = rows \cup room[e].backup,
             Committed(e) \/ To(e, "checking")
      PROVE  Live'
  BY <1>1, <1>3, CommittingStep
<1>4. QED
  BY <1>2, <1>3 DEF Commit

LEMMA CheckStep ==
  ASSUME TypeOK, Live, ~deleted, NEW e \in Room, Check(e)
  PROVE  Live'
<1> DEFINE w == room[e]
           s == store[e]
<1>1. /\ w \in RoomState /\ s \in StoreState /\ Own(e, current, w, s)
      /\ (e = current => Keeps(w, s, acked[e], snapshots[e], objects))
      /\ e \in Nat /\ current \in Nat /\ (s.backup # {} => s.pending)
  BY Mine, OfRoom, TypeParts
<1>2. /\ UNCHANGED page /\ UNCHANGED rows /\ UNCHANGED r2 /\ UNCHANGED acked
      /\ w.pc = "checking"
  BY DEF Check
<1>3. w.status = "up" /\ s.meta /\ e <= current
  BY <1>2, StepIsUp DEF Resolving
<1>4. AllPlain(w) /\ ~w.purged
  BY <1>1, <1>2, PlainElsewhere DEF Own, Lives
<1>5. e < MaxEpoch /\ s.backup \subseteq w.backup
  BY <1>1, <1>2 DEF Own, Place, Recalls, OfRestore, Step
<1>6. "idle" \notin Announced \cup {"undoingLater", "undoingDeleted"} \cup OfRestore
                    \cup AtEpoch \cup Unannounced
      /\ "undoing" \notin Announced \cup {"undoingLater", "undoingDeleted"} \cup Unannounced
  BY DEF Announced, OfRestore, AtEpoch, Unannounced
<1>7. ASSUME To(e, "idle") PROVE Live'
  BY <1>2, <1>3, <1>4, <1>6, <1>7, ToStep
<1>8. ASSUME IsCurrent(e), To(e, "undoing") PROVE Live'
  <2>1. current = e
    BY <1>8 DEF IsCurrent
  <2>2. QED
    BY <1>2, <1>3, <1>4, <1>5, <1>6, <1>8, <2>1, ToStep
<1> DEFINE m == [w EXCEPT !.pc = "idle"]
<1>9. /\ m.status = w.status /\ m.pc = "idle" /\ m.purged = w.purged
      /\ m.backup = w.backup /\ m.running = w.running /\ m.waiting = w.waiting
      /\ m.doc = w.doc /\ m.seen = w.seen /\ m.put = w.put
  BY <1>1, PcFields
<1>10. ASSUME IsCurrent(e + 1), Clear(e, m, TRUE) PROVE Live'
  <2> DEFINE t == Cleared(s, TRUE)
  <2>1. Set(e, m, t)
    BY <1>4, <1>9, <1>10 DEF Clear
  <2>2. /\ t \in StoreState /\ t.meta = s.meta /\ t.backup = {} /\ t.retired /\ ~t.pending
    BY <1>1, ClearedFields, SettleTyped, TypeParts
  <2>3. current = e + 1 /\ e < current
    BY <1>1, <1>10 DEF IsCurrent
  <2> HIDE DEF t
  <2>4. Own(e, current, m, t)
    BY <1>1, <1>3, <1>4, <1>5, <2>2, <2>3, SettledOwn
  <2> HIDE DEF m
  <2>5. QED
    BY <1>1, <1>2, <1>3, <1>9, <2>1, <2>2, <2>3, <2>4, RoomStep
<1>11. ASSUME Set(e, m, Defer(w, s)) PROVE Live'
  <2> DEFINE t == Defer(w, s)
  <2>1. /\ t.meta = s.meta /\ t.retired = s.retired /\ t.pending = s.pending
        /\ t.backup = s.backup /\ t.log = s.log
    BY <1>1, DeferFields
  <2>2. Set(e, m, t)
    BY <1>11
  <2> HIDE DEF t, m
  <2>3. OneVersioned(m)
    <3>1. AllPlain(m)
      BY <1>4, <1>9 DEF AllPlain
    <3>2. QED
      BY <3>1, NoneVersioned
  <2>4. e = current => Keeps(m, t, acked[e], snapshots[e], objects)
    BY <1>1, <1>6, <1>9, <2>1, KeepsElsewhere
  <2>5. QED
    BY <1>2, <1>3, <1>4, <1>6, <1>9, <2>1, <2>2, <2>3, <2>4, MovedStep
<1>12. \/ IsCurrent(e + 1) /\ Clear(e, m, TRUE)
       \/ To(e, "idle")
       \/ IsCurrent(e) /\ To(e, "undoing")
       \/ Set(e, m, Defer(w, s))
  BY DEF Check, Committed
<1> HIDE DEF m
<1>13. QED
  BY <1>7, <1>8, <1>10, <1>11, <1>12

\* What a restore put in R2 goes, all of it or a part.
LEMMA DeleteStep ==
  ASSUME TypeOK, Live, NEW e \in Room, NEW m, NEW t, NEW seeds, NEW backups,
         Set(e, m, t), Delete(seeds, backups),
         seeds \subseteq {e + 1}, backups \subseteq BackupsOf(e),
         UNCHANGED page, UNCHANGED rows, UNCHANGED acked,
         e <= current, current # e + 1, Own(e, current, m, t), m.pc = "idle",
         \/ t.pending = store[e].pending /\ t.backup = store[e].backup
         \/ e < current /\ t.backup \subseteq store[e].backup
         \/ e = current /\ e + 1 \in seeds /\ store[e].backup \subseteq backups,
         e = current => Keeps(m, t, acked[e], snapshots[e], objects')
  PROVE  Live'
<1>1. /\ room'[e] = m /\ store'[e] = t
      /\ \A f \in Room : f # e => room'[f] = room[f] /\ store'[f] = store[f]
  BY Replaced, TypeParts
<1>2. /\ current' = current /\ rows' = rows /\ acked' = acked
      /\ e \in Nat /\ current \in Nat /\ current \in Room
  BY Mine DEF page
<1>3. AllOwn' /\ FutureIsBlank'
  BY <1>2, OwnElsewhere
<1>4. /\ objects' \subseteq objects /\ objects' = objects \ backups
      /\ \A f \in Room : f \notin seeds => snapshots'[f] = snapshots[f]
      /\ \A f \in Room : f \in seeds => ~snapshots'[f].exists
  BY DEF Delete, Missing
<1>5. snapshots'[current] = snapshots[current]
  BY <1>2, <1>4
<1>6. SnapshotsAgree'
  <2>1. ASSUME NEW f \in Room, f > current, snapshots'[f].exists
        PROVE  f = current + 1 /\ store'[current].pending
    <3>1. f \notin seeds /\ f = current + 1 /\ store[current].pending
      BY <1>4, <2>1 DEF Live, SnapshotsAgree
    <3>2. e = current => t.pending
      BY <1>2, <3>1
    <3>3. QED
      BY <1>1, <1>2, <3>1, <3>2
  <2>2. current > 1 => snapshots'[current].exists
    BY <1>5 DEF Live, SnapshotsAgree
  <2>3. room'[current].pc = "committing" => snapshots'[current + 1].exists
    <3>1. SUFFICES ASSUME room'[current].pc = "committing" PROVE snapshots'[current + 1].exists
      OBVIOUS
    <3>2. e # current /\ room[current].pc = "committing"
      BY <1>1, <1>2, <3>1
    <3>3. current + 1 \in Room /\ current + 1 # e + 1
      BY <1>2, <3>2, Rooms DEF Live, AllOwn, Own, Place, OfRestore, Step
    <3>4. QED
      BY <1>4, <3>2, <3>3 DEF Live, SnapshotsAgree
  <2>4. QED
    BY <1>2, <2>1, <2>2, <2>3 DEF SnapshotsAgree
<1>7. ObjectsAgree'
  <2>1. ASSUME NEW v \in objects' \ rows PROVE v \in store'[v.epoch].backup
    <3>1. v \in objects /\ v \notin backups /\ v \notin rows
      BY <1>4, <2>1
    <3>2. v \in store[v.epoch].backup /\ v.epoch \in Room
      BY <3>1, TypeParts DEF Live, ObjectsAgree, DataTyped, Version
    <3>3. ASSUME v.epoch = e PROVE v \in t.backup
      <4>1. ~(e < current)
        BY <3>1, <3>2, <3>3 DEF Live, ObjectsAgree
      <4>2. QED
        BY <3>1, <3>2, <3>3, <4>1
    <3>4. QED
      BY <1>1, <3>2, <3>3
  <2>2. ASSUME NEW f \in Room, f < current PROVE store'[f].backup \subseteq rows
    <3>1. store[f].backup \subseteq rows
      BY <2>2 DEF Live, ObjectsAgree
    <3>2. f = e => t.backup \subseteq store[e].backup
      BY <1>2, <2>2
    <3>3. QED
      BY <1>1, <3>1, <3>2
  <2>3. QED
    BY <1>2, <2>1, <2>2 DEF Live, ObjectsAgree
<1>8. CurrentKeeps'
  <2>1. CASE e = current
    BY <1>1, <1>2, <1>5, <2>1 DEF CurrentKeeps
  <2>2. CASE e # current
    <3>1. Keeps(room[current], store[current], acked[current], snapshots[current], objects)
      BY DEF Live, CurrentKeeps
    <3>2. room[current].backup \subseteq BackupsOf(current)
      BY <1>2 DEF Live, AllOwn, Own, Recalls
    <3>3. room[current].backup \cap backups = {}
      BY <2>2, <3>2 DEF BackupsOf
    <3>4. Keeps(room[current], store[current], acked[current], snapshots[current], objects')
      BY <1>4, <3>1, <3>3 DEF Keeps
    <3>5. QED
      BY <1>1, <1>2, <1>5, <2>2, <3>4 DEF CurrentKeeps
  <2>3. QED
    BY <2>1, <2>2
<1>9. QED
  BY <1>3, <1>6, <1>7, <1>8 DEF Live

LEMMA UndoStep ==
  ASSUME TypeOK, Live, ~deleted, NEW e \in Room, Undo(e)
  PROVE  Live'
<1> DEFINE w == room[e]
           s == store[e]
           m == [w EXCEPT !.pc = "idle"]
<1>1. /\ w \in RoomState /\ s \in StoreState /\ Own(e, current, w, s)
      /\ (e = current => Keeps(w, s, acked[e], snapshots[e], objects))
      /\ e \in Nat /\ current \in Nat
  BY Mine, OfRoom, TypeParts
<1>2. /\ UNCHANGED page /\ UNCHANGED rows /\ UNCHANGED acked /\ w.pc = "undoing"
  BY DEF Undo
<1>3. w.status = "up" /\ s.meta /\ e = current /\ e < MaxEpoch
  BY <1>1, <1>2, StepIsUp DEF Resolving, Own, Place, AtEpoch, OfRestore, Step
<1>4. AllPlain(w) /\ ~w.purged /\ ~s.retired
  BY <1>1, <1>2, <1>3, PlainElsewhere DEF Own, Lives, Place
<1>5. s.backup \subseteq w.backup /\ w.backup \subseteq BackupsOf(e)
  BY <1>1, <1>2 DEF Own, Recalls
<1>6. /\ m.status = w.status /\ m.pc = "idle" /\ m.purged = w.purged
      /\ m.backup = w.backup /\ m.running = w.running /\ m.waiting = w.waiting
      /\ m.doc = w.doc /\ m.seen = w.seen /\ m.put = w.put
  BY <1>1, PcFields
<1>7. ASSUME NEW t, t.meta = s.meta, t.retired = s.retired, t.log = s.log,
             t.backup \subseteq s.backup
      PROVE  Own(e, current, m, t) /\ Keeps(m, t, acked[e], snapshots[e], objects')
  <2>1. Own(e, current, m, t)
    BY <1>1, <1>3, <1>4, <1>5, <1>7, SettledOwn
  <2>2. Keeps(m, t, acked[e], snapshots[e], objects')
    BY <1>1, <1>3, <1>6, <1>7 DEF Keeps, Announced
  <2>3. QED
    BY <2>1, <2>2
<1>8. CASE Delete({e + 1}, w.backup) /\ Clear(e, m, FALSE)
  <2> DEFINE t == Cleared(s, FALSE)
  <2>1. Set(e, m, t)
    BY <1>4, <1>6, <1>8 DEF Clear
  <2>2. t.meta = s.meta /\ t.retired = s.retired /\ t.log = s.log /\ t.backup = {}
    BY <1>1, <1>4, ClearedFields DEF StoreState
  <2> HIDE DEF t
  <2>3. Own(e, current, m, t) /\ Keeps(m, t, acked[e], snapshots[e], objects')
    BY <1>7, <2>2
  <2> HIDE DEF m
  <2>4. QED
    BY <1>1, <1>2, <1>3, <1>5, <1>6, <1>8, <2>1, <2>3, DeleteStep
<1>9. CASE /\ \E seeds \in SUBSET {e + 1}, backups \in SUBSET w.backup : Delete(seeds, backups)
           /\ Set(e, m, Defer(w, s))
  <2> DEFINE t == Defer(w, s)
  <2>1. Set(e, m, t)
    BY <1>9
  <2>2. /\ t.meta = s.meta /\ t.retired = s.retired /\ t.log = s.log
        /\ t.backup = s.backup /\ t.pending = s.pending
    BY <1>1, DeferFields
  <2> HIDE DEF t
  <2>3. Own(e, current, m, t) /\ Keeps(m, t, acked[e], snapshots[e], objects')
    BY <1>7, <2>2
  <2> HIDE DEF m
  <2>4. QED
    BY <1>1, <1>2, <1>3, <1>5, <1>6, <1>9, <2>1, <2>2, <2>3, DeleteStep
<1>10. QED
  BY <1>8, <1>9 DEF Undo

-----------------------------------------------------------------------------
(* Alarms and the reconciliation of a restore.                             *)

\* What a running object knows does not depend on its timers.
LEMMA TimerStep ==
  ASSUME TypeOK, Live, NEW e \in Room, NEW m, NEW t, Set(e, m, t),
         UNCHANGED page, UNCHANGED rows, UNCHANGED r2, UNCHANGED acked,
         store[e].meta, t.meta = store[e].meta, t.retired = store[e].retired,
         t.pending = store[e].pending, t.backup = store[e].backup, t.log = store[e].log,
         m = room[e] \/ (m = [room[e] EXCEPT !.latch = FALSE] /\ room[e].status = "up")
  PROVE  Live'
<1> DEFINE w == room[e]
           s == store[e]
<1>1. /\ w \in RoomState /\ Own(e, current, w, s)
      /\ (e = current => Keeps(w, s, acked[e], snapshots[e], objects))
      /\ e \in Nat /\ current \in Nat
  BY Mine, OfRoom, TypeParts
<1>2. /\ m.status = w.status /\ m.pc = w.pc /\ m.purged = w.purged
      /\ m.backup = w.backup /\ m.running = w.running /\ m.waiting = w.waiting
      /\ m.doc = w.doc /\ m.seen = w.seen /\ m.put = w.put
  BY <1>1 DEF RoomState
<1>3. OneVersioned(m)
  BY <1>1, <1>2 DEF Own, OneVersioned
<1>4. Lives(m, t)
  BY <1>1, <1>2 DEF Own, Lives
<1>5. Place(e, current, m, t) /\ Recalls(e, m, t)
  BY <1>1, <1>2 DEF Own, Place, Recalls
<1>6. e = current => Keeps(m, t, acked[e], snapshots[e], objects)
  BY <1>1, <1>2 DEF Keeps
<1>7. e = current /\ m.pc = "committing" => snapshots[e + 1].exists
  BY <1>2 DEF Live, SnapshotsAgree
<1>8. e <= current
  <2>1. e > current => ~s.meta
    BY DEF Live, FutureIsBlank, Blank
  <2>2. QED
    BY <1>1, <2>1
<1>9. QED
  BY <1>3, <1>4, <1>5, <1>6, <1>7, <1>8, RoomStep DEF Own

LEMMA QuietStep ==
  ASSUME TypeOK, Live, NEW e \in Room, EndQuiet(e)
  PROVE  Live'
<1> DEFINE s == store[e]
           t == [s EXCEPT !.quiet = FALSE]
<1>1. /\ s \in StoreState /\ room[e] \in RoomState /\ s.quiet
      /\ Own(e, current, room[e], s)
      /\ UNCHANGED page /\ UNCHANGED rows /\ UNCHANGED r2 /\ UNCHANGED acked
  BY Mine, OfRoom, TypeParts DEF EndQuiet
<1>2. Set(e, room[e], t)
  BY TypeParts DEF EndQuiet, Set, RoomsTyped
<1>3. /\ t.meta = s.meta /\ t.retired = s.retired
      /\ t.pending = s.pending /\ t.backup = s.backup /\ t.log = s.log
  BY <1>1 DEF StoreState
<1>4. s.meta
  BY <1>1 DEF Own, Lives, Blank
<1> HIDE DEF t
<1>5. QED
  BY <1>1, <1>2, <1>3, <1>4, TimerStep

LEMMA AlarmStep ==
  ASSUME TypeOK, Live, ~deleted, NEW e \in Room, Alarm(e)
  PROVE  Live'
<1> DEFINE w == room[e]
           s == store[e]
           t == [s EXCEPT !.alarm = FALSE]
<1>1. /\ w \in RoomState /\ s \in StoreState /\ Own(e, current, w, s)
      /\ (e = current => Keeps(w, s, acked[e], snapshots[e], objects))
      /\ e \in Nat /\ current \in Nat
  BY Mine, OfRoom, TypeParts
<1>2. /\ UNCHANGED page /\ UNCHANGED rows /\ UNCHANGED r2 /\ UNCHANGED acked
      /\ w.status = "up" /\ w.pc \in {"idle", "validating", "archiveReading"}
  BY DEF Alarm, Up
<1>3. s.meta /\ ~w.purged /\ e <= current
  BY <1>1, <1>2, Reached DEF Own, Lives
<1>4. /\ t \in StoreState /\ t.meta = s.meta /\ t.retired = s.retired
      /\ t.pending = s.pending /\ t.backup = s.backup /\ t.log = s.log
  BY <1>1 DEF StoreState
<1>5. CASE AlarmPending(e)
  <2> DEFINE b == s.backup
             m == [w EXCEPT !.pc = "reconciling", !.backup = b]
             n == [w EXCEPT !.latch = FALSE]
  <2>1. s.pending /\ (Set(e, n, s) \/ Set(e, m, t))
    BY <1>5 DEF AlarmPending, Rearmed
  <2>2. CASE Set(e, n, s)
    BY <1>1, <1>2, <1>3, <2>2, TimerStep
  <2>3. CASE Set(e, m, t)
    <3> HIDE DEF b
    <3>1. /\ m.status = w.status /\ m.pc = "reconciling" /\ m.purged = w.purged
          /\ m.backup = b /\ m.running = w.running /\ m.waiting = w.waiting
          /\ m.doc = w.doc /\ m.seen = w.seen /\ m.put = w.put
      BY <1>1 DEF RoomState
    <3> USE DEF b
    <3> HIDE DEF m, t
    <3>2. AllPlain(w)
      BY <1>1, <1>2, PlainElsewhere DEF Own
    <3>3. OneVersioned(m)
      <4>1. AllPlain(m)
        BY <3>1, <3>2 DEF AllPlain
      <4>2. QED
        BY <4>1, NoneVersioned
    <3>4. Lives(m, t)
      BY <1>1, <1>2, <1>3, <1>4, <3>1 DEF Own, Lives
    <3>5. Place(e, current, m, t)
      BY <1>1, <1>4, <2>1, <3>1 DEF Own, Place, AtEpoch
    <3>6. Recalls(e, m, t)
      BY <1>1, <1>4, <3>1 DEF Own, Recalls, Announced, Unannounced
    <3>7. e = current => Keeps(m, t, acked[e], snapshots[e], objects)
      BY <1>1, <1>4, <3>1 DEF Keeps, Announced
    <3>8. QED
      BY <1>2, <1>3, <1>4, <2>3, <3>1, <3>3, <3>4, <3>5, <3>6, <3>7, RoomStep DEF Own
  <2>4. QED
    BY <2>1, <2>2, <2>3
<1>6. CASE AlarmSettled(e)
  <2>1. Set(e, Compacting(w, s, "plain"), t) \/ Set(e, w, t)
    BY <1>6 DEF AlarmSettled
  <2> HIDE DEF t
  <2>2. CASE Set(e, Compacting(w, s, "plain"), t)
    BY <1>2, <1>4, <2>2, PlainStep
  <2>3. CASE Set(e, w, t)
    BY <1>2, <1>3, <1>4, <2>3, TimerStep
  <2>4. QED
    BY <2>1, <2>2, <2>3
<1>7. QED
  BY <1>5, <1>6 DEF Alarm

LEMMA ResolvingKnows ==
  ASSUME TypeOK, Live, NEW e \in Room, room[e].pc \in Resolving
  PROVE  /\ room[e].status \in {"up", "starting"} /\ ~room[e].purged /\ AllPlain(room[e])
         /\ e <= current /\ e < MaxEpoch /\ store[e].meta
         /\ store[e].backup \subseteq room[e].backup /\ room[e].backup \subseteq BackupsOf(e)
         /\ (room[e].pc = "undoingOld" => current = e)
         /\ (room[e].pc = "undoingLater" => current > e + 1)
         /\ (room[e].status = "starting" => store[e].pending)
<1> DEFINE w == room[e]
<1>1. /\ w \in RoomState /\ store[e] \in StoreState /\ Own(e, current, w, store[e])
      /\ e \in Nat /\ current \in Nat
  BY Mine, OfRoom, TypeParts
<1>2. w.status # "down" /\ ~w.purged
  BY <1>1 DEF Own, Lives, Down, Resolving
<1>3. w.status \in {"up", "starting"}
  BY <1>1, <1>2 DEF RoomState
<1>4. AllPlain(w)
  BY <1>1, PlainElsewhere DEF Own, Resolving
<1>5. e < MaxEpoch
  BY <1>1 DEF Own, Place, OfRestore, Resolving, Step
<1>6. e <= current
  BY <1>1, <1>2, Reached
<1>7. w.status = "starting" => store[e].pending
  BY <1>1 DEF Own, Lives
<1>8. store[e].meta
  BY <1>1, <1>3, <1>7 DEF Own, Lives, Blank
<1>9. /\ store[e].backup \subseteq w.backup /\ w.backup \subseteq BackupsOf(e)
      /\ (w.pc = "undoingOld" => current = e) /\ (w.pc = "undoingLater" => current > e + 1)
  BY <1>1 DEF Own, Place, Recalls, AtEpoch, Resolving
<1>10. QED
  BY <1>2, <1>3, <1>4, <1>5, <1>6, <1>7, <1>8, <1>9

\* reconcilePendingRestore returns with the storage t.
LEMMA ReconciledLeaves ==
  ASSUME TypeOK, Live, NEW e \in Room, NEW t, NEW o, room[e].pc \in Resolving,
         Reconciled(e, t), t.meta = store[e].meta, t.log = store[e].log,
         t.backup \subseteq store[e].backup, t.retired => current > e,
         ~t.retired /\ ~t.pending => current = e
  PROVE  \E m : /\ Set(e, m, t) /\ m.pc = "idle" /\ Own(e, current, m, t)
                /\ e = current => Keeps(m, t, acked[e], snapshots[e], o)
<1> DEFINE w == room[e]
           s == store[e]
<1>1. /\ w \in RoomState /\ s \in StoreState /\ Own(e, current, w, s)
      /\ (e = current => Keeps(w, s, acked[e], snapshots[e], objects))
      /\ e \in Nat /\ current \in Nat
  BY Mine, OfRoom, TypeParts
<1>2. /\ w.status \in {"up", "starting"} /\ e < MaxEpoch /\ s.meta
      /\ s.backup \subseteq w.backup /\ w.backup \subseteq BackupsOf(e) /\ AllPlain(w)
  BY ResolvingKnows
<1>3. CASE w.status = "starting"
  <2> DEFINE m == Loaded(e, t)
  <2>1. Set(e, m, t)
    BY <1>3 DEF Reconciled
  <2>2. m.pc = "idle" /\ m.doc = snapshots[e].seen \cup t.log /\ m.running = "none"
    BY LoadedFields
  <2>3. Own(e, current, m, t)
    BY <1>2, LoadedOwn
  <2> HIDE DEF m
  <2>4. e = current => Keeps(m, t, acked[e], snapshots[e], o)
    BY <1>1, <2>2 DEF Keeps, Announced
  <2>5. QED
    BY <2>1, <2>2, <2>3, <2>4
<1>4. CASE w.status = "up"
  <2> DEFINE m == [w EXCEPT !.pc = "idle"]
  <2>1. Set(e, m, t)
    BY <1>4 DEF Reconciled
  <2>2. /\ m.status = w.status /\ m.pc = "idle" /\ m.backup = w.backup
        /\ m.running = w.running /\ m.waiting = w.waiting
        /\ m.doc = w.doc /\ m.seen = w.seen /\ m.put = w.put
    BY <1>1, PcFields
  <2>3. Own(e, current, m, t)
    BY <1>1, <1>2, <1>4, SettledOwn
  <2> HIDE DEF m
  <2>4. e = current => Keeps(m, t, acked[e], snapshots[e], o)
    BY <1>1, <2>2 DEF Keeps, Announced
  <2>5. QED
    BY <2>1, <2>2, <2>3, <2>4
<1>5. QED
  BY <1>2, <1>3, <1>4

LEMMA ReadStep ==
  ASSUME TypeOK, Live, ~deleted, NEW e \in Room, ReadEpoch(e)
  PROVE  Live'
<1> DEFINE w == room[e]
           s == store[e]
<1>1. /\ w \in RoomState /\ s \in StoreState /\ Own(e, current, w, s)
      /\ (e = current => Keeps(w, s, acked[e], snapshots[e], objects))
      /\ e \in Nat /\ current \in Nat
  BY Mine, OfRoom, TypeParts
<1>2. /\ UNCHANGED page /\ UNCHANGED rows /\ UNCHANGED r2 /\ UNCHANGED acked
      /\ w.pc = "reconciling" /\ w.pc \in Resolving
  BY DEF ReadEpoch, Resolving
<1>3. /\ w.status \in {"up", "starting"} /\ e < MaxEpoch /\ s.meta /\ e <= current /\ ~w.purged
      /\ s.backup \subseteq w.backup /\ w.backup \subseteq BackupsOf(e) /\ AllPlain(w)
      /\ (w.status = "starting" => s.pending)
  BY <1>2, ResolvingKnows
<1>4. ASSUME NEW pc \in {"undoingOld", "undoingLater"}, To(e, pc),
             pc = "undoingOld" => current = e, pc = "undoingLater" => current > e + 1
      PROVE  Live'
  <2> DEFINE m == [w EXCEPT !.pc = pc]
  <2>1. Set(e, m, s)
    BY <1>4, ToSets, TypeParts
  <2>2. /\ m.status = w.status /\ m.pc = pc /\ m.purged = w.purged
        /\ m.backup = w.backup /\ m.running = w.running /\ m.waiting = w.waiting
        /\ m.doc = w.doc /\ m.seen = w.seen /\ m.put = w.put
    BY <1>1, PcFields
  <2> HIDE DEF m
  <2>3. OneVersioned(m)
    <3>1. AllPlain(m)
      BY <1>3, <2>2 DEF AllPlain
    <3>2. QED
      BY <3>1, NoneVersioned
  <2>4. Lives(m, s)
    BY <1>1, <1>2, <1>3, <1>4, <2>2 DEF Own, Lives, Resolving
  <2>5. Place(e, current, m, s)
    BY <1>1, <1>3, <1>4, <2>2 DEF Own, Place, AtEpoch
  <2>6. Recalls(e, m, s)
    BY <1>1, <1>3, <1>4, <2>2 DEF Own, Recalls, Announced, Unannounced
  <2>7. e = current => Keeps(m, s, acked[e], snapshots[e], objects)
    BY <1>1, <1>4, <2>2 DEF Keeps, Announced
  <2>8. m.pc # "committing"
    BY <1>4, <2>2
  <2>9. QED
    BY <1>2, <1>3, <2>1, <2>3, <2>4, <2>5, <2>6, <2>7, <2>8, RoomStep DEF Own
<1>5. ASSUME IsCurrent(e + 1), Reconciled(e, Cleared(s, TRUE)) PROVE Live'
  <2> DEFINE t == Cleared(s, TRUE)
  <2>1. t.meta = s.meta /\ t.log = s.log /\ t.backup = {} /\ t.retired /\ ~t.pending
    BY <1>1, ClearedFields
  <2>2. current > e /\ e < current
    BY <1>1, <1>5 DEF IsCurrent
  <2>3. Reconciled(e, t)
    BY <1>5
  <2> HIDE DEF t
  <2>4. PICK m : Set(e, m, t) /\ m.pc = "idle" /\ Own(e, current, m, t)
    BY <1>2, <2>1, <2>2, <2>3, ReconciledLeaves
  <2>5. QED
    BY <1>1, <1>2, <1>3, <2>1, <2>2, <2>4, RoomStep
<1>6. \/ IsCurrent(e) /\ To(e, "undoingOld")
      \/ IsCurrent(e + 1) /\ Reconciled(e, Cleared(s, TRUE))
      \/ current > e + 1 /\ To(e, "undoingLater")
  BY <1>3 DEF ReadEpoch
<1>7. QED
  BY <1>4, <1>5, <1>6 DEF IsCurrent

LEMMA ReconcileStep ==
  ASSUME TypeOK, Live, ~deleted, NEW e \in Room, Reconcile(e)
  PROVE  Live'
<1> DEFINE w == room[e]
           s == store[e]
           t == Cleared(s, Retires(e))
           b == Backups(e)
<1>1. /\ w \in RoomState /\ s \in StoreState /\ Own(e, current, w, s)
      /\ e \in Nat /\ current \in Nat /\ (s.backup # {} => s.pending)
  BY Mine, OfRoom, TypeParts
<1>2. /\ UNCHANGED page /\ UNCHANGED rows /\ UNCHANGED acked /\ Delete({e + 1}, b)
      /\ w.pc \in {"undoingOld", "undoingLater"} /\ w.pc \in Resolving
  BY <1>1 DEF Reconcile, Resolving, Own, Place
<1>3. /\ s.meta /\ e <= current /\ ~w.purged
      /\ s.backup \subseteq w.backup /\ w.backup \subseteq BackupsOf(e)
      /\ (w.pc = "undoingOld" => current = e) /\ (w.pc = "undoingLater" => current > e + 1)
  BY <1>2, ResolvingKnows
<1>4. /\ t.meta = s.meta /\ t.log = s.log /\ t.backup = {} /\ ~t.pending
      /\ t.retired = Retires(e)
  BY <1>1, ClearedFields
<1>5. Reconciled(e, t)
  BY <1>3 DEF Reconcile
<1> HIDE DEF t
<1>6. (t.retired => current > e) /\ (~t.retired => current = e)
  <2>1. (Retires(e) => current > e) /\ (~Retires(e) => current = e)
    BY <1>1, <1>2, <1>3 DEF Retires
  <2>2. QED
    BY <1>4, <2>1, Zenon
<1>7. PICK m : /\ Set(e, m, t) /\ m.pc = "idle" /\ Own(e, current, m, t)
               /\ e = current => Keeps(m, t, acked[e], snapshots[e], objects')
  BY <1>2, <1>4, <1>5, <1>6, ReconciledLeaves
<1>8. b \subseteq BackupsOf(e) /\ (current = e => s.backup \subseteq b)
  BY <1>1, <1>2, <1>3 DEF Backups
<1>9. current # e + 1
  BY <1>1, <1>2, <1>3
<1>10. e = current \/ e < current
  BY <1>1, <1>3
<1> HIDE DEF b
<1>11. QED
  BY <1>2, <1>3, <1>4, <1>7, <1>8, <1>9, <1>10, DeleteStep

LEMMA FailReconcileStep ==
  ASSUME TypeOK, Live, ~deleted, NEW e \in Room, FailReconcile(e)
  PROVE  Live'
<1> DEFINE w == room[e]
           s == store[e]
           t == Defer(w, s)
           b == Backups(e)
<1>1. /\ w \in RoomState /\ s \in StoreState /\ Own(e, current, w, s)
      /\ e \in Nat /\ current \in Nat
  BY Mine, OfRoom, TypeParts
<1>2. /\ UNCHANGED page /\ UNCHANGED rows /\ UNCHANGED acked /\ Reconciled(e, t)
      /\ w.pc \in {"reconciling", "undoingOld", "undoingLater"} /\ w.pc \in Resolving
  BY <1>1 DEF FailReconcile, Resolving, Own, Place
<1>3. /\ s.meta /\ e <= current /\ ~w.purged /\ w.backup \subseteq BackupsOf(e)
      /\ (w.pc = "undoingOld" => current = e) /\ (w.pc = "undoingLater" => current > e + 1)
  BY <1>2, ResolvingKnows
<1>4. /\ t.meta = s.meta /\ t.log = s.log /\ t.backup = s.backup /\ t.pending = s.pending
      /\ t.retired = s.retired
  BY <1>1, DeferFields
<1> HIDE DEF t
<1>5. (t.retired => current > e) /\ (~t.retired /\ ~t.pending => current = e)
  BY <1>1, <1>3, <1>4 DEF Own, Place
<1>6. PICK m : /\ Set(e, m, t) /\ m.pc = "idle" /\ Own(e, current, m, t)
               /\ e = current => Keeps(m, t, acked[e], snapshots[e], objects')
  BY <1>2, <1>4, <1>5, ReconciledLeaves
<1>7. CASE w.pc = "reconciling"
  <2>1. UNCHANGED r2 /\ UNCHANGED objects
    BY <1>7 DEF FailReconcile, r2
  <2>2. QED
    BY <1>2, <1>3, <1>4, <1>6, <2>1, RoomStep
<1>8. CASE w.pc # "reconciling"
  <2>1. PICK seeds \in SUBSET {e + 1}, backups \in SUBSET b : Delete(seeds, backups)
    BY <1>8 DEF FailReconcile
  <2>2. b \subseteq BackupsOf(e)
    BY <1>3 DEF Backups
  <2>3. current # e + 1
    BY <1>1, <1>2, <1>3, <1>8
  <2> HIDE DEF b
  <2>4. QED
    BY <1>2, <1>3, <1>4, <1>6, <2>1, <2>2, <2>3, DeleteStep
<1>9. QED
  BY <1>7, <1>8

-----------------------------------------------------------------------------
(* The invariant holds in every behaviour.                                 *)

LEMMA StaysDeleted ==
  ASSUME Next, ~deleted'
  PROVE  ~deleted
<1>1. ASSUME NEW e \in Room, Restoring(e) PROVE deleted' = deleted
  BY <1>1 DEF Restoring, RequestRestore, Refuse, Validate, PutBackup, PutSeed, Commit, Check,
       Undo, page
<1>2. ASSUME NEW e \in Room, CompactionStep(e) PROVE deleted' = deleted
  BY <1>2 DEF CompactionStep, Compact, Turn, PutSnapshot, FinishCompaction, FailCompaction, page
<1>3. ASSUME NEW e \in Room, Recovery(e) PROVE deleted' = deleted
  BY <1>3 DEF Recovery, EndQuiet, Alarm, ReadEpoch, Reconcile, FailReconcile, page
<1>4. ASSUME NEW e \in Room,
             Start(e) \/ Stop(e) \/ Purge(e) \/ RequestArchive(e) \/ Archive(e)
      PROVE  deleted' = deleted
  BY <1>4 DEF Start, Stop, Purge, RequestArchive, Archive, page
<1>5. ASSUME NEW e \in Room, NEW x \in Edit, Save(e, x) PROVE deleted' = deleted
  BY <1>5 DEF Save, page
<1>6. QED
  BY <1>1, <1>2, <1>3, <1>4, <1>5 DEF Next, ToggleArchived, DeletePage

LEMMA StepLive ==
  ASSUME RestoreInv, Next, ~deleted'
  PROVE  Live'
<1>1. TypeOK /\ Live /\ ~deleted
  BY StaysDeleted DEF RestoreInv
<1>2. CASE ToggleArchived
  BY <1>1, <1>2 DEF ToggleArchived, r2, Live, AllOwn, FutureIsBlank, SnapshotsAgree,
       ObjectsAgree, CurrentKeeps
<1>3. ASSUME NEW e \in Room, Start(e) \/ Stop(e) \/ Purge(e) PROVE Live'
  BY <1>1, <1>3, LifeStep
<1>4. ASSUME NEW e \in Room, NEW x \in Edit, Save(e, x) PROVE Live'
  BY <1>1, <1>4, SaveStep
<1>5. ASSUME NEW e \in Room, CompactionStep(e) PROVE Live'
  BY <1>1, <1>5, CompactStep
<1>6. ASSUME NEW e \in Room, Restoring(e) PROVE Live'
  BY <1>1, <1>6, RequestStep, ValidateStep, PutsStep, CommitStep, CheckStep, UndoStep
     DEF Restoring
<1>7. ASSUME NEW e \in Room, Recovery(e) PROVE Live'
  BY <1>1, <1>7, QuietStep, AlarmStep, ReadStep, ReconcileStep, FailReconcileStep DEF Recovery
<1>8. ASSUME NEW e \in Room, RequestArchive(e) \/ Archive(e) PROVE Live'
  BY <1>1, <1>8, ArchiveStep
<1>9. CASE DeletePage
  BY <1>9 DEF DeletePage
<1>10. QED
  BY <1>2, <1>3, <1>4, <1>5, <1>6, <1>7, <1>8, <1>9 DEF Next

LEMMA InitInv == Init => RestoreInv
<1> SUFFICES ASSUME Init PROVE RestoreInv
  OBVIOUS
<1>1. /\ current = 1 /\ rows = {} /\ objects = {} /\ archived = FALSE /\ deleted = FALSE
      /\ \A e \in Room : /\ snapshots[e] = Missing /\ acked[e] = {}
                         /\ room[e] = Down /\ store[e] = Blank
  BY DEF Init
<1>2. TypeOK
  <2>1. PageTyped /\ DataTyped
    BY Rooms DEF Init, PageTyped, DataTyped, Snapshot, Missing
  <2>2. RoomsTyped
    BY DownTyped DEF Init, RoomsTyped, Blank
  <2>3. QED
    BY <2>1, <2>2, TypeParts
<1>3. AllOwn
  <2>1. OneVersioned(Down)
    BY DEF OneVersioned, Down
  <2>2. Lives(Down, Blank)
    BY DEF Lives, Down, Blank
  <2>3. \A e \in Room : Place(e, 1, Down, Blank)
    BY DEF Place, Down, Blank, AtEpoch, OfRestore
  <2>4. \A e \in Room : Recalls(e, Down, Blank)
    BY DEF Recalls, Down, Blank, Announced, Unannounced
  <2>5. QED
    BY <1>1, <2>1, <2>2, <2>3, <2>4 DEF AllOwn, Own
<1>4. FutureIsBlank /\ ObjectsAgree
  BY <1>1 DEF FutureIsBlank, ObjectsAgree, Blank
<1>5. SnapshotsAgree
  BY <1>1, Rooms DEF SnapshotsAgree, Missing, Down
<1>6. CurrentKeeps
  BY <1>1, Rooms DEF CurrentKeeps, Keeps, Down, Blank, Announced
<1>7. QED
  BY <1>2, <1>3, <1>4, <1>5, <1>6 DEF RestoreInv, Live

LEMMA StepInv ==
  ASSUME RestoreInv, [Next]_vars
  PROVE  RestoreInv'
<1>1. CASE Next
  BY <1>1, StepTyped, StepLive DEF RestoreInv
<1>2. CASE UNCHANGED vars
  BY <1>2 DEF vars, page, r2, RestoreInv, TypeOK, Live, AllOwn, FutureIsBlank,
       SnapshotsAgree, ObjectsAgree, CurrentKeeps
<1>3. QED
  BY <1>1, <1>2

LEMMA Invariance == Spec => []RestoreInv
BY InitInv, StepInv, PTL DEF Spec

\* Every variable keeps its type: a room is at a step of onStart, compactOnce,
\* restoreVersionOnce, the archive transition or reconcilePendingRestore, and only a
\* pending restore_recovery row names a backup.
THEOREM RestoreTypeCorrect == Spec => []TypeOK
<1>1. RestoreInv => TypeOK
  BY DEF RestoreInv
<1>2. QED
  BY <1>1, Invariance, PTL

\* The page's epoch has its snapshot in R2, whatever cleanupUncommittedRestore and
\* reconcilePendingRestore of any room delete and whenever they do it.
THEOREM EpochHasSnapshot == Spec => []CommittedEpochHasSnapshot
<1>1. RestoreInv => CommittedEpochHasSnapshot
  BY DEF RestoreInv, Live, SnapshotsAgree, CommittedEpochHasSnapshot
<1>2. QED
  BY <1>1, Invariance, PTL

\* The room of the page's epoch is not retired: markRestoreCommitted and the
\* reconciliation retire a room only when D1 has moved on.
THEOREM CurrentStaysWritable == Spec => []CurrentIsWritable
<1>1. ASSUME RestoreInv PROVE CurrentIsWritable
  <2>1. SUFFICES ASSUME ~deleted PROVE ~store[current].retired
    BY DEF CurrentIsWritable
  <2>2. TypeOK /\ Live /\ current \in Room
    BY <1>1, <2>1, TypeParts DEF RestoreInv, PageTyped
  <2>3. Place(current, current, room[current], store[current]) /\ current \in Nat
    BY <2>2, Mine DEF Own
  <2>4. QED
    BY <2>3 DEF Place
<1>2. QED
  BY <1>1, Invariance, PTL

\* What a restore left in R2 without having taken place is recorded in
\* restore_recovery until it is gone.
THEOREM SettledStaysClean == Spec => []SettledIsClean
<1>1. ASSUME RestoreInv PROVE SettledIsClean
  <2>1. SUFFICES ASSUME ~deleted, NEW e \in Room, ~store[e].pending
                 PROVE  /\ e = current /\ e < MaxEpoch => ~snapshots[e + 1].exists
                        /\ \A v \in objects : v.epoch = e => v \in rows
    BY DEF SettledIsClean
  <2>2. TypeOK /\ Live /\ e \in Nat
    BY <1>1, <2>1, Mine DEF RestoreInv
  <2>3. e = current /\ e < MaxEpoch => ~snapshots[e + 1].exists
    <3>1. e < MaxEpoch => e + 1 \in Room
      BY Rooms
    <3>2. QED
      BY <2>1, <2>2, <3>1 DEF Live, SnapshotsAgree
  <2>4. \A v \in objects : v.epoch = e => v \in rows
    BY <2>1, <2>2, OfRoom, TypeParts DEF Live, ObjectsAgree
  <2>5. QED
    BY <2>3, <2>4
<1>2. QED
  BY <1>1, Invariance, PTL

LEMMA OnlyCommitMoves ==
  ASSUME Next, current' # current
  PROVE  \E e \in Room : Commit(e) /\ current' = e + 1 /\ current = e /\ ~deleted
                         /\ rows' = rows \cup room[e].backup
<1>1. ASSUME NEW e \in Room, Restoring(e), ~Commit(e) PROVE current' = current
  BY <1>1 DEF Restoring, RequestRestore, Refuse, Validate, PutBackup, PutSeed, Check, Undo, page
<1>2. ASSUME NEW e \in Room, CompactionStep(e) PROVE current' = current
  BY <1>2 DEF CompactionStep, Compact, Turn, PutSnapshot, FinishCompaction, FailCompaction, page
<1>3. ASSUME NEW e \in Room, Recovery(e) PROVE current' = current
  BY <1>3 DEF Recovery, EndQuiet, Alarm, ReadEpoch, Reconcile, FailReconcile, page
<1>4. ASSUME NEW e \in Room,
             Start(e) \/ Stop(e) \/ Purge(e) \/ RequestArchive(e) \/ Archive(e)
      PROVE  current' = current
  BY <1>4 DEF Start, Stop, Purge, RequestArchive, Archive, page
<1>5. ASSUME NEW e \in Room, NEW x \in Edit, Save(e, x) PROVE current' = current
  BY <1>5 DEF Save, page
<1>6. PICK e \in Room : Commit(e)
  BY <1>1, <1>2, <1>3, <1>4, <1>5 DEF Next, ToggleArchived, DeletePage
<1>7. QED
  BY <1>6 DEF Commit, MayCommit, IsCurrent

\* A restore moves the page only with what was acknowledged before it: the edits of the
\* epoch are in the snapshot its room put, or in the backup whose row the batch adds.
THEOREM LeftStaysKept == Spec => LeftIsKept
<1> DEFINE Kept == \A e \in Room : current = e /\ current' > e =>
                     acked[e] \subseteq
                       snapshots'[e].seen \cup
                         UNION {v.seen : v \in {w \in rows' \cap objects' : w.epoch = e}}
<1>1. ASSUME RestoreInv, Next PROVE Kept
  <2>1. SUFFICES ASSUME NEW e \in Room, current = e, current' > e, NEW x \in acked[e]
                 PROVE  \/ x \in snapshots'[e].seen
                        \/ \E v \in rows' \cap objects' : v.epoch = e /\ x \in v.seen
    OBVIOUS
  <2>2. TypeOK /\ e \in Nat /\ current' # current
    BY <1>1, <2>1, Rooms DEF RestoreInv
  <2>3. /\ Commit(e) /\ ~deleted /\ rows' = rows \cup room[e].backup
        /\ room[e].pc = "committing" /\ UNCHANGED r2
    BY <1>1, <2>1, <2>2, OnlyCommitMoves DEF Commit
  <2>4. /\ Keeps(room[e], store[e], acked[e], snapshots[e], objects)
        /\ room[e].backup \subseteq BackupsOf(e)
    BY <1>1, <2>1, <2>3, Mine DEF RestoreInv, Own, Recalls
  <2>5. snapshots' = snapshots /\ objects' = objects
    BY <2>3 DEF r2
  <2>6. CASE room[e].backup = {}
    BY <2>1, <2>3, <2>4, <2>5, <2>6 DEF Keeps, Announced
  <2>7. CASE room[e].backup # {}
    <3>1. PICK v \in room[e].backup : TRUE
      BY <2>7
    <3>2. x \in v.seen /\ v \in rows' \cap objects' /\ v.epoch = e
      BY <2>1, <2>3, <2>4, <2>5, <3>1 DEF Keeps, Announced, BackupsOf
    <3>3. QED
      BY <3>2
  <2>8. QED
    BY <2>6, <2>7
<1>2. RestoreInv /\ [Next]_vars => [Kept]_vars
  BY <1>1
<1>3. QED
  BY <1>2, Invariance, PTL DEF Spec, LeftIsKept
=============================================================================
