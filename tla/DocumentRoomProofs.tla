------------------------- MODULE DocumentRoomProofs -------------------------
(***************************************************************************)
(* What DocumentRoom guarantees for every value of its constants.          *)
(***************************************************************************)
EXTENDS DocumentRoom, TLAPS

-----------------------------------------------------------------------------
(* Flushing.                                                               *)

\* An event appended to a typed log is typed, and so is its sequence.
LEMMA FlushedTyped ==
  ASSUME NEW l \in SUBSET Event, NEW n \in Nat, NEW ups \in SUBSET Update
  PROVE  /\ Flushed(l, n, ups) \in SUBSET Event
         /\ FlushedSeq(l, n, ups) \in Nat
  BY DEF Flushed, FlushedSeq, NextSeq, Event

\* The document after normalisation is still a set of updates.
LEMMA NormalizedTyped ==
  ASSUME NEW d \in SUBSET Update
  PROVE  Normalized(d) \in SUBSET Update /\ d \subseteq Normalized(d)
  BY DEF Normalized, Update

\* What a start loads is a set of updates.
LEMMA RecoverableTyped ==
  ASSUME StoreTyped
  PROVE  Recoverable \in SUBSET Update
  BY DEF StoreTyped, Recoverable, Event

\* Starting and ending compactions keeps their record typed.
LEMMA CompactionTyped ==
  ASSUME comp \in Compaction
  PROVE  /\ NoCompaction \in Compaction /\ Preparing \in Compaction
         /\ RequestCompaction => comp' \in Compaction
         /\ FinishCompaction => comp' \in Compaction
<1>1. NoCompaction \in Compaction
  BY DEF NoCompaction, Compaction
<1>2. Preparing \in Compaction
  BY <1>1 DEF Preparing, NoCompaction, Compaction
<1>. QED
  BY <1>1, <1>2 DEF RequestCompaction, FinishCompaction

\* The states of a request to /api-mutate.
LEMMA RequestTyped ==
  /\ NoRequest \in Request
  /\ \A x \in Int : [pc |-> "admitted", expect |-> x, seq |-> 0] \in Request
  /\ \A q \in Request, n \in Nat :
       [q EXCEPT !.pc = "replying", !.seq = n] \in Request
<1>1. NoRequest \in Request
  BY DEF NoRequest, Unconditional, Request
<1>2. \A x \in Int : [pc |-> "admitted", expect |-> x, seq |-> 0] \in Request
  BY DEF Request
<1>3. ASSUME NEW q \in Request, NEW n \in Nat
      PROVE  [q EXCEPT !.pc = "replying", !.seq = n] \in Request
  BY DEF Request
<1>. QED
  BY <1>1, <1>2, <1>3

\* The steps of a compaction keep its record typed.
LEMMA AdvanceTyped ==
  ASSUME comp \in Compaction, NEW to \in {"stored", "rendered", "read", "batched", "dropped", "acked"},
         NEW n \in Nat, NEW ups \in SUBSET Update, NEW b \in BOOLEAN
  PROVE  /\ [comp EXCEPT !.pc = to] \in Compaction
         /\ [comp EXCEPT !.pc = to, !.page = b] \in Compaction
         /\ [comp EXCEPT !.pc = to, !.old = n, !.page = b] \in Compaction
         /\ [pc |-> "captured", max |-> n, ups |-> ups, old |-> 0, page |-> b] \in Compaction
  BY DEF Compaction

-----------------------------------------------------------------------------
(* Type correctness.                                                       *)

\* The variables start with their types.
LEMMA TypeInit == Init => TypeOK
<1> SUFFICES ASSUME Init PROVE FlagsTyped /\ StoreTyped /\ MemoryTyped
  BY DEF TypeOK
<1>1. FlagsTyped
  BY Zenon DEF Init, FlagsTyped
<1>2. StoreTyped
  BY DEF Init, StoreTyped, Envelope, Update
<1>3. MemoryTyped
  BY DEF Init, MemoryTyped, NoCompaction, NoRequest, Unconditional, Compaction, Request
<1>. QED
  BY <1>1, <1>2, <1>3

\* Every flag stays a flag.
LEMMA FlagsStep == FlagsTyped /\ [Next]_vars => FlagsTyped'
<1> SUFFICES ASSUME FlagsTyped, [Next]_vars PROVE FlagsTyped'
  OBVIOUS
<1> USE DEF FlagsTyped, d1, r2, meta, events, memory, compacting, history
<1>1. CASE Wake
  BY <1>1, Zenon DEF Wake
<1>2. CASE CheckEpoch
  BY <1>2, Zenon DEF CheckEpoch
<1>3. CASE Load
  BY <1>3, Zenon DEF Load
<1>4. CASE Crash
  BY <1>4, Zenon DEF Crash
<1>5. ASSUME NEW e \in Edit, Receive(e) PROVE FlagsTyped'
  BY <1>5, Zenon DEF Receive
<1>6. CASE OnConnect
  BY <1>6, Zenon DEF OnConnect
<1>7. CASE Barrier
  BY <1>7, Zenon DEF Barrier, FlushPending
<1>8. CASE OnSave
  BY <1>8, Zenon DEF OnSave, FlushPending
<1>9. CASE OnAlarm
  BY <1>9, Zenon DEF OnAlarm, FlushPending, RequestCompaction
<1>10. CASE ReadContent
  BY <1>10, Zenon DEF ReadContent, FlushPending, RequestCompaction
<1>11. ASSUME NEW o \in Op, OpRequest(o) PROVE FlagsTyped'
  <2>1. dirty' \in BOOLEAN /\ want' \in BOOLEAN
    BY <1>11, Zenon DEF OpRequest, FlushPending, RequestCompaction
  <2>. QED
    BY <1>11, <2>1, Zenon DEF OpRequest
<1>12. ASSUME NEW o \in Op, OpSettle(o) PROVE FlagsTyped'
  BY <1>12, Zenon DEF OpSettle, FlushPending, RequestCompaction
<1>13. ASSUME NEW o \in Op, OpRefuse(o) PROVE FlagsTyped'
  BY <1>13, Zenon DEF OpRefuse, FlushPending
<1>23. ASSUME NEW o \in Op, OpReplay(o) PROVE FlagsTyped'
  BY <1>23, Zenon DEF OpReplay, FlushPending
<1>14. ASSUME NEW o \in Op, OpApply(o) PROVE FlagsTyped'
  BY <1>14, Zenon DEF OpApply
<1>15. ASSUME NEW o \in Op, OpCompact(o) PROVE FlagsTyped'
  BY <1>15, Zenon DEF OpCompact, RequestCompaction
<1>24. ASSUME NEW o \in Op, OpReply(o) PROVE FlagsTyped'
  BY <1>24, Zenon DEF OpReply
<1>27. ASSUME NEW o \in Op, OpError(o) PROVE FlagsTyped'
  BY <1>27, Zenon DEF OpError
<1>16. CASE CompactCapture
  BY <1>16, Zenon DEF CompactCapture, FinishCompaction
<1>17. CASE CompactPutSnapshot
  BY <1>17, Zenon DEF CompactPutSnapshot, Advance
<1>25. CASE CompactPutProjection
  BY <1>25, Zenon DEF CompactPutProjection, Advance
<1>26. CASE CompactDrop
  BY <1>26, Zenon DEF CompactDrop, Advance
<1>18. CASE CompactReadPage
  BY <1>18, Zenon DEF CompactReadPage
<1>28. CASE CompactBatch
  BY <1>28, Zenon DEF CompactBatch
<1>19. CASE CompactAck
  BY <1>19, Zenon DEF CompactAck
<1>29. CASE CompactEnd
  BY <1>29, Zenon DEF CompactEnd, FinishCompaction
<1>20. CASE CompactFail
  BY <1>20, Zenon DEF CompactFail, FinishCompaction, RetryByAlarm
<1>21. CASE DropProjection
  BY <1>21, Zenon DEF DropProjection
<1>30. CASE DeletePage
  BY <1>30, Zenon DEF DeletePage
<1>31. CASE Purge
  BY <1>31, Zenon DEF Purge
<1>22. CASE UNCHANGED vars
  BY <1>22, Zenon DEF vars
<1>. QED
  BY <1>1, <1>2, <1>3, <1>4, <1>5, <1>6, <1>7, <1>8, <1>9, <1>10, <1>11, <1>12,
     <1>13, <1>14, <1>15, <1>16, <1>17, <1>18, <1>19, <1>20, <1>21, <1>22,
     <1>23, <1>24, <1>25, <1>26, <1>27, <1>28, <1>29, <1>30, <1>31 DEF Next

\* Stored and remembered data stay typed.
LEMMA DataStep == TypeOK /\ [Next]_vars => StoreTyped' /\ MemoryTyped'
<1> SUFFICES ASSUME StoreTyped, MemoryTyped, pageLive \in BOOLEAN, [Next]_vars
             PROVE  StoreTyped' /\ MemoryTyped'
  BY DEF TypeOK, FlagsTyped
<1> USE DEF StoreTyped, MemoryTyped, d1, r2, meta, events, memory, compacting, history
<1>1. CASE Wake
  BY <1>1 DEF Wake
<1>2. CASE CheckEpoch
  BY <1>2 DEF CheckEpoch
<1>3. CASE Load
  BY <1>3, FlushedTyped, NormalizedTyped, RecoverableTyped DEF Load
<1>4. CASE Crash
  BY <1>4, CompactionTyped DEF Crash, NoRequest, Request, Unconditional
<1>5. ASSUME NEW e \in Edit, Receive(e) PROVE StoreTyped' /\ MemoryTyped'
  BY <1>5 DEF Receive, Update
<1>6. CASE OnConnect
  BY <1>6 DEF OnConnect
<1>7. CASE Barrier
  BY <1>7, FlushedTyped DEF Barrier, FlushPending
<1>8. CASE OnSave
  BY <1>8, FlushedTyped DEF OnSave, FlushPending
<1>9. CASE OnAlarm
  BY <1>9, FlushedTyped, CompactionTyped DEF OnAlarm, FlushPending
<1>10. CASE ReadContent
  <2>1. /\ log' \in SUBSET Event /\ lastSeq' \in Nat /\ pending' = {}
        /\ comp' \in Compaction
    BY <1>10, FlushedTyped, CompactionTyped DEF ReadContent, FlushPending
  <2>2. [seq |-> snapSeq, ups |-> doc] \in Envelope
    BY DEF Envelope
  <2>3. views' \in SUBSET Envelope
    BY <1>10, <2>2, Zenon DEF ReadContent
  <2>. QED
    BY <1>10, <2>1, <2>3 DEF ReadContent
<1>11. ASSUME NEW o \in Op, OpRequest(o) PROVE StoreTyped' /\ MemoryTyped'
  <2>0. {Unconditional} \cup {v.seq : v \in views} \subseteq Int
    BY DEF Envelope, Unconditional
  <2>1. PICK x \in Int :
          op' = [op EXCEPT ![o] = [pc |-> "admitted", expect |-> x, seq |-> 0]]
    BY <1>11, <2>0, Zenon DEF OpRequest
  <2>2. op' \in [Op -> Request]
    BY <2>1, RequestTyped
  <2>3. /\ log' \in SUBSET Event /\ lastSeq' \in Nat /\ opInput' \in [Op -> Nat]
        /\ pending' \in SUBSET Update /\ comp' \in Compaction
    <3>1. \/ UNCHANGED <<events, dirty, pending, comp, want>>
          \/ /\ FlushPending /\ opInput' = opInput
             /\ RequestCompaction \/ UNCHANGED <<comp, want>>
      BY <1>11, Zenon DEF OpRequest
    <3>. QED
      BY <3>1, FlushedTyped, CompactionTyped DEF FlushPending
  <2>. QED
    BY <1>11, <2>2, <2>3 DEF OpRequest
<1>12. ASSUME NEW o \in Op, OpSettle(o) PROVE StoreTyped' /\ MemoryTyped'
  BY <1>12, FlushedTyped, CompactionTyped DEF OpSettle, FlushPending
<1>13. ASSUME NEW o \in Op, OpRefuse(o) PROVE StoreTyped' /\ MemoryTyped'
  BY <1>13, FlushedTyped, RequestTyped DEF OpRefuse, FlushPending
<1>14. ASSUME NEW o \in Op, OpReplay(o) PROVE StoreTyped' /\ MemoryTyped'
  BY <1>14, FlushedTyped, RequestTyped DEF OpReplay, FlushPending
<1>15. ASSUME NEW o \in Op, OpApply(o) PROVE StoreTyped' /\ MemoryTyped'
  <2>1. /\ doc \cup {o} \in SUBSET Update
        /\ Normalized(doc \cup {o}) \in SUBSET Update
    BY NormalizedTyped DEF Update
  <2>2. /\ doc' \in SUBSET Update /\ log' \in SUBSET Event /\ lastSeq' \in Nat
    BY <1>15, <2>1, FlushedTyped DEF OpApply
  <2>3. opInput' \in [Op -> Nat] /\ applied' \in [Op -> Nat]
    BY <1>15, <2>2 DEF OpApply, RecordInput
  <2>4. op' \in [Op -> Request]
    BY <1>15, <2>2, RequestTyped DEF OpApply
  <2>. QED
    BY <1>15, <2>2, <2>3, <2>4 DEF OpApply
<1>16. ASSUME NEW o \in Op, OpCompact(o) PROVE StoreTyped' /\ MemoryTyped'
  BY <1>16, CompactionTyped DEF OpCompact
<1>24. ASSUME NEW o \in Op, OpReply(o) PROVE StoreTyped' /\ MemoryTyped'
  BY <1>24, RequestTyped DEF OpReply
<1>25. ASSUME NEW o \in Op, OpError(o) PROVE StoreTyped' /\ MemoryTyped'
  BY <1>25, RequestTyped DEF OpError
<1>17. CASE CompactCapture
  <2>1. CASE life = "purged"
    BY <1>17, <2>1, CompactionTyped DEF CompactCapture
  <2>2. CASE life = "up"
    <3>1. doc' \in SUBSET Update
      BY <1>17, <2>2, NormalizedTyped DEF CompactCapture
    <3>2. log' \in SUBSET Event /\ lastSeq' \in Nat
      BY <1>17, <2>2, <3>1, FlushedTyped DEF CompactCapture
    <3>3. comp' \in Compaction
      BY <1>17, <2>2, <3>1, <3>2, CompactionTyped, AdvanceTyped DEF CompactCapture
    <3>. QED
      BY <1>17, <2>2, <3>1, <3>2, <3>3 DEF CompactCapture
  <2>. QED
    BY <1>17, <2>1, <2>2 DEF CompactCapture
<1>18. CASE CompactPutSnapshot
  <2>1. comp.ups \in SUBSET Update
    BY DEF Compaction
  <2>. QED
    BY <1>18, <2>1, AdvanceTyped DEF CompactPutSnapshot, Advance
<1>26. CASE CompactPutProjection
  <2>1. comp.max \in Nat
    BY DEF Compaction
  <2>. QED
    BY <1>26, <2>1, AdvanceTyped DEF CompactPutProjection, Advance
<1>27. CASE CompactDrop
  <2>1. comp.old \in Nat
    BY DEF Compaction
  <2>. QED
    BY <1>27, <2>1, AdvanceTyped DEF CompactDrop, Advance
<1>19. CASE CompactReadPage
  <2>1. proj.seq \in Nat
    BY DEF Envelope
  <2>2. comp' \in Compaction
    BY <1>19, <2>1, AdvanceTyped DEF CompactReadPage
  <2>. QED
    BY <1>19, <2>2 DEF CompactReadPage
<1>28. CASE CompactBatch
  <2>1. comp' \in Compaction
    BY <1>28, AdvanceTyped DEF CompactBatch
  <2>2. ProjectCaptured \in Envelope
    BY DEF ProjectCaptured, Compaction, Envelope
  <2>. QED
    BY <1>28, <2>1, <2>2 DEF CompactBatch
<1>20. CASE CompactAck
  <2>1. comp' \in Compaction
    BY <1>20, AdvanceTyped DEF CompactAck
  <2>2. comp.max \in Nat
    BY DEF Compaction
  <2>. QED
    BY <1>20, <2>1, <2>2 DEF CompactAck, AcknowledgeCaptured
<1>21. CASE CompactEnd \/ CompactFail
  BY <1>21, CompactionTyped DEF CompactEnd, CompactFail, RetryByAlarm
<1>22. CASE DropProjection
  BY <1>22 DEF DropProjection
<1>29. CASE DeletePage
  BY <1>29 DEF DeletePage
<1>30. CASE Purge
  BY <1>30 DEF Purge
<1>23. CASE UNCHANGED vars
  BY <1>23 DEF vars
<1>. QED
  BY <1>1, <1>2, <1>3, <1>4, <1>5, <1>6, <1>7, <1>8, <1>9, <1>10, <1>11, <1>12,
     <1>13, <1>14, <1>15, <1>16, <1>17, <1>18, <1>19, <1>20, <1>21, <1>22, <1>23,
     <1>24, <1>25, <1>26, <1>27, <1>28, <1>29, <1>30 DEF Next

\* The variables of the room keep their types.
THEOREM TypeCorrect == Spec => []TypeOK
<1>1. TypeOK /\ [Next]_vars => TypeOK'
  BY FlagsStep, DataStep DEF TypeOK
<1>. QED
  BY TypeInit, <1>1, PTL DEF Spec

-----------------------------------------------------------------------------
(* The inductive invariant.                                                *)

\* Flushing keeps what is logged and adds one event above the high-water mark.
LEMMA FlushedFacts ==
  ASSUME NEW l \in SUBSET Event, NEW n \in Nat, NEW ups \in SUBSET Update
  PROVE  /\ l \subseteq Flushed(l, n, ups)
         /\ FlushedSeq(l, n, ups) \in Nat /\ n <= FlushedSeq(l, n, ups)
         /\ \A e \in Flushed(l, n, ups) :
              \/ e \in l
              \/ n < e.seq /\ e.seq = FlushedSeq(l, n, ups) /\ e.ups = ups
         /\ ups # {} => \E e \in Flushed(l, n, ups) : e.ups = ups
<1> DEFINE new == [seq |-> n + 1, ups |-> ups]
<1>1. CASE ups = {}
  BY <1>1 DEF Flushed, FlushedSeq
<1>2. CASE ups # {}
  <2>1. Flushed(l, n, ups) = l \cup {new} /\ FlushedSeq(l, n, ups) = n + 1
    BY <1>2 DEF Flushed, FlushedSeq, NextSeq
  <2>2. new.ups = ups /\ new.seq = n + 1
    OBVIOUS
  <2> HIDE DEF new
  <2>. QED
    BY <2>1, <2>2
<1>. QED
  BY <1>1, <1>2

\* What onLoad rebuilds is the snapshot and the whole log.
LEMMA RecoverableIsStored ==
  ASSUME StoreTyped, LogOrdered
  PROVE  Recoverable = r2snap \cup Logged
  BY DEF StoreTyped, LogOrdered, Recoverable, Logged, Event

\* The steps of a running room that only log and remember more.
LEMMA Growth ==
  ASSUME RoomInv, life = "up", life' = "up",
         UNCHANGED <<r2snap, proj, snapSeq, retired, replied>>,
         log \subseteq log', lastSeq' \in Nat, lastSeq <= lastSeq',
         log' \in SUBSET Event,
         \A e \in log' : e \notin log =>
          lastSeq < e.seq /\ e.seq <= lastSeq' /\ e.ups \subseteq doc',
         doc \subseteq doc', pending' \subseteq doc',
         ~retired => doc' \subseteq r2snap \cup Logged' \cup pending',
         acked' \subseteq r2snap \cup Logged',
         comp'.pc \notin Captured \/ comp' = comp,
         \A o \in Op : op'[o].pc = "replying" =>
           op'[o] = op[o] \/ (o \in r2snap \cup Logged' /\ op'[o].seq = lastSeq')
  PROVE  RoomCore'
<1> USE DEF RoomInv, RoomCore, TypeOK, StoreTyped, MemoryTyped
<1>1. LogOrdered'
  BY DEF LogOrdered, Event
<1>2. MemoryCovered'
  BY DEF MemoryCovered, Logged
<1>3. CaptureCovers'
  <2>1. SUFFICES ASSUME comp' = comp, comp.pc \in Captured PROVE CaptureCovers'
    BY DEF CaptureCovers
  <2>2. comp.max \in Nat /\ comp.max <= lastSeq /\ comp.ups \subseteq doc'
    BY <2>1 DEF CaptureCovers, Compaction
  <2>3. ASSUME NEW e \in log', e.seq <= comp.max PROVE e.ups \subseteq comp.ups
    BY <2>1, <2>2, <2>3 DEF CaptureCovers, Event
  <2>. QED
    BY <2>1, <2>2, <2>3 DEF CaptureCovers
<1>4. AnswerCovered'
  <2>1. SUFFICES ASSUME NEW o \in Op, op'[o].pc = "replying", o \notin r2snap
                 PROVE  \E e \in log' : o \in e.ups /\ e.seq <= op'[o].seq
    BY DEF AnswerCovered
  <2>2. CASE op'[o] = op[o]
    BY <2>1, <2>2 DEF AnswerCovered
  <2>3. CASE o \in Logged' /\ op'[o].seq = lastSeq'
    BY <2>1, <2>3, <1>1 DEF LogOrdered, Logged
  <2>. QED
    BY <2>1, <2>2, <2>3
<1>5. PromisesCovered'
  BY DEF PromisesCovered
<1>. QED
  BY <1>1, <1>2, <1>3, <1>4, <1>5

\* Flushing the buffer, as every handler of a running room does first.
LEMMA FlushPendingFacts ==
  ASSUME RoomInv, life = "up", FlushPending
  PROVE  /\ log \subseteq log' /\ log' \in SUBSET Event
         /\ lastSeq' \in Nat /\ lastSeq <= lastSeq'
         /\ \A e \in log' : \/ e \in log
                           \/ /\ lastSeq < e.seq /\ e.seq <= lastSeq'
                              /\ e.ups \subseteq doc
         /\ pending' = {} /\ Logged' = Logged \cup pending
         /\ ~retired => doc \subseteq r2snap \cup Logged'
         /\ acked \subseteq r2snap \cup Logged'
<1> USE DEF RoomInv, RoomCore, TypeOK, StoreTyped, MemoryTyped
<1>0. /\ log' = Flushed(log, lastSeq, pending)
      /\ lastSeq' = FlushedSeq(log, lastSeq, pending) /\ pending' = {}
  BY DEF FlushPending
<1>a. /\ log \subseteq log' /\ log' \in SUBSET Event
      /\ lastSeq' \in Nat /\ lastSeq <= lastSeq'
  BY <1>0, FlushedFacts, FlushedTyped
<1>b. Logged' = Logged \cup pending
  <2>1. ASSUME NEW u \in Logged' PROVE u \in Logged \cup pending
    BY <1>0, <2>1, FlushedFacts DEF Logged
  <2>2. ASSUME NEW u \in Logged \cup pending PROVE u \in Logged'
    <3>1. \E e \in log' : u \in e.ups
      BY <1>0, <2>2, FlushedFacts DEF Logged
    <3>. QED
      BY <2>2, <3>1 DEF Logged
  <2>. QED
    BY <2>1, <2>2
<1>1. /\ log \subseteq log' /\ log' \in SUBSET Event
      /\ lastSeq' \in Nat /\ lastSeq <= lastSeq'
      /\ pending' = {} /\ Logged' = Logged \cup pending
  BY <1>0, <1>a, <1>b
<1>2. ASSUME NEW e \in log', e \notin log
      PROVE  lastSeq < e.seq /\ e.seq <= lastSeq' /\ e.ups \subseteq doc
  <2>1. lastSeq < e.seq /\ e.seq = lastSeq' /\ e.ups = pending
    BY <1>0, <1>2, FlushedFacts
  <2>. QED
    BY <2>1, <1>1 DEF MemoryCovered
<1>3. ~retired => doc \subseteq r2snap \cup Logged'
  BY <1>1 DEF MemoryCovered
<1>4. acked \subseteq r2snap \cup Logged'
  BY <1>1 DEF PromisesCovered
<1>. QED
  BY <1>1, <1>2, <1>3, <1>4

\* A handler that flushes, confirms or answers, and perhaps starts a compaction.
LEMMA FlushGrowth ==
  ASSUME RoomInv, life = "up", FlushPending,
         UNCHANGED <<r2snap, proj, snapSeq, retired, replied, life, doc>>,
         acked' \subseteq acked \/ (~retired /\ acked' \subseteq acked \cup doc),
         comp'.pc \notin Captured \/ comp' = comp,
         \A o \in Op : op'[o].pc = "replying" =>
           op'[o] = op[o] \/ (~retired /\ o \in doc /\ op'[o].seq = lastSeq')
  PROVE  RoomCore'
<1>0. /\ log \subseteq log' /\ log' \in SUBSET Event
      /\ lastSeq' \in Nat /\ lastSeq <= lastSeq' /\ pending' = {}
      /\ ~retired => doc \subseteq r2snap \cup Logged'
      /\ acked \subseteq r2snap \cup Logged'
  BY FlushPendingFacts
<1>3. ASSUME NEW e \in log', e \notin log
      PROVE  lastSeq < e.seq /\ e.seq <= lastSeq' /\ e.ups \subseteq doc'
  BY <1>3, FlushPendingFacts
<1>1. /\ doc \subseteq doc' /\ pending' \subseteq doc'
      /\ ~retired => doc' \subseteq r2snap \cup Logged' \cup pending'
      /\ acked' \subseteq r2snap \cup Logged'
  BY <1>0
<1>2. \A o \in Op : op'[o].pc = "replying" =>
        op'[o] = op[o] \/ (o \in r2snap \cup Logged' /\ op'[o].seq = lastSeq')
  BY FlushPendingFacts
<1>4. \A e \in log' : e \notin log =>
          lastSeq < e.seq /\ e.seq <= lastSeq' /\ e.ups \subseteq doc'
  BY <1>3, Zenon
<1>. QED
  BY <1>0, <1>1, <1>2, <1>4, Growth

\* The inductive invariant holds of a room that nobody has opened yet.
LEMMA CoreInit == Init => RoomCore
<1> SUFFICES ASSUME Init PROVE RoomCore
  OBVIOUS
<1>1. LogOrdered /\ MemoryCovered /\ PromisesCovered /\ AnswerCovered
  BY DEF Init, LogOrdered, MemoryCovered, PromisesCovered, AnswerCovered, NoRequest
<1>2. comp.pc \notin Captured
  BY DEF Init, NoCompaction, Captured
<1>. QED
  BY <1>1, <1>2 DEF RoomCore, CaptureCovers

\* No compaction that starts, waits or ends has captured anything.
LEMMA NotCaptured ==
  ASSUME RequestCompaction \/ FinishCompaction
  PROVE  comp'.pc \notin Captured \/ comp' = comp
  BY DEF RequestCompaction, FinishCompaction, Preparing, NoCompaction, Captured

\* A compaction captures at least what it will replace.
LEMMA CoreStepCapture == RoomInv /\ CompactCapture => RoomCore'
<1> SUFFICES ASSUME RoomInv, CompactCapture PROVE RoomCore'
  OBVIOUS
<1> USE DEF d1, r2, meta, events, memory, compacting, history
<1> DEFINE ups == IF retired THEN pending ELSE pending \cup (Normalized(doc) \ doc)
<1>1. CASE life = "purged"
  <2>1. /\ comp'.pc \notin Captured \/ comp' = comp
        /\ UNCHANGED <<r2snap, proj, snapSeq, lastSeq, log, retired, life, doc, pending,
                       op, acked, replied>>
    BY <1>1, NotCaptured DEF CompactCapture
  <2>. QED
    BY <2>1 DEF RoomInv, RoomCore, LogOrdered, MemoryCovered, CaptureCovers,
                AnswerCovered, PromisesCovered, Logged
<1>2. CASE life = "up"
  <2>1. /\ doc' = Normalized(doc) /\ log' = Flushed(log, lastSeq, ups)
        /\ lastSeq' = FlushedSeq(log, lastSeq, ups) /\ pending' = {}
        /\ UNCHANGED <<r2snap, proj, snapSeq, retired, life, op, acked, replied>>
    BY <1>2 DEF CompactCapture
  <2>2. /\ log \in SUBSET Event /\ lastSeq \in Nat /\ ups \in SUBSET Update
        /\ doc \subseteq doc' /\ ups \subseteq doc'
    BY <1>2, <2>1, NormalizedTyped
       DEF RoomInv, RoomCore, TypeOK, StoreTyped, MemoryTyped, MemoryCovered
  <2> HIDE DEF ups
  <2>3. /\ log \subseteq log' /\ log' \in SUBSET Event /\ lastSeq' \in Nat
        /\ lastSeq <= lastSeq'
    BY <2>1, <2>2, FlushedFacts, FlushedTyped
  <2>4. \A e \in log' : e \notin log =>
          lastSeq < e.seq /\ e.seq <= lastSeq' /\ e.ups \subseteq doc'
    <3>1. ASSUME NEW e \in log', e \notin log
          PROVE  lastSeq < e.seq /\ e.seq = lastSeq' /\ e.ups = ups
      BY <2>1, <2>2, <3>1, FlushedFacts
    <3>. QED
      BY <2>2, <2>3, <3>1
  <2>5. Logged \cup ups \subseteq Logged'
    <3>1. \A u \in Logged \cup ups : \E e \in log' : u \in e.ups
      BY <2>1, <2>2, <2>3, FlushedFacts DEF Logged
    <3>. QED
      BY <2>2, <3>1 DEF Logged
  <2>6. ~retired => doc' \subseteq r2snap \cup Logged'
    BY <1>2, <2>1, <2>5 DEF ups, RoomInv, RoomCore, MemoryCovered
  <2>7. acked' \subseteq r2snap \cup Logged'
    BY <2>1, <2>5 DEF RoomInv, RoomCore, PromisesCovered
  <2>8. CASE comp'.pc \notin Captured
    <3>1. /\ life' = "up" /\ pending' \subseteq doc'
          /\ ~retired => doc' \subseteq r2snap \cup Logged' \cup pending'
          /\ \A o \in Op : op'[o] = op[o]
      BY <1>2, <2>1, <2>6
    <3>2. UNCHANGED <<r2snap, proj, snapSeq, retired, replied>>
      BY <2>1
    <3>. QED
      BY <1>2, <2>2, <2>3, <2>4, <2>7, <2>8, <3>1, <3>2, Growth
  <2>9. CASE comp' = [pc |-> "captured", max |-> lastSeq', ups |-> doc', old |-> 0,
                      page |-> FALSE]
    <3>1. LogOrdered'
      BY <2>1, <2>3, <2>4 DEF RoomInv, RoomCore, TypeOK, StoreTyped, LogOrdered, Event
    <3>2. \A e \in log' : e.ups \subseteq doc'
      <4>1. \A e \in log : e.ups \subseteq doc
        <5>1. \A e \in log : e.ups \subseteq Update
          BY DEF RoomInv, TypeOK, StoreTyped, Event
        <5>. QED
          BY <1>2, <5>1 DEF RoomInv, RoomCore, MemoryCovered, Logged
      <4>. QED
        BY <2>2, <2>4, <4>1
    <3>3. MemoryCovered'
      BY <1>2, <2>1, <2>2, <2>6, <3>2 DEF RoomInv, RoomCore, MemoryCovered, Logged
    <3>4. CaptureCovers'
      <4>1. /\ comp'.pc = "captured" /\ comp'.max = lastSeq' /\ comp'.ups = doc'
            /\ life' = "up"
        BY <1>2, <2>1, <2>9
      <4>2. snapSeq' <= lastSeq'
        BY <2>1, <2>3 DEF RoomInv, RoomCore, TypeOK, StoreTyped, LogOrdered
      <4>3. r2snap' \subseteq doc'
        BY <1>2, <2>1, <2>2 DEF RoomInv, RoomCore, MemoryCovered
      <4>. QED
        BY <2>3, <3>2, <4>1, <4>2, <4>3 DEF CaptureCovers
    <3>5. AnswerCovered'
      BY <1>2, <2>1, <2>3 DEF RoomInv, RoomCore, AnswerCovered
    <3>6. PromisesCovered'
      BY <2>1, <2>7 DEF RoomInv, RoomCore, PromisesCovered
    <3>. QED
      BY <3>1, <3>3, <3>4, <3>5, <3>6 DEF RoomCore
  <2>10. comp'.pc \notin Captured \/ comp' = [pc |-> "captured", max |-> lastSeq',
                                           ups |-> doc', old |-> 0, page |-> FALSE]
    BY <1>2, NotCaptured DEF CompactCapture, FinishCompaction, Preparing, NoCompaction,
                             Captured
  <2>. QED
    BY <2>8, <2>9, <2>10
<1>. QED
  BY <1>1, <1>2 DEF CompactCapture

\* What is loaded is what is stored, and what is added to it is logged at once.
LEMMA CoreStepLoad == RoomInv /\ Load => RoomCore'
<1> SUFFICES ASSUME RoomInv, Load PROVE RoomCore'
  OBVIOUS
<1> USE DEF d1, r2, meta, events, memory, compacting, history
<1> DEFINE seed == IF ~hadMeta /\ ~retired /\ r2snap # {} THEN Recoverable ELSE {}
           fixes == IF retired THEN {} ELSE Normalized(Recoverable) \ Recoverable
           seeded == Flushed(log, lastSeq, seed)
           n == FlushedSeq(log, lastSeq, seed)
<1>1. /\ life = "loading" /\ life' = "up" /\ doc' = Recoverable \cup fixes
      /\ log' = Flushed(seeded, n, fixes) /\ lastSeq' = FlushedSeq(seeded, n, fixes)
      /\ pending' = {}
      /\ UNCHANGED <<r2snap, proj, snapSeq, retired, op, acked, replied, comp>>
  BY DEF Load
<1>2. /\ log \in SUBSET Event /\ lastSeq \in Nat /\ snapSeq \in Nat
      /\ Recoverable = r2snap \cup Logged /\ Recoverable \in SUBSET Update
      /\ acked \subseteq r2snap \cup Logged
  BY RecoverableIsStored, RecoverableTyped
     DEF RoomInv, RoomCore, TypeOK, StoreTyped, PromisesCovered
<1>3. seeded \in SUBSET Event /\ n \in Nat /\ seed \in SUBSET Update
      /\ seed \subseteq Recoverable /\ fixes \in SUBSET Update
  BY <1>2, FlushedTyped, NormalizedTyped
<1> HIDE DEF seed, fixes, seeded, n
<1>4. /\ log \subseteq seeded /\ seeded \subseteq log'
      /\ lastSeq <= n /\ n <= lastSeq' /\ lastSeq' \in Nat /\ log' \in SUBSET Event
  BY <1>1, <1>2, <1>3, FlushedFacts, FlushedTyped DEF seeded, n
<1>5. ASSUME NEW e \in log', e \notin log
      PROVE  lastSeq < e.seq /\ e.seq <= lastSeq' /\ e.ups \subseteq doc'
  <2>0. e.seq \in Nat
    BY <1>4 DEF Event
  <2>1. CASE e \in seeded
    <3>1. lastSeq < e.seq /\ e.seq = n /\ e.ups = seed
      BY <1>2, <1>3, <1>5, <2>1, FlushedFacts DEF seeded, n
    <3>. QED
      BY <1>1, <1>3, <1>4, <3>1
  <2>2. CASE e \notin seeded
    <3>1. n < e.seq /\ e.seq = lastSeq' /\ e.ups = fixes
      BY <1>1, <1>3, <1>5, <2>2, FlushedFacts
    <3>. QED
      BY <1>1, <1>2, <1>3, <1>4, <2>0, <3>1
  <2>. QED
    BY <2>1, <2>2
<1>6. Logged \cup fixes \subseteq Logged'
  <2>1. ASSUME NEW u \in Logged \cup fixes PROVE \E e \in log' : u \in e.ups
    <3>1. CASE u \in Logged
      BY <3>1, <1>4 DEF Logged
    <3>2. CASE u \in fixes
      BY <3>2, <1>1, <1>3, FlushedFacts
    <3>. QED
      BY <2>1, <3>1, <3>2
  <2>2. Logged \cup fixes \subseteq Update
    BY <1>3 DEF Logged
  <2>. QED
    BY <2>1, <2>2 DEF Logged
<1>7. LogOrdered'
  <2>1. snapSeq' <= lastSeq'
    BY <1>1, <1>2, <1>3, <1>4 DEF RoomInv, RoomCore, LogOrdered
  <2>2. ASSUME NEW e \in log' PROVE snapSeq' < e.seq /\ e.seq <= lastSeq'
    <3>0. e.seq \in Nat
      BY <1>4 DEF Event
    <3>. QED
      BY <1>1, <1>2, <1>3, <1>4, <1>5, <3>0 DEF RoomInv, RoomCore, LogOrdered
  <2>. QED
    BY <2>1, <2>2 DEF LogOrdered
<1>8. MemoryCovered'
  <2>1. \A e \in log : e.ups \subseteq Logged
    BY <1>2 DEF Logged, Event
  <2>2. \A e \in log' : e.ups \subseteq doc'
    BY <1>1, <1>2, <1>5, <2>1
  <2>3. r2snap' \cup Logged' \subseteq doc'
    BY <1>1, <1>2, <2>2 DEF Logged
  <2>. QED
    BY <1>1, <1>2, <1>6, <2>3 DEF MemoryCovered
<1>9. comp.pc \notin Captured
  BY <1>1 DEF RoomInv, RoomCore, CaptureCovers
<1>10. \A o \in Op : op'[o].pc # "replying"
  BY <1>1 DEF RoomInv, RoomCore, AnswerCovered
<1>. QED
  BY <1>1, <1>2, <1>6, <1>7, <1>8, <1>9, <1>10
     DEF RoomInv, RoomCore, CaptureCovers, AnswerCovered, PromisesCovered

\* The events that are deleted are in the snapshot.
LEMMA CoreStepAck == RoomInv /\ CompactAck => RoomCore'
<1> SUFFICES ASSUME RoomInv, CompactAck PROVE RoomCore'
  OBVIOUS
<1> USE DEF d1, r2, meta, events, memory, compacting, history
<1>1. /\ life = "up" /\ comp.pc = "dropped" /\ comp'.pc = "acked"
      /\ log' = {e \in log : e.seq > comp.max} /\ snapSeq' = comp.max
      /\ UNCHANGED <<r2snap, proj, lastSeq, retired, life, doc, pending, op, acked,
                     replied>>
  BY DEF CompactAck, AcknowledgeCaptured, RoomInv, TypeOK, MemoryTyped, Compaction
<1>2. /\ comp.pc \in Captured /\ comp'.pc \notin Captured
      /\ r2snap = comp.ups /\ comp.max <= lastSeq
      /\ \A e \in log : e.seq <= comp.max => e.ups \subseteq r2snap
      /\ comp.max \in Nat /\ lastSeq \in Nat /\ log \in SUBSET Event
  BY <1>1 DEF Captured, RoomInv, RoomCore, CaptureCovers, TypeOK, StoreTyped,
              MemoryTyped, Compaction
<1>3. \A e \in log : e \in log' \/ e.ups \subseteq r2snap
  BY <1>1, <1>2 DEF Event
<1>4. r2snap \cup Logged' = r2snap \cup Logged
  BY <1>1, <1>3 DEF Logged
<1>5. LogOrdered'
  BY <1>1, <1>2 DEF RoomInv, RoomCore, LogOrdered
<1>6. MemoryCovered' /\ PromisesCovered'
  BY <1>1, <1>4 DEF RoomInv, RoomCore, MemoryCovered, PromisesCovered
<1>7. AnswerCovered'
  BY <1>1, <1>3 DEF RoomInv, RoomCore, AnswerCovered
<1>. QED
  BY <1>2, <1>5, <1>6, <1>7 DEF RoomCore, CaptureCovers

\* The room's memory does not outlive it, what it stored does.
LEMMA CoreStepCrash == RoomInv /\ Crash => RoomCore'
<1> SUFFICES ASSUME RoomInv, Crash PROVE RoomCore'
  OBVIOUS
<1>1. comp'.pc \notin Captured /\ \A o \in Op : op'[o].pc # "replying"
  BY DEF Crash, NoCompaction, Captured, NoRequest
<1>. QED
  BY <1>1 DEF Crash, RoomInv, RoomCore, LogOrdered, MemoryCovered, CaptureCovers,
              AnswerCovered, PromisesCovered, Logged, d1, r2, meta, events, history

\* Every step keeps the inductive invariant: one step per action, the long ones
\* by the lemmas above.
LEMMA CoreStep == RoomInv /\ [Next]_vars => RoomCore'
<1> SUFFICES ASSUME RoomInv, TypeOK', [Next]_vars PROVE RoomCore'
  BY FlagsStep, DataStep DEF RoomInv, TypeOK
<1> USE DEF d1, r2, meta, events, memory, compacting, history
<1>1. CASE Wake
  BY <1>1 DEF Wake, RoomInv, RoomCore, LogOrdered, MemoryCovered, CaptureCovers, AnswerCovered, PromisesCovered, Logged
<1>2. CASE CheckEpoch
  BY <1>2 DEF CheckEpoch, RoomInv, RoomCore, LogOrdered, MemoryCovered, CaptureCovers, AnswerCovered, PromisesCovered, Logged
<1>4. CASE Crash
  BY <1>4, CoreStepCrash
<1>5. ASSUME NEW e \in Edit, Receive(e) PROVE RoomCore'
  <2>1. e \in Update /\ life = "up" /\ ~retired
    BY <1>5 DEF Update, Receive, Writable
  <2>2. /\ doc' = doc \cup {e} /\ pending' = pending \cup {e}
        /\ UNCHANGED <<r2snap, proj, snapSeq, lastSeq, log, retired, replied, life,
                       acked, comp, op>>
    BY <1>5 DEF Receive
  <2>3. /\ pending \subseteq doc /\ doc \subseteq r2snap \cup Logged \cup pending
        /\ acked \subseteq r2snap \cup Logged
    BY <2>1 DEF RoomInv, RoomCore, MemoryCovered, PromisesCovered
  <2>4. Logged' = Logged
    BY <2>2 DEF Logged
  <2>5. lastSeq' \in Nat /\ lastSeq <= lastSeq' /\ log' \in SUBSET Event
    BY <2>2 DEF RoomInv, TypeOK, StoreTyped
  <2>6. /\ doc \subseteq doc' /\ pending' \subseteq doc'
        /\ doc' \subseteq r2snap \cup Logged' \cup pending'
        /\ acked' \subseteq r2snap \cup Logged'
    BY <2>2, <2>3, <2>4
  <2>7. /\ log \subseteq log'
        /\ \A x \in log' : x \notin log =>
          lastSeq < x.seq /\ x.seq <= lastSeq' /\ x.ups \subseteq doc'
        /\ comp' = comp /\ \A o \in Op : op'[o] = op[o]
    BY <2>2, Zenon
  <2>8. life' = "up" /\ UNCHANGED <<r2snap, proj, snapSeq, retired, replied>>
    BY <2>1, <2>2
  <2>. QED
    BY <2>1, <2>5, <2>6, <2>7, <2>8, Growth
<1>6. CASE OnConnect
  BY <1>6 DEF OnConnect, RoomInv, RoomCore, LogOrdered, MemoryCovered, CaptureCovers,
              AnswerCovered, PromisesCovered, Logged
<1>7. CASE Barrier
  <2>1. /\ life = "up" /\ FlushPending /\ ~retired /\ acked' = acked \cup doc
        /\ UNCHANGED <<r2snap, proj, snapSeq, retired, replied, life, doc, comp, op>>
    BY <1>7 DEF Barrier, Writable
  <2>. QED
    BY <2>1, FlushGrowth
<1>8. CASE OnSave
  <2>1. /\ life = "up" /\ FlushPending
        /\ UNCHANGED <<r2snap, proj, snapSeq, retired, replied, life, doc, acked, comp, op>>
    BY <1>8 DEF OnSave
  <2>. QED
    BY <2>1, FlushGrowth
<1>9. CASE OnAlarm
  <2>1. CASE retired
    BY <1>9, <2>1 DEF OnAlarm, RoomInv, RoomCore, LogOrdered, MemoryCovered,
                      CaptureCovers, AnswerCovered, PromisesCovered, Logged
  <2>2. CASE ~retired
    <3>1. /\ life = "up" /\ FlushPending
          /\ UNCHANGED <<r2snap, proj, snapSeq, retired, replied, life, doc, acked, op>>
          /\ RequestCompaction \/ comp' = comp
      BY <1>9, <2>2 DEF OnAlarm
    <3>. QED
      BY <3>1, NotCaptured, FlushGrowth
  <2>. QED
    BY <2>1, <2>2
<1>10. CASE ReadContent
  <2>1. /\ life = "up" /\ FlushPending
        /\ UNCHANGED <<r2snap, proj, snapSeq, retired, replied, life, doc, acked, op>>
        /\ RequestCompaction \/ comp' = comp
    BY <1>10 DEF ReadContent
  <2>. QED
    BY <2>1, NotCaptured, FlushGrowth
<1>11. ASSUME NEW o \in Op, OpRequest(o) PROVE RoomCore'
  <2>1. PICK x : op' = [op EXCEPT ![o] = [pc |-> "admitted", expect |-> x, seq |-> 0]]
    BY <1>11, Zenon DEF OpRequest
  <2>2. \A q \in Op : op'[q].pc = "replying" => op'[q] = op[q]
    BY <2>1 DEF RoomInv, TypeOK, MemoryTyped
  <2>3. /\ life = "up"
        /\ UNCHANGED <<r2snap, proj, snapSeq, retired, replied, life, doc, acked>>
    BY <1>11 DEF OpRequest, Writable
  <2>4. \/ UNCHANGED <<log, lastSeq, pending, comp>>
        \/ FlushPending /\ (RequestCompaction \/ comp' = comp)
    BY <1>11 DEF OpRequest
  <2>5. CASE UNCHANGED <<log, lastSeq, pending, comp>>
    BY <2>2, <2>3, <2>5 DEF RoomInv, RoomCore, LogOrdered, MemoryCovered,
                            CaptureCovers, AnswerCovered, PromisesCovered, Logged
  <2>. QED
    BY <2>2, <2>3, <2>4, <2>5, NotCaptured, FlushGrowth
<1>12. ASSUME NEW o \in Op, OpSettle(o) PROVE RoomCore'
  <2>1. /\ life = "up" /\ FlushPending
        /\ UNCHANGED <<r2snap, proj, snapSeq, retired, replied, life, doc, acked, op>>
        /\ RequestCompaction \/ comp' = comp
    BY <1>12 DEF OpSettle
  <2>. QED
    BY <2>1, NotCaptured, FlushGrowth
<1>13. ASSUME NEW o \in Op, OpRefuse(o) PROVE RoomCore'
  <2>1. /\ life = "up" /\ FlushPending /\ op' = [op EXCEPT ![o] = NoRequest]
        /\ UNCHANGED <<r2snap, proj, snapSeq, retired, replied, life, doc, acked, comp>>
    BY <1>13 DEF OpRefuse
  <2>2. \A q \in Op : op'[q].pc = "replying" => op'[q] = op[q]
    BY <2>1 DEF NoRequest, RoomInv, TypeOK, MemoryTyped
  <2>. QED
    BY <2>1, <2>2, FlushGrowth
<1>14. ASSUME NEW o \in Op, OpReplay(o) PROVE RoomCore'
  <2>1. /\ life = "up" /\ FlushPending /\ ~retired /\ o \in doc
        /\ op' = [op EXCEPT ![o] = [@ EXCEPT !.pc = "replying", !.seq = lastSeq']]
        /\ UNCHANGED <<r2snap, proj, snapSeq, retired, replied, life, doc, acked, comp>>
    BY <1>14 DEF OpReplay, Writable, HasReceipt
  <2>2. \A q \in Op : op'[q].pc = "replying" =>
          op'[q] = op[q] \/ (q = o /\ op'[q].seq = lastSeq')
    BY <2>1 DEF RoomInv, TypeOK, MemoryTyped, Request
  <2>. QED
    BY <2>1, <2>2, FlushGrowth
<1>15. ASSUME NEW o \in Op, OpApply(o) PROVE RoomCore'
  <2> DEFINE flushed == Flushed(log, lastSeq, pending)
             n == FlushedSeq(log, lastSeq, pending)
             new == Normalized(doc \cup {o}) \ doc
  <2>1. /\ life = "up" /\ ~retired
        /\ doc' = doc \cup new /\ log' = Flushed(flushed, n, new)
        /\ lastSeq' = FlushedSeq(flushed, n, new) /\ pending' = {}
        /\ op' = [op EXCEPT ![o] = [@ EXCEPT !.pc = "replying", !.seq = lastSeq']]
        /\ UNCHANGED <<r2snap, proj, snapSeq, retired, replied, life, acked, comp>>
    BY <1>15 DEF OpApply, Writable
  <2>2. /\ log \in SUBSET Event /\ lastSeq \in Nat /\ pending \in SUBSET Update
        /\ doc \in SUBSET Update /\ pending \subseteq doc
        /\ doc \subseteq r2snap \cup Logged \cup pending
        /\ acked \subseteq r2snap \cup Logged
    BY <2>1 DEF RoomInv, RoomCore, TypeOK, StoreTyped, MemoryTyped, MemoryCovered,
                PromisesCovered
  <2>3. flushed \in SUBSET Event /\ n \in Nat /\ new \in SUBSET Update /\ o \in doc \cup new
    BY <2>2, FlushedTyped, NormalizedTyped DEF Update
  <2> HIDE DEF flushed, n, new
  <2>4. log \subseteq flushed /\ flushed \subseteq log'
    BY <2>1, <2>2, <2>3, FlushedFacts DEF flushed
  <2>5. /\ lastSeq <= n /\ n <= lastSeq' /\ lastSeq' \in Nat /\ log' \in SUBSET Event
    BY <2>1, <2>2, <2>3, FlushedFacts, FlushedTyped DEF n
  <2>6. ASSUME NEW e \in log', e \notin log
        PROVE  lastSeq < e.seq /\ e.seq <= lastSeq' /\ e.ups \subseteq doc'
    <3>0. e.seq \in Nat
      BY <2>5 DEF Event
    <3>1. CASE e \in flushed
      <4>1. lastSeq < e.seq /\ e.seq = n /\ e.ups = pending
        BY <2>2, <2>6, <3>1, FlushedFacts DEF flushed, n
      <4>. QED
        BY <2>1, <2>2, <2>5, <4>1
    <3>2. CASE e \notin flushed
      <4>1. n < e.seq /\ e.seq = lastSeq' /\ e.ups = new
        BY <2>1, <2>3, <2>6, <3>2, FlushedFacts
      <4>. QED
        BY <2>1, <2>2, <2>3, <2>5, <4>1, <3>0
    <3>. QED
      BY <3>1, <3>2
  <2>7. Logged \cup pending \cup new \subseteq Logged'
    <3>1. ASSUME NEW u \in Logged \cup pending \cup new
          PROVE  \E e \in log' : u \in e.ups
      <4>1. CASE u \in Logged
        BY <4>1, <2>4 DEF Logged
      <4>2. CASE u \in pending
        BY <4>2, <2>2, <2>4, FlushedFacts DEF flushed
      <4>3. CASE u \in new
        BY <4>3, <2>1, <2>3, FlushedFacts
      <4>. QED
        BY <3>1, <4>1, <4>2, <4>3
    <3>2. Logged \cup pending \cup new \subseteq Update
      BY <2>2, <2>3 DEF Logged
    <3>. QED
      BY <3>1, <3>2 DEF Logged
  <2>8. \A q \in Op : op'[q].pc = "replying" =>
          op'[q] = op[q] \/ (q = o /\ op'[q].seq = lastSeq')
    BY <2>1 DEF RoomInv, TypeOK, MemoryTyped, Request
  <2>9. /\ doc \subseteq doc' /\ pending' \subseteq doc'
        /\ doc' \subseteq r2snap \cup Logged' \cup pending'
        /\ acked' \subseteq r2snap \cup Logged'
    BY <2>1, <2>2, <2>7
  <2>10. o \in r2snap \cup Logged'
    BY <2>2, <2>3, <2>7
  <2>11. \A e \in log' : e \notin log =>
          lastSeq < e.seq /\ e.seq <= lastSeq' /\ e.ups \subseteq doc'
    BY <2>6, Zenon
  <2>12. \A q \in Op : op'[q].pc = "replying" =>
           op'[q] = op[q] \/ (q \in r2snap \cup Logged' /\ op'[q].seq = lastSeq')
    BY <2>8, <2>10
  <2>13. /\ life = "up" /\ life' = "up" /\ comp' = comp /\ log \subseteq log'
         /\ UNCHANGED <<r2snap, proj, snapSeq, retired, replied>>
    BY <2>1, <2>4
  <2>14. lastSeq <= lastSeq'
    BY <2>2, <2>3, <2>5
  <2>. QED
    BY <2>5, <2>9, <2>11, <2>12, <2>13, <2>14, Growth
<1>16. ASSUME NEW o \in Op, OpCompact(o) PROVE RoomCore'
  <2>1. /\ comp'.pc \notin Captured \/ comp' = comp
        /\ UNCHANGED <<r2snap, proj, snapSeq, lastSeq, log, retired, life, doc, pending,
                       op, acked, replied>>
    BY <1>16, NotCaptured DEF OpCompact
  <2>. QED
    BY <2>1 DEF RoomInv, RoomCore, LogOrdered, MemoryCovered, CaptureCovers,
                AnswerCovered, PromisesCovered, Logged
<1>17. ASSUME NEW o \in Op, OpReply(o) PROVE RoomCore'
  <2>1. /\ life = "up" /\ op[o].pc = "replying" /\ snapSeq >= op[o].seq
        /\ replied' = replied \cup {o} /\ op' = [op EXCEPT ![o] = NoRequest]
        /\ UNCHANGED <<r2snap, proj, snapSeq, lastSeq, log, retired, life, doc, pending,
                       comp, acked>>
    BY <1>17 DEF OpReply, Compacted
  <2>2. o \in r2snap
    <3>1. op[o].seq \in Nat /\ snapSeq \in Nat /\ log \in SUBSET Event
      BY DEF RoomInv, TypeOK, StoreTyped, MemoryTyped, Request
    <3>2. \A e \in log : e.seq \in Nat /\ snapSeq < e.seq
      BY <3>1 DEF RoomInv, RoomCore, LogOrdered, Event
    <3>3. o \in r2snap \/ \E e \in log : e.seq <= op[o].seq
      BY <2>1, Zenon DEF RoomInv, RoomCore, AnswerCovered
    <3>. QED
      BY <2>1, <3>1, <3>2, <3>3
  <2>3. \A q \in Op : op'[q].pc = "replying" => op'[q] = op[q]
    BY <2>1 DEF NoRequest, RoomInv, TypeOK, MemoryTyped
  <2>. QED
    BY <2>1, <2>2, <2>3 DEF RoomInv, RoomCore, LogOrdered, MemoryCovered,
                            CaptureCovers, AnswerCovered, PromisesCovered, Logged
<1>18. ASSUME NEW o \in Op, OpError(o) PROVE RoomCore'
  <2>1. /\ op' = [op EXCEPT ![o] = NoRequest]
        /\ UNCHANGED <<r2snap, proj, snapSeq, lastSeq, log, retired, life, doc, pending,
                       comp, acked, replied>>
    BY <1>18 DEF OpError
  <2>2. \A q \in Op : op'[q].pc = "replying" => op'[q] = op[q]
    BY <2>1 DEF NoRequest, RoomInv, TypeOK, MemoryTyped
  <2>. QED
    BY <2>1, <2>2 DEF RoomInv, RoomCore, LogOrdered, MemoryCovered, CaptureCovers,
                      AnswerCovered, PromisesCovered, Logged
<1>19. CASE CompactCapture
  BY <1>19, CoreStepCapture
<1>20. CASE Load
  BY <1>20, CoreStepLoad
<1>21. CASE CompactPutSnapshot
  <2>1. /\ comp.pc = "captured" /\ comp'.pc = "stored" /\ r2snap' = comp.ups
        /\ comp'.ups = comp.ups /\ comp'.max = comp.max
        /\ UNCHANGED <<proj, snapSeq, lastSeq, log, retired, life, doc, pending, op,
                       acked, replied>>
    BY <1>21 DEF CompactPutSnapshot, Advance, RoomInv, TypeOK, MemoryTyped, Compaction
  <2>2. comp.pc \in Captured /\ r2snap \subseteq comp.ups
    BY <2>1 DEF Captured, RoomInv, RoomCore, CaptureCovers
  <2>3. Logged' = Logged
    BY <2>1 DEF Logged
  <2>. QED
    BY <2>1, <2>2, <2>3 DEF RoomInv, RoomCore, LogOrdered, MemoryCovered,
                            CaptureCovers, AnswerCovered, PromisesCovered
<1>22. CASE CompactPutProjection \/ CompactDrop \/ CompactReadPage
  <2>1. /\ comp.pc \in Captured /\ comp.pc # "captured" /\ comp'.pc # "captured"
        /\ comp'.ups = comp.ups /\ comp'.max = comp.max
        /\ UNCHANGED <<r2snap, proj, snapSeq, lastSeq, log, retired, life, doc, pending,
                       op, acked, replied>>
    BY <1>22 DEF CompactPutProjection, CompactDrop, CompactReadPage, Advance, RoomInv,
                 TypeOK, MemoryTyped, Compaction, Captured
  <2>2. Logged' = Logged
    BY <2>1 DEF Logged
  <2>. QED
    BY <2>1, <2>2 DEF RoomInv, RoomCore, LogOrdered, MemoryCovered, CaptureCovers,
                      AnswerCovered, PromisesCovered
<1>23. CASE CompactBatch
  <2>1. /\ comp.pc = "read" /\ comp'.pc = "batched"
        /\ comp'.ups = comp.ups /\ comp'.max = comp.max
        /\ UNCHANGED <<r2snap, snapSeq, lastSeq, log, retired, life, doc, pending, op,
                       acked, replied>>
        /\ proj' = proj \/ proj' = ProjectCaptured
    BY <1>23 DEF CompactBatch, RoomInv, TypeOK, MemoryTyped, Compaction
  <2>2. comp.pc \in Captured /\ comp.pc # "captured"
    BY <2>1 DEF Captured
  <2>3. proj'.ups \subseteq r2snap
    BY <2>1, <2>2 DEF ProjectCaptured, RoomInv, RoomCore, CaptureCovers, PromisesCovered
  <2>4. Logged' = Logged
    BY <2>1 DEF Logged
  <2>. QED
    BY <2>1, <2>2, <2>3, <2>4 DEF RoomInv, RoomCore, LogOrdered, MemoryCovered,
                                  CaptureCovers, AnswerCovered, PromisesCovered
<1>24. CASE CompactAck
  BY <1>24, CoreStepAck
<1>25. CASE CompactEnd \/ CompactFail
  <2>1. /\ comp'.pc \notin Captured \/ comp' = comp
        /\ UNCHANGED <<r2snap, proj, snapSeq, lastSeq, log, retired, life, doc, pending,
                       op, acked, replied>>
    BY <1>25, NotCaptured DEF CompactEnd, CompactFail, RetryByAlarm
  <2>. QED
    BY <2>1 DEF RoomInv, RoomCore, LogOrdered, MemoryCovered, CaptureCovers,
                AnswerCovered, PromisesCovered, Logged
<1>26. CASE DropProjection \/ DeletePage \/ UNCHANGED vars
  <2>1. UNCHANGED <<r2snap, proj, snapSeq, lastSeq, log, retired, life, doc, pending,
                    comp, op, acked, replied>>
    BY <1>26 DEF DropProjection, DeletePage, vars
  <2>. QED
    BY <2>1 DEF RoomInv, RoomCore, LogOrdered, MemoryCovered, CaptureCovers,
                AnswerCovered, PromisesCovered, Logged
<1>27. CASE Purge
  <2>1. /\ life = "up" /\ life' = "purged" /\ log' = {} /\ snapSeq' = 0 /\ lastSeq' = 0
        /\ acked' = {} /\ replied' = {} /\ UNCHANGED <<r2snap, proj, comp>>
    BY <1>27 DEF Purge
  <2>. QED
    BY <2>1 DEF RoomInv, RoomCore, LogOrdered, MemoryCovered, CaptureCovers,
                AnswerCovered, PromisesCovered
<1>. QED
  BY <1>1, <1>2, <1>4, <1>5, <1>6, <1>7, <1>8, <1>9, <1>10, <1>11, <1>12, <1>13,
     <1>14, <1>15, <1>16, <1>17, <1>18, <1>19, <1>20, <1>21, <1>22, <1>23, <1>24,
     <1>25, <1>26, <1>27 DEF Next

\* Types and the inductive invariant together hold in every reachable state.
LEMMA RoomInvariant == Spec => []RoomInv
<1>1. Init => RoomInv
  BY TypeInit, CoreInit DEF RoomInv
<1>2. RoomInv /\ [Next]_vars => RoomInv'
  BY FlagsStep, DataStep, CoreStep DEF RoomInv, TypeOK
<1>. QED
  BY <1>1, <1>2, PTL DEF Spec

-----------------------------------------------------------------------------
(* What follows from it.                                                   *)

\* Every update that a client was told is saved can be loaded again, in every
\* reachable state: across crashes at any await, failed and retried compactions,
\* and edits that arrive while a compaction is in flight.
THEOREM AckedIsRecoverable == Spec => []AckedRecoverable
<1>1. RoomInv => AckedRecoverable
  BY RecoverableIsStored
     DEF RoomInv, RoomCore, TypeOK, PromisesCovered, AckedRecoverable
<1>. QED
  BY RoomInvariant, <1>1, PTL

\* Every operation that was answered as committed is in the snapshot in R2.
THEOREM RepliedIsSnapshotted == Spec => []RepliedSnapshotted
<1>1. RoomInv => RepliedSnapshotted
  BY DEF RoomInv, RoomCore, PromisesCovered, RepliedSnapshotted
<1>. QED
  BY RoomInvariant, <1>1, PTL

-----------------------------------------------------------------------------
(* The room implements DurableDocument.                                    *)

\* A room that starts implements a document that starts.
LEMMA PromiseInit == Init => Promise!Init
<1> SUFFICES ASSUME Init PROVE Promise!Init
  OBVIOUS
<1>1. Recoverable \in SUBSET Update
  BY DEF Init, Recoverable, Update
<1>. QED
  BY <1>1 DEF Init, Promise!Init

\* Every step of the room is a step of the abstract document or changes nothing
\* that it shows.
LEMMA PromiseStep ==
  RoomInv /\ RoomInv' /\ [Next]_vars => [Promise!Next]_(Promise!vars)
<1> SUFFICES ASSUME RoomInv, RoomInv', [Next]_vars
             PROVE  \/ Promise!Save \/ Promise!Answer \/ Promise!Publish \/ Promise!Erase
                    \/ UNCHANGED Promise!vars
  BY DEF Promise!Next
<1> USE DEF d1, r2, meta, events, memory, compacting, history
<1>0. /\ Recoverable = r2snap \cup Logged /\ Recoverable' = r2snap' \cup Logged'
      /\ Recoverable' \in SUBSET Update /\ acked' \subseteq Recoverable'
  <2>1. StoreTyped /\ LogOrdered /\ StoreTyped' /\ LogOrdered'
    BY DEF RoomInv, RoomCore, TypeOK
  <2>2. Recoverable = r2snap \cup Logged /\ Recoverable' = r2snap' \cup Logged'
    BY <2>1, RecoverableIsStored DEF StoreTyped, LogOrdered, Recoverable, Logged, Event
  <2>3. r2snap' \cup Logged' \in SUBSET Update
    BY <2>1 DEF StoreTyped, Logged
  <2>4. acked' \subseteq r2snap' \cup Logged'
    BY DEF RoomInv, RoomCore, PromisesCovered
  <2>. QED
    BY <2>2, <2>3, <2>4
\* A step that stores and confirms more, and answers and publishes nothing.
<1>1. ASSUME r2snap \subseteq r2snap', log \subseteq log', acked \subseteq acked',
             replied' = replied, proj' = proj
      PROVE  Promise!Save
  BY <1>0, <1>1 DEF Promise!Save, Logged
<1>2. ASSUME UNCHANGED <<r2snap, log, acked, replied, proj>> PROVE Promise!Save
  BY <1>1, <1>2
<1>3. ASSUME FlushPending, acked \subseteq acked', UNCHANGED <<r2snap, replied, proj>>
      PROVE  Promise!Save
  <2>1. log \subseteq log'
    BY <1>3 DEF FlushPending, Flushed
  <2>. QED
    BY <1>1, <1>3, <2>1
<1>4. CASE Wake \/ CheckEpoch \/ Crash \/ OnConnect \/ CompactEnd \/ CompactFail
  BY <1>2, <1>4 DEF Wake, CheckEpoch, Crash, OnConnect, CompactEnd, CompactFail,
                    RetryByAlarm
<1>5. CASE CompactPutProjection \/ CompactReadPage \/ CompactDrop \/ DropProjection
           \/ DeletePage \/ UNCHANGED vars
  BY <1>2, <1>5 DEF CompactPutProjection, CompactReadPage, CompactDrop, Advance,
                    DropProjection, DeletePage, vars
<1>6. ASSUME NEW e \in Edit, Receive(e) PROVE Promise!Save
  BY <1>2, <1>6 DEF Receive
<1>7. CASE Load
  <2>1. log \subseteq log'
    BY <1>7 DEF Load, Flushed
  <2>. QED
    BY <1>1, <1>7, <2>1 DEF Load
<1>8. CASE Barrier
  BY <1>3, <1>8 DEF Barrier
<1>9. CASE OnSave \/ ReadContent
  BY <1>3, <1>9 DEF OnSave, ReadContent
<1>10. CASE OnAlarm
  BY <1>2, <1>3, <1>10 DEF OnAlarm
<1>11. ASSUME NEW o \in Op, OpRequest(o) PROVE Promise!Save
  BY <1>2, <1>3, <1>11 DEF OpRequest
<1>12. ASSUME NEW o \in Op, OpSettle(o) \/ OpRefuse(o) \/ OpReplay(o) PROVE Promise!Save
  BY <1>3, <1>12 DEF OpSettle, OpRefuse, OpReplay
<1>13. ASSUME NEW o \in Op, OpApply(o) PROVE Promise!Save
  <2>1. log \subseteq log'
    BY <1>13 DEF OpApply, Flushed
  <2>. QED
    BY <1>1, <1>13, <2>1 DEF OpApply
<1>14. ASSUME NEW o \in Op, OpCompact(o) \/ OpError(o) PROVE Promise!Save
  BY <1>2, <1>14 DEF OpCompact, OpError
<1>15. ASSUME NEW o \in Op, OpReply(o) PROVE Promise!Answer
  <2>1. /\ replied \subseteq replied'
        /\ UNCHANGED <<r2snap, log, snapSeq, acked, proj>>
    BY <1>15 DEF OpReply
  <2>2. replied' \subseteq r2snap
    BY <2>1 DEF RoomInv, RoomCore, PromisesCovered
  <2>3. Recoverable' = Recoverable
    BY <2>1 DEF Recoverable
  <2>. QED
    BY <1>0, <2>1, <2>2, <2>3 DEF Promise!Answer
<1>16. CASE CompactCapture
  <2>1. log \subseteq log'
    BY <1>16 DEF CompactCapture, Flushed
  <2>. QED
    BY <1>1, <1>16, <2>1 DEF CompactCapture
<1>17. CASE CompactPutSnapshot
  <2>1. r2snap \subseteq comp.ups
    BY <1>17 DEF CompactPutSnapshot, Advance, Captured, RoomInv, RoomCore, CaptureCovers
  <2>. QED
    BY <1>1, <1>17, <2>1 DEF CompactPutSnapshot, Advance
<1>18. CASE CompactAck
  <2>1. /\ UNCHANGED <<r2snap, acked, replied, proj>> /\ life = "up"
        /\ comp.pc = "dropped" /\ log' = {e \in log : e.seq > comp.max}
    BY <1>18 DEF CompactAck, AcknowledgeCaptured
  <2>2. \A e \in log : e \in log' \/ e.ups \subseteq r2snap
    BY <2>1 DEF RoomInv, RoomCore, TypeOK, StoreTyped, MemoryTyped, CaptureCovers,
                Captured, Compaction, Event
  <2>3. Recoverable \subseteq Recoverable'
    BY <1>0, <2>1, <2>2 DEF Logged
  <2>. QED
    BY <1>0, <2>1, <2>3 DEF Promise!Save
<1>19. CASE CompactBatch
  <2>1. /\ comp.pc = "read"
        /\ proj' = proj \/ proj' = ProjectCaptured
        /\ UNCHANGED <<r2snap, log, snapSeq, acked, replied>>
    BY <1>19 DEF CompactBatch
  <2>0. comp.pc \in Captured /\ comp.pc # "captured"
    BY <2>1 DEF Captured
  <2>2. r2snap = comp.ups /\ proj.ups \subseteq r2snap
    BY <2>0 DEF RoomInv, RoomCore, CaptureCovers, PromisesCovered
  <2>3. proj.ups \subseteq proj'.ups /\ proj'.ups \subseteq r2snap
    BY <2>1, <2>2 DEF ProjectCaptured
  <2>4. Recoverable' = Recoverable
    BY <2>1 DEF Recoverable
  <2>. QED
    BY <1>0, <2>1, <2>3, <2>4 DEF Promise!Publish
<1>20. CASE Purge
  <2>1. /\ log' = {} /\ acked' = {} /\ replied' = {} /\ UNCHANGED <<r2snap, proj>>
    BY <1>20 DEF Purge
  <2>2. Logged' = {}
    BY <2>1 DEF Logged
  <2>. QED
    BY <1>0, <2>1, <2>2 DEF Promise!Erase
<1>. QED
  BY <1>4, <1>5, <1>6, <1>7, <1>8, <1>9, <1>10, <1>11, <1>12, <1>13, <1>14, <1>15,
     <1>16, <1>17, <1>18, <1>19, <1>20 DEF Next

\* Refinement: the room keeps the promise of DurableDocument.  A flush and a
\* barrier are Save, an answer is Answer, the D1 batch is Publish, a purge is
\* Erase, and every other step changes nothing that a client can tell.
THEOREM RoomKeepsPromise == Spec => KeepsPromise
<1>. QED
  BY PromiseInit, PromiseStep, RoomInvariant, PTL DEF Spec, KeepsPromise, Promise!Spec

-----------------------------------------------------------------------------
(* The projection, the receipts of operations and conditional mutations:   *)
(* three invariants beside RoomInv.                                        *)


-----------------------------------------------------------------------------
(* Logging.                                                                *)

\* Appending to the log removes nothing and leaves the high-water mark no lower.
LEMMA FlushedGrows ==
  ASSUME NEW l, NEW n \in Nat, NEW ups
  PROVE  /\ l \subseteq Flushed(l, n, ups)
         /\ FlushedSeq(l, n, ups) \in Nat /\ n <= FlushedSeq(l, n, ups)
         /\ ups = {} => Flushed(l, n, ups) = l
         /\ ups # {} => \E e \in Flushed(l, n, ups) : e.ups = ups
<1>1. CASE ups = {}
  BY <1>1 DEF Flushed, FlushedSeq
<1>2. CASE ups # {}
  <2>1. [seq |-> NextSeq(l, n), ups |-> ups] \in Flushed(l, n, ups)
    BY <1>2, Zenon DEF Flushed
  <2>2. [seq |-> NextSeq(l, n), ups |-> ups].ups = ups
    OBVIOUS
  <2>3. \E e \in Flushed(l, n, ups) : e.ups = ups
    BY <2>1, <2>2, Zenon
  <2>. QED
    BY <1>2, <2>3 DEF Flushed, FlushedSeq, NextSeq
<1>. QED
  BY <1>1, <1>2

\* The same of two flushes, as a start and an operation make them.
LEMMA FlushedTwice ==
  ASSUME NEW l, NEW n \in Nat, NEW first, NEW second
  PROVE  n <= FlushedSeq(Flushed(l, n, first), FlushedSeq(l, n, first), second)
<1> DEFINE m == FlushedSeq(l, n, first)
<1>1. m \in Nat /\ n <= m
  BY FlushedGrows
<1> HIDE DEF m
<1>2. FlushedSeq(Flushed(l, n, first), m, second) \in Nat
  BY <1>1, FlushedGrows
<1>3. m <= FlushedSeq(Flushed(l, n, first), m, second)
  BY <1>1, FlushedGrows
<1>. QED
  BY <1>1, <1>2, <1>3 DEF m

\* The high-water mark falls in a purge only, which a living page does not have.
LEMMA SequenceGrows ==
  ASSUME TypeOK, [Next]_vars, pageLive
  PROVE  lastSeq <= lastSeq'
<1> USE DEF TypeOK, StoreTyped, d1, r2, meta, events, memory, compacting, history
<1>1. lastSeq \in Nat
  OBVIOUS
<1>2. ASSUME FlushPending PROVE lastSeq <= lastSeq'
  BY <1>1, <1>2, FlushedGrows DEF FlushPending
<1>3. ASSUME lastSeq' = lastSeq PROVE lastSeq <= lastSeq'
  BY <1>1, <1>3
<1>4. CASE Load
  <2>1. \E seed, ups : lastSeq' = FlushedSeq(Flushed(log, lastSeq, seed),
                                             FlushedSeq(log, lastSeq, seed), ups)
    BY <1>4, Zenon DEF Load
  <2>. QED
    BY <1>1, <2>1, FlushedTwice
<1>5. CASE CompactCapture
  <2>1. UNCHANGED lastSeq \/ \E ups : lastSeq' = FlushedSeq(log, lastSeq, ups)
    BY <1>5, Zenon DEF CompactCapture
  <2>. QED
    BY <1>1, <2>1, FlushedGrows
<1>6. ASSUME NEW o \in Op, OpApply(o) PROVE lastSeq <= lastSeq'
  <2>1. \E ups : lastSeq' = FlushedSeq(Flushed(log, lastSeq, pending),
                                       FlushedSeq(log, lastSeq, pending), ups)
    BY <1>6, Zenon DEF OpApply
  <2>. QED
    BY <1>1, <2>1, FlushedTwice
<1>7. ASSUME NEW o \in Op, OpRequest(o) PROVE lastSeq <= lastSeq'
  BY <1>2, <1>3, <1>7 DEF OpRequest
<1>8. ASSUME NEW o \in Op, OpSettle(o) \/ OpRefuse(o) \/ OpReplay(o)
      PROVE  lastSeq <= lastSeq'
  BY <1>2, <1>8 DEF OpSettle, OpRefuse, OpReplay
<1>9. ASSUME NEW o \in Op, OpCompact(o) \/ OpReply(o) \/ OpError(o)
      PROVE  lastSeq <= lastSeq'
  BY <1>3, <1>9 DEF OpCompact, OpReply, OpError
<1>10. CASE Barrier \/ OnSave \/ ReadContent
  BY <1>2, <1>10 DEF Barrier, OnSave, ReadContent
<1>11. CASE OnAlarm
  BY <1>2, <1>3, <1>11 DEF OnAlarm
<1>12. CASE Purge
  BY <1>12 DEF Purge
<1>13. CASE Wake \/ CheckEpoch \/ Crash \/ OnConnect \/ (\E e \in Edit : Receive(e))
  BY <1>3, <1>13 DEF Wake, CheckEpoch, Crash, OnConnect, Receive
<1>14. CASE \/ CompactPutSnapshot \/ CompactPutProjection \/ CompactReadPage
            \/ CompactBatch \/ CompactDrop \/ CompactAck \/ CompactEnd \/ CompactFail
            \/ DropProjection \/ DeletePage \/ UNCHANGED vars
  BY <1>3, <1>14
     DEF CompactPutSnapshot, CompactPutProjection, CompactReadPage, CompactBatch,
         CompactDrop, CompactAck, CompactEnd, CompactFail, RetryByAlarm, Advance,
         DropProjection, DeletePage, vars
<1>. QED
  BY <1>4, <1>5, <1>6, <1>7, <1>8, <1>9, <1>10, <1>11, <1>12, <1>13, <1>14 DEF Next

-----------------------------------------------------------------------------
(* The projection row and its object.                                      *)

\* No compaction that starts, waits or ends has a step of the projection's.
LEMMA NoProjectionStep ==
  /\ {NoCompaction.pc, Preparing.pc} \cap (Captured \cup {"read", "batched"}) = {}
  /\ RequestCompaction => comp'.pc \notin Captured \/ comp' = comp
  /\ FinishCompaction => comp'.pc \notin Captured
  /\ {"rendered", "read", "batched"} \subseteq Captured
  BY DEF NoCompaction, Preparing, RequestCompaction, FinishCompaction, Captured

\* A step that leaves the row, its objects and the captured compaction alone.
LEMMA ProjectionQuiet ==
  ASSUME TypeOK, TypeOK', ProjectionOrdered,
         pageLive' => pageLive, pageLive => lastSeq <= lastSeq',
         UNCHANGED <<proj, r2proj>>, garbage' \subseteq garbage,
         comp'.pc \notin Captured \/ comp' = comp
  PROVE  ProjectionOrdered'
<1> USE DEF TypeOK, StoreTyped, MemoryTyped, Envelope, Compaction, ProjectionExists
<1>1. pageLive' => proj'.seq <= lastSeq'
  BY DEF ProjectionOrdered
<1>2. CASE comp'.pc \notin Captured
  BY <1>1, <1>2, NoProjectionStep DEF ProjectionOrdered, Captured
<1>3. CASE comp' = comp
  BY <1>1, <1>3 DEF ProjectionOrdered
<1>. QED
  BY <1>2, <1>3

\* Every step keeps the sequences of the projection in order.
LEMMA ProjectionStep ==
  ASSUME TypeOK, TypeOK', ProjectionOrdered, [Next]_vars
  PROVE  ProjectionOrdered'
<1> USE DEF ProjectionExists, d1, r2, meta, events, memory, compacting, history
<1>0. pageLive => lastSeq <= lastSeq'
  BY SequenceGrows
<1>q. ASSUME UNCHANGED <<pageLive, proj, r2proj>>, garbage' \subseteq garbage,
             comp'.pc \notin Captured \/ comp' = comp
      PROVE  ProjectionOrdered'
  BY <1>0, <1>q, ProjectionQuiet
<1>1. CASE Wake \/ CheckEpoch \/ Load \/ OnConnect \/ (\E e \in Edit : Receive(e))
  BY <1>q, <1>1 DEF Wake, CheckEpoch, Load, OnConnect, Receive
<1>2. CASE Crash
  BY <1>q, <1>2, NoProjectionStep DEF Crash
<1>3. CASE Barrier \/ OnSave
  BY <1>q, <1>3 DEF Barrier, OnSave, FlushPending
<1>4. CASE OnAlarm \/ ReadContent
  <2>1. /\ UNCHANGED <<pageLive, proj, r2proj, garbage>>
        /\ RequestCompaction \/ comp' = comp
    BY <1>4 DEF OnAlarm, ReadContent, FlushPending
  <2>. QED
    BY <1>q, <2>1, NoProjectionStep
<1>5. ASSUME NEW o \in Op, OpRequest(o) \/ OpSettle(o) \/ OpCompact(o)
      PROVE  ProjectionOrdered'
  <2>1. /\ UNCHANGED <<pageLive, proj, r2proj, garbage>>
        /\ RequestCompaction \/ comp' = comp
    BY <1>5 DEF OpRequest, OpSettle, OpCompact, FlushPending
  <2>. QED
    BY <1>q, <2>1, NoProjectionStep
<1>6. ASSUME NEW o \in Op, OpRefuse(o) \/ OpReplay(o) \/ OpApply(o) \/ OpReply(o) \/ OpError(o)
      PROVE  ProjectionOrdered'
  BY <1>q, <1>6 DEF OpRefuse, OpReplay, OpApply, OpReply, OpError, FlushPending
<1>7. CASE CompactEnd \/ CompactFail
  BY <1>q, <1>7, NoProjectionStep DEF CompactEnd, CompactFail, RetryByAlarm
<1>8. CASE CompactAck
  <2>1. comp'.pc \notin Captured /\ UNCHANGED <<pageLive, proj, r2proj, garbage>>
    BY <1>8 DEF CompactAck, Captured, TypeOK, MemoryTyped, Compaction
  <2>. QED
    BY <1>q, <2>1
<1>9. CASE DeletePage
  BY <1>0, <1>9, ProjectionQuiet DEF DeletePage
<1>10. CASE Purge \/ UNCHANGED vars
  BY <1>q, <1>10 DEF Purge, vars
<1>11. CASE CompactCapture
  <2>1. UNCHANGED <<pageLive, proj, r2proj, garbage>>
    BY <1>11 DEF CompactCapture
  <2>2. \/ FinishCompaction
        \/ comp' = [pc |-> "captured", max |-> lastSeq', ups |-> doc',
                    old |-> 0, page |-> FALSE]
    BY <1>11, Zenon DEF CompactCapture
  <2>3. CASE FinishCompaction
    BY <1>q, <2>1, <2>3, NoProjectionStep
  <2>4. CASE comp' = [pc |-> "captured", max |-> lastSeq', ups |-> doc',
                      old |-> 0, page |-> FALSE]
    BY <1>0, <2>1, <2>4 DEF ProjectionOrdered, TypeOK, StoreTyped, MemoryTyped, Envelope
  <2>. QED
    BY <2>2, <2>3, <2>4
<1>12. CASE CompactPutSnapshot
  <2>1. /\ comp.pc = "captured" /\ comp' = [comp EXCEPT !.pc = "stored"]
        /\ UNCHANGED <<pageLive, proj, r2proj, garbage, lastSeq>>
    BY <1>12 DEF CompactPutSnapshot, Advance
  <2>2. comp'.pc = "stored" /\ comp'.max = comp.max
    BY <2>1 DEF TypeOK, MemoryTyped, Compaction
  <2>. QED
    BY <2>1, <2>2 DEF ProjectionOrdered, Captured
<1>13. CASE CompactPutProjection
  <2>1. /\ comp.pc = "stored" /\ comp' = [comp EXCEPT !.pc = "rendered"]
        /\ r2proj' = r2proj \cup {comp.max}
        /\ UNCHANGED <<pageLive, proj, garbage, lastSeq>>
    BY <1>13 DEF CompactPutProjection, Advance
  <2>2. comp'.pc = "rendered" /\ comp'.max = comp.max
    BY <2>1 DEF TypeOK, MemoryTyped, Compaction
  <2>. QED
    BY <2>1, <2>2 DEF ProjectionOrdered, Captured
<1>14. CASE CompactReadPage
  <2>1. /\ comp.pc = "rendered" /\ comp'.max = comp.max
        /\ comp'.old = proj.seq /\ comp'.page = FALSE
        /\ comp'.pc = IF pageLive THEN "read" ELSE "dropped"
        /\ UNCHANGED <<pageLive, proj, r2proj, garbage, lastSeq>>
    BY <1>14 DEF CompactReadPage, TypeOK, MemoryTyped, Compaction
  <2>. QED
    BY <2>1 DEF ProjectionOrdered, Captured
<1>15. CASE CompactBatch
  <2>1. /\ comp.pc = "read" /\ comp'.pc = "batched" /\ comp'.max = comp.max
        /\ comp'.old = comp.old /\ comp'.page = pageLive
        /\ proj' = IF pageLive THEN ProjectCaptured ELSE proj
        /\ UNCHANGED <<pageLive, r2proj, garbage, lastSeq>>
    BY <1>15 DEF CompactBatch, TypeOK, MemoryTyped, Compaction
  <2>2. comp.max \in Nat /\ proj.seq \in Nat /\ garbage \subseteq Nat /\ lastSeq \in Nat
    BY DEF TypeOK, StoreTyped, MemoryTyped, Compaction, Envelope
  <2>3. ProjectCaptured.seq = comp.max
    BY DEF ProjectCaptured
  <2>. QED
    BY <2>1, <2>2, <2>3 DEF ProjectionOrdered, Captured
<1>16. CASE CompactDrop
  <2>1. /\ comp.pc = "batched" /\ comp'.pc = "dropped" /\ comp'.max = comp.max
        /\ UNCHANGED <<pageLive, proj, r2proj, lastSeq>>
        /\ garbage' = garbage \/ (Superseded /\ garbage' = garbage \cup {comp.old})
    BY <1>16 DEF CompactDrop, Advance, TypeOK, MemoryTyped, Compaction
  <2>2. comp.max \in Nat /\ comp.old \in Nat /\ proj.seq \in Nat
    BY DEF TypeOK, StoreTyped, MemoryTyped, Compaction, Envelope
  <2>3. Superseded => comp.old < proj.seq
    BY <2>1, <2>2 DEF Superseded, ProjectionOrdered
  <2>. QED
    BY <2>1, <2>3 DEF ProjectionOrdered, Captured
<1>17. CASE DropProjection
  <2>1. PICK k \in garbage : /\ garbage' = garbage \ {k}
                             /\ r2proj' = r2proj \ {k} \/ r2proj' = r2proj
    BY <1>17, Zenon DEF DropProjection
  <2>2. UNCHANGED <<pageLive, proj, comp, lastSeq>>
    BY <1>17 DEF DropProjection
  <2>3. /\ comp.max \in Nat /\ proj.seq \in Nat /\ k \in Nat
    BY DEF TypeOK, StoreTyped, MemoryTyped, Compaction, Envelope
  <2>4. k < proj.seq
    BY DEF ProjectionOrdered
  <2>5. comp.pc \in {"rendered", "read"} /\ pageLive => comp.max # k
    BY <2>3, <2>4 DEF ProjectionOrdered, Captured
  <2>. QED
    BY <2>1, <2>2, <2>3, <2>4, <2>5 DEF ProjectionOrdered
<1>. QED
  BY <1>1, <1>2, <1>3, <1>4, <1>5, <1>6, <1>7, <1>8, <1>9, <1>10, <1>11, <1>12,
     <1>13, <1>14, <1>15, <1>16, <1>17 DEF Next

\* The projection row never names an object that is missing, for any number of
\* compactions, failures, crashes and late deletions.
THEOREM ProjectionHasObject == Spec => []ProjectionExists
<1>1. Init => ProjectionOrdered
  BY DEF Init, NoCompaction, ProjectionOrdered, ProjectionExists, Captured
<1>2. TypeOK /\ TypeOK' /\ ProjectionOrdered /\ [Next]_vars => ProjectionOrdered'
  BY ProjectionStep
<1>3. ProjectionOrdered => ProjectionExists
  BY DEF ProjectionOrdered
<1>. QED
  BY <1>1, <1>2, <1>3, TypeCorrect, PTL DEF Spec

-----------------------------------------------------------------------------
(* Operations and their receipts.                                          *)

\* Only a purge removes an update from the snapshot and the log together.
LEMMA StoredGrows ==
  ASSUME RoomInv, [Next]_vars
  PROVE  r2snap \cup Logged \subseteq r2snap' \cup Logged' \/ Purge
<1> DEFINE Grows == r2snap \cup Logged \subseteq r2snap' \cup Logged'
<1> USE DEF d1, r2, meta, events, memory, compacting, history
<1>1. ASSUME r2snap \subseteq r2snap', log \subseteq log' PROVE Grows
  BY <1>1 DEF Logged
<1>2. ASSUME UNCHANGED <<r2snap, log>> PROVE Grows
  BY <1>1, <1>2
<1>3. ASSUME FlushPending, UNCHANGED r2snap PROVE Grows
  <2>1. log \subseteq log'
    BY <1>3, Zenon DEF FlushPending, Flushed
  <2>. QED
    BY <1>1, <1>3, <2>1
<1>4. CASE Wake \/ CheckEpoch \/ Crash \/ OnConnect \/ CompactEnd \/ CompactFail
  BY <1>2, <1>4 DEF Wake, CheckEpoch, Crash, OnConnect, CompactEnd, CompactFail,
                    RetryByAlarm
<1>5. CASE CompactPutProjection \/ CompactReadPage \/ CompactBatch \/ CompactDrop
           \/ DropProjection \/ DeletePage \/ UNCHANGED vars
  BY <1>2, <1>5 DEF CompactPutProjection, CompactReadPage, CompactBatch, CompactDrop,
                    Advance, DropProjection, DeletePage, vars
<1>6. CASE \E e \in Edit : Receive(e)
  BY <1>2, <1>6 DEF Receive
<1>7. CASE Load
  <2>1. log \subseteq log'
    BY <1>7 DEF Load, Flushed
  <2>. QED
    BY <1>1, <1>7, <2>1 DEF Load
<1>8. CASE Barrier \/ OnSave \/ ReadContent
  BY <1>3, <1>8 DEF Barrier, OnSave, ReadContent
<1>9. CASE OnAlarm
  BY <1>2, <1>3, <1>9 DEF OnAlarm
<1>10. ASSUME NEW o \in Op, OpRequest(o) PROVE Grows
  BY <1>2, <1>3, <1>10 DEF OpRequest
<1>11. ASSUME NEW o \in Op, OpSettle(o) \/ OpRefuse(o) \/ OpReplay(o) PROVE Grows
  BY <1>3, <1>11 DEF OpSettle, OpRefuse, OpReplay
<1>12. ASSUME NEW o \in Op, OpApply(o) PROVE Grows
  <2>1. log \subseteq log'
    BY <1>12 DEF OpApply, Flushed
  <2>. QED
    BY <1>1, <1>12, <2>1 DEF OpApply
<1>13. ASSUME NEW o \in Op, OpCompact(o) \/ OpReply(o) \/ OpError(o) PROVE Grows
  BY <1>2, <1>13 DEF OpCompact, OpReply, OpError
<1>14. CASE CompactCapture
  <2>1. log \subseteq log'
    BY <1>14 DEF CompactCapture, Flushed
  <2>. QED
    BY <1>1, <1>14, <2>1 DEF CompactCapture
<1>15. CASE CompactPutSnapshot
  <2>1. r2snap \subseteq comp.ups
    BY <1>15 DEF CompactPutSnapshot, Advance, Captured, RoomInv, RoomCore, CaptureCovers
  <2>. QED
    BY <1>1, <1>15, <2>1 DEF CompactPutSnapshot, Advance
<1>16. CASE CompactAck
  <2>1. /\ UNCHANGED r2snap /\ life = "up"
        /\ comp.pc = "dropped" /\ log' = {e \in log : e.seq > comp.max}
    BY <1>16 DEF CompactAck, AcknowledgeCaptured
  <2>2. \A e \in log : e \in log' \/ e.ups \subseteq r2snap
    BY <2>1 DEF RoomInv, RoomCore, TypeOK, StoreTyped, MemoryTyped, CaptureCovers,
                Captured, Compaction, Event
  <2>. QED
    BY <2>1, <2>2 DEF Logged, Grows
<1>. QED
  BY <1>4, <1>5, <1>6, <1>7, <1>8, <1>9, <1>10, <1>11, <1>12, <1>13, <1>14, <1>15,
     <1>16 DEF Next, Grows

\* A step that applies, proves and answers nothing, and lets no operation wait for
\* an answer that did not wait for it already.
LEMMA ReceiptQuiet ==
  ASSUME RoomInv, RoomInv', ReceiptCovered, UNCHANGED <<applied, opInput, replied>>,
         r2snap \cup Logged \subseteq r2snap' \cup Logged',
         \A o \in Op : life' = "up" /\ op'[o].pc = "replying" =>
                         op'[o] = op[o] /\ life \in {"up", "loading"}
  PROVE  ReceiptCovered'
<1>1. ASSUME NEW o \in Op, life' = "up", op'[o].pc = "replying" PROVE applied[o] # 0
  <2>1. op[o].pc = "replying" /\ life \in {"up", "loading"}
    BY <1>1
  <2>2. life = "up"
    BY <2>1 DEF RoomInv, RoomCore, AnswerCovered
  <2>. QED
    BY <2>1, <2>2 DEF ReceiptCovered
<1>. QED
  BY <1>1 DEF ReceiptCovered

\* Every step keeps the account of receipts.
LEMMA ReceiptStep ==
  ASSUME RoomInv, RoomInv', ReceiptCovered, [Next]_vars
  PROVE  ReceiptCovered'
<1> USE DEF d1, r2, meta, events, memory, compacting, history
<1>0. r2snap \cup Logged \subseteq r2snap' \cup Logged' \/ Purge
  BY StoredGrows
<1>t. /\ op \in [Op -> Request] /\ applied \in [Op -> Nat] /\ opInput \in [Op -> Nat]
      /\ lastSeq \in Nat
  BY DEF RoomInv, TypeOK, StoreTyped, MemoryTyped
<1>1. CASE Purge
  <2>1. /\ applied' = [o \in Op |-> 0] /\ opInput' = [o \in Op |-> 0]
        /\ replied' = {} /\ life' = "purged"
    BY <1>1, Zenon DEF Purge
  <2>. QED
    BY <2>1 DEF ReceiptCovered
<1>2. CASE ~Purge
  <2>0. r2snap \cup Logged \subseteq r2snap' \cup Logged'
    BY <1>0, <1>2
  <2>q. ASSUME UNCHANGED <<applied, opInput, replied, op>>,
               life' # "up" \/ life \in {"up", "loading"}
        PROVE  ReceiptCovered'
    BY <2>0, <2>q, ReceiptQuiet
  <2>r. ASSUME NEW o \in Op, NEW q \in Request, op' = [op EXCEPT ![o] = q],
               q.pc # "replying", life' = life, UNCHANGED <<applied, opInput, replied>>
        PROVE  ReceiptCovered'
    <3>1. \A p \in Op : op'[p].pc = "replying" => op'[p] = op[p]
      BY <1>t, <2>r
    <3>2. life = "up" => life \in {"up", "loading"}
      OBVIOUS
    <3>. QED
      BY <2>0, <2>r, <3>1, <3>2, ReceiptQuiet
  <2>1. CASE Wake \/ CheckEpoch \/ Load \/ OnConnect \/ (\E e \in Edit : Receive(e))
    BY <2>q, <2>1 DEF Wake, CheckEpoch, Load, OnConnect, Receive
  <2>2. CASE Crash
    <3>1. life' = "down" /\ UNCHANGED <<applied, opInput, replied>>
      BY <2>2 DEF Crash
    <3>. QED
      BY <2>0, <3>1, ReceiptQuiet
  <2>3. CASE Barrier \/ OnSave \/ ReadContent
    BY <2>q, <2>3 DEF Barrier, OnSave, ReadContent, FlushPending
  <2>4. CASE OnAlarm
    BY <2>q, <2>4 DEF OnAlarm, FlushPending
  <2>5. CASE \/ CompactCapture \/ CompactPutSnapshot \/ CompactPutProjection
             \/ CompactReadPage \/ CompactBatch \/ CompactDrop \/ CompactAck
             \/ CompactEnd \/ CompactFail \/ DropProjection \/ DeletePage
             \/ UNCHANGED vars
    BY <2>q, <2>5
       DEF CompactCapture, CompactPutSnapshot, CompactPutProjection, CompactReadPage,
           CompactBatch, CompactDrop, CompactAck, CompactEnd, CompactFail, RetryByAlarm,
           Advance, DropProjection, DeletePage, vars
  <2>6. ASSUME NEW o \in Op, OpRequest(o) PROVE ReceiptCovered'
    <3>0. {Unconditional} \cup {v.seq : v \in views} \subseteq Int
      BY DEF RoomInv, TypeOK, MemoryTyped, Envelope, Unconditional
    <3>1. PICK x \in Int :
            op' = [op EXCEPT ![o] = [pc |-> "admitted", expect |-> x, seq |-> 0]]
      BY <2>6, <3>0, Zenon DEF OpRequest
    <3>2. UNCHANGED <<life, applied, opInput, replied>>
      BY <2>6 DEF OpRequest
    <3>. QED
      BY <2>r, <3>1, <3>2, RequestTyped
  <2>7. ASSUME NEW o \in Op, OpSettle(o) \/ OpCompact(o) PROVE ReceiptCovered'
    BY <2>q, <2>7 DEF OpSettle, OpCompact, FlushPending
  <2>8. ASSUME NEW o \in Op, OpRefuse(o) \/ OpError(o) PROVE ReceiptCovered'
    <3>1. /\ op' = [op EXCEPT ![o] = NoRequest]
          /\ UNCHANGED <<life, applied, opInput, replied>>
      BY <2>8 DEF OpRefuse, OpError, FlushPending
    <3>. QED
      BY <2>r, <3>1, RequestTyped DEF NoRequest
  <2>9. ASSUME NEW o \in Op, OpReplay(o) PROVE ReceiptCovered'
    <3>1. /\ opInput[o] # 0 /\ UNCHANGED <<life, applied, opInput, replied>>
          /\ \A p \in Op \ {o} : op'[p] = op[p]
      BY <1>t, <2>9 DEF OpReplay, HasReceipt, Unverifiable
    <3>. QED
      BY <2>0, <3>1 DEF ReceiptCovered
  <2>10. ASSUME NEW o \in Op, OpReply(o) PROVE ReceiptCovered'
    <3>1. /\ life = "up" /\ op[o].pc = "replying" /\ replied' = replied \cup {o}
          /\ UNCHANGED <<life, applied, opInput>>
          /\ op' = [op EXCEPT ![o] = NoRequest]
      BY <2>10 DEF OpReply
    <3>2. \A p \in Op : op'[p].pc = "replying" => op'[p] = op[p]
      BY <1>t, <3>1 DEF NoRequest
    <3>. QED
      BY <2>0, <3>1, <3>2 DEF ReceiptCovered
  <2>11. ASSUME NEW o \in Op, OpApply(o) PROVE ReceiptCovered'
    <3>1. /\ life = "up" /\ ~retired /\ o \notin doc /\ life' = "up" /\ replied' = replied
          /\ applied' = [applied EXCEPT ![o] = @ + 1]
          /\ doc' = doc \cup (Normalized(doc \cup {o}) \ doc)
          /\ \A p \in Op \ {o} : op'[p] = op[p] /\ opInput'[p] = opInput[p]
          /\ UNCHANGED <<r2snap, retired>> /\ pending' = {}
      BY <1>t, <2>11 DEF OpApply, Writable, HasReceipt, RecordInput
    <3>2. applied[o] = 0
      BY <1>t, <3>1 DEF ReceiptCovered, RoomInv, RoomCore, MemoryCovered
    <3>3. o \in doc'
      BY <3>1 DEF Normalized
    <3>4. o \in r2snap' \cup Logged'
      BY <3>1, <3>3 DEF RoomInv, RoomCore, MemoryCovered
    <3>5. applied'[o] = 1 /\ \A p \in Op \ {o} : applied'[p] = applied[p]
      BY <1>t, <3>1, <3>2
    <3>. QED
      BY <2>0, <3>1, <3>4, <3>5 DEF ReceiptCovered
  <2>. QED
    BY <1>2, <2>1, <2>2, <2>3, <2>4, <2>5, <2>6, <2>7, <2>8, <2>9, <2>10, <2>11 DEF Next
<1>. QED
  BY <1>1, <1>2

\* The account of receipts holds in every reachable state.
LEMMA ReceiptInvariant == Spec => []ReceiptCovered
<1>1. Init => ReceiptCovered
  BY DEF Init, ReceiptCovered
<1>2. RoomInv /\ RoomInv' /\ ReceiptCovered /\ [Next]_vars => ReceiptCovered'
  BY ReceiptStep
<1>. QED
  BY <1>1, <1>2, RoomInvariant, PTL DEF Spec

\* However often an operation is sent again, across crashes, failed compactions
\* and lost answers, the room applies it once.
THEOREM OperationsApplyOnce == Spec => []AppliedOnce
<1>1. ReceiptCovered => AppliedOnce
  BY DEF ReceiptCovered, AppliedOnce
<1>. QED
  BY <1>1, ReceiptInvariant, PTL

\* An operation is answered as committed only after this epoch applied it, even if
\* the restored content carries its receipt.
THEOREM AnswersAreApplied == Spec => []RestoredNotReplayed
<1>1. TypeOK /\ ReceiptCovered => RestoredNotReplayed
  BY DEF ReceiptCovered, RestoredNotReplayed, TypeOK, MemoryTyped
<1>. QED
  BY <1>1, TypeCorrect, ReceiptInvariant, PTL

-----------------------------------------------------------------------------
(* Conditional mutations.                                                  *)

\* A handler that flushes the buffer and appends makes the room dirty or logs
\* nothing.
LEMMA FlushDirties ==
  ASSUME dirty \in BOOLEAN, FlushPending
  PROVE  log \subseteq log' /\ (dirty' \/ (~dirty /\ log' = log))
  BY DEF FlushPending, Flushed

\* A step that only logs and moves a compaction: what it logs makes the room dirty,
\* and a compaction that ends without its acknowledgement does so too.
LEMMA RevisionQuiet ==
  ASSUME RevisionInv, life' = life, log \subseteq log',
         UNCHANGED <<views, hasMeta, retired, snapSeq, r2snap>>,
         dirty' \/ (~dirty /\ log' = log),
         \/ comp.pc \in Captured /\ comp'.pc \in Captured /\ comp'.max = comp.max
         \/ /\ comp'.pc \notin Captured
            /\ comp.pc \notin Captured \/ life # "up" \/ dirty'
  PROVE  RevisionInv'
<1>1. CaptureIsNew'
  BY DEF RevisionInv, CaptureIsNew
<1>2. CleanIsSettled'
  BY DEF RevisionInv, CleanIsSettled
<1>3. ViewsCurrent'
  BY DEF RevisionInv, ViewsCurrent
<1>. QED
  BY <1>1, <1>2, <1>3 DEF RevisionInv

\* A start finds a log that an earlier instance left and is dirty because of it.
LEMMA RevisionLoad ==
  ASSUME RoomInv, RoomInv', RevisionInv, Load
  PROVE  RevisionInv'
<1>1. /\ life = "loading" /\ life' = "up"
      /\ UNCHANGED <<views, hasMeta, retired, snapSeq, r2snap, comp>>
      /\ log \subseteq log'
      /\ ~dirty' => ~PendingLog(log', dirty)
  <2>1. log \subseteq log'
    BY Zenon DEF Load, Flushed
  <2>2. ~dirty' => ~PendingLog(log', dirty)
    BY Zenon DEF Load
  <2>. QED
    BY <2>1, <2>2 DEF Load, history, r2, compacting
<1>2. comp'.pc \notin Captured
  BY <1>1 DEF RoomInv, RoomCore, CaptureCovers
<1>3. ~dirty' => log' = {}
  <2>1. \A e \in log' : snapSeq < e.seq /\ snapSeq \in Nat /\ e.seq \in Nat
    BY <1>1 DEF RoomInv, RoomCore, LogOrdered, TypeOK, StoreTyped, Event
  <2>. QED
    BY <1>1, <2>1 DEF PendingLog
<1>4. ViewsCurrent'
  BY <1>1 DEF RevisionInv, ViewsCurrent
<1>. QED
  BY <1>2, <1>3, <1>4 DEF RevisionInv, CaptureIsNew, CleanIsSettled

\* An answer of a clean room shows the snapshot: nothing is logged or buffered.
LEMMA RevisionRead ==
  ASSUME RoomInv, RevisionInv, ReadContent
  PROVE  RevisionInv'
<1>1. /\ life = "up" /\ life' = life /\ FlushPending
      /\ UNCHANGED <<hasMeta, retired, snapSeq, r2snap, doc>>
      /\ \/ views' = views /\ (RequestCompaction \/ comp' = comp)
         \/ /\ ~dirty' /\ comp.pc = "idle" /\ comp' = comp
            /\ views' = views \cup {[seq |-> snapSeq, ups |-> doc]}
  BY DEF ReadContent, r2
<1>2. dirty \in BOOLEAN
  BY DEF RoomInv, TypeOK, FlagsTyped
<1>3. log \subseteq log' /\ (dirty' \/ (~dirty /\ log' = log))
  BY <1>1, <1>2, FlushDirties
<1>4. CASE views' = views /\ (RequestCompaction \/ comp' = comp)
  BY <1>1, <1>3, <1>4, RevisionQuiet, NoProjectionStep
     DEF RequestCompaction, Preparing, NoCompaction, Captured
<1>5. CASE /\ ~dirty' /\ comp.pc = "idle" /\ comp' = comp
           /\ views' = views \cup {[seq |-> snapSeq, ups |-> doc]}
  <2>1. ~dirty /\ pending = {} /\ comp.pc \notin Captured
    BY <1>1, <1>5 DEF FlushPending, Captured
  <2>2. log = {} /\ log' = log
    BY <1>1, <1>3, <1>5, <2>1 DEF RevisionInv, CleanIsSettled
  <2>3. ~retired => doc = r2snap
    BY <1>1, <2>1, <2>2 DEF RoomInv, RoomCore, MemoryCovered, Logged
  <2>4. snapSeq \in Nat /\ hasMeta
    BY <1>1 DEF RoomInv, TypeOK, StoreTyped, RevisionInv, ViewsCurrent
  <2>5. ViewsCurrent'
    BY <1>1, <1>5, <2>2, <2>3, <2>4 DEF RevisionInv, ViewsCurrent
  <2>. QED
    BY <1>5, <2>1, <2>2, <2>5 DEF RevisionInv, CaptureIsNew, CleanIsSettled
<1>. QED
  BY <1>1, <1>4, <1>5

\* A capture has the whole log, and it has one unless there is nothing to do.
LEMMA RevisionCapture ==
  ASSUME RoomInv, RoomInv', RevisionInv, CompactCapture
  PROVE  RevisionInv'
<1>0. /\ comp.pc = "prep" /\ life' = life /\ UNCHANGED <<views, hasMeta, retired, snapSeq, r2snap>>
      /\ log \subseteq log'
  BY DEF CompactCapture, Flushed, history, r2, events
<1>1. CASE life = "purged"
  <2>1. FinishCompaction /\ UNCHANGED <<log, dirty>>
    BY <1>1 DEF CompactCapture, events
  <2>2. comp.pc \notin Captured /\ comp'.pc \notin Captured
    BY <1>0, <2>1, NoProjectionStep DEF Captured
  <2>3. dirty \in BOOLEAN
    BY DEF RoomInv, TypeOK, FlagsTyped
  <2>. QED
    BY <1>0, <2>1, <2>2, <2>3, RevisionQuiet
<1>2. CASE life = "up"
  <2>1. ViewsCurrent'
    BY <1>0 DEF RevisionInv, ViewsCurrent
  <2>2. CASE log' = {}
    <3>1. FinishCompaction
      BY <1>2, <2>2 DEF CompactCapture
    <3>. QED
      BY <2>1, <2>2, <3>1, NoProjectionStep DEF RevisionInv, CaptureIsNew, CleanIsSettled
  <2>3. CASE log' # {}
    <3>0. comp' = [pc |-> "captured", max |-> lastSeq', ups |-> doc',
                   old |-> 0, page |-> FALSE]
      BY <1>2, <2>3, Zenon DEF CompactCapture
    <3>1. comp'.pc = "captured" /\ comp'.max = lastSeq'
      BY <3>0
    <3>2. \A e \in log' : e.seq <= comp'.max
      BY <3>1 DEF RoomInv, RoomCore, LogOrdered
    <3>3. comp'.pc \in Captured
      BY <3>1 DEF Captured
    <3>4. CaptureIsNew' /\ CleanIsSettled'
      BY <2>3, <3>2, <3>3 DEF CaptureIsNew, CleanIsSettled
    <3>. QED
      BY <2>1, <3>4 DEF RevisionInv
  <2>. QED
    BY <2>2, <2>3
<1>. QED
  BY <1>1, <1>2 DEF CompactCapture

\* The acknowledgement moves snapshot_seq past every answer, and leaves a log only
\* to a room that is dirty again.
LEMMA RevisionAck ==
  ASSUME RoomInv, RevisionInv, CompactAck
  PROVE  RevisionInv'
<1>1. /\ life = "up" /\ comp.pc = "dropped" /\ life' = life /\ comp'.pc = "acked"
      /\ log' = {e \in log : e.seq > comp.max} /\ snapSeq' = comp.max
      /\ UNCHANGED <<views, hasMeta, retired, r2snap, dirty>>
  BY DEF CompactAck, AcknowledgeCaptured, r2, memory, history, RoomInv, TypeOK,
         MemoryTyped, Compaction
<1>2. /\ comp.max \in Nat /\ snapSeq \in Nat /\ \A e \in log : e.seq \in Nat
      /\ \A v \in views : v.seq \in Nat
  BY DEF RoomInv, TypeOK, StoreTyped, MemoryTyped, Compaction, Event, Envelope
<1>3. snapSeq < comp.max
  <2>1. PICK e \in log : e.seq <= comp.max
    BY <1>1 DEF RevisionInv, CaptureIsNew, Captured
  <2>2. snapSeq < e.seq
    BY DEF RoomInv, RoomCore, LogOrdered
  <2>. QED
    BY <1>2, <2>1, <2>2
<1>4. ~dirty' => log' = {}
  BY <1>1, <1>2 DEF RevisionInv, CleanIsSettled
<1>5. ViewsCurrent'
  BY <1>1, <1>2, <1>3 DEF RevisionInv, ViewsCurrent
<1>6. comp'.pc \notin Captured
  BY <1>1 DEF Captured
<1>. QED
  BY <1>4, <1>5, <1>6 DEF RevisionInv, CaptureIsNew, CleanIsSettled

\* Every step keeps what conditional mutations rely on.
LEMMA RevisionStep ==
  ASSUME RoomInv, RoomInv', RevisionInv, [Next]_vars
  PROVE  RevisionInv'
<1> USE DEF d1, r2, meta, events, memory, compacting, history
<1>0. dirty \in BOOLEAN /\ dirty' \in BOOLEAN /\ comp \in Compaction
  BY DEF RoomInv, TypeOK, FlagsTyped, MemoryTyped
<1>f. FlushPending => log \subseteq log' /\ (dirty' \/ (~dirty /\ log' = log))
  BY <1>0, FlushDirties
\* A handler that flushes, or logs nothing, and starts a compaction or none.
<1>q. ASSUME life' = life, UNCHANGED <<views, hasMeta, retired, snapSeq, r2snap>>,
             FlushPending \/ UNCHANGED <<log, dirty>>,
             comp' = comp \/ RequestCompaction
      PROVE  RevisionInv'
  <2>1. log \subseteq log' /\ (dirty' \/ (~dirty /\ log' = log))
    BY <1>0, <1>f, <1>q
  <2>2. \/ comp.pc \in Captured /\ comp'.pc \in Captured /\ comp'.max = comp.max
        \/ comp.pc \notin Captured /\ comp'.pc \notin Captured
    BY <1>q, NoProjectionStep DEF RequestCompaction, Captured
  <2>. QED
    BY <1>q, <2>1, <2>2, RevisionQuiet
<1>1. CASE Wake
  <2>1. /\ life = "down" /\ life' \in {"checking", "loading"} /\ hasMeta' = TRUE
        /\ hasMeta => life' = "loading" /\ retired' = retired
        /\ UNCHANGED <<views, snapSeq, r2snap, log>>
    BY <1>1, Zenon DEF Wake, RoomInv, TypeOK, FlagsTyped
  <2>2. ViewsCurrent'
    BY <2>1 DEF RevisionInv, ViewsCurrent
  <2>. QED
    BY <2>1, <2>2 DEF RevisionInv, CaptureIsNew, CleanIsSettled
<1>2. CASE CheckEpoch
  <2>1. /\ life = "checking" /\ life' = "loading"
        /\ UNCHANGED <<hasMeta, views, snapSeq, r2snap, log>>
    BY <1>2 DEF CheckEpoch
  <2>2. ViewsCurrent'
    BY <2>1 DEF RevisionInv, ViewsCurrent
  <2>. QED
    BY <2>1, <2>2 DEF RevisionInv, CaptureIsNew, CleanIsSettled
<1>3. CASE Load
  BY <1>3, RevisionLoad
<1>4. CASE Crash
  <2>1. life' = "down" /\ UNCHANGED <<hasMeta, retired, views, snapSeq, r2snap, log>>
    BY <1>4 DEF Crash
  <2>2. ViewsCurrent'
    BY <2>1 DEF RevisionInv, ViewsCurrent
  <2>. QED
    BY <2>1, <2>2 DEF RevisionInv, CaptureIsNew, CleanIsSettled
<1>5. CASE OnConnect \/ (\E e \in Edit : Receive(e))
  BY <1>q, <1>5 DEF OnConnect, Receive
<1>6. CASE Barrier \/ OnSave
  BY <1>q, <1>6 DEF Barrier, OnSave
<1>7. CASE OnAlarm
  BY <1>q, <1>7 DEF OnAlarm
<1>8. CASE ReadContent
  BY <1>8, RevisionRead
<1>9. ASSUME NEW o \in Op, OpRequest(o) \/ OpSettle(o) PROVE RevisionInv'
  BY <1>q, <1>9 DEF OpRequest, OpSettle
<1>10. ASSUME NEW o \in Op, OpRefuse(o) \/ OpReplay(o) PROVE RevisionInv'
  BY <1>q, <1>10 DEF OpRefuse, OpReplay
<1>11. ASSUME NEW o \in Op, OpApply(o) PROVE RevisionInv'
  <2>1. log \subseteq log'
    BY <1>11 DEF OpApply, Flushed
  <2>2. dirty' /\ UNCHANGED <<life, views, hasMeta, retired, snapSeq, r2snap, comp>>
    BY <1>11 DEF OpApply
  <2>. QED
    BY <2>1, <2>2, RevisionQuiet
<1>12. ASSUME NEW o \in Op, OpCompact(o) \/ OpReply(o) \/ OpError(o) PROVE RevisionInv'
  BY <1>q, <1>12 DEF OpCompact, OpReply, OpError
<1>13. CASE CompactCapture
  BY <1>13, RevisionCapture
<1>14. CASE CompactPutSnapshot
  <2>1. /\ comp.pc = "captured" /\ comp'.pc = "stored" /\ comp'.max = comp.max
        /\ life \in {"up", "purged"}
        /\ UNCHANGED <<life, log, dirty, views, hasMeta, retired, snapSeq>>
    BY <1>0, <1>14 DEF CompactPutSnapshot, Advance, Compaction
  <2>2. comp.pc \in Captured /\ comp'.pc \in Captured
    BY <2>1 DEF Captured
  <2>3. log # {} \/ views = {}
    BY <2>1, <2>2 DEF RevisionInv, CaptureIsNew, ViewsCurrent
  <2>4. ViewsCurrent'
    BY <2>1, <2>3 DEF RevisionInv, ViewsCurrent
  <2>. QED
    BY <2>1, <2>2, <2>4 DEF RevisionInv, CaptureIsNew, CleanIsSettled
<1>15. CASE CompactPutProjection \/ CompactReadPage \/ CompactBatch \/ CompactDrop
  <2>1. /\ comp.pc \in Captured /\ comp'.pc \in Captured /\ comp'.max = comp.max
        /\ UNCHANGED <<life, log, dirty, views, hasMeta, retired, snapSeq, r2snap>>
    BY <1>0, <1>15 DEF CompactPutProjection, CompactReadPage, CompactBatch, CompactDrop,
                       Advance, Compaction, Captured
  <2>. QED
    BY <1>0, <2>1, RevisionQuiet
<1>16. CASE CompactAck
  BY <1>16, RevisionAck
<1>17. CASE CompactEnd
  <2>1. /\ comp.pc = "acked" /\ FinishCompaction
        /\ UNCHANGED <<life, log, dirty, views, hasMeta, retired, snapSeq, r2snap>>
    BY <1>17 DEF CompactEnd
  <2>2. comp.pc \notin Captured /\ comp'.pc \notin Captured
    BY <2>1, NoProjectionStep DEF Captured
  <2>. QED
    BY <1>0, <2>1, <2>2, RevisionQuiet
<1>18. CASE CompactFail
  <2>1. /\ life = "purged" \/ dirty'
        /\ UNCHANGED <<life, log, views, hasMeta, retired, snapSeq, r2snap>>
        /\ life = "purged" => dirty' = dirty
    BY <1>18 DEF CompactFail, RetryByAlarm
  <2>2. comp'.pc \notin Captured
    BY <1>18, NoProjectionStep DEF CompactFail
  <2>. QED
    BY <1>0, <2>1, <2>2, RevisionQuiet
<1>19. CASE DropProjection \/ DeletePage \/ UNCHANGED vars
  BY <1>q, <1>19 DEF DropProjection, DeletePage, vars
<1>20. CASE Purge
  <2>1. life' = "purged" /\ views' = {}
    BY <1>20 DEF Purge
  <2>. QED
    BY <2>1 DEF RevisionInv, CaptureIsNew, CleanIsSettled, ViewsCurrent
<1>. QED
  BY <1>1, <1>2, <1>3, <1>4, <1>5, <1>6, <1>7, <1>8, <1>9, <1>10, <1>11, <1>12, <1>13,
     <1>14, <1>15, <1>16, <1>17, <1>18, <1>19, <1>20 DEF Next

\* Applications are counted by OpApply and forgotten by a purge.
LEMMA OnlyApplied ==
  ASSUME TypeOK, [Next]_vars, NEW o \in Op, applied'[o] > applied[o]
  PROVE  OpApply(o)
<1> USE DEF d1, r2, meta, events, memory, compacting, history
<1>0. applied \in [Op -> Nat] /\ applied' # applied
  BY DEF TypeOK, MemoryTyped
<1>1. ASSUME Purge PROVE FALSE
  <2>1. applied'[o] = 0 /\ applied[o] \in Nat
    BY <1>0, <1>1, Zenon DEF Purge
  <2>. QED
    BY <2>1
<1>2. ASSUME NEW p \in Op, OpApply(p) PROVE p = o
  <2>1. applied' = [applied EXCEPT ![p] = @ + 1]
    BY <1>2, Zenon DEF OpApply
  <2>. QED
    BY <1>0, <2>1
<1>3. ~(Wake \/ CheckEpoch \/ Load \/ Crash \/ OnConnect \/ Barrier \/ OnSave \/ OnAlarm)
  BY <1>0, Zenon DEF Wake, CheckEpoch, Load, Crash, OnConnect, Barrier, OnSave, OnAlarm
<1>4. ~(ReadContent \/ \E e \in Edit : Receive(e))
  BY <1>0, Zenon DEF ReadContent, Receive
<1>5. \A p \in Op : ~(OpRequest(p) \/ OpSettle(p) \/ OpRefuse(p) \/ OpReplay(p))
  BY <1>0, Zenon DEF OpRequest, OpSettle, OpRefuse, OpReplay
<1>6. \A p \in Op : ~(OpCompact(p) \/ OpReply(p) \/ OpError(p))
  BY <1>0, Zenon DEF OpCompact, OpReply, OpError
<1>7. ~(CompactCapture \/ CompactPutSnapshot \/ CompactPutProjection \/ CompactReadPage)
  BY <1>0, Zenon DEF CompactCapture, CompactPutSnapshot, CompactPutProjection,
                     CompactReadPage, Advance
<1>8. ~(CompactBatch \/ CompactDrop \/ CompactAck \/ CompactEnd \/ CompactFail)
  BY <1>0, Zenon DEF CompactBatch, CompactDrop, CompactAck, CompactEnd, CompactFail,
                     Advance
<1>9. ~(DropProjection \/ DeletePage \/ UNCHANGED vars)
  BY <1>0, Zenon DEF DropProjection, DeletePage, vars
<1>. QED
  BY <1>1, <1>2, <1>3, <1>4, <1>5, <1>6, <1>7, <1>8, <1>9, Zenon DEF Next

\* A mutation that is applied on a condition finds the content it was answered.
LEMMA ConditionHolds ==
  ASSUME RoomInv, RevisionInv, NEW o \in Op, OpApply(o), NEW v \in views,
         v.seq = op[o].expect
  PROVE  v.ups = doc
<1>1. /\ life = "up" /\ ~retired /\ ~RevisionChanged(o)
  BY Zenon DEF OpApply, Writable
<1>2. v.seq \in Nat /\ Unconditional \notin Nat
  BY DEF RoomInv, TypeOK, MemoryTyped, Envelope, Unconditional
<1>3. ~dirty /\ pending = {} /\ comp.pc \notin Captured /\ snapSeq = v.seq
  BY <1>1, <1>2 DEF RevisionChanged, Captured
<1>4. log = {}
  BY <1>1, <1>3 DEF RevisionInv, CleanIsSettled
<1>5. v.ups = r2snap
  BY <1>1, <1>3, <1>4 DEF RevisionInv, ViewsCurrent
<1>6. doc = r2snap
  BY <1>1, <1>3, <1>4 DEF RoomInv, RoomCore, MemoryCovered, Logged
<1>. QED
  BY <1>5, <1>6

\* What conditional mutations rely on holds in every reachable state.
LEMMA RevisionInvariant == Spec => []RevisionInv
<1>1. Init => RevisionInv
  BY DEF Init, RevisionInv, CaptureIsNew, CleanIsSettled, ViewsCurrent
<1>2. RoomInv /\ RoomInv' /\ RevisionInv /\ [Next]_vars => RevisionInv'
  BY RevisionStep
<1>. QED
  BY <1>1, <1>2, RoomInvariant, PTL DEF Spec

\* A mutation with an expectedSequence is applied to the content that was answered
\* with it and to no other, across crashes and failed compactions in between.
THEOREM ConditionalWritesAreCurrent == Spec => ConditionalWriteIsCurrent
<1>1. RoomInv /\ RevisionInv /\ [Next]_vars =>
        [\A o \in Op : applied'[o] > applied[o] =>
           \A v \in views : v.seq = op[o].expect => v.ups = doc]_vars
  BY OnlyApplied, ConditionHolds DEF RoomInv
<1>. QED
  BY <1>1, RoomInvariant, RevisionInvariant, PTL DEF Spec, ConditionalWriteIsCurrent
=============================================================================
