---------------------------- MODULE DocumentRoom ----------------------------
(***************************************************************************)
(* One collaborative page epoch: the hibernating Durable Object of         *)
(* src/src/worker/document.ts, its SQLite update log, its snapshot and     *)
(* projection objects in R2 and its projection row in D1.                  *)
(*                                                                         *)
(* A Yjs document is the set of the updates merged into it: merging is     *)
(* union, and applying an update twice changes nothing.  Every step of     *)
(* this module is the code between two awaits.  Storage writes of the      *)
(* object are synchronous and its output gate holds every message and      *)
(* subrequest until they are durable, so they survive a crash at once; an  *)
(* R2 put or a D1 batch takes effect before or when its await fails, never *)
(* later.  Restore, archive, versions and the connection grants have       *)
(* modules of their own.                                                   *)
(***************************************************************************)
EXTENDS Integers, FiniteSets

CONSTANTS
  Edit,          \* updates that WebSocket clients send
  Op,            \* api-mutate operations: the update an operation becomes
  Restored,      \* content of the version this epoch was restored from
  Legacy,        \* updates that leave the tree to be normalised
  Fix,           \* the update that normalisation adds
  ReadOnlySize,  \* READ_ONLY_BYTES, counted in updates
  MaxApply       \* bound: how often a faulty room may apply one operation

Update == Edit \cup Op \cup Restored \cup {Fix}

ASSUME ConstantsAssumption ==
  /\ ReadOnlySize \in Nat
  /\ MaxApply \in Nat \ {0}
  /\ Legacy \subseteq Update
  /\ Edit \cap Op = {}
  /\ Fix \notin Edit \cup Op

Unconditional == -1   \* a mutation that carries no expectedSequence

VARIABLES
  pageLive,   \* D1: pages has a row with this content_epoch
  proj,       \* D1: document_projections, sequence 0 for none in this epoch
  r2snap,     \* R2: updates merged into epochs/<epoch>/current.bin
  r2proj,     \* R2: sequences whose projections/<sequence>.json exists
  hasMeta,    \* SQLite: the document_meta row exists
  retired,    \* document_meta.retired
  readOnly,   \* document_meta.read_only
  dirty,      \* document_meta.dirty
  snapSeq,    \* document_meta.snapshot_seq
  lastSeq,    \* AUTOINCREMENT high-water mark of update_events
  log,        \* update_events joined with update_chunks
  opInput,    \* api_operation_inputs: sequence of an operation, 0 for none
  alarm,      \* the stored alarm is set
  life,       \* memory: "down", "checking", "loading", "up" or "purged"
  hadMeta,    \* memory: hadMetadata of the running onStart
  doc,        \* memory: the Yjs document
  pending,    \* memory: pendingUpdates
  saveTimer,  \* memory: the debounced onSave is due
  comp,       \* memory: the compaction in flight
  want,       \* memory: a compact() call waits behind it
  garbage,    \* memory: superseded projections being deleted in the background
  op,         \* the requests to /api-mutate
  acked,      \* history: updates a document-update-ack has confirmed
  replied,    \* history: operations answered as committed
  applied,    \* history: how often an operation was applied
  views,      \* history: envelopes answered as current content
  purged      \* history: /purge has emptied the object's storage

d1 == <<pageLive, proj>>
r2 == <<r2snap, r2proj>>
meta == <<hasMeta, retired, readOnly, dirty, snapSeq>>
events == <<log, lastSeq, opInput>>
memory == <<life, hadMeta, doc, pending, saveTimer>>
compacting == <<comp, want, garbage>>
history == <<acked, replied, applied, views, purged>>
vars == <<d1, r2, meta, events, alarm, memory, compacting, op, history>>

-----------------------------------------------------------------------------

Event == [seq: Nat, ups: SUBSET Update]
Envelope == [seq: Nat, ups: SUBSET Update]
NoCompaction == [pc |-> "idle", max |-> 0, ups |-> {}, old |-> 0, page |-> FALSE]
Preparing == [NoCompaction EXCEPT !.pc = "prep"]
NoRequest == [pc |-> "idle", expect |-> Unconditional, seq |-> 0]

Compaction ==
  [pc: {"idle", "prep", "captured", "stored", "rendered", "read", "batched",
        "dropped", "acked"},
   max: Nat, ups: SUBSET Update, old: Nat, page: BOOLEAN]
Request == [pc: {"idle", "admitted", "replying"}, expect: Int, seq: Nat]

FlagsTyped ==
  /\ pageLive \in BOOLEAN /\ hasMeta \in BOOLEAN /\ retired \in BOOLEAN
  /\ readOnly \in BOOLEAN /\ dirty \in BOOLEAN /\ alarm \in BOOLEAN
  /\ hadMeta \in BOOLEAN /\ saveTimer \in BOOLEAN /\ want \in BOOLEAN
  /\ purged \in BOOLEAN

StoreTyped ==
  /\ proj \in Envelope /\ r2snap \in SUBSET Update /\ r2proj \in SUBSET Nat
  /\ snapSeq \in Nat /\ lastSeq \in Nat /\ log \in SUBSET Event
  /\ opInput \in [Op -> Nat]

MemoryTyped ==
  /\ life \in {"down", "checking", "loading", "up", "purged"}
  /\ doc \in SUBSET Update /\ pending \in SUBSET Update
  /\ comp \in Compaction /\ garbage \in SUBSET Nat /\ op \in [Op -> Request]
  /\ acked \in SUBSET Update /\ replied \in SUBSET Op
  /\ applied \in [Op -> Nat] /\ views \in SUBSET Envelope

TypeOK == FlagsTyped /\ StoreTyped /\ MemoryTyped

\* The first epoch of a page starts empty, a restored one with the content of
\* the version that the restore copied to its current.bin.
Init ==
  /\ pageLive = TRUE /\ proj = [seq |-> 0, ups |-> {}]
  /\ r2snap \in {{}, Restored} /\ r2proj = {}
  /\ hasMeta = FALSE /\ retired = FALSE /\ readOnly = FALSE /\ dirty = FALSE
  /\ snapSeq = 0 /\ lastSeq = 0 /\ log = {} /\ opInput = [o \in Op |-> 0]
  /\ alarm = FALSE /\ life = "down" /\ hadMeta = FALSE
  /\ doc = {} /\ pending = {} /\ saveTimer = FALSE
  /\ comp = NoCompaction /\ want = FALSE /\ garbage = {}
  /\ op = [o \in Op |-> NoRequest]
  /\ acked = {} /\ replied = {} /\ applied = [o \in Op |-> 0] /\ views = {}
  /\ purged = FALSE

-----------------------------------------------------------------------------
(* Helpers of several handlers.                                            *)

\* What onLoad rebuilds: the snapshot and the log above snapshot_seq.
Recoverable ==
  r2snap \cup {u \in Update : \E e \in log : e.seq > snapSeq /\ u \in e.ups}

\* migrateLegacyColumns, normalizeYDocumentTables, normalizeYCodeBlocks and the
\* date-token repair: one more update when the tree needs it.
Normalized(d) == IF d \cap Legacy = {} THEN d ELSE d \cup {Fix}

\* The sequence of the next row of update_events, of a log l that reached n.
NextSeq(l, n) == n + 1

\* flushPendingUpdates on a log l whose high-water mark is n: merge the buffered
\* updates into one event.
Flushed(l, n, ups) ==
  IF ups = {} THEN l ELSE l \cup {[seq |-> NextSeq(l, n), ups |-> ups]}
FlushedSeq(l, n, ups) == IF ups = {} THEN n ELSE NextSeq(l, n)
FlushPending ==
  /\ log' = Flushed(log, lastSeq, pending)
  /\ lastSeq' = FlushedSeq(log, lastSeq, pending)
  /\ pending' = {}
  /\ dirty' = (dirty \/ pending # {})

\* compact(): start at once, or run again after the compaction in flight.
RequestCompaction ==
  IF comp.pc = "idle" THEN comp' = Preparing /\ want' = want
                      ELSE comp' = comp /\ want' = TRUE

\* The compaction ends and the calls that waited for it run theirs.
FinishCompaction ==
  /\ comp' = IF want THEN Preparing ELSE NoCompaction
  /\ want' = FALSE

Writable == life = "up" /\ ~retired /\ ~readOnly

-----------------------------------------------------------------------------
(* Start: onStart and onLoad, under blockConcurrencyWhile.                 *)

\* A request, a connection or the alarm reaches an object that is not in memory.
Wake ==
  /\ life = "down"
  /\ hadMeta' = hasMeta
  /\ hasMeta' = TRUE
  /\ retired' = (hasMeta /\ retired)
  /\ life' = IF hasMeta THEN "loading" ELSE "checking"
  /\ UNCHANGED <<d1, r2, readOnly, dirty, snapSeq, events, alarm, doc,
                 pending, saveTimer, compacting, op, history>>

\* New state asks D1 whether the page still has this epoch.
CheckEpoch ==
  /\ life = "checking"
  /\ retired' = ~pageLive
  /\ life' = "loading"
  /\ UNCHANGED <<d1, r2, hasMeta, readOnly, dirty, snapSeq, events, alarm,
                 hadMeta, doc, pending, saveTimer, compacting, op, history>>

\* variant: trust the dirty flag, which a compaction clears before it is done
PendingLogByFlag(l, flag) == flag

\* The log of a lost instance has updates above snapshot_seq.
PendingLog(l, flag) == \E e \in l : e.seq > snapSeq

\* onLoad, the seed update of a restored epoch, normalisation, and the alarm for
\* a log that a lost instance left behind.
Load ==
  /\ life = "loading"
  /\ LET loaded == Recoverable
         seed == IF ~hadMeta /\ ~retired /\ r2snap # {} THEN loaded ELSE {}
         fixes == IF retired THEN {} ELSE Normalized(loaded) \ loaded
         seeded == Flushed(log, lastSeq, seed)
         n == FlushedSeq(log, lastSeq, seed)
     IN /\ doc' = loaded \cup fixes
        /\ log' = Flushed(seeded, n, fixes)
        /\ lastSeq' = FlushedSeq(seeded, n, fixes)
        /\ dirty' = (dirty \/ seed # {} \/ fixes # {} \/ PendingLog(log', dirty))
        /\ alarm' = (alarm \/ PendingLog(log', dirty'))
        /\ saveTimer' = (fixes # {})
  /\ life' = "up"
  /\ pending' = {}
  /\ UNCHANGED <<d1, r2, hasMeta, retired, readOnly, snapSeq, opInput, hadMeta,
                 compacting, op, history>>

\* Eviction, a deploy, or a start whose D1 or R2 call fails: memory is gone.
Crash ==
  /\ life # "down"
  /\ life' = "down" /\ hadMeta' = FALSE
  /\ doc' = {} /\ pending' = {} /\ saveTimer' = FALSE
  /\ comp' = NoCompaction /\ want' = FALSE /\ garbage' = {}
  /\ op' = [o \in Op |-> NoRequest]
  /\ UNCHANGED <<d1, r2, meta, events, alarm, history>>

-----------------------------------------------------------------------------
(* WebSocket traffic and the debounced save.                               *)

\* An update of a client reaches the document; a read-only room drops it.
Receive(e) ==
  /\ Writable /\ e \notin doc
  /\ doc' = doc \cup {e}
  /\ pending' = pending \cup {e}
  /\ saveTimer' = TRUE
  /\ UNCHANGED <<d1, r2, meta, events, alarm, life, hadMeta, compacting, op,
                 history>>

\* onConnect arms the alarm for the expiry of the connection's grant.
OnConnect ==
  /\ life = "up"
  /\ alarm' = TRUE
  /\ UNCHANGED <<d1, r2, meta, events, memory, compacting, op, history>>

\* document-update-barrier: flush, then confirm everything applied so far.
Barrier ==
  /\ Writable
  /\ FlushPending
  /\ acked' = acked \cup doc
  /\ UNCHANGED <<d1, r2, hasMeta, retired, readOnly, snapSeq, opInput, alarm,
                 life, hadMeta, doc, saveTimer, compacting, op, replied,
                 applied, views, purged>>

OnSave ==
  /\ life = "up" /\ saveTimer
  /\ FlushPending
  /\ alarm' = (alarm \/ dirty')
  /\ saveTimer' = FALSE
  /\ UNCHANGED <<d1, r2, hasMeta, retired, readOnly, snapSeq, opInput, life,
                 hadMeta, doc, compacting, op, history>>

\* The runtime consumes the alarm; OnConnect stands for the re-arming for
\* connections that are still open.
OnAlarm ==
  /\ life = "up" /\ alarm
  /\ alarm' = FALSE
  /\ \/ /\ retired
        /\ UNCHANGED <<events, dirty, pending, compacting>>
     \/ /\ ~retired
        /\ FlushPending
        /\ IF dirty' THEN RequestCompaction ELSE UNCHANGED <<comp, want>>
        /\ UNCHANGED <<opInput, garbage>>
  /\ UNCHANGED <<d1, r2, hasMeta, retired, readOnly, snapSeq, life, hadMeta,
                 doc, saveTimer, op, history>>

-----------------------------------------------------------------------------
(* GET /content without x-notes-allow-stale.                               *)

\* Answer the document when it is exactly what was compacted last, otherwise
\* compact and look again (the handler's loop is this action taken again).
ReadContent ==
  /\ life = "up"
  /\ FlushPending
  /\ IF ~dirty' /\ comp.pc = "idle"
       THEN /\ views' = views \cup {[seq |-> snapSeq, ups |-> doc]}
            /\ UNCHANGED <<comp, want>>
       ELSE /\ IF dirty' THEN RequestCompaction ELSE UNCHANGED <<comp, want>>
            /\ views' = views
  /\ UNCHANGED <<d1, r2, hasMeta, retired, readOnly, snapSeq, opInput, alarm,
                 life, hadMeta, doc, saveTimer, garbage, op, acked, replied,
                 applied, purged>>

-----------------------------------------------------------------------------
(* POST /api-mutate for mcp:v2 operations.                                 *)

\* A caller sends an operation, also again after a lost answer, perhaps on the
\* condition that the document is still the one it read.  A conditional request
\* compacts first, and once more when it finds the room dirty again (OpSettle);
\* it goes on whenever the compactions it waits for are over.
OpRequest(o) ==
  /\ life = "up" /\ ~retired /\ op[o].pc = "idle"
  /\ \E x \in {Unconditional} \cup {v.seq : v \in views} :
       /\ op' = [op EXCEPT ![o] = [pc |-> "admitted", expect |-> x, seq |-> 0]]
       /\ \/ /\ x = Unconditional
             /\ UNCHANGED <<events, dirty, pending, comp, want>>
          \/ /\ x # Unconditional
             /\ FlushPending
             /\ opInput' = opInput
             /\ IF dirty' \/ comp.pc # "idle" THEN RequestCompaction
                                            ELSE UNCHANGED <<comp, want>>
  /\ UNCHANGED <<d1, r2, hasMeta, retired, readOnly, snapSeq, alarm, life,
                 hadMeta, doc, saveTimer, garbage, history>>

OpSettle(o) ==
  /\ life = "up" /\ ~retired /\ op[o].pc = "admitted" /\ op[o].expect # Unconditional
  /\ FlushPending
  /\ IF dirty' THEN RequestCompaction ELSE UNCHANGED <<comp, want>>
  /\ UNCHANGED <<d1, r2, hasMeta, retired, readOnly, snapSeq, opInput, alarm,
                 life, hadMeta, doc, saveTimer, garbage, op, history>>

\* variant: look for the receipt in the stored snapshot
ReceiptInSnapshot(o) == o \in r2snap

\* The operation's update, which carries its receipt, is in the document.
HasReceipt(o) == o \in doc

\* variant: a receipt that has no proof is a replay
ReceiptSuffices(o) == FALSE

\* apiOperationInput: the receipt in the document needs its proof in SQLite.
Unverifiable(o) == (o \in doc) # (opInput[o] # 0)

\* variant: compare the sequence without looking for edits it does not count
SequenceChanged(o) == op[o].expect \notin {Unconditional, snapSeq}

\* Evaluated after flushPendingUpdates: the condition no longer holds.
RevisionChanged(o) ==
  /\ op[o].expect # Unconditional
  /\ dirty \/ pending # {} \/ comp.pc # "idle" \/ snapSeq # op[o].expect

\* The clone with the operation applied would reach READ_ONLY_BYTES.
Oversized(o) == Cardinality(Normalized(doc \cup {o})) >= ReadOnlySize

OpRefuse(o) ==
  /\ life = "up" /\ op[o].pc = "admitted"
  /\ \/ ~Writable \/ Unverifiable(o)
     \/ ~HasReceipt(o) /\ (RevisionChanged(o) \/ Oversized(o))
  /\ FlushPending
  /\ op' = [op EXCEPT ![o] = NoRequest]
  /\ UNCHANGED <<d1, r2, hasMeta, retired, readOnly, snapSeq, opInput, alarm,
                 life, hadMeta, doc, saveTimer, compacting, history>>

\* The receipt is there: answer again without applying again.
OpReplay(o) ==
  /\ Writable /\ op[o].pc = "admitted"
  /\ HasReceipt(o) /\ ~Unverifiable(o)
  /\ FlushPending
  /\ op' = [op EXCEPT ![o] = [@ EXCEPT !.pc = "replying", !.seq = lastSeq']]
  /\ UNCHANGED <<d1, r2, hasMeta, retired, readOnly, snapSeq, opInput, alarm,
                 life, hadMeta, doc, saveTimer, compacting, history>>

\* pendingOperationInputs are written with the event that holds the update.
RecordInput(o, n) == [opInput EXCEPT ![o] = n]

\* Validate on a clone, apply, and log the update, its receipt and its proof in
\* one transaction.
OpApply(o) ==
  /\ Writable /\ op[o].pc = "admitted"
  /\ ~HasReceipt(o) /\ ~Unverifiable(o) /\ ~RevisionChanged(o) /\ ~Oversized(o)
  /\ applied[o] < MaxApply
  /\ LET flushed == Flushed(log, lastSeq, pending)
         n == FlushedSeq(log, lastSeq, pending)
         new == Normalized(doc \cup {o}) \ doc
     IN /\ doc' = doc \cup new
        /\ log' = Flushed(flushed, n, new)
        /\ lastSeq' = FlushedSeq(flushed, n, new)
  /\ opInput' = RecordInput(o, lastSeq')
  /\ op' = [op EXCEPT ![o] = [@ EXCEPT !.pc = "replying", !.seq = lastSeq']]
  /\ applied' = [applied EXCEPT ![o] = @ + 1]
  /\ pending' = {} /\ dirty' = TRUE /\ saveTimer' = TRUE
  /\ UNCHANGED <<d1, r2, hasMeta, retired, readOnly, snapSeq, alarm, life,
                 hadMeta, compacting, acked, replied, views, purged>>

\* variant: the answer waits for no compaction once the room is not dirty
CleanEnough(o) == ~dirty \/ snapSeq >= op[o].seq

\* The compaction of the operation's log has been acknowledged.
Compacted(o) == snapSeq >= op[o].seq

\* apiMutationResponse starts the compaction that the answer waits for.
OpCompact(o) ==
  /\ life = "up" /\ ~retired
  /\ op[o].pc = "replying" /\ ~Compacted(o) /\ comp.pc = "idle"
  /\ RequestCompaction
  /\ UNCHANGED <<d1, r2, meta, events, alarm, memory, garbage, op, history>>

OpReply(o) ==
  /\ life = "up" /\ ~retired
  /\ op[o].pc = "replying" /\ Compacted(o)
  /\ replied' = replied \cup {o}
  /\ op' = [op EXCEPT ![o] = NoRequest]
  /\ UNCHANGED <<d1, r2, meta, events, alarm, memory, compacting, acked,
                 applied, views, purged>>

\* The request fails, with its compaction or because the caller went away.
OpError(o) ==
  /\ op[o].pc # "idle"
  /\ op' = [op EXCEPT ![o] = NoRequest]
  /\ UNCHANGED <<d1, r2, meta, events, alarm, memory, compacting, history>>

-----------------------------------------------------------------------------
(* compactOnce for a document, one action per await.                       *)

\* Normalise and flush, then capture the document with its highest sequence and
\* hand the dirty flag over, all without yielding.
CompactCapture ==
  /\ life \in {"up", "purged"} /\ comp.pc = "prep"
  /\ \/ /\ life = "purged"
        /\ FinishCompaction
        /\ UNCHANGED <<events, dirty, readOnly, doc, pending, saveTimer>>
     \/ /\ life = "up"
        /\ doc' = Normalized(doc)
        /\ LET ups == IF retired THEN pending ELSE pending \cup (doc' \ doc)
           IN /\ log' = Flushed(log, lastSeq, ups)
              /\ lastSeq' = FlushedSeq(log, lastSeq, ups)
        /\ pending' = {} /\ opInput' = opInput
        /\ saveTimer' = (saveTimer \/ doc' # doc)
        /\ dirty' = FALSE
        /\ IF log' = {}
             THEN FinishCompaction /\ readOnly' = readOnly
             ELSE /\ comp' = [pc |-> "captured", max |-> lastSeq', ups |-> doc',
                              old |-> 0, page |-> FALSE]
                  /\ want' = want
                  /\ readOnly' = (readOnly \/ Cardinality(doc') >= ReadOnlySize)
  /\ UNCHANGED <<d1, r2, hasMeta, retired, snapSeq, alarm, life, hadMeta,
                 garbage, op, history>>

\* The compaction goes on from one await to the next.
Advance(from, to) ==
  /\ life \in {"up", "purged"} /\ comp.pc = from
  /\ comp' = [comp EXCEPT !.pc = to]
  /\ UNCHANGED <<meta, events, alarm, memory, want, op, history>>

CompactPutSnapshot ==
  /\ Advance("captured", "stored")
  /\ r2snap' = comp.ups
  /\ UNCHANGED <<d1, r2proj, garbage>>

CompactPutProjection ==
  /\ Advance("stored", "rendered")
  /\ r2proj' = r2proj \cup {comp.max}
  /\ UNCHANGED <<d1, r2snap, garbage>>

\* The pages row of this epoch and the projection that is about to be replaced.
CompactReadPage ==
  /\ life \in {"up", "purged"} /\ comp.pc = "rendered"
  /\ comp' = [comp EXCEPT !.pc = IF pageLive THEN "read" ELSE "dropped",
                          !.old = proj.seq, !.page = FALSE]
  /\ UNCHANGED <<d1, r2, meta, events, alarm, memory, want, garbage, op, history>>

\* variant: project the document as it is by now
ProjectLive == [seq |-> comp.max, ups |-> doc]

\* The row of document_projections is the captured document.
ProjectCaptured == [seq |-> comp.max, ups |-> comp.ups]

\* The D1 batch; each of its statements is guarded by the page's epoch.
CompactBatch ==
  /\ life \in {"up", "purged"} /\ comp.pc = "read"
  /\ comp' = [comp EXCEPT !.pc = "batched", !.page = pageLive]
  /\ proj' = IF pageLive THEN ProjectCaptured ELSE proj
  /\ UNCHANGED <<pageLive, r2, meta, events, alarm, memory, want, garbage, op,
                 history>>

\* variant: delete whatever row was there, also the one of an earlier attempt
SupersededAny == comp.page /\ comp.old # 0

\* The batch replaced the row of another sequence.
Superseded == comp.page /\ comp.old \notin {0, comp.max}

\* Delete the superseded projection unless a change checkpoint refers to it.
CompactDrop ==
  /\ Advance("batched", "dropped")
  /\ \E referenced \in BOOLEAN :
       garbage' = IF Superseded /\ ~referenced
                    THEN garbage \cup {comp.old} ELSE garbage
  /\ UNCHANGED <<d1, r2>>

\* variant: empty the log
AcknowledgeAll == {}

\* DELETE FROM update_events WHERE seq <= maximum.
AcknowledgeCaptured == {e \in log : e.seq > comp.max}

\* Acknowledge the log.  The AUTOINCREMENT of update_events outlives its rows.
CompactAck ==
  /\ life = "up" /\ comp.pc = "dropped"
  /\ comp' = [comp EXCEPT !.pc = "acked"]
  /\ log' = AcknowledgeCaptured
  /\ snapSeq' = comp.max
  /\ UNCHANGED <<d1, r2, hasMeta, retired, readOnly, dirty, lastSeq, opInput,
                 alarm, memory, want, garbage, op, history>>

\* The date reminders are reconciled, or that failed: either way it is over.
CompactEnd ==
  /\ life \in {"up", "purged"} /\ comp.pc = "acked"
  /\ FinishCompaction
  /\ UNCHANGED <<d1, r2, meta, events, alarm, memory, garbage, op, history>>

\* dirty again, and scheduleAlarm(COMPACTION_DELAY_MS), whose failure is logged.
RetryByAlarm == dirty' = TRUE /\ alarm' \in {TRUE, alarm}

\* An await after the capture rejects: dirty again, and an alarm for the retry.
\* After a purge the tables are gone, so the acknowledgement fails and with it
\* the statement of the error handler.
CompactFail ==
  /\ life \in {"up", "purged"} /\ comp.pc \notin {"idle", "prep", "acked"}
  /\ FinishCompaction
  /\ IF life = "purged"
       THEN UNCHANGED <<dirty, alarm>>
       ELSE RetryByAlarm
  /\ UNCHANGED <<d1, r2, hasMeta, retired, readOnly, snapSeq, events, memory,
                 garbage, op, history>>

\* A background deletion of a superseded projection lands, or fails for good.
DropProjection ==
  /\ \E k \in garbage :
       /\ garbage' = garbage \ {k}
       /\ \E gone \in BOOLEAN : r2proj' = IF gone THEN r2proj \ {k} ELSE r2proj
  /\ UNCHANGED <<d1, r2snap, meta, events, alarm, memory, comp, want, op, history>>

-----------------------------------------------------------------------------
(* The page goes away.                                                     *)

\* D1: the page is permanently deleted, or its content_epoch moves on.
DeletePage ==
  /\ pageLive
  /\ pageLive' = FALSE
  /\ UNCHANGED <<proj, r2, meta, events, alarm, memory, compacting, op, history>>

\* POST /purge of the deletion job: deleteAlarm and deleteAll.
Purge ==
  /\ life = "up" /\ ~pageLive
  /\ life' = "purged" /\ purged' = TRUE
  /\ hasMeta' = FALSE /\ retired' = TRUE /\ readOnly' = FALSE /\ dirty' = FALSE
  /\ snapSeq' = 0 /\ lastSeq' = 0 /\ log' = {} /\ opInput' = [o \in Op |-> 0]
  /\ alarm' = FALSE /\ pending' = {} /\ saveTimer' = FALSE
  /\ acked' = {} /\ replied' = {} /\ applied' = [o \in Op |-> 0] /\ views' = {}
  /\ UNCHANGED <<d1, r2, hadMeta, doc, compacting, op>>

-----------------------------------------------------------------------------

Next ==
  \/ Wake \/ CheckEpoch \/ Load \/ Crash
  \/ \E e \in Edit : Receive(e)
  \/ OnConnect \/ Barrier \/ OnSave \/ OnAlarm \/ ReadContent
  \/ \E o \in Op : \/ OpRequest(o) \/ OpSettle(o) \/ OpRefuse(o) \/ OpReplay(o) \/ OpApply(o)
                   \/ OpCompact(o) \/ OpReply(o) \/ OpError(o)
  \/ CompactCapture \/ CompactPutSnapshot \/ CompactPutProjection
  \/ CompactReadPage \/ CompactBatch \/ CompactDrop \/ CompactAck
  \/ CompactEnd \/ CompactFail \/ DropProjection
  \/ DeletePage \/ Purge

Spec == Init /\ [][Next]_vars

\* The page is visited again and again and no step fails for ever: a start, a
\* save, an alarm and each await of a compaction that is attempted infinitely
\* often succeeds infinitely often, crashes and failures in between.  It takes a
\* visit where the alarm of a failed compaction could not be set.
Fairness ==
  /\ WF_vars(Wake) /\ WF_vars(OnConnect)
  /\ SF_vars(CheckEpoch) /\ SF_vars(Load) /\ SF_vars(OnSave) /\ SF_vars(OnAlarm)
  /\ SF_vars(CompactCapture)
  /\ SF_vars(CompactPutSnapshot) /\ SF_vars(CompactPutProjection)
  /\ SF_vars(CompactReadPage) /\ SF_vars(CompactBatch) /\ SF_vars(CompactDrop)
  /\ SF_vars(CompactAck) /\ WF_vars(CompactEnd)

FairSpec == Spec /\ Fairness

-----------------------------------------------------------------------------
(* Safety.                                                                 *)

\* An update that a document-update-ack confirmed is in the snapshot or in the
\* log that onLoad replays, whatever crashes, fails or overlaps afterwards.
AckedRecoverable == acked \subseteq Recoverable

\* An operation answered as committed is in the snapshot in R2, not only in the
\* log of the object (apiMutationResponse waits for the compaction).
RepliedSnapshotted == replied \subseteq r2snap

\* The receipt that a restored version carries never answers for an operation that
\* the new epoch did not apply: its proof stayed behind, and without it there is
\* no replay.
RestoredNotReplayed == \A o \in replied : applied[o] > 0

\* Retried after a lost answer, a crash or a failed compaction, an operation is
\* applied once.
AppliedOnce == \A o \in Op : applied[o] <= 1

\* The projection row never names an object that is missing: the deletion of a
\* superseded projection that lands late, or a compaction that is retried after
\* its batch, never takes the object of the current row.
ProjectionExists == proj.seq # 0 => proj.seq \in r2proj

-----------------------------------------------------------------------------
(* Action properties.                                                      *)

\* A mutation with an expectedSequence is applied to exactly the content that
\* was answered with this sequence.
ConditionalWriteIsCurrent ==
  [][\A o \in Op : applied'[o] > applied[o] =>
       \A v \in views : v.seq = op[o].expect => v.ups = doc]_vars

-----------------------------------------------------------------------------
(* Liveness, under FairSpec.                                               *)

\* A confirmed update reaches the projection, and with it search, references
\* and notifications, unless the page is deleted first.
AckedIsProjected ==
  \A e \in Edit : e \in acked ~> (e \in proj.ups \/ ~pageLive)

-----------------------------------------------------------------------------
(* The abstract document.                                                  *)

Promise == INSTANCE DurableDocument WITH
  saved <- Recoverable, confirmed <- acked, answered <- replied,
  published <- proj.ups

\* The room keeps what DurableDocument promises: a flush saves, a barrier
\* confirms, a reply answers, the D1 batch publishes, a purge erases, and every
\* other step, crashes and compactions included, changes none of it.
KeepsPromise == Promise!Spec

-----------------------------------------------------------------------------
(* The inductive invariant of DocumentRoomProofs.                          *)

Logged == {u \in Update : \E e \in log : u \in e.ups}
Captured == {"captured", "stored", "rendered", "read", "batched", "dropped"}

\* The log lies between snapshot_seq and the high-water mark: no event is both
\* acknowledged and still needed, and no sequence is given twice.
LogOrdered ==
  /\ snapSeq <= lastSeq
  /\ \A e \in log : snapSeq < e.seq /\ e.seq <= lastSeq

\* A running room has the stored document in memory, and stored or buffered all
\* it has in memory.
MemoryCovered ==
  life = "up" =>
    /\ r2snap \cup Logged \subseteq doc /\ pending \subseteq doc
    /\ ~retired => doc \subseteq r2snap \cup Logged \cup pending

\* What a compaction captured has everything it will replace: the old snapshot,
\* and the log up to the sequence that it will acknowledge.
CaptureCovers ==
  comp.pc \in Captured =>
    /\ life \in {"up", "purged"} /\ r2snap \subseteq comp.ups
    /\ comp.pc # "captured" => r2snap = comp.ups
    /\ life = "up" =>
         /\ comp.ups \subseteq doc
         /\ snapSeq <= comp.max /\ comp.max <= lastSeq
         /\ \A e \in log : e.seq <= comp.max => e.ups \subseteq comp.ups

\* An operation that waits for its answer is in the snapshot or in an event that
\* the compaction it waits for acknowledges.
AnswerCovered == \A o \in Op : op[o].pc = "replying" =>
  /\ life \in {"up", "purged"}
  /\ life = "up" =>
       o \in r2snap \/ \E e \in log : o \in e.ups /\ e.seq <= op[o].seq

\* What was promised or published is stored.
PromisesCovered ==
  /\ acked \subseteq r2snap \cup Logged
  /\ replied \subseteq r2snap /\ proj.ups \subseteq r2snap

RoomCore ==
  LogOrdered /\ MemoryCovered /\ CaptureCovers /\ AnswerCovered /\ PromisesCovered

RoomInv == TypeOK /\ RoomCore

-----------------------------------------------------------------------------
(* The inductive invariants of DocumentRoomReceiptProofs, beside RoomInv.  *)

\* Sequences only grow while the page lives, so a superseded projection, in the
\* background or about to go there, is older than the row and than the capture.
ProjectionOrdered ==
  /\ ProjectionExists
  /\ pageLive => proj.seq <= lastSeq
  /\ \A k \in garbage : k < proj.seq
  /\ comp.pc \in Captured /\ pageLive => proj.seq <= comp.max /\ comp.max <= lastSeq
  /\ comp.pc \in {"rendered", "read"} /\ pageLive => comp.max \in r2proj
  /\ comp.pc \in {"read", "batched"} => comp.old <= comp.max
  /\ comp.pc = "batched" /\ comp.page => proj.seq = comp.max

\* An operation was applied once if at all and then its receipt is stored; nothing
\* but its application brings a proof or an answer.
ReceiptCovered == \A o \in Op :
  /\ applied[o] <= 1
  /\ applied[o] # 0 => o \in r2snap \cup Logged
  /\ opInput[o] # 0 \/ o \in replied => applied[o] # 0
  /\ life = "up" /\ op[o].pc = "replying" => applied[o] # 0

\* A compaction that has captured the document has an event to acknowledge.
CaptureIsNew ==
  life = "up" /\ comp.pc \in Captured => \E e \in log : e.seq <= comp.max

\* A running room that is not dirty has only the log that a compaction captured.
CleanIsSettled ==
  life = "up" /\ ~dirty => \A e \in log : comp.pc \in Captured /\ e.seq <= comp.max

\* An answer with the present snapshot_seq showed the snapshot, unless something
\* was logged since.
ViewsCurrent ==
  /\ life \in {"checking", "loading", "up"} => hasMeta
  /\ views # {} => hasMeta /\ life \notin {"checking", "purged"}
  /\ ~retired => \A v \in views :
       v.seq <= snapSeq /\ (v.seq = snapSeq /\ log = {} => v.ups = r2snap)

RevisionInv == CaptureIsNew /\ CleanIsSettled /\ ViewsCurrent
=============================================================================
