------------------------ MODULE OutboxDeliveryProofs ------------------------
(***************************************************************************)
(* Proofs about OutboxDelivery for any sets of notifications, sweeps and   *)
(* consumers and all sizes.  A claim is settled by its holder, and a       *)
(* caller that was sent away is heard before the sweep rests.              *)
(***************************************************************************)
EXTENDS OutboxDelivery, TLAPS

-----------------------------------------------------------------------------
(* The type invariant, by who writes what it says.                         *)

Sweeping == [pc : SweepPc, continuation : BOOLEAN, tries : 0 .. 2, batch : 0 .. MaxBatches,
             rows : SUBSET Row, full : BOOLEAN, row : Row \cup {Free}]

Delivering == [status : {"none", "pending", "sent", "failed"}, token : Consumer \cup {Free},
               stale : BOOLEAN]

Consuming == [pc : ConsumerPc, row : Row \cup {Free}, attempt : 0 .. MaxAttempts,
              outcome : {"none", "sent", "refused", "threw"}]

RowsTyped == outbox \in [Row -> {"absent", "waiting", "enqueued"}] /\ early \subseteq Row

Messages == [ready : Nat, later : Nat, retries : 0 .. MaxRetries]

QueueTyped == queue \in [Row -> Messages] /\ again \in Nat

LeaseTyped == lease \in [token : Sweep \cup {Free}, out : BOOLEAN, rescan : BOOLEAN]

SweepsTyped == sweep \in [Sweep -> Sweeping] /\ asked \subseteq Row

\* What comes after the last batch, or after a failure.
LateSteps == {"remaining", "lastRelease", "capped", "continue", "lost", "final"}

\* While a sweep may take another batch it has not used up its cap, and what it marks
\* is a row.
Sound(w) ==
  /\ w.pc \notin LateSteps => w.batch < MaxBatches
  /\ w.pc = "mark" => w.row \in Row

SweepsSound == \A s \in Sweep : Sound(sweep[s])

DeliveryTyped == delivery \in [Notice -> Delivering]

HookTyped ==
  /\ hook \in [status : {"pending", "sent", "failed", "suppressed"}, attempts : 0 .. MaxAttempts]
  /\ hook.status = "pending" /\ MaxAttempts > 0 => hook.attempts < MaxAttempts

ConsumersTyped == consumer \in [Consumer -> Consuming] /\ usurped \subseteq Consumer

\* A consumer at work has a row, one at a claim has a notification, and one that
\* publishes a retry has attempts left.
Known(w) ==
  /\ w.pc # "idle" => w.row \in Row
  /\ w.pc \in {"claim", "look", "send", "finish"} => w.row \in Notice
  /\ w.pc \in {"publish", "mark"} => w.attempt < MaxAttempts

RowsKnown == \A c \in Consumer : Known(consumer[c])

MishapsTyped == mishaps \in 0 .. MaxMishaps

SweepInv == RowsTyped /\ QueueTyped /\ LeaseTyped /\ SweepsTyped /\ SweepsSound

ConsumerInv == DeliveryTyped /\ HookTyped /\ ConsumersTyped /\ RowsKnown

TypeInv == SweepInv /\ ConsumerInv /\ MishapsTyped

\* What the parts say together is the type invariant.
LEMMA PartsAreType == TypeInv => TypeOK
  BY DEF TypeInv, SweepInv, ConsumerInv, TypeOK, RowsTyped, QueueTyped, LeaseTyped, SweepsTyped,
         DeliveryTyped, HookTyped, ConsumersTyped, MishapsTyped, Sweeping, Delivering, Consuming,
         Messages

LEMMA InitTyped == Init => TypeInv
<1>. SUFFICES ASSUME Init PROVE TypeInv
  OBVIOUS
<1>. USE ConstantsAssumption DEF Init
<1>1. NoSweep \in Sweeping
  BY DEF NoSweep, Sweeping, SweepPc
<1>2. NoMessage \in Consuming
  BY DEF NoMessage, Consuming, ConsumerPc
<1>3. RowsTyped /\ QueueTyped /\ LeaseTyped /\ MishapsTyped
  BY DEF RowsTyped, QueueTyped, Messages, LeaseTyped, MishapsTyped
<1>4. SweepsTyped /\ SweepsSound
  BY <1>1 DEF SweepsTyped, SweepsSound, Sound, NoSweep
<1>5. DeliveryTyped /\ HookTyped
  BY DEF DeliveryTyped, HookTyped, Delivering
<1>6. ConsumersTyped /\ RowsKnown
  BY <1>2 DEF ConsumersTyped, RowsKnown, Known, NoMessage
<1>. QED
  BY <1>3, <1>4, <1>5, <1>6 DEF TypeInv, SweepInv, ConsumerInv

-----------------------------------------------------------------------------
(* What the small writes do, field by field.                               *)

LEMMA NoSweepTyped ==
  NoSweep \in Sweeping /\ NoSweep.pc = "idle" /\ NoSweep.batch = 0
  BY ConstantsAssumption DEF NoSweep, Sweeping, SweepPc

LEMMA NoMessageTyped ==
  NoMessage \in Consuming /\ NoMessage.pc = "idle"
  BY ConstantsAssumption DEF NoMessage, Consuming, ConsumerPc

\* A sweep that is replaced by a typed one that has batches left, or needs none.
LEMMA SweepReplaced ==
  ASSUME SweepsTyped, SweepsSound, NEW s \in Sweep, NEW w \in Sweeping,
         sweep' = [sweep EXCEPT ![s] = w], asked' \subseteq Row, Sound(w)
  PROVE SweepsTyped' /\ SweepsSound'
  BY DEF SweepsTyped, SweepsSound

\* A sweep that goes on to another place with what it has.
LEMMA SweepGoes ==
  ASSUME SweepsTyped, SweepsSound, NEW s \in Sweep, NEW pc \in SweepPc, GoSweep(s, pc),
         asked' \subseteq Row, pc # "mark", pc \in LateSteps \/ sweep[s].pc \notin LateSteps
  PROVE SweepsTyped' /\ SweepsSound'
<1>. DEFINE w == [sweep[s] EXCEPT !.pc = pc]
<1>1. sweep[s] \in Sweeping
  BY DEF SweepsTyped
<1>2. w \in Sweeping /\ w.pc = pc /\ w.batch = sweep[s].batch
  BY <1>1 DEF Sweeping
<1>3. sweep' = [sweep EXCEPT ![s] = w]
  BY <1>1 DEF GoSweep, SweepsTyped
<1>. QED
  BY <1>2, <1>3, SweepReplaced DEF SweepsSound, Sound

\* A sweep that ends.
LEMMA SweepEnds ==
  ASSUME SweepsTyped, SweepsSound, NEW s \in Sweep, sweep' = [sweep EXCEPT ![s] = NoSweep],
         asked' \subseteq Row
  PROVE SweepsTyped' /\ SweepsSound'
<1>1. 0 < MaxBatches
  BY ConstantsAssumption
<1>. QED
  BY <1>1, NoSweepTyped, SweepReplaced DEF Sound

\* One message more that is ready, or that is not, or one ready message less.
LEMMA MessagesCounted ==
  ASSUME QueueTyped, NEW r \in Row, NEW f \in {"ready", "later"}, NEW n \in Nat,
         queue' = [queue EXCEPT ![r][f] = n], again' \in Nat
  PROVE QueueTyped'
<1>1. queue[r] \in Messages
  BY DEF QueueTyped
<1>2. [queue[r] EXCEPT ![f] = n] \in Messages
  BY <1>1 DEF Messages
<1>3. queue' = [queue EXCEPT ![r] = [queue[r] EXCEPT ![f] = n]]
  BY DEF QueueTyped
<1>. HIDE DEF Messages
<1>. QED
  BY <1>2, <1>3 DEF QueueTyped

-----------------------------------------------------------------------------
(* The sweeps.                                                             *)

LEMMA NextBatchIsBatch == \A s \in Sweep : NextBatch(s) \in {"batch", "remaining"}
  BY DEF NextBatch

\* The next batch is one the cap allows, or what is behind the last.
LEMMA NextBatchTyped ==
  ASSUME SweepsTyped, SweepsSound, NEW s \in Sweep, sweep[s].pc \notin LateSteps,
         asked' \subseteq Row, sweep' = [sweep EXCEPT ![s].pc = NextBatch(s), ![s].batch = @ + 1]
  PROVE SweepsTyped' /\ SweepsSound'
<1>. DEFINE w == [sweep[s] EXCEPT !.pc = NextBatch(s), !.batch = @ + 1]
<1>1. sweep[s] \in Sweeping /\ sweep[s].batch < MaxBatches /\ MaxBatches \in Nat
  BY ConstantsAssumption DEF SweepsTyped, SweepsSound, Sound
<1>2. NextBatch(s) \in SweepPc
  BY DEF NextBatch, SweepPc
<1>3. w \in Sweeping /\ w.pc = NextBatch(s) /\ w.batch = sweep[s].batch + 1
  <2>1. sweep[s].batch \in 0 .. MaxBatches
    BY <1>1 DEF Sweeping
  <2>. DEFINE b == sweep[s].batch + 1
  <2>2. b \in 0 .. MaxBatches
    BY <1>1, <2>1
  <2>3. w = [sweep[s] EXCEPT !.pc = NextBatch(s), !.batch = b]
    OBVIOUS
  <2>. HIDE DEF b
  <2>4. [sweep[s] EXCEPT !.pc = NextBatch(s), !.batch = b] \in Sweeping
    BY <1>1, <1>2, <2>2 DEF Sweeping
  <2>. QED
    BY <1>1, <2>3, <2>4 DEF Sweeping, b
<1>4. NextBatch(s) = "remaining" \/ sweep[s].batch + 1 < MaxBatches
  BY DEF NextBatch
<1>5. sweep' = [sweep EXCEPT ![s] = w]
  BY <1>1 DEF SweepsTyped
<1>. QED
  <2>1. Sound(w)
    BY <1>3, <1>4, NextBatchIsBatch DEF Sound, LateSteps
  <2>. HIDE DEF w
  <2>. QED
    BY <1>3, <1>5, <2>1, SweepReplaced

\* The fields a step of a sweep writes, and what it takes them from.
LEMMA SweepSteps ==
  ASSUME SweepInv, NEW s \in Sweep,
         SweepStep(s) \/ Call(s) \/ Continue(s) \/ EnqueueFails(s) \/ SweepFails(s) \/ SweepDies(s)
  PROVE SweepInv'
<1>. USE DEF SweepInv
<1>0. sweep[s] \in Sweeping /\ asked \subseteq Row /\ lease.token \in Sweep \cup {Free}
  BY DEF SweepsTyped, LeaseTyped
<1>1. CASE Call(s)
  <2>1. SweepsTyped' /\ SweepsSound'
    BY <1>0, <1>1, SweepGoes DEF LateSteps, Call, GoSweep, SweepPc
  <2>. QED
    BY <1>1, <2>1 DEF Call, RowsTyped, QueueTyped, LeaseTyped
<1>2. CASE Continue(s)
  <2>. DEFINE w == [sweep[s] EXCEPT !.pc = "claim", !.continuation = TRUE]
  <2>1. w \in Sweeping /\ w.pc = "claim" /\ w.batch = sweep[s].batch
    BY <1>0 DEF Sweeping, SweepPc
  <2>2. sweep' = [sweep EXCEPT ![s] = w] /\ sweep[s].batch < MaxBatches
    BY <1>0, <1>2 DEF Continue, SweepsSound, Sound, LateSteps, SweepsTyped
  <2>3. SweepsTyped' /\ SweepsSound'
    BY <1>0, <1>2, <2>1, <2>2, SweepReplaced DEF Sound, LateSteps, Continue
  <2>. QED
    BY <1>2, <2>3 DEF Continue, RowsTyped, QueueTyped, LeaseTyped
<1>3. CASE Claim(s)
  <2>1. GoSweep(s, "batch") \/ sweep' = [sweep EXCEPT ![s] = NoSweep] \/ GoSweep(s, "ask")
    BY <1>3 DEF Claim
  <2>2. SweepsTyped' /\ SweepsSound'
    BY <1>0, <1>3, <2>1, SweepGoes, SweepEnds DEF LateSteps, Claim, SweepPc
  <2>3. QueueTyped'
    BY <1>3 DEF Claim, RetryContinuation, QueueTyped
  <2>4. LeaseTyped'
    <3>. DEFINE l == [token |-> s, out |-> FALSE, rescan |-> FALSE]
    <3>1. lease' = lease \/ lease' = l
      BY <1>3 DEF Claim
    <3>2. l \in [token : Sweep \cup {Free}, out : BOOLEAN, rescan : BOOLEAN]
      OBVIOUS
    <3>. HIDE DEF l
    <3>. QED
      BY <3>1, <3>2 DEF LeaseTyped
  <2>. QED
    BY <1>3, <2>2, <2>3, <2>4 DEF Claim, RowsTyped
<1>4. CASE Ask(s)
  <2>1. asked' \subseteq Row /\ QueueTyped' /\ LeaseTyped'
    <3>1. asked' = asked \/ asked' = asked \cup Due
      BY <1>4 DEF Ask
    <3>2. queue' = queue /\ (again' = again \/ again' = again + 1)
      BY <1>4 DEF Ask
    <3>3. lease' = lease \/ lease' = [lease EXCEPT !.rescan = TRUE]
      BY <1>4 DEF Ask
    <3>4. asked' \subseteq Row
      BY <1>0, <3>1 DEF Due
    <3>5. QueueTyped'
      BY <3>2 DEF QueueTyped
    <3>6. LeaseTyped'
      BY <3>3 DEF LeaseTyped
    <3>. QED
      BY <3>4, <3>5, <3>6
  <2>2. CASE sweep' = [sweep EXCEPT ![s] = NoSweep]
    <3>1. SweepsTyped' /\ SweepsSound'
      BY <2>1, <2>2, SweepEnds
    <3>. QED
      BY <1>4, <2>1, <3>1 DEF Ask, RowsTyped
  <2>3. CASE sweep' = [sweep EXCEPT ![s].pc = "claim", ![s].tries = 1]
    <3>. DEFINE w == [sweep[s] EXCEPT !.pc = "claim", !.tries = 1]
    <3>0. 1 \in 0 .. 2
      OBVIOUS
    <3>1. w \in Sweeping /\ w.pc = "claim" /\ w.batch = sweep[s].batch
      BY <1>0, <3>0, Zenon DEF Sweeping, SweepPc
    <3>2. sweep' = [sweep EXCEPT ![s] = w] /\ sweep[s].batch < MaxBatches
      BY <1>0, <1>4, <2>3 DEF Ask, SweepsSound, Sound, LateSteps, SweepsTyped
    <3>3. SweepsTyped' /\ SweepsSound'
      BY <2>1, <3>1, <3>2, SweepReplaced DEF Sound, LateSteps
    <3>. QED
      BY <1>4, <2>1, <3>3 DEF Ask, RowsTyped
  <2>. QED
    BY <1>4, <2>2, <2>3 DEF Ask
<1>5. ASSUME NEW here, NEW next \in SweepPc, Renew(s, here, next), next # "mark",
             here \notin LateSteps \/ next \in LateSteps
      PROVE SweepInv'
  <2>0. sweep[s].pc = here /\ asked' \subseteq Row
    BY <1>0, <1>5 DEF Renew
  <2>1. ASSUME GoSweep(s, next) PROVE SweepsTyped' /\ SweepsSound'
    BY <1>5, <2>0, <2>1, SweepGoes
  <2>2. ASSUME GoSweep(s, "lost") PROVE SweepsTyped' /\ SweepsSound'
    <3>1. "lost" \in SweepPc /\ "lost" \in LateSteps /\ "lost" # "mark"
      BY DEF SweepPc, LateSteps
    <3>. QED
      BY <2>0, <2>2, <3>1, SweepGoes
  <2>3. SweepsTyped' /\ SweepsSound'
    BY <1>5, <2>1, <2>2 DEF Renew
  <2>. QED
    BY <1>5, <2>3 DEF Renew, RowsTyped, QueueTyped, LeaseTyped
<1>6. CASE RenewBeforeBatch(s) \/ RenewBeforeRow(s) \/ RenewAfterBatch(s)
             \/ RenewBeforeContinuation(s)
  BY <1>5, <1>6
  DEF RenewBeforeBatch, RenewBeforeRow, RenewAfterBatch, RenewBeforeContinuation, SweepPc, LateSteps
<1>7. CASE Select(s)
  <2>1. PICK rs \in SUBSET Due :
          /\ sweep' = [sweep EXCEPT ![s].pc = "row", ![s].rows = rs,
                                    ![s].full = Cardinality(rs) = BatchSize]
          /\ asked' = asked \ rs
    BY <1>7 DEF Select
  <2>. DEFINE b == Cardinality(rs) = BatchSize
              w == [sweep[s] EXCEPT !.pc = "row", !.rows = rs, !.full = b]
  <2>2. w \in Sweeping /\ w.pc = "row" /\ w.batch = sweep[s].batch
    <3>1. rs \subseteq Row /\ b \in BOOLEAN
      BY DEF Due
    <3>. HIDE DEF b
    <3>. QED
      BY <1>0, <3>1 DEF Sweeping, SweepPc
  <2>3. sweep' = [sweep EXCEPT ![s] = w] /\ sweep[s].batch < MaxBatches
    BY <1>0, <1>7, <2>1 DEF Select, SweepsSound, Sound, LateSteps, SweepsTyped
  <2>4. SweepsTyped' /\ SweepsSound'
    <3>. HIDE DEF w
    <3>. QED
      BY <1>0, <2>1, <2>2, <2>3, SweepReplaced DEF Sound, LateSteps
  <2>. QED
    BY <1>7, <2>4 DEF Select, RowsTyped, QueueTyped, LeaseTyped
<1>8. CASE Send(s)
  <2>1. PICK r \in sweep[s].rows :
          /\ queue' = [queue EXCEPT ![r].ready = @ + 1]
          /\ sweep' = [sweep EXCEPT ![s].pc = "mark", ![s].row = r, ![s].rows = @ \ {r}]
    BY <1>8 DEF Send
  <2>. DEFINE w == [sweep[s] EXCEPT !.pc = "mark", !.row = r, !.rows = @ \ {r}]
  <2>2. w \in Sweeping /\ w.pc = "mark" /\ w.batch = sweep[s].batch /\ w.row \in Row
    BY <1>0 DEF Sweeping, SweepPc
  <2>3. sweep' = [sweep EXCEPT ![s] = w] /\ sweep[s].batch < MaxBatches
    BY <1>0, <1>8, <2>1 DEF Send, SweepsSound, Sound, LateSteps, SweepsTyped
  <2>4. SweepsTyped' /\ SweepsSound'
    BY <1>0, <1>8, <2>2, <2>3, SweepReplaced DEF Sound, LateSteps, Send
  <2>5. QueueTyped'
    <3>1. r \in Row
      BY <1>0, <2>1 DEF Sweeping
    <3>2. queue[r].ready + 1 \in Nat
      BY <3>1 DEF QueueTyped, Messages
    <3>3. again' = again /\ again \in Nat
      BY <1>8 DEF Send, QueueTyped
    <3>4. queue' = [queue EXCEPT ![r]["ready"] = queue[r].ready + 1]
      BY <2>1
    <3>. QED
      BY <3>1, <3>2, <3>3, <3>4, MessagesCounted
  <2>. QED
    BY <1>8, <2>4, <2>5 DEF Send, RowsTyped, LeaseTyped
<1>9. CASE Mark(s)
  <2>. DEFINE w == [sweep[s] EXCEPT !.pc = "row", !.row = Free]
  <2>1. w \in Sweeping /\ w.pc = "row" /\ w.batch = sweep[s].batch
    BY <1>0 DEF Sweeping, SweepPc
  <2>2. sweep' = [sweep EXCEPT ![s] = w] /\ sweep[s].batch < MaxBatches
    BY <1>0, <1>9 DEF Mark, SweepsSound, Sound, LateSteps, SweepsTyped
  <2>3. SweepsTyped' /\ SweepsSound'
    BY <1>0, <1>9, <2>1, <2>2, SweepReplaced DEF Sound, LateSteps, Mark
  <2>. QED
    BY <1>9, <2>3 DEF Mark, RowsTyped, QueueTyped, LeaseTyped
<1>10. CASE EnqueueFails(s)
  <2>1. PICK r \in IF sweep[s].pc = "mark" THEN {sweep[s].row} ELSE sweep[s].rows :
          /\ early' = early \cup {r}
          /\ sweep' = [sweep EXCEPT ![s].pc = "row", ![s].row = Free, ![s].rows = @ \ {r}]
          /\ asked' = asked \ {r}
    BY <1>10 DEF EnqueueFails
  <2>2. r \in Row
    BY <1>0, <2>1 DEF Sweeping, SweepsSound, Sound
  <2>. DEFINE w == [sweep[s] EXCEPT !.pc = "row", !.row = Free, !.rows = @ \ {r}]
  <2>3. w \in Sweeping /\ w.pc = "row" /\ w.batch = sweep[s].batch
    BY <1>0 DEF Sweeping, SweepPc
  <2>4. sweep' = [sweep EXCEPT ![s] = w] /\ sweep[s].batch < MaxBatches
    BY <1>0, <1>10, <2>1 DEF EnqueueFails, SweepsSound, Sound, LateSteps, SweepsTyped
  <2>5. SweepsTyped' /\ SweepsSound'
    BY <1>0, <2>1, <2>3, <2>4, SweepReplaced DEF Sound, LateSteps
  <2>. QED
    BY <1>10, <2>1, <2>2, <2>5 DEF EnqueueFails, RowsTyped, QueueTyped, LeaseTyped
<1>11. CASE AfterBatch(s)
  <2>1. SweepsTyped' /\ SweepsSound'
    BY <1>0, <1>11, NextBatchTyped DEF AfterBatch, LateSteps
  <2>. QED
    BY <1>11, <2>1 DEF AfterBatch, RowsTyped, QueueTyped, LeaseTyped
<1>12. CASE Rescan(s)
  <2>1. SweepsTyped' /\ SweepsSound'
    BY <1>0, <1>12, NextBatchTyped DEF Rescan, LateSteps
  <2>2. LeaseTyped'
    BY <1>12 DEF Rescan, LeaseTyped
  <2>. QED
    BY <1>12, <2>1, <2>2 DEF Rescan, RowsTyped, QueueTyped
<1>13. CASE Release(s)
  <2>1. SweepsTyped' /\ SweepsSound'
    BY <1>0, <1>13, SweepGoes, SweepEnds DEF LateSteps, Release, SweepPc
  <2>2. LeaseTyped'
    BY <1>13 DEF Release, Released, LeaseTyped
  <2>. QED
    BY <1>13, <2>1, <2>2 DEF Release, RowsTyped, QueueTyped
<1>14. CASE Remaining(s)
  <2>1. asked' \subseteq Row
    BY <1>0, <1>14 DEF Remaining
  <2>2. SweepsTyped' /\ SweepsSound'
    BY <1>14, <2>1, SweepGoes DEF LateSteps, Remaining, SweepPc
  <2>. QED
    BY <1>14, <2>2 DEF Remaining, RowsTyped, QueueTyped, LeaseTyped
<1>15. CASE LastRelease(s)
  <2>1. SweepsTyped' /\ SweepsSound'
    BY <1>0, <1>15, SweepGoes, SweepEnds DEF LateSteps, LastRelease, SweepPc
  <2>2. LeaseTyped'
    BY <1>15 DEF LastRelease, Released, LeaseTyped
  <2>. QED
    BY <1>15, <2>1, <2>2 DEF LastRelease, RowsTyped, QueueTyped
<1>16. CASE SendContinuation(s) \/ Lost(s) \/ SweepFails(s)
  <2>1. SweepsTyped' /\ SweepsSound'
    BY <1>0, <1>16, SweepGoes DEF LateSteps, SendContinuation, Lost, SweepFails, SweepPc
  <2>. QED
    BY <1>16, <2>1
    DEF SendContinuation, Lost, SweepFails, RetryContinuation, RowsTyped, QueueTyped, LeaseTyped
<1>17. CASE Final(s) \/ SweepDies(s)
  <2>1. SweepsTyped' /\ SweepsSound'
    BY <1>0, <1>17, SweepEnds DEF Final, SweepDies
  <2>2. QueueTyped'
    <3>1. queue' = queue /\ (again' = again \/ again' = again + 1)
      BY <1>17 DEF Final, SweepDies, RetryContinuation
    <3>. QED
      BY <3>1 DEF QueueTyped
  <2>3. LeaseTyped'
    <3>1. lease' = lease \/ lease' = Released
      BY <1>17 DEF Final, SweepDies
    <3>. QED
      BY <3>1 DEF Released, LeaseTyped
  <2>. QED
    BY <1>17, <2>1, <2>2, <2>3 DEF Final, SweepDies, RowsTyped
<1>. QED
  BY <1>1, <1>2, <1>3, <1>4, <1>6, <1>7, <1>8, <1>9, <1>10, <1>11, <1>12, <1>13, <1>14, <1>15,
     <1>16, <1>17
  DEF SweepStep

-----------------------------------------------------------------------------
(* The consumers.                                                          *)

\* A consumer that acknowledges its message, or gives it back.
Leaves(c) == Ack(c) \/ Retry(c, "ready") \/ Retry(c, "later")

\* A message that goes back, or is given up.
LEMMA RetryTyped ==
  ASSUME QueueTyped, NEW c \in Consumer, consumer[c].row \in Row,
         NEW when \in {"ready", "later"}, Retry(c, when), again' = again
  PROVE QueueTyped'
<1>. DEFINE r == consumer[c].row
            n == queue[r][when] + 1
            k == queue[r].retries + 1
<1>1. queue[r] \in Messages /\ MaxRetries \in Nat /\ again \in Nat
  BY ConstantsAssumption DEF QueueTyped
<1>2. n \in Nat
  BY <1>1 DEF Messages
<1>3. CASE queue' = queue
  BY <1>3 DEF QueueTyped
<1>4. CASE queue' = [queue EXCEPT ![r][when] = n]
  BY <1>1, <1>2, <1>4, MessagesCounted
<1>5. CASE queue[r].retries < MaxRetries /\ queue' = [queue EXCEPT ![r][when] = n, ![r].retries = k]
  <2>1. k \in 0 .. MaxRetries
    BY <1>1, <1>5 DEF Messages
  <2>. DEFINE m == [queue[r] EXCEPT ![when] = n, !.retries = k]
  <2>. HIDE DEF n, k
  <2>2. m \in Messages
    BY <1>1, <1>2, <2>1 DEF Messages
  <2>3. queue' = [queue EXCEPT ![r] = m]
    BY <1>1, <1>5 DEF QueueTyped, Messages
  <2>. HIDE DEF m
  <2>. QED
    BY <2>2, <2>3 DEF QueueTyped
<1>. QED
  BY <1>3, <1>4, <1>5 DEF Retry

LEMMA ConsumerReplaced ==
  ASSUME ConsumersTyped, RowsKnown, NEW c \in Consumer, NEW w \in Consuming,
         consumer' = [consumer EXCEPT ![c] = w], usurped' \subseteq Consumer, Known(w)
  PROVE ConsumersTyped' /\ RowsKnown'
  BY DEF ConsumersTyped, RowsKnown

\* A consumer that goes on to another place with what it has.
LEMMA ConsumerGoes ==
  ASSUME ConsumersTyped, RowsKnown, NEW c \in Consumer, NEW pc \in ConsumerPc,
         GoConsumer(c, pc), usurped' \subseteq Consumer, consumer[c].row \in Row,
         pc \in {"claim", "look", "send", "finish"} => consumer[c].row \in Notice,
         pc \in {"publish", "mark"} => consumer[c].attempt < MaxAttempts
  PROVE ConsumersTyped' /\ RowsKnown'
<1>. DEFINE w == [consumer[c] EXCEPT !.pc = pc]
<1>1. consumer[c] \in Consuming
  BY DEF ConsumersTyped
<1>2. w \in Consuming /\ w.pc = pc /\ w.row = consumer[c].row /\ w.attempt = consumer[c].attempt
  BY <1>1 DEF Consuming
<1>3. consumer' = [consumer EXCEPT ![c] = w]
  BY <1>1 DEF GoConsumer, ConsumersTyped
<1>4. Known(w)
  BY <1>2 DEF Known
<1>. HIDE DEF w
<1>. QED
  BY <1>2, <1>3, <1>4, ConsumerReplaced

\* A consumer that is done with its message, or gives it back.
LEMMA ConsumerLeaves ==
  ASSUME ConsumersTyped, RowsKnown, QueueTyped, NEW c \in Consumer, Leaves(c),
         consumer[c].pc # "idle", again' = again
  PROVE ConsumersTyped' /\ RowsKnown' /\ QueueTyped'
<1>1. consumer' = [consumer EXCEPT ![c] = NoMessage] /\ usurped' = usurped \ {c}
  BY DEF Leaves, Ack, Retry
<1>2. Known(NoMessage)
  BY DEF Known, NoMessage
<1>3. ConsumersTyped' /\ RowsKnown'
  <2>1. usurped' \subseteq Consumer
    BY <1>1 DEF ConsumersTyped
  <2>. QED
    BY <1>1, <1>2, <2>1, NoMessageTyped, ConsumerReplaced
<1>4. QueueTyped'
  <2>1. CASE Ack(c)
    BY <2>1 DEF Ack, QueueTyped
  <2>2. consumer[c].row \in Row
    BY DEF RowsKnown, Known
  <2>. QED
    BY <2>1, <2>2, RetryTyped DEF Leaves
<1>. QED
  BY <1>3, <1>4

\* The consumers leave the lease and the sweeps alone.
LEMMA SweepsKept ==
  ASSUME SweepInv, RowsTyped', QueueTyped', lease' = lease, sweep' = sweep, asked' \subseteq asked
  PROVE SweepInv'
<1>1. LeaseTyped' /\ SweepsTyped' /\ SweepsSound'
  BY DEF SweepInv, LeaseTyped, SweepsTyped, SweepsSound
<1>. QED
  BY <1>1 DEF SweepInv

\* What the steps of a consumer that leaves write besides.
LEMMA LeavingSteps ==
  ASSUME SweepInv, ConsumerInv, NEW c \in Consumer, consumer[c].pc # "idle",
         Leaves(c), UNCHANGED <<early, again, lease, sweep>>,
         RowsTyped', asked' \subseteq asked, DeliveryTyped', HookTyped'
  PROVE SweepInv' /\ ConsumerInv'
<1>1. ConsumersTyped' /\ RowsKnown' /\ QueueTyped'
  BY ConsumerLeaves DEF SweepInv, ConsumerInv
<1>2. SweepInv'
  BY <1>1, SweepsKept
<1>. QED
  BY <1>1, <1>2 DEF ConsumerInv

\* What the steps of a consumer that goes on write besides.
LEMMA GoingSteps ==
  ASSUME SweepInv, ConsumersTyped', RowsKnown', RowsTyped', QueueTyped', lease' = lease,
         sweep' = sweep, asked' \subseteq asked, DeliveryTyped', HookTyped'
  PROVE SweepInv' /\ ConsumerInv'
  BY SweepsKept DEF ConsumerInv

LEMMA ConsumerSteps ==
  ASSUME SweepInv, ConsumerInv, NEW c \in Consumer,
         Take(c) \/ Consume(c) \/ FinishFails(c) \/ PublishFails(c) \/ ConsumerFails(c)
  PROVE SweepInv' /\ ConsumerInv'
<1>. DEFINE w == consumer[c]
<1>0. w \in Consuming /\ Known(w) /\ MaxAttempts \in Nat
  BY ConstantsAssumption DEF ConsumerInv, ConsumersTyped, RowsKnown
<1>u. usurped \subseteq Consumer
  BY DEF ConsumerInv, ConsumersTyped
<1>r. ASSUME outbox' = outbox, early' = early PROVE RowsTyped'
  BY <1>r DEF SweepInv, RowsTyped
<1>q. ASSUME queue' = queue, again' = again PROVE QueueTyped'
  BY <1>q DEF SweepInv, QueueTyped
<1>d. ASSUME delivery' = delivery PROVE DeliveryTyped'
  BY <1>d DEF ConsumerInv, DeliveryTyped
<1>h. ASSUME hook' = hook PROVE HookTyped'
  BY <1>h DEF ConsumerInv, HookTyped
<1>1. CASE Take(c)
  <2>1. PICK r \in Row :
          /\ queue[r].ready > 0 /\ queue' = [queue EXCEPT ![r].ready = @ - 1]
          /\ consumer' = [consumer EXCEPT ![c] = [NoMessage EXCEPT !.pc = "read", !.row = r]]
    BY <1>1 DEF Take
  <2>2. queue[r].ready - 1 \in Nat
    BY <2>1 DEF SweepInv, QueueTyped, Messages
  <2>3. QueueTyped'
    <3>1. queue' = [queue EXCEPT ![r]["ready"] = queue[r].ready - 1]
      BY <2>1
    <3>2. QueueTyped /\ again' \in Nat
      BY <1>1 DEF Take, SweepInv, QueueTyped
    <3>. QED
      BY <2>2, <3>1, <3>2, MessagesCounted
  <2>. DEFINE v == [NoMessage EXCEPT !.pc = "read", !.row = r]
  <2>4. v \in Consuming /\ Known(v)
    BY NoMessageTyped DEF Consuming, ConsumerPc, Known
  <2>. HIDE DEF v
  <2>5. consumer' = [consumer EXCEPT ![c] = v]
    BY <2>1 DEF v
  <2>6. ConsumersTyped' /\ RowsKnown'
    BY <1>1, <1>u, <2>4, <2>5, ConsumerReplaced DEF Take, ConsumerInv
  <2>. QED
    BY <1>1, <1>r, <1>d, <1>h, <2>3, <2>6, GoingSteps DEF Take, sweeping
<1>2. CASE Read(c)
  <2>1. CASE Leaves(c)
    BY <1>2, <2>1, <1>r, <1>d, <1>h, LeavingSteps DEF Read, sweeping
  <2>2. CASE w.row \in Notice /\ GoConsumer(c, "claim") /\ UNCHANGED <<queue, usurped>>
    <3>1. ConsumersTyped' /\ RowsKnown'
      BY <1>u, <2>2, ConsumerGoes DEF ConsumerInv, ConsumerPc, Row
    <3>. QED
      BY <1>2, <2>2, <3>1, <1>r, <1>q, <1>d, <1>h, GoingSteps DEF Read, sweeping
  <2>3. CASE /\ w.row \notin Notice /\ hook.status = "pending" /\ UNCHANGED <<queue, usurped>>
             /\ consumer' = [consumer EXCEPT ![c].pc = "post", ![c].attempt = hook.attempts + 1]
    <3>1. w.row \in 1 .. MaxAttempts
      BY <1>0, <1>2, <2>3 DEF Read, Known, Row
    <3>2. hook.attempts \in 0 .. MaxAttempts /\ hook.attempts < MaxAttempts
      BY <1>0, <2>3, <3>1 DEF ConsumerInv, HookTyped
    <3>. DEFINE a == hook.attempts + 1
                v == [w EXCEPT !.pc = "post", !.attempt = a]
    <3>3. a \in 0 .. MaxAttempts
      BY <1>0, <3>2
    <3>4. consumer' = [consumer EXCEPT ![c] = v]
      BY <2>3 DEF ConsumerInv, ConsumersTyped
    <3>. HIDE DEF a
    <3>5. v \in Consuming /\ v.pc = "post" /\ v.row = w.row
      BY <1>0, <3>3 DEF Consuming, ConsumerPc
    <3>6. Known(v)
      BY <1>0, <1>2, <3>5 DEF Known, Read
    <3>. HIDE DEF v
    <3>7. ConsumersTyped' /\ RowsKnown'
      BY <1>u, <2>3, <3>4, <3>5, <3>6, ConsumerReplaced DEF ConsumerInv
    <3>. QED
      BY <1>2, <2>3, <3>7, <1>r, <1>q, <1>d, <1>h, GoingSteps DEF Read, sweeping
  <2>. QED
    BY <1>2, <2>1, <2>2, <2>3 DEF Read, Leaves
<1>3. CASE ClaimDelivery(c)
  <2>1. w.row \in Notice /\ w.row \in Row
    BY <1>0, <1>3 DEF ClaimDelivery, Known, Row
  <2>2. usurped' \subseteq Consumer
    BY <1>u, <1>3 DEF ClaimDelivery, Sending
  <2>3. GoConsumer(c, "send") \/ GoConsumer(c, "look")
    BY <1>3 DEF ClaimDelivery
  <2>4. ConsumersTyped' /\ RowsKnown'
    BY <2>1, <2>2, <2>3, ConsumerGoes DEF ConsumerInv, ConsumerPc
  <2>5. DeliveryTyped'
    <3>. DEFINE d == [status |-> "pending", token |-> c, stale |-> FALSE]
    <3>1. d \in Delivering
      BY DEF Delivering
    <3>2. delivery' = delivery \/ delivery' = [delivery EXCEPT ![w.row] = d]
      BY <1>3 DEF ClaimDelivery
    <3>. HIDE DEF d
    <3>. QED
      BY <2>1, <3>1, <3>2 DEF ConsumerInv, DeliveryTyped
  <2>. QED
    BY <1>3, <2>4, <2>5, <1>r, <1>q, <1>h, GoingSteps DEF ClaimDelivery, sweeping
<1>4. CASE Look(c)
  <2>1. Leaves(c)
    BY <1>4 DEF Look, Leaves
  <2>. QED
    BY <1>4, <2>1, <1>r, <1>d, <1>h, LeavingSteps DEF Look, sweeping
<1>5. CASE SendNotice(c) \/ FinishFails(c) \/ Post(c)
  <2>1. PICK pc \in {"finish", "write"}, o \in {"sent", "refused", "threw"} :
          /\ consumer' = [consumer EXCEPT ![c].pc = pc, ![c].outcome = o]
          /\ pc = "finish" => w.pc \in {"send", "finish"}
    <3>1. CASE SendNotice(c)
      BY <3>1 DEF SendNotice
    <3>2. CASE Post(c)
      BY <3>2 DEF Post
    <3>3. CASE FinishFails(c)
      <4>1. consumer' = [consumer EXCEPT ![c].pc = "finish", ![c].outcome = "threw"]
        BY <3>3 DEF FinishFails, ConsumerInv, ConsumersTyped, Consuming
      <4>. QED
        BY <3>3, <4>1 DEF FinishFails
    <3>. QED
      BY <1>5, <3>1, <3>2, <3>3
  <2>. DEFINE v == [w EXCEPT !.pc = pc, !.outcome = o]
  <2>2. consumer' = [consumer EXCEPT ![c] = v]
    BY <2>1 DEF ConsumerInv, ConsumersTyped
  <2>3. v \in Consuming /\ v.pc = pc /\ v.row = w.row
    BY <1>0 DEF Consuming, ConsumerPc
  <2>4. w.pc # "idle" /\ usurped' = usurped
    BY <1>5 DEF SendNotice, FinishFails, Post
  <2>5. Known(v)
    BY <1>0, <2>1, <2>3, <2>4 DEF Known
  <2>. HIDE DEF v
  <2>6. ConsumersTyped' /\ RowsKnown'
    BY <1>u, <2>2, <2>3, <2>4, <2>5, ConsumerReplaced DEF ConsumerInv
  <2>. QED
    BY <1>5, <2>6, <1>r, <1>q, <1>d, <1>h, GoingSteps DEF SendNotice, FinishFails, Post, sweeping
<1>6. CASE Finish(c)
  <2>1. Leaves(c)
    BY <1>6 DEF Finish, Leaves
  <2>2. w.row \in Notice
    BY <1>0, <1>6 DEF Finish, Known
  <2>3. DeliveryTyped'
    <3>1. PICK o \in {"sent", "failed"} :
            delivery' = delivery \/ delivery' = [delivery EXCEPT ![w.row].status = o]
      BY <1>6 DEF Finish
    <3>2. delivery[w.row] \in Delivering
      BY <2>2 DEF ConsumerInv, DeliveryTyped
    <3>3. [delivery[w.row] EXCEPT !.status = o] \in Delivering
      BY <3>1, <3>2 DEF Delivering
    <3>. QED
      BY <2>2, <3>1, <3>3 DEF ConsumerInv, DeliveryTyped
  <2>. QED
    BY <1>6, <2>1, <2>3, <1>r, <1>h, LeavingSteps DEF Finish, sweeping
<1>7. CASE Refuse(c) \/ WriteOutcome(c)
  <2>1. Ack(c)
    BY <1>7 DEF Refuse, WriteOutcome
  <2>2. HookTyped'
    <3>1. w.attempt \in 0 .. MaxAttempts
      BY <1>0 DEF Consuming
    <3>2. \/ hook' = [hook EXCEPT !.status = "suppressed"]
          \/ \E o \in {"sent", "failed"} : hook' = [status |-> o, attempts |-> w.attempt]
      BY <1>7 DEF Refuse, WriteOutcome
    <3>. QED
      BY <3>1, <3>2 DEF ConsumerInv, HookTyped
  <2>. QED
    BY <1>7, <2>1, <2>2, <1>r, <1>d, LeavingSteps DEF Refuse, WriteOutcome, sweeping, Leaves
<1>8. CASE WriteRetry(c)
  <2>1. w.attempt \in 0 .. MaxAttempts /\ w.attempt < MaxAttempts
    BY <1>0, <1>8 DEF WriteRetry, Consuming
  <2>2. w.attempt + 1 \in Row
    BY <1>0, <2>1 DEF Row
  <2>3. RowsTyped'
    BY <1>8, <2>2 DEF WriteRetry, RetryRow, SweepInv, RowsTyped
  <2>4. HookTyped'
    BY <1>8, <2>1 DEF WriteRetry, ConsumerInv, HookTyped
  <2>5. ConsumersTyped' /\ RowsKnown'
    BY <1>0, <1>u, <1>8, <2>1, ConsumerGoes DEF WriteRetry, Known, ConsumerInv, ConsumerPc
  <2>. QED
    BY <1>8, <2>3, <2>4, <2>5, <1>q, <1>d, GoingSteps DEF WriteRetry
<1>9. CASE Publish(c)
  <2>1. w.attempt \in 0 .. MaxAttempts /\ w.attempt < MaxAttempts
    BY <1>0, <1>9 DEF Publish, Known, Consuming
  <2>2. w.attempt + 1 \in Row
    BY <1>0, <2>1 DEF Row
  <2>3. queue[w.attempt + 1].ready + 1 \in Nat
    BY <2>2 DEF SweepInv, QueueTyped, Messages
  <2>4. QueueTyped'
    <3>. DEFINE r == w.attempt + 1
    <3>1. queue' = [queue EXCEPT ![r]["ready"] = queue[r].ready + 1]
      BY <1>9 DEF Publish
    <3>2. QueueTyped /\ again' \in Nat
      BY <1>9 DEF Publish, SweepInv, QueueTyped
    <3>3. r \in Row /\ queue[r].ready + 1 \in Nat
      BY <2>2, <2>3
    <3>. HIDE DEF r
    <3>. QED
      BY <3>1, <3>2, <3>3, MessagesCounted
  <2>5. ConsumersTyped' /\ RowsKnown'
    BY <1>0, <1>u, <1>9, <2>1, ConsumerGoes DEF Publish, Known, ConsumerInv, ConsumerPc
  <2>. QED
    BY <1>9, <2>4, <2>5, <1>r, <1>d, <1>h, GoingSteps DEF Publish, sweeping
<1>10. CASE MarkPublished(c)
  <2>1. RowsTyped'
    BY <1>10 DEF MarkPublished, SweepInv, RowsTyped
  <2>. QED
    BY <1>10, <2>1, <1>d, <1>h, LeavingSteps DEF MarkPublished, Leaves
<1>11. CASE PublishFails(c) \/ ConsumerFails(c)
  <2>1. w.pc # "idle" /\ Leaves(c)
    BY <1>11 DEF PublishFails, ConsumerFails, Leaves
  <2>. QED
    BY <1>11, <2>1, <1>r, <1>d, <1>h, LeavingSteps DEF PublishFails, ConsumerFails, sweeping
<1>. QED
  BY <1>1, <1>2, <1>3, <1>4, <1>5, <1>6, <1>7, <1>8, <1>9, <1>10, <1>11 DEF Consume

-----------------------------------------------------------------------------
(* What is written by neither.                                             *)

SweepActs(s) ==
  SweepStep(s) \/ Call(s) \/ Continue(s) \/ EnqueueFails(s) \/ SweepFails(s) \/ SweepDies(s)

ConsumerActs(c) ==
  Take(c) \/ Consume(c) \/ FinishFails(c) \/ PublishFails(c) \/ ConsumerFails(c)

\* Who acts in a step.
LEMMA NextCases ==
  ASSUME Next
  PROVE \/ LeaseRunsOut
        \/ \E r \in Row : Announce(r) \/ ComesDue(r) \/ DelayEnds(r)
        \/ \E n \in Notice : ClaimGoesStale(n)
        \/ \E s \in Sweep : SweepActs(s)
        \/ \E c \in Consumer : ConsumerActs(c)
  BY DEF Next, SweepActs, ConsumerActs

\* A sweep writes nothing of the consumers.
LEMMA SweepsLeaveConsumers ==
  ASSUME NEW s, SweepActs(s)
  PROVE consuming' = consuming
  BY DEF SweepActs, SweepStep, Call, Continue, Claim, Ask, RenewBeforeBatch, RenewBeforeRow,
         RenewAfterBatch, RenewBeforeContinuation, Renew, Select, Send, Mark, EnqueueFails,
         AfterBatch, Release, Rescan, Remaining, LastRelease, SendContinuation, Lost, Final,
         SweepFails, SweepDies

\* What costs a mishap has one left.
LEMMA MishapsCount ==
  ASSUME MishapsTyped, Next
  PROVE MishapsTyped'
<1>1. (mishaps' = mishaps) \/ Mishap
  <2>1. CASE LeaseRunsOut \/ (\E r \in Row : Announce(r) \/ ComesDue(r) \/ DelayEnds(r))
               \/ (\E n \in Notice : ClaimGoesStale(n))
    BY <2>1 DEF LeaseRunsOut, Announce, ComesDue, DelayEnds, ClaimGoesStale, Fine
  <2>2. CASE \E s \in Sweep : SweepActs(s)
    BY <2>2
    DEF SweepActs, SweepStep, Call, Continue, Claim, Ask, RenewBeforeBatch, RenewBeforeRow,
        RenewAfterBatch, RenewBeforeContinuation, Renew, Select, Send, Mark, EnqueueFails,
        AfterBatch, Release, Rescan, Remaining, LastRelease, SendContinuation, Lost, Final,
        SweepFails, SweepDies
  <2>3. CASE \E c \in Consumer : ConsumerActs(c)
    BY <2>3
    DEF ConsumerActs, Take, Consume, Read, ClaimDelivery, Look, SendNotice, Finish, FinishFails,
        Refuse, Post, WriteOutcome, WriteRetry, Publish, MarkPublished, PublishFails,
        ConsumerFails, Fine
  <2>. QED
    BY <2>1, <2>2, <2>3, NextCases
<1>2. MaxMishaps \in Nat
  BY ConstantsAssumption
<1>. QED
  BY <1>1, <1>2 DEF Mishap, MishapsTyped

LEMMA TypeStep == TypeInv /\ [Next]_vars => TypeInv'
<1>. SUFFICES ASSUME TypeInv, [Next]_vars PROVE TypeInv'
  OBVIOUS
<1>. USE DEF TypeInv
<1>1. CASE LeaseRunsOut
  <2>1. LeaseTyped'
    BY <1>1 DEF LeaseRunsOut, SweepInv, LeaseTyped
  <2>2. SweepInv'
    BY <1>1, <2>1
    DEF LeaseRunsOut, SweepInv, RowsTyped, QueueTyped, SweepsTyped, SweepsSound
  <2>3. ConsumerInv'
    BY <1>1
    DEF LeaseRunsOut, consuming, ConsumerInv, DeliveryTyped, HookTyped, ConsumersTyped, RowsKnown
  <2>. QED
    BY <1>1, <2>2, <2>3, MishapsCount DEF Next
<1>2. ASSUME NEW r \in Row, Announce(r) \/ ComesDue(r) \/ DelayEnds(r) PROVE TypeInv'
  <2>1. RowsTyped'
    BY <1>2 DEF Announce, ComesDue, DelayEnds, SweepInv, RowsTyped
  <2>q. QueueTyped'
    <3>1. CASE Announce(r) \/ ComesDue(r)
      BY <3>1 DEF Announce, ComesDue, SweepInv, QueueTyped
    <3>2. CASE DelayEnds(r)
      <4>1. queue \in [Row -> Messages] /\ again' = again /\ again \in Nat
        BY <3>2 DEF DelayEnds, SweepInv, QueueTyped
      <4>. DEFINE n == queue[r].ready + queue[r].later
                  m == [queue[r] EXCEPT !.ready = n, !.later = 0]
      <4>2. n \in Nat
        BY <4>1 DEF Messages
      <4>3. queue' = [queue EXCEPT ![r].ready = n, ![r].later = 0]
        BY <3>2 DEF DelayEnds
      <4>. HIDE DEF n
      <4>4. m \in Messages
        BY <4>1, <4>2 DEF Messages
      <4>5. queue' = [queue EXCEPT ![r] = m]
        BY <4>1, <4>3 DEF Messages
      <4>. HIDE DEF m
      <4>. QED
        BY <4>1, <4>4, <4>5 DEF QueueTyped
    <3>. QED
      BY <1>2, <3>1, <3>2
  <2>2. SweepInv'
    BY <1>2, <2>1, <2>q
    DEF Announce, ComesDue, DelayEnds, sweeping, SweepInv, LeaseTyped, SweepsTyped, SweepsSound
  <2>3. ConsumerInv'
    BY <1>2
    DEF Announce, ComesDue, DelayEnds, consuming, ConsumerInv, DeliveryTyped, HookTyped,
        ConsumersTyped, RowsKnown
  <2>. QED
    BY <1>2, <2>2, <2>3, MishapsCount DEF Next
<1>3. ASSUME NEW n \in Notice, ClaimGoesStale(n) PROVE TypeInv'
  <2>1. DeliveryTyped'
    <3>1. [delivery[n] EXCEPT !.stale = TRUE] \in Delivering
      BY DEF ConsumerInv, DeliveryTyped, Delivering
    <3>. QED
      BY <1>3, <3>1 DEF ClaimGoesStale, ConsumerInv, DeliveryTyped
  <2>2. ConsumerInv'
    BY <1>3, <2>1 DEF ClaimGoesStale, ConsumerInv, HookTyped, ConsumersTyped, RowsKnown
  <2>3. SweepInv'
    BY <1>3
    DEF ClaimGoesStale, sweeping, SweepInv, RowsTyped, QueueTyped, LeaseTyped, SweepsTyped,
        SweepsSound
  <2>. QED
    BY <1>3, <2>2, <2>3, MishapsCount DEF Next
<1>4. ASSUME NEW s \in Sweep, SweepActs(s) PROVE TypeInv'
  <2>1. SweepInv'
    BY <1>4, SweepSteps DEF SweepActs
  <2>2. ConsumerInv'
    BY <1>4, SweepsLeaveConsumers
    DEF consuming, ConsumerInv, DeliveryTyped, HookTyped, ConsumersTyped, RowsKnown
  <2>3. Next
    BY <1>4 DEF SweepActs, Next
  <2>. QED
    BY <2>1, <2>2, <2>3, MishapsCount
<1>5. ASSUME NEW c \in Consumer, ConsumerActs(c) PROVE TypeInv'
  <2>1. SweepInv' /\ ConsumerInv'
    BY <1>5, ConsumerSteps DEF ConsumerActs
  <2>2. Next
    BY <1>5 DEF ConsumerActs, Next
  <2>. QED
    BY <2>1, <2>2, MishapsCount
<1>6. CASE UNCHANGED vars
  <2>1. SweepInv'
    BY <1>6
    DEF vars, sweeping, SweepInv, RowsTyped, QueueTyped, LeaseTyped, SweepsTyped, SweepsSound
  <2>2. ConsumerInv'
    BY <1>6
    DEF vars, consuming, ConsumerInv, DeliveryTyped, HookTyped, ConsumersTyped, RowsKnown
  <2>. QED
    BY <1>6, <2>1, <2>2 DEF vars, MishapsTyped
<1>. QED
  BY <1>1, <1>2, <1>3, <1>4, <1>5, <1>6, NextCases

\* Rows, messages, sweeps, claims and deliveries are typed in every reachable state,
\* however many invocations run at a time.
THEOREM OutboxTypeCorrect == Spec => []TypeOK
<1>1. TypeInv /\ [Next]_vars => TypeInv'
  BY TypeStep
<1>. QED
  BY <1>1, InitTyped, PartsAreType, PTL DEF Spec

LEMMA TypeAlways == Spec => []TypeInv
<1>1. TypeInv /\ [Next]_vars => TypeInv'
  BY TypeStep
<1>. QED
  BY <1>1, InitTyped, PTL DEF Spec

-----------------------------------------------------------------------------
(* A claim is settled by its holder (claimDelivery and                     *)
(* finishClaimedDelivery of notifications.ts).                             *)

\* Whoever has not been taken over still has its claim, if the claims are as they were
\* and nobody began to send.
LEMMA ClaimsUntouched ==
  ASSUME HolderKeepsClaim, \A n \in Notice : delivery'[n].status = delivery[n].status
                                           /\ delivery'[n].token = delivery[n].token,
         \A n \in Notice : (Sending(n) \ usurped)' \subseteq Sending(n) \ usurped
  PROVE HolderKeepsClaim'
  BY DEF HolderKeepsClaim

\* A consumer that leaves sends no more, and is forgotten as one taken over.
LEMMA LeavingSendsNoMore ==
  ASSUME TypeInv, NEW c \in Consumer, Leaves(c), NEW n \in Notice
  PROVE (Sending(n) \ usurped)' \subseteq (Sending(n) \ usurped) \ {c}
<1>1. consumer' = [consumer EXCEPT ![c] = NoMessage] /\ usurped' = usurped \ {c}
  BY DEF Leaves, Ack, Retry
<1>2. consumer'[c].pc = "idle" /\ \A d \in Consumer \ {c} : consumer'[d] = consumer[d]
  BY <1>1, NoMessageTyped DEF TypeInv, ConsumerInv, ConsumersTyped
<1>. QED
  BY <1>1, <1>2 DEF Sending

\* One that goes on, to another place than sending or from sending to its end, begins
\* nothing.
LEMMA GoingSendsNoMore ==
  ASSUME TypeInv, NEW c \in Consumer, usurped' = usurped,
         \A d \in Consumer \ {c} : consumer'[d] = consumer[d],
         consumer'[c].pc \in {"send", "finish"} =>
           consumer[c].pc \in {"send", "finish"} /\ consumer'[c].row = consumer[c].row,
         NEW n \in Notice
  PROVE (Sending(n) \ usurped)' \subseteq Sending(n) \ usurped
  BY DEF Sending

LEMMA ClaimStep == TypeInv /\ HolderKeepsClaim /\ [Next]_vars => HolderKeepsClaim'
<1>. SUFFICES ASSUME TypeInv, HolderKeepsClaim, [Next]_vars PROVE HolderKeepsClaim'
  OBVIOUS
<1>0. consumer \in [Consumer -> Consuming] /\ delivery \in [Notice -> Delivering]
  BY DEF TypeInv, ConsumerInv, ConsumersTyped, DeliveryTyped
<1>1. ASSUME UNCHANGED <<delivery, consumer, usurped>> PROVE HolderKeepsClaim'
  BY <1>1 DEF HolderKeepsClaim, Sending
<1>2. CASE LeaseRunsOut \/ (\E r \in Row : Announce(r) \/ ComesDue(r) \/ DelayEnds(r))
             \/ UNCHANGED vars
  BY <1>1, <1>2 DEF LeaseRunsOut, Announce, ComesDue, DelayEnds, vars, consuming
<1>3. ASSUME NEW s \in Sweep, SweepActs(s) PROVE HolderKeepsClaim'
  BY <1>1, <1>3, SweepsLeaveConsumers DEF consuming
<1>4. ASSUME NEW m \in Notice, ClaimGoesStale(m) PROVE HolderKeepsClaim'
  <2>1. \A n \in Notice : delivery'[n].status = delivery[n].status
                         /\ delivery'[n].token = delivery[n].token
    BY <1>0, <1>4 DEF ClaimGoesStale, Delivering
  <2>. QED
    BY <1>4, <2>1, ClaimsUntouched DEF ClaimGoesStale, Sending
<1>5. ASSUME NEW c \in Consumer, ConsumerActs(c) PROVE HolderKeepsClaim'
  <2>1. CASE delivery' = delivery /\ Leaves(c)
    <3>1. \A n \in Notice : (Sending(n) \ usurped)' \subseteq Sending(n) \ usurped
      BY <2>1, LeavingSendsNoMore
    <3>. QED
      BY <2>1, <3>1, ClaimsUntouched
  <2>2. ASSUME delivery' = delivery, usurped' = usurped,
               \A d \in Consumer \ {c} : consumer'[d] = consumer[d],
               consumer'[c].pc \in {"send", "finish"} =>
                 consumer[c].pc \in {"send", "finish"} /\ consumer'[c].row = consumer[c].row
        PROVE HolderKeepsClaim'
    <3>1. \A n \in Notice : (Sending(n) \ usurped)' \subseteq Sending(n) \ usurped
      BY <2>2, GoingSendsNoMore
    <3>. QED
      BY <2>2, <3>1, ClaimsUntouched
  <2>3. CASE Take(c)
    <3>1. PICK r \in Row :
            consumer' = [consumer EXCEPT ![c] = [NoMessage EXCEPT !.pc = "read", !.row = r]]
      BY <2>3 DEF Take
    <3>2. consumer'[c].pc = "read" /\ \A d \in Consumer \ {c} : consumer'[d] = consumer[d]
      BY <1>0, <3>1 DEF NoMessage
    <3>. QED
      BY <2>2, <2>3, <3>2 DEF Take
  <2>4. CASE Read(c)
    <3>1. CASE GoConsumer(c, "claim") /\ UNCHANGED <<queue, usurped>>
      BY <1>0, <2>2, <2>4, <3>1 DEF GoConsumer, Read, Consuming
    <3>2. CASE /\ consumer' = [consumer EXCEPT ![c].pc = "post", ![c].attempt = hook.attempts + 1]
               /\ UNCHANGED <<queue, usurped>>
      <4>. DEFINE a == hook.attempts + 1
      <4>1. consumer' = [consumer EXCEPT ![c].pc = "post", ![c].attempt = a]
        BY <3>2
      <4>. HIDE DEF a
      <4>2. consumer'[c].pc = "post" /\ \A d \in Consumer \ {c} : consumer'[d] = consumer[d]
        BY <1>0, <4>1 DEF Consuming
      <4>. QED
        BY <2>2, <2>4, <3>2, <4>2 DEF Read
    <3>. QED
      BY <2>1, <2>4, <3>1, <3>2 DEF Read, Leaves
  <2>5. CASE ClaimDelivery(c)
    <3>. DEFINE m == consumer[c].row
    <3>1. m \in Notice
      BY <2>5 DEF ClaimDelivery, TypeInv, ConsumerInv, RowsKnown, Known
    <3>2. CASE ~Claimable(delivery[m])
      <4>1. GoConsumer(c, "look") /\ UNCHANGED <<delivery, usurped>>
        BY <2>5, <3>2 DEF ClaimDelivery
      <4>. QED
        BY <1>0, <2>2, <4>1 DEF GoConsumer, Consuming
    <3>3. CASE Claimable(delivery[m])
      <4>1. /\ delivery' = [delivery EXCEPT ![m] = [status |-> "pending", token |-> c,
                                                    stale |-> FALSE]]
            /\ usurped' = IF delivery[m].status = "pending"
                          THEN usurped \cup ({delivery[m].token} \cap Sending(m)) ELSE usurped
            /\ GoConsumer(c, "send")
        BY <2>5, <3>3 DEF ClaimDelivery
      <4>2. \A d \in Consumer \ {c} : consumer'[d] = consumer[d]
        BY <1>0, <4>1 DEF GoConsumer
      <4>3. ASSUME NEW n \in Notice, NEW d \in (Sending(n) \ usurped)'
            PROVE (delivery[n].status = "pending" /\ delivery[n].token = d)'
        <5>1. CASE d = c
          <6>1. consumer'[c].row = m
            BY <1>0, <4>1 DEF GoConsumer, Consuming
          <6>2. n = m
            BY <4>3, <5>1, <6>1 DEF Sending
          <6>. QED
            BY <1>0, <3>1, <4>1, <5>1, <6>2
        <5>2. CASE d # c
          <6>1. d \in Sending(n) \ usurped
            BY <4>1, <4>2, <4>3, <5>2 DEF Sending
          <6>2. delivery[n].status = "pending" /\ delivery[n].token = d
            BY <6>1 DEF HolderKeepsClaim
          <6>3. n # m
            BY <4>1, <4>3, <6>1, <6>2
          <6>. QED
            BY <1>0, <4>1, <6>2, <6>3
        <5>. QED
          BY <5>1, <5>2
      <4>. QED
        BY <4>3 DEF HolderKeepsClaim
    <3>. QED
      BY <3>2, <3>3
  <2>6. CASE SendNotice(c) \/ FinishFails(c)
    <3>1. consumer[c].pc \in {"send", "finish"} /\ UNCHANGED <<delivery, usurped>>
      BY <2>6 DEF SendNotice, FinishFails
    <3>2. /\ \A d \in Consumer \ {c} : consumer'[d] = consumer[d]
          /\ consumer'[c].row = consumer[c].row
      BY <1>0, <2>6 DEF SendNotice, FinishFails, Consuming
    <3>. QED
      BY <2>2, <3>1, <3>2
  <2>7. CASE Finish(c)
    <3>. DEFINE m == consumer[c].row
    <3>1. Leaves(c)
      BY <2>7 DEF Finish, Leaves
    <3>2. \A n \in Notice : n # m => delivery'[n] = delivery[n]
      BY <1>0, <2>7 DEF Finish
    <3>3. Settles(c, delivery[m]) \/ delivery' = delivery
      BY <2>7 DEF Finish
    <3>4. ASSUME NEW n \in Notice, NEW d \in (Sending(n) \ usurped)'
          PROVE (delivery[n].status = "pending" /\ delivery[n].token = d)'
      <4>1. d \in Sending(n) \ usurped /\ d # c
        BY <3>1, <3>4, LeavingSendsNoMore
      <4>2. delivery[n].status = "pending" /\ delivery[n].token = d
        BY <4>1 DEF HolderKeepsClaim
      <4>3. delivery'[n] = delivery[n]
        BY <3>2, <3>3, <4>1, <4>2 DEF Settles
      <4>. QED
        BY <4>2, <4>3
    <3>. QED
      BY <3>4 DEF HolderKeepsClaim
  <2>8. CASE Look(c) \/ Refuse(c) \/ WriteOutcome(c) \/ MarkPublished(c) \/ PublishFails(c)
               \/ ConsumerFails(c)
    BY <2>1, <2>8 DEF Look, Refuse, WriteOutcome, MarkPublished, PublishFails, ConsumerFails, Leaves
  <2>9. CASE Post(c) \/ WriteRetry(c) \/ Publish(c)
    <3>1. UNCHANGED <<delivery, usurped>>
      BY <2>9 DEF Post, WriteRetry, Publish
    <3>2. /\ \A d \in Consumer \ {c} : consumer'[d] = consumer[d]
          /\ consumer'[c].pc \in {"write", "publish", "mark"}
      BY <1>0, <2>9 DEF Post, WriteRetry, Publish, GoConsumer, Consuming
    <3>. QED
      BY <2>2, <3>1, <3>2
  <2>. QED
    BY <1>5, <2>3, <2>4, <2>5, <2>6, <2>7, <2>8, <2>9 DEF ConsumerActs, Consume
<1>. QED
  BY <1>2, <1>3, <1>4, <1>5, NextCases

\* Whatever goes stale, fails or comes again, a consumer that is sending holds its claim
\* unless another one took it over: nobody settles a claim of somebody else.
THEOREM ClaimIsKept == Spec => []HolderKeepsClaim
<1>1. Init => HolderKeepsClaim
  BY DEF Init, HolderKeepsClaim, Sending, NoMessage
<1>2. TypeInv /\ HolderKeepsClaim /\ [Next]_vars => HolderKeepsClaim'
  BY ClaimStep
<1>. QED
  BY <1>1, <1>2, TypeAlways, PTL DEF Spec

-----------------------------------------------------------------------------
(* Who asks the holder of the lease to look again is heard                 *)
(* (releaseIfIdle and the rescan of sweepOutbox).                          *)

\* What a caller was sent away with is due until a batch reads it or it is put off.
AskedIsDue == asked \subseteq Due

\* A holder that found nobody asking, while somebody's row is due, is not about to
\* end: it is neither at its release nor in its last batch, the one that is not full.
Unheard(w) ==
  w.pc \in {"release", "lastRelease"} \/ (w.pc \in {"row", "send", "mark"} /\ ~w.full)

RescanHeard ==
  \A s \in Sweep : lease.token = s /\ ~lease.rescan /\ asked # {} => ~Unheard(sweep[s])

LEMMA DueStep == TypeInv /\ AskedIsDue /\ [Next]_vars => AskedIsDue'
<1>. SUFFICES ASSUME TypeInv, AskedIsDue, [Next]_vars PROVE AskedIsDue'
  OBVIOUS
<1>0. outbox \in [Row -> {"absent", "waiting", "enqueued"}]
  BY DEF TypeInv, SweepInv, RowsTyped
<1>1. ASSUME outbox' = outbox, early' \subseteq early, asked' \subseteq asked \cup Due
      PROVE AskedIsDue'
  BY <1>1 DEF AskedIsDue, Due
<1>2. ASSUME NEW r, early' \subseteq early \cup {r}, asked' = asked \ {r},
             outbox' = outbox \/ \E v : outbox' = [outbox EXCEPT ![r] = v]
      PROVE AskedIsDue'
  BY <1>0, <1>2 DEF AskedIsDue, Due
<1>3. CASE LeaseRunsOut \/ (\E n \in Notice : ClaimGoesStale(n))
             \/ (\E r \in Row : ComesDue(r) \/ DelayEnds(r))
             \/ UNCHANGED vars
  BY <1>1, <1>3 DEF LeaseRunsOut, ClaimGoesStale, ComesDue, DelayEnds, vars, sweeping
<1>4. CASE \E r \in Row : Announce(r)
  BY <1>0, <1>4 DEF Announce, sweeping, AskedIsDue, Due
<1>5. ASSUME NEW s \in Sweep, SweepActs(s) PROVE AskedIsDue'
  <2>1. CASE Mark(s)
    BY <1>2, <2>1 DEF Mark
  <2>2. CASE EnqueueFails(s)
    BY <1>2, <2>2 DEF EnqueueFails
  <2>3. CASE Ask(s) \/ Select(s) \/ Remaining(s)
    BY <1>1, <2>3 DEF Ask, Select, Remaining
  <2>4. CASE SweepStep(s) /\ ~Mark(s) /\ ~Ask(s) /\ ~Select(s) /\ ~Remaining(s)
    BY <1>1, <2>4
    DEF SweepStep, Claim, RenewBeforeBatch, RenewBeforeRow, RenewAfterBatch,
        RenewBeforeContinuation, Renew, Send, AfterBatch, Release, Rescan, LastRelease,
        SendContinuation, Lost, Final
  <2>5. CASE Call(s) \/ Continue(s) \/ SweepFails(s) \/ SweepDies(s)
    BY <1>1, <2>5 DEF Call, Continue, SweepFails, SweepDies
  <2>. QED
    BY <1>5, <2>1, <2>2, <2>3, <2>4, <2>5 DEF SweepActs, SweepStep
<1>6. ASSUME NEW c \in Consumer, ConsumerActs(c) PROVE AskedIsDue'
  <2>1. CASE WriteRetry(c)
    BY <1>2, <2>1 DEF WriteRetry, RetryRow
  <2>2. CASE MarkPublished(c)
    BY <1>2, <2>2 DEF MarkPublished
  <2>3. CASE UNCHANGED <<outbox, early, sweeping>>
    BY <1>1, <2>3 DEF sweeping
  <2>. QED
    BY <1>6, <2>1, <2>2, <2>3
    DEF ConsumerActs, Take, Consume, Read, ClaimDelivery, Look, SendNotice, Finish, FinishFails,
        Refuse, Post, WriteOutcome, Publish, PublishFails, ConsumerFails
<1>. QED
  BY <1>3, <1>4, <1>5, <1>6, NextCases

\* What anybody else does leaves a holder heard.
LEMMA HeardUntouched ==
  ASSUME RescanHeard, lease'.token = lease.token, lease.rescan => lease'.rescan,
         asked' \subseteq asked \/ lease'.rescan, sweep' = sweep
  PROVE RescanHeard'
  BY DEF RescanHeard

\* A sweep that does not take the lease and goes nowhere near its end leaves it heard too.
LEMMA HeardAfter ==
  ASSUME TypeInv, RescanHeard, NEW s \in Sweep, NEW w, sweep' = [sweep EXCEPT ![s] = w],
         Unheard(w) => Unheard(sweep[s]) \/ asked' = {},
         lease'.token = lease.token \/ lease'.token = Free,
         lease.rescan /\ lease'.token = lease.token => lease'.rescan,
         asked' \subseteq asked
  PROVE RescanHeard'
<1>1. sweep'[s] = w /\ \A t \in Sweep \ {s} : sweep'[t] = sweep[t]
  BY DEF TypeInv, SweepInv, SweepsTyped
<1>2. Free \notin Sweep
  BY ConstantsAssumption
<1>. QED
  BY <1>1, <1>2 DEF RescanHeard

LEMMA HeardStep == TypeInv /\ AskedIsDue /\ RescanHeard /\ [Next]_vars => RescanHeard'
<1>. SUFFICES ASSUME TypeInv, AskedIsDue, RescanHeard, [Next]_vars PROVE RescanHeard'
  OBVIOUS
<1>0. /\ sweep \in [Sweep -> Sweeping]
      /\ lease \in [token : Sweep \cup {Free}, out : BOOLEAN, rescan : BOOLEAN]
  BY DEF TypeInv, SweepInv, SweepsTyped, LeaseTyped
<1>1. CASE LeaseRunsOut \/ (\E n \in Notice : ClaimGoesStale(n)) \/ UNCHANGED vars
             \/ (\E r \in Row : Announce(r) \/ ComesDue(r) \/ DelayEnds(r))
  <2>1. lease'.token = lease.token /\ lease'.rescan = lease.rescan
    BY <1>0, <1>1 DEF LeaseRunsOut, ClaimGoesStale, Announce, ComesDue, DelayEnds, vars, sweeping
  <2>2. sweep' = sweep /\ asked' = asked
    BY <1>1 DEF LeaseRunsOut, ClaimGoesStale, Announce, ComesDue, DelayEnds, vars, sweeping
  <2>. QED
    BY <2>1, <2>2, HeardUntouched
<1>2. ASSUME NEW c \in Consumer, ConsumerActs(c) PROVE RescanHeard'
  <2>1. lease' = lease /\ sweep' = sweep /\ asked' \subseteq asked
    BY <1>2
    DEF ConsumerActs, Take, Consume, Read, ClaimDelivery, Look, SendNotice, Finish, FinishFails,
        Refuse, Post, WriteOutcome, WriteRetry, Publish, MarkPublished, PublishFails,
        ConsumerFails, sweeping
  <2>. QED
    BY <2>1, HeardUntouched
<1>3. ASSUME NEW s \in Sweep, SweepActs(s) PROVE RescanHeard'
  <2>0. sweep[s] \in Sweeping
    BY <1>0
  <2>1. ASSUME NEW pc, GoSweep(s, pc), pc \notin {"row", "send", "mark"},
               pc \in {"release", "lastRelease"} => Unheard(sweep[s]) \/ asked' = {},
               lease' = lease, asked' \subseteq asked
        PROVE RescanHeard'
    <3>. DEFINE w == [sweep[s] EXCEPT !.pc = pc]
    <3>1. w.pc = pc /\ sweep' = [sweep EXCEPT ![s] = w]
      BY <1>0, <2>1 DEF GoSweep, Sweeping
    <3>2. Unheard(w) => Unheard(sweep[s]) \/ asked' = {}
      BY <2>1, <3>1 DEF Unheard
    <3>. HIDE DEF w
    <3>. QED
      BY <2>1, <3>1, <3>2, HeardAfter
  <2>2. ASSUME sweep' = [sweep EXCEPT ![s] = NoSweep], lease' = lease \/ lease' = Released,
               asked' \subseteq asked
        PROVE RescanHeard'
    <3>1. ~Unheard(NoSweep)
      BY DEF Unheard, NoSweep
    <3>2. \/ lease'.token = lease.token /\ lease'.rescan = lease.rescan
          \/ lease'.token = Free /\ lease'.rescan = lease.rescan
      BY <1>0, <2>2 DEF Released
    <3>. QED
      BY <2>2, <3>1, <3>2, HeardAfter
  <2>3. CASE Claim(s)
    <3>1. CASE ~Held
      <4>1. lease'.token = s /\ GoSweep(s, "batch")
        BY <2>3, <3>1 DEF Claim
      <4>2. sweep'[s].pc = "batch"
        BY <1>0, <4>1 DEF GoSweep, Sweeping
      <4>. QED
        BY <4>1, <4>2 DEF RescanHeard, Unheard
    <3>2. CASE Held
      BY <2>1, <2>2, <2>3, <3>2 DEF Claim
    <3>. QED
      BY <3>1, <3>2
  <2>4. CASE Ask(s)
    <3>1. CASE Held
      <4>1. lease'.rescan
        BY <1>0, <2>4, <3>1 DEF Ask
      <4>. QED
        BY <4>1 DEF RescanHeard
    <3>2. CASE ~Held /\ sweep' = [sweep EXCEPT ![s] = NoSweep]
      BY <2>2, <2>4, <3>2 DEF Ask
    <3>3. CASE ~Held /\ sweep' = [sweep EXCEPT ![s].pc = "claim", ![s].tries = 1]
      <4>. DEFINE w == [sweep[s] EXCEPT !.pc = "claim", !.tries = 1]
      <4>1. w.pc = "claim" /\ sweep' = [sweep EXCEPT ![s] = w]
        BY <1>0, <3>3 DEF Sweeping
      <4>2. ~Unheard(w)
        BY <4>1 DEF Unheard
      <4>. HIDE DEF w
      <4>. QED
        BY <2>4, <3>3, <4>1, <4>2, HeardAfter DEF Ask
    <3>. QED
      BY <2>4, <3>1, <3>2, <3>3 DEF Ask
  <2>5. CASE RenewBeforeBatch(s) \/ RenewBeforeContinuation(s) \/ SendContinuation(s) \/ Lost(s)
               \/ Call(s) \/ SweepFails(s)
    BY <2>1, <2>5
    DEF RenewBeforeBatch, RenewBeforeContinuation, Renew, SendContinuation, Lost, Call, GoSweep,
        SweepFails
  <2>6. CASE RenewBeforeRow(s)
    <3>1. CASE GoSweep(s, "lost")
      BY <2>1, <2>6, <3>1 DEF RenewBeforeRow, Renew
    <3>2. CASE GoSweep(s, "send")
      <4>. DEFINE w == [sweep[s] EXCEPT !.pc = "send"]
      <4>1. w.pc = "send" /\ w.full = sweep[s].full /\ sweep' = [sweep EXCEPT ![s] = w]
        BY <1>0, <3>2 DEF GoSweep, Sweeping
      <4>2. Unheard(w) => Unheard(sweep[s])
        BY <2>6, <4>1 DEF Unheard, RenewBeforeRow, Renew
      <4>. HIDE DEF w
      <4>. QED
        BY <2>6, <4>1, <4>2, HeardAfter DEF RenewBeforeRow, Renew
    <3>. QED
      BY <2>6, <3>1, <3>2 DEF RenewBeforeRow, Renew
  <2>7. CASE RenewAfterBatch(s)
    <3>1. \/ GoSweep(s, "lost") \/ GoSweep(s, "after")
          \/ GoSweep(s, "release") /\ Unheard(sweep[s])
      BY <2>7 DEF RenewAfterBatch, Renew, Unheard
    <3>. QED
      BY <2>1, <2>7, <3>1 DEF RenewAfterBatch, Renew
  <2>8. CASE Select(s)
    <3>1. PICK rs \in SUBSET Due :
            /\ Cardinality(rs) = BatchSize \/ (rs = Due /\ Cardinality(Due) < BatchSize)
            /\ sweep' = [sweep EXCEPT ![s].pc = "row", ![s].rows = rs,
                                      ![s].full = Cardinality(rs) = BatchSize]
            /\ asked' = asked \ rs
      BY <2>8 DEF Select
    <3>. DEFINE b == Cardinality(rs) = BatchSize
                w == [sweep[s] EXCEPT !.pc = "row", !.rows = rs, !.full = b]
    <3>2. b \/ asked' = {}
      BY <3>1 DEF AskedIsDue
    <3>3. sweep' = [sweep EXCEPT ![s] = w] /\ w.pc = "row" /\ w.full = b
      <4>1. sweep' = [sweep EXCEPT ![s].pc = "row", ![s].rows = rs, ![s].full = b]
        BY <3>1
      <4>2. b \in BOOLEAN
        OBVIOUS
      <4>. HIDE DEF b
      <4>. QED
        BY <1>0, <4>1, <4>2 DEF Sweeping
    <3>. HIDE DEF b, w
    <3>4. Unheard(w) => asked' = {}
      BY <3>2, <3>3 DEF Unheard
    <3>. QED
      BY <2>8, <3>1, <3>3, <3>4, HeardAfter DEF Select
  <2>9. CASE Send(s)
    <3>1. PICK r \in sweep[s].rows :
            sweep' = [sweep EXCEPT ![s].pc = "mark", ![s].row = r, ![s].rows = @ \ {r}]
      BY <2>9 DEF Send
    <3>. DEFINE w == [sweep[s] EXCEPT !.pc = "mark", !.row = r, !.rows = @ \ {r}]
    <3>2. w.pc = "mark" /\ w.full = sweep[s].full /\ sweep' = [sweep EXCEPT ![s] = w]
      BY <1>0, <3>1 DEF Sweeping
    <3>3. Unheard(w) => Unheard(sweep[s])
      BY <2>9, <3>2 DEF Unheard, Send
    <3>. HIDE DEF w
    <3>. QED
      BY <2>9, <3>2, <3>3, HeardAfter DEF Send
  <2>10. CASE Mark(s)
    <3>. DEFINE w == [sweep[s] EXCEPT !.pc = "row", !.row = Free]
    <3>1. w.pc = "row" /\ w.full = sweep[s].full /\ sweep' = [sweep EXCEPT ![s] = w]
      BY <1>0, <2>10 DEF Mark, Sweeping
    <3>2. Unheard(w) => Unheard(sweep[s])
      BY <2>10, <3>1 DEF Unheard, Mark
    <3>. HIDE DEF w
    <3>. QED
      BY <2>10, <3>1, <3>2, HeardAfter DEF Mark
  <2>11. CASE EnqueueFails(s)
    <3>1. PICK r :
            /\ sweep' = [sweep EXCEPT ![s].pc = "row", ![s].row = Free, ![s].rows = @ \ {r}]
            /\ asked' = asked \ {r}
      BY <2>11 DEF EnqueueFails
    <3>. DEFINE w == [sweep[s] EXCEPT !.pc = "row", !.row = Free, !.rows = @ \ {r}]
    <3>2. w.pc = "row" /\ w.full = sweep[s].full /\ sweep' = [sweep EXCEPT ![s] = w]
      BY <1>0, <3>1 DEF Sweeping
    <3>3. Unheard(w) => Unheard(sweep[s])
      BY <2>11, <3>2 DEF Unheard, EnqueueFails
    <3>. HIDE DEF w
    <3>. QED
      BY <2>11, <3>1, <3>2, <3>3, HeardAfter DEF EnqueueFails
  <2>12. CASE AfterBatch(s) \/ Rescan(s)
    <3>1. sweep' = [sweep EXCEPT ![s].pc = NextBatch(s), ![s].batch = @ + 1] /\ asked' = asked
      BY <2>12 DEF AfterBatch, Rescan
    <3>2. \A t \in Sweep \ {s} : sweep'[t] = sweep[t]
      BY <1>0, <3>1
    <3>3. ~Unheard(sweep'[s])
      <4>. DEFINE b == sweep[s].batch + 1
      <4>1. sweep' = [sweep EXCEPT ![s].pc = NextBatch(s), ![s].batch = b]
        BY <3>1
      <4>. HIDE DEF b
      <4>2. sweep'[s].pc = NextBatch(s)
        BY <1>0, <4>1 DEF Sweeping
      <4>. QED
        BY <4>2, NextBatchIsBatch DEF Unheard
    <3>4. lease'.token = lease.token /\ (lease.token # s => lease' = lease)
      BY <1>0, <2>12 DEF AfterBatch, Rescan
    <3>. QED
      BY <3>1, <3>2, <3>3, <3>4 DEF RescanHeard
  <2>13. CASE Release(s) \/ LastRelease(s)
    <3>1. \/ lease' = Released /\ sweep' = [sweep EXCEPT ![s] = NoSweep]
          \/ lease' = lease /\ (GoSweep(s, "rescan") \/ GoSweep(s, "capped"))
      BY <2>13 DEF Release, LastRelease
    <3>2. asked' \subseteq asked
      BY <2>13 DEF Release, LastRelease
    <3>. QED
      BY <2>1, <2>2, <3>1, <3>2
  <2>14. CASE Remaining(s)
    <3>1. \/ GoSweep(s, "lastRelease") /\ asked' = {}
          \/ GoSweep(s, "capped") /\ asked' = asked
      BY <2>14 DEF Remaining
    <3>. QED
      BY <2>1, <2>14, <3>1 DEF Remaining
  <2>15. CASE Final(s) \/ SweepDies(s)
    BY <2>2, <2>15 DEF Final, SweepDies
  <2>16. CASE Continue(s)
    <3>. DEFINE w == [sweep[s] EXCEPT !.pc = "claim", !.continuation = TRUE]
    <3>1. w.pc = "claim" /\ sweep' = [sweep EXCEPT ![s] = w]
      BY <1>0, <2>16 DEF Continue, Sweeping
    <3>2. ~Unheard(w)
      BY <3>1 DEF Unheard
    <3>. HIDE DEF w
    <3>. QED
      BY <2>16, <3>1, <3>2, HeardAfter DEF Continue
  <2>. QED
    BY <1>3, <2>3, <2>4, <2>5, <2>6, <2>7, <2>8, <2>9, <2>10, <2>11, <2>12, <2>13, <2>14, <2>15,
       <2>16
    DEF SweepActs, SweepStep
<1>. QED
  BY <1>1, <1>2, <1>3, NextCases

\* The lease is given up as idle by nobody but its holder, which asked first.
LEMMA IdleEnds ==
  ASSUME TypeInv, RescanHeard, [Next]_vars, NEW s \in Sweep,
         sweep[s].pc \in {"release", "lastRelease"}, lease.token = s, lease'.token = Free
  PROVE asked = {}
<1>0. /\ lease \in [token : Sweep \cup {Free}, out : BOOLEAN, rescan : BOOLEAN]
      /\ Free \notin Sweep
  BY ConstantsAssumption DEF TypeInv, SweepInv, LeaseTyped
<1>1. lease' # lease
  BY <1>0
<1>2. ~LeaseRunsOut
  BY <1>0 DEF LeaseRunsOut
<1>3. ~UNCHANGED vars /\ ~(\E r \in Row : Announce(r) \/ ComesDue(r) \/ DelayEnds(r))
        /\ ~(\E n \in Notice : ClaimGoesStale(n))
  BY <1>1 DEF vars, sweeping, Announce, ComesDue, DelayEnds, ClaimGoesStale
<1>4. ASSUME NEW c \in Consumer, ConsumerActs(c) PROVE FALSE
  BY <1>1, <1>4
  DEF ConsumerActs, Take, Consume, Read, ClaimDelivery, Look, SendNotice, Finish, FinishFails,
      Refuse, Post, WriteOutcome, WriteRetry, Publish, MarkPublished, PublishFails,
      ConsumerFails, sweeping
<1>5. ASSUME NEW t \in Sweep, SweepActs(t) PROVE asked = {}
  <2>1. CASE Claim(t)
    <3>1. lease' = lease \/ lease'.token = t
      BY <2>1 DEF Claim
    <3>. QED
      BY <1>0, <1>1, <3>1
  <2>2. CASE Ask(t) \/ Rescan(t)
    BY <1>0, <2>2 DEF Ask, Rescan
  <2>3. CASE Release(t) \/ LastRelease(t)
    <3>1. lease.token = t /\ ~lease.rescan
      BY <1>1, <2>3 DEF Release, LastRelease, Idle
    <3>. QED
      BY <3>1 DEF RescanHeard, Unheard
  <2>4. CASE Final(t)
    <3>1. t = s
      BY <1>1, <2>4 DEF Final
    <3>. QED
      BY <2>4, <3>1 DEF Final
  <2>. QED
    BY <1>1, <1>5, <2>1, <2>2, <2>3, <2>4
    DEF SweepActs, SweepStep, Call, Continue, RenewBeforeBatch, RenewBeforeRow, RenewAfterBatch,
        RenewBeforeContinuation, Renew, Select, Send, Mark, EnqueueFails, AfterBatch, Remaining,
        SendContinuation, Lost, SweepFails, SweepDies
<1>. QED
  BY <1>2, <1>3, <1>4, <1>5, NextCases

\* A caller that found the lease taken and was sent away is heard: no holder ends as
\* idle while a row such a caller left is due, whoever held the lease in between.
THEOREM RescansAreHeard == Spec => RescanNotLost
<1>1. Init => AskedIsDue /\ RescanHeard
  BY DEF Init, AskedIsDue, RescanHeard
<1>2. TypeInv /\ AskedIsDue /\ RescanHeard /\ [Next]_vars => AskedIsDue' /\ RescanHeard'
  BY DueStep, HeardStep
<1>3. TypeInv /\ RescanHeard /\ [Next]_vars =>
        [\A s \in Sweep : sweep[s].pc \in {"release", "lastRelease"} /\ lease.token = s
                            /\ lease'.token = Free => asked = {}]_vars
  BY IdleEnds
<1>. QED
  BY <1>1, <1>2, <1>3, TypeAlways, PTL DEF Spec, RescanNotLost
=============================================================================
