--------------------------- MODULE OutboxDelivery ---------------------------
(***************************************************************************)
(* The outbox: sweepOutbox of src/src/worker/jobs.ts, the delivery queue,  *)
(* and two of its consumers, deliverNotification of notifications.ts with  *)
(* one channel of its recipient, and deliverWebhook of webhooks.ts.        *)
(*                                                                         *)
(* A row is inserted by the statements that have something to announce;    *)
(* whoever inserted it calls a sweep afterwards, and so does the cron      *)
(* trigger.  One sweep at a time holds the lease of outbox_sweep_state and *)
(* sends a message for each row that is due; a caller that finds the lease *)
(* taken asks its holder to look again.  Messages are delivered at least   *)
(* once, in any order.  Each statement of D1 and each send is a step.      *)
(*                                                                         *)
(* The queue takes a message back max_retries times, whatever the retry is *)
(* for, and after that it may give the message up.  Retries are counted    *)
(* for all the messages of a row together, so it may do so too early here. *)
(***************************************************************************)
EXTENDS Integers, FiniteSets

CONSTANTS
  Notice,      \* rows of the outbox that announce a notification
  Sweep,       \* invocations of sweepOutbox
  Consumer,    \* invocations of the queue handler
  Free,        \* the lease and the claim that nobody holds
  BatchSize,   \* OUTBOX_SWEEP_BATCH_SIZE
  MaxBatches,  \* OUTBOX_SWEEP_MAX_BATCHES
  MaxRetries,  \* max_retries of the queue
  MaxAttempts, \* RETRY_DELAYS.length: attempts of the webhook delivery; 0 if there is none
  MaxMishaps   \* bound: crashes, failed calls, leases and claims that run out

ASSUME ConstantsAssumption ==
  /\ Free \notin Notice \cup Sweep \cup Consumer
  /\ {BatchSize, MaxBatches} \subseteq Nat \ {0}
  /\ {MaxRetries, MaxAttempts, MaxMishaps} \subseteq Nat

VARIABLES
  outbox,     \* the rows: absent, waiting (enqueued_at is NULL) or enqueued
  early,      \* rows whose available_at is to come
  queue,      \* for each row the messages that are ready, those whose delay
              \* is not over, and the retries so far
  again,      \* messages that continue a sweep
  lease,      \* outbox_sweep_state: token, whether it ran out, rescan_requested
  sweep,      \* invocations of sweepOutbox
  asked,      \* history: due rows whose caller was told that the sweep goes on,
              \* not read by a batch since
  delivery,   \* the row of `deliveries' for the channel of each notification
  hook,       \* the row of webhook_deliveries
  consumer,   \* invocations of consumeDeliveryMessage
  usurped,    \* history: consumers whose claim another one took over
  mishaps

sweeping == <<lease, sweep, asked>>
consuming == <<delivery, hook, consumer, usurped>>
vars == <<outbox, early, queue, again, sweeping, consuming, mishaps>>

-----------------------------------------------------------------------------
SweepPc == {"idle", "claim", "ask", "batch", "select", "row", "send", "mark", "after",
            "release", "rescan", "remaining", "lastRelease", "capped", "continue",
            "lost", "final"}

ConsumerPc == {"idle", "read", "claim", "look", "send", "finish", "post", "write",
               "publish", "mark"}

\* The rows of a webhook delivery are the numbers of its attempts: two rows that
\* were inserted for one attempt are one here, whose message goes out once more.
Row == Notice \cup (1 .. MaxAttempts)

TypeOK ==
  /\ outbox \in [Row -> {"absent", "waiting", "enqueued"}] /\ early \subseteq Row
  /\ queue \in [Row -> [ready : Nat, later : Nat, retries : 0 .. MaxRetries]] /\ again \in Nat
  /\ lease \in [token : Sweep \cup {Free}, out : BOOLEAN, rescan : BOOLEAN]
  /\ sweep \in [Sweep -> [pc : SweepPc, continuation : BOOLEAN, tries : 0 .. 2,
                          batch : 0 .. MaxBatches, rows : SUBSET Row, full : BOOLEAN,
                          row : Row \cup {Free}]]
  /\ asked \subseteq Row
  /\ delivery \in [Notice -> [status : {"none", "pending", "sent", "failed"},
                              token : Consumer \cup {Free}, stale : BOOLEAN]]
  /\ hook \in [status : {"pending", "sent", "failed", "suppressed"}, attempts : 0 .. MaxAttempts]
  /\ consumer \in [Consumer -> [pc : ConsumerPc, row : Row \cup {Free},
                                attempt : 0 .. MaxAttempts,
                                outcome : {"none", "sent", "refused", "threw"}]]
  /\ usurped \subseteq Consumer /\ mishaps \in 0 .. MaxMishaps

NoSweep == [pc |-> "idle", continuation |-> FALSE, tries |-> 0, batch |-> 0, rows |-> {},
            full |-> FALSE, row |-> Free]

NoMessage == [pc |-> "idle", row |-> Free, attempt |-> 0, outcome |-> "none"]

Init ==
  /\ outbox = [r \in Row |-> "absent"] /\ early = {} /\ again = 0
  /\ queue = [r \in Row |-> [ready |-> 0, later |-> 0, retries |-> 0]]
  /\ lease = [token |-> Free, out |-> FALSE, rescan |-> FALSE]
  /\ sweep = [s \in Sweep |-> NoSweep] /\ asked = {}
  /\ delivery = [n \in Notice |-> [status |-> "none", token |-> Free, stale |-> FALSE]]
  /\ hook = [status |-> "pending", attempts |-> 0]
  /\ consumer = [c \in Consumer |-> NoMessage]
  /\ usurped = {} /\ mishaps = 0

Mishap == mishaps < MaxMishaps /\ mishaps' = mishaps + 1

Fine == mishaps' = mishaps

GoSweep(s, pc) == sweep' = [sweep EXCEPT ![s].pc = pc]

GoConsumer(c, pc) == consumer' = [consumer EXCEPT ![c].pc = pc]

Due == {r \in Row : outbox[r] = "waiting"} \ early

\* The lease is held, and not past lease_until.
Held == lease.token # Free /\ ~lease.out

Holds(s) == lease.token = s /\ ~lease.out

Released == [lease EXCEPT !.token = Free, !.out = FALSE]

\* Consumers that claimed the channel of a notification and have not settled it.
Sending(n) == {c \in Consumer : consumer[c].row = n /\ consumer[c].pc \in {"send", "finish"}}

-----------------------------------------------------------------------------
(* Producers.                                                              *)

\* The batch that inserts a notification, or an event's delivery, with its row.
Announce(r) ==
  /\ r \in Notice \cup {1} /\ outbox[r] = "absent"
  /\ outbox' = [outbox EXCEPT ![r] = "waiting"]
  /\ UNCHANGED <<early, queue, again, sweeping, consuming, mishaps>>

\* available_at has come.
ComesDue(r) ==
  /\ r \in early /\ early' = early \ {r}
  /\ UNCHANGED <<outbox, queue, again, sweeping, consuming, mishaps>>

\* A message that is put back with a delay waits for available_at, or for sixty
\* seconds, after which the claim it met has gone stale if nobody settled it.
DelayEnds(r) ==
  /\ queue[r].later > 0 /\ r \notin early
  /\ r \in Notice => delivery[r].status # "pending" \/ delivery[r].stale
  /\ queue' = [queue EXCEPT ![r].ready = @ + queue[r].later, ![r].later = 0]
  /\ UNCHANGED <<outbox, early, again, sweeping, consuming, mishaps>>

\* A caller, or the cron trigger ...
Call(s) ==
  /\ sweep[s].pc = "idle" /\ Due # {}
  /\ sweep' = [sweep EXCEPT ![s].pc = "claim"]
  /\ UNCHANGED <<outbox, early, queue, again, lease, asked, consuming, mishaps>>

\* ... or the queue, with a message that continues a sweep.
Continue(s) ==
  /\ sweep[s].pc = "idle" /\ again > 0 /\ again' = again - 1
  /\ sweep' = [sweep EXCEPT ![s].pc = "claim", ![s].continuation = TRUE]
  /\ UNCHANGED <<outbox, early, queue, lease, asked, consuming, mishaps>>

-----------------------------------------------------------------------------
(* sweepOutbox                                                             *)

\* The message of a continued sweep goes back, or the queue gives it up.
RetryContinuation == again' \in {again, again + 1}

Claim(s) ==
  /\ sweep[s].pc = "claim"
  /\ IF ~Held
     THEN /\ lease' = [token |-> s, out |-> FALSE, rescan |-> FALSE]
          /\ GoSweep(s, "batch") /\ again' = again
     ELSE /\ lease' = lease
          /\ IF sweep[s].continuation
             THEN sweep' = [sweep EXCEPT ![s] = NoSweep] /\ RetryContinuation
             ELSE GoSweep(s, "ask") /\ again' = again
  /\ UNCHANGED <<outbox, early, queue, asked, consuming, mishaps>>

\* The holder is asked to look again.  If there is no holder any more the caller
\* tries to be it, once; then it leaves the rest to a message.
Ask(s) ==
  /\ sweep[s].pc = "ask"
  /\ IF Held
     THEN /\ lease' = [lease EXCEPT !.rescan = TRUE]
          /\ asked' = asked \cup Due
          /\ sweep' = [sweep EXCEPT ![s] = NoSweep] /\ again' = again
     ELSE /\ UNCHANGED <<lease, asked>>
          /\ IF sweep[s].tries = 0
             THEN /\ sweep' = [sweep EXCEPT ![s].pc = "claim", ![s].tries = 1]
                  /\ again' = again
             ELSE sweep' = [sweep EXCEPT ![s] = NoSweep] /\ again' = again + 1
  /\ UNCHANGED <<outbox, early, queue, consuming, mishaps>>

\* renewLease: a holder whose lease ran out or was taken stops, and a message, its
\* own if it came with one, continues the sweep.
Renew(s, here, next) ==
  /\ sweep[s].pc = here
  /\ GoSweep(s, IF Holds(s) THEN next ELSE "lost")
  /\ UNCHANGED <<outbox, early, queue, again, lease, asked, consuming, mishaps>>

RenewBeforeBatch(s) == Renew(s, "batch", "select")
RenewBeforeRow(s) == sweep[s].rows # {} /\ Renew(s, "row", "send")
RenewAfterBatch(s) ==
  sweep[s].rows = {} /\ Renew(s, "row", IF sweep[s].full THEN "after" ELSE "release")
RenewBeforeContinuation(s) == Renew(s, "capped", "continue")

Lost(s) ==
  /\ sweep[s].pc = "lost" /\ GoSweep(s, "final")
  /\ again' = again + 1
  /\ UNCHANGED <<outbox, early, queue, lease, asked, consuming, mishaps>>

\* The next rows that are due, as many as a batch takes.
Select(s) ==
  /\ sweep[s].pc = "select"
  /\ \E rs \in SUBSET Due :
       /\ Cardinality(rs) = BatchSize \/ (rs = Due /\ Cardinality(Due) < BatchSize)
       /\ sweep' = [sweep EXCEPT ![s].pc = "row", ![s].rows = rs,
                                 ![s].full = Cardinality(rs) = BatchSize]
       /\ asked' = asked \ rs
  /\ UNCHANGED <<outbox, early, queue, again, lease, consuming, mishaps>>

\* enqueueOutbox: the message first, the mark after it.
Send(s) ==
  /\ sweep[s].pc = "send"
  /\ \E r \in sweep[s].rows :
       /\ queue' = [queue EXCEPT ![r].ready = @ + 1]
       /\ sweep' = [sweep EXCEPT ![s].pc = "mark", ![s].row = r, ![s].rows = @ \ {r}]
  /\ UNCHANGED <<outbox, early, again, lease, asked, consuming, mishaps>>

Mark(s) ==
  /\ sweep[s].pc = "mark"
  /\ outbox' = [outbox EXCEPT ![sweep[s].row] = "enqueued"]
  /\ sweep' = [sweep EXCEPT ![s].pc = "row", ![s].row = Free]
  /\ asked' = asked \ {sweep[s].row}
  /\ UNCHANGED <<early, queue, again, lease, consuming, mishaps>>

\* The send or the mark fails: the row is put off, whether a message went or not.
EnqueueFails(s) ==
  /\ sweep[s].pc \in {"send", "mark"} /\ Mishap
  /\ \E r \in IF sweep[s].pc = "mark" THEN {sweep[s].row} ELSE sweep[s].rows :
       /\ early' = early \cup {r}
       /\ sweep' = [sweep EXCEPT ![s].pc = "row", ![s].row = Free, ![s].rows = @ \ {r}]
       /\ asked' = asked \ {r}
  /\ UNCHANGED <<outbox, queue, again, lease, consuming>>

NextBatch(s) ==
  IF sweep[s].batch + 1 < MaxBatches THEN "batch" ELSE "remaining"

\* A full batch is followed by another.
AfterBatch(s) ==
  /\ sweep[s].pc = "after"
  /\ sweep' = [sweep EXCEPT ![s].pc = NextBatch(s), ![s].batch = @ + 1]
  /\ UNCHANGED <<outbox, early, queue, again, lease, asked, consuming, mishaps>>

\* A fault: the lease is given back whatever was asked.
IdleUnasked(s) == lease.token = s

\* releaseIfIdle: nobody has asked to look again.
Idle(s) == lease.token = s /\ ~lease.rescan

Release(s) ==
  /\ sweep[s].pc = "release"
  /\ IF Idle(s)
     THEN lease' = Released /\ sweep' = [sweep EXCEPT ![s] = NoSweep]
     ELSE lease' = lease /\ GoSweep(s, "rescan")
  /\ UNCHANGED <<outbox, early, queue, again, asked, consuming, mishaps>>

\* Somebody has: the request is taken, and the next batch looks.
Rescan(s) ==
  /\ sweep[s].pc = "rescan"
  /\ lease' = IF lease.token = s THEN [lease EXCEPT !.rescan = FALSE] ELSE lease
  /\ sweep' = [sweep EXCEPT ![s].pc = NextBatch(s), ![s].batch = @ + 1]
  /\ UNCHANGED <<outbox, early, queue, again, asked, consuming, mishaps>>

\* After the last batch: what is left is for a message that continues.
Remaining(s) ==
  /\ sweep[s].pc = "remaining"
  /\ GoSweep(s, IF Due = {} THEN "lastRelease" ELSE "capped")
  /\ asked' = IF Due = {} THEN {} ELSE asked
  /\ UNCHANGED <<outbox, early, queue, again, lease, consuming, mishaps>>

LastRelease(s) ==
  /\ sweep[s].pc = "lastRelease"
  /\ IF Idle(s)
     THEN lease' = Released /\ sweep' = [sweep EXCEPT ![s] = NoSweep]
     ELSE lease' = lease /\ GoSweep(s, "capped")
  /\ UNCHANGED <<outbox, early, queue, again, asked, consuming, mishaps>>

SendContinuation(s) ==
  /\ sweep[s].pc = "continue" /\ again' = again + 1 /\ GoSweep(s, "final")
  /\ UNCHANGED <<outbox, early, queue, lease, asked, consuming, mishaps>>

\* The finally block.
Final(s) ==
  /\ sweep[s].pc = "final"
  /\ lease' = IF lease.token = s THEN Released ELSE lease
  /\ sweep' = [sweep EXCEPT ![s] = NoSweep]
  /\ UNCHANGED <<outbox, early, queue, again, asked, consuming, mishaps>>

\* D1 or the queue refuses a step outside a row: the finally block runs.
SweepFails(s) ==
  /\ sweep[s].pc \in {"batch", "select", "row", "release", "rescan", "remaining",
                     "lastRelease", "capped", "continue", "lost"}
  /\ Mishap /\ GoSweep(s, "final")
  /\ IF sweep[s].continuation THEN RetryContinuation ELSE again' = again
  /\ UNCHANGED <<outbox, early, queue, lease, asked, consuming>>

SweepDies(s) ==
  /\ sweep[s].pc # "idle" /\ Mishap
  /\ sweep' = [sweep EXCEPT ![s] = NoSweep]
  /\ IF sweep[s].continuation THEN RetryContinuation ELSE again' = again
  /\ UNCHANGED <<outbox, early, queue, lease, asked, consuming>>

\* The lease of a sweep that died runs out; that of one at work by mishap.
LeaseRunsOut ==
  /\ Held /\ lease' = [lease EXCEPT !.out = TRUE]
  /\ IF sweep[lease.token].pc \in {"idle", "claim", "ask"} THEN Fine ELSE Mishap
  /\ UNCHANGED <<outbox, early, queue, again, sweep, asked, consuming>>

-----------------------------------------------------------------------------
(* consumeDeliveryMessage                                                  *)

Take(c) ==
  /\ consumer[c].pc = "idle"
  /\ \E r \in Row :
       /\ queue[r].ready > 0 /\ queue' = [queue EXCEPT ![r].ready = @ - 1]
       /\ consumer' = [consumer EXCEPT ![c] = [NoMessage EXCEPT !.pc = "read", !.row = r]]
  /\ UNCHANGED <<outbox, early, again, sweeping, delivery, hook, usurped, mishaps>>

Ack(c) ==
  /\ consumer' = [consumer EXCEPT ![c] = NoMessage] /\ queue' = queue
  /\ usurped' = usurped \ {c}

\* The message goes back, at once or with a delay, unless its retries are used up.
Retry(c, when) ==
  /\ consumer' = [consumer EXCEPT ![c] = NoMessage]
  /\ LET r == consumer[c].row IN
       \/ /\ queue[r].retries < MaxRetries
          /\ queue' = [queue EXCEPT ![r][when] = @ + 1, ![r].retries = @ + 1]
       \/ /\ queue[r].retries = MaxRetries
          /\ queue' = queue \/ queue' = [queue EXCEPT ![r][when] = @ + 1]
  /\ usurped' = usurped \ {c}

\* A message that comes before its row is due goes back.
Read(c) ==
  /\ consumer[c].pc = "read"
  /\ IF consumer[c].row \in early THEN Retry(c, "later")
     ELSE IF consumer[c].row \in Notice
     THEN GoConsumer(c, "claim") /\ UNCHANGED <<queue, usurped>>
     ELSE IF hook.status = "pending"
     THEN /\ consumer' = [consumer EXCEPT ![c].pc = "post", ![c].attempt = hook.attempts + 1]
          /\ UNCHANGED <<queue, usurped>>
     ELSE Ack(c)
  /\ UNCHANGED <<outbox, early, again, sweeping, delivery, hook, mishaps>>

-----------------------------------------------------------------------------
(* deliverNotification, one channel                                        *)

\* A fault: a claim is never taken over.
ClaimableFailed(d) == d.status \in {"none", "failed"}

Claimable(d) == d.status \in {"none", "failed"} \/ (d.status = "pending" /\ d.stale)

\* claimDelivery inserts the row, or takes over one that failed or went stale ...
ClaimDelivery(c) ==
  /\ consumer[c].pc = "claim"
  /\ LET n == consumer[c].row IN
       IF Claimable(delivery[n])
       THEN /\ delivery' = [delivery EXCEPT ![n] = [status |-> "pending", token |-> c,
                                                    stale |-> FALSE]]
            /\ usurped' = IF delivery[n].status = "pending"
                          THEN usurped \cup ({delivery[n].token} \cap Sending(n))
                          ELSE usurped
            /\ GoConsumer(c, "send")
       ELSE UNCHANGED <<delivery, usurped>> /\ GoConsumer(c, "look")
  /\ UNCHANGED <<outbox, early, queue, again, sweeping, hook, mishaps>>

\* ... and looks at what it is otherwise: in progress is for a later delivery of
\* the message, anything else is settled.
Look(c) ==
  /\ consumer[c].pc = "look"
  /\ IF delivery[consumer[c].row].status = "pending" THEN Retry(c, "later") ELSE Ack(c)
  /\ UNCHANGED <<outbox, early, again, sweeping, delivery, hook, mishaps>>

\* The channel takes the message, is not available, or throws.
SendNotice(c) ==
  /\ consumer[c].pc = "send"
  /\ \E o \in {"sent", "refused", "threw"} :
       /\ IF o = "threw" THEN Mishap ELSE Fine
       /\ consumer' = [consumer EXCEPT ![c].pc = "finish", ![c].outcome = o]
  /\ UNCHANGED <<outbox, early, queue, again, sweeping, delivery, hook, usurped>>

\* A fault: whoever is done settles the claim.
SettlesAny(c, d) == d.status = "pending" /\ c \in Consumer

\* finishClaimedDelivery settles the claim of its own token.  The message is
\* acknowledged unless the channel threw, or what follows fails.
Settles(c, d) == d.status = "pending" /\ d.token = c

Finish(c) ==
  /\ consumer[c].pc = "finish"
  /\ LET n == consumer[c].row IN
       delivery' = IF Settles(c, delivery[n])
                   THEN [delivery EXCEPT ![n].status =
                           IF consumer[c].outcome = "sent" THEN "sent" ELSE "failed"]
                   ELSE delivery
  /\ \/ consumer[c].outcome # "threw" /\ Ack(c) /\ Fine
     \/ Retry(c, "ready") /\ IF consumer[c].outcome = "threw" THEN Fine ELSE Mishap
  /\ UNCHANGED <<outbox, early, again, sweeping, hook>>

\* The statement that settles the claim fails: the catch block tries again, and
\* writes a failure.
FinishFails(c) ==
  /\ consumer[c].pc = "finish" /\ consumer[c].outcome # "threw" /\ Mishap
  /\ consumer' = [consumer EXCEPT ![c].outcome = "threw"]
  /\ UNCHANGED <<outbox, early, queue, again, sweeping, delivery, hook, usurped>>

\* Sixty seconds after a claim, whose consumer is gone or, by mishap, still sends.
ClaimGoesStale(n) ==
  /\ delivery[n].status = "pending" /\ ~delivery[n].stale
  /\ delivery' = [delivery EXCEPT ![n].stale = TRUE]
  /\ IF delivery[n].token \in Sending(n) THEN Mishap ELSE Fine
  /\ UNCHANGED <<outbox, early, queue, again, sweeping, hook, consumer, usurped>>

-----------------------------------------------------------------------------
(* deliverWebhook: no claim, and every outcome is written by id.           *)

\* The subscription is gone, or its address is not valid any more.
Refuse(c) ==
  /\ consumer[c].pc = "post"
  /\ \/ hook' = [hook EXCEPT !.status = "suppressed"]
     \/ hook' = [status |-> "failed", attempts |-> consumer[c].attempt]
  /\ Ack(c)
  /\ UNCHANGED <<outbox, early, again, sweeping, delivery, mishaps>>

Post(c) ==
  /\ consumer[c].pc = "post"
  /\ \E o \in {"sent", "refused"} :
       consumer' = [consumer EXCEPT ![c].pc = "write", ![c].outcome = o]
  /\ UNCHANGED <<outbox, early, queue, again, sweeping, delivery, hook, usurped, mishaps>>

WriteOutcome(c) ==
  /\ consumer[c].pc = "write"
  /\ consumer[c].outcome = "sent" \/ consumer[c].attempt = MaxAttempts
  /\ hook' = [status |-> IF consumer[c].outcome = "sent" THEN "sent" ELSE "failed",
              attempts |-> consumer[c].attempt]
  /\ Ack(c)
  /\ UNCHANGED <<outbox, early, again, sweeping, delivery, mishaps>>

\* The attempt and the row of the next one are written together.
RetryRow(r) == outbox' = [outbox EXCEPT ![r] = "waiting"] /\ early' = early \cup {r}

WriteRetry(c) ==
  /\ consumer[c].pc = "write"
  /\ consumer[c].outcome = "refused" /\ consumer[c].attempt < MaxAttempts
  /\ hook' = [hook EXCEPT !.attempts = consumer[c].attempt]
  /\ RetryRow(consumer[c].attempt + 1) /\ asked' = asked \ {consumer[c].attempt + 1}
  /\ GoConsumer(c, "publish")
  /\ UNCHANGED <<queue, again, lease, sweep, delivery, usurped, mishaps>>

\* Its message goes out at once; a consumer will put it back until it is due.
Publish(c) ==
  /\ consumer[c].pc = "publish"
  /\ queue' = [queue EXCEPT ![consumer[c].attempt + 1].ready = @ + 1]
  /\ GoConsumer(c, "mark")
  /\ UNCHANGED <<outbox, early, again, sweeping, delivery, hook, usurped, mishaps>>

MarkPublished(c) ==
  /\ consumer[c].pc = "mark"
  /\ outbox' = [outbox EXCEPT ![consumer[c].attempt + 1] = "enqueued"]
  /\ asked' = asked \ {consumer[c].attempt + 1}
  /\ Ack(c)
  /\ UNCHANGED <<early, again, lease, sweep, delivery, hook, mishaps>>

\* Caught: the row is left to a sweep.
PublishFails(c) ==
  /\ consumer[c].pc \in {"publish", "mark"} /\ Mishap /\ Ack(c)
  /\ UNCHANGED <<outbox, early, again, sweeping, delivery, hook>>

\* A statement of D1 throws, or the invocation dies: the message comes again.
ConsumerFails(c) ==
  /\ consumer[c].pc # "idle" /\ Mishap /\ Retry(c, "ready")
  /\ UNCHANGED <<outbox, early, again, sweeping, delivery, hook>>

-----------------------------------------------------------------------------
SweepStep(s) ==
  \/ Claim(s) \/ Ask(s) \/ RenewBeforeBatch(s) \/ Select(s) \/ RenewBeforeRow(s)
  \/ Send(s) \/ Mark(s) \/ RenewAfterBatch(s) \/ AfterBatch(s) \/ Release(s) \/ Rescan(s)
  \/ Remaining(s) \/ LastRelease(s) \/ RenewBeforeContinuation(s) \/ SendContinuation(s)
  \/ Lost(s) \/ Final(s)

Consume(c) ==
  \/ Read(c) \/ ClaimDelivery(c) \/ Look(c) \/ SendNotice(c) \/ Finish(c)
  \/ Refuse(c) \/ Post(c) \/ WriteOutcome(c) \/ WriteRetry(c) \/ Publish(c) \/ MarkPublished(c)

Next ==
  \/ LeaseRunsOut
  \/ \E r \in Row : Announce(r) \/ ComesDue(r) \/ DelayEnds(r)
  \/ \E n \in Notice : ClaimGoesStale(n)
  \/ \E s \in Sweep : \/ Call(s) \/ Continue(s) \/ SweepStep(s)
                      \/ EnqueueFails(s) \/ SweepFails(s) \/ SweepDies(s)
  \/ \E c \in Consumer : \/ Take(c) \/ Consume(c)
                         \/ FinishFails(c) \/ PublishFails(c) \/ ConsumerFails(c)

Spec == Init /\ [][Next]_vars

\* The cron trigger calls a sweep every fifteen minutes, whatever became of the
\* others; an invocation goes on as far as its awaits let it; the queue delivers;
\* what is put off comes due, delays end, and leases and claims run out.
Fairness ==
  /\ WF_vars(LeaseRunsOut)
  /\ \A r \in Row : WF_vars(ComesDue(r)) /\ WF_vars(DelayEnds(r))
  /\ \A n \in Notice : WF_vars(ClaimGoesStale(n))
  /\ \A s \in Sweep : WF_vars(Call(s)) /\ WF_vars(SweepStep(s))
  /\ \A c \in Consumer : WF_vars(Take(c)) /\ WF_vars(Consume(c))

FairSpec == Spec /\ Fairness

-----------------------------------------------------------------------------
(* Properties.                                                             *)

\* Who asks the holder of the lease to look again is heard: the sweep does not
\* end as idle while a row is due whose caller was sent away, although the lease
\* may have changed hands since, and another caller may ask at any step.
RescanNotLost ==
  [][\A s \in Sweep : sweep[s].pc \in {"release", "lastRelease"} /\ lease.token = s
                        /\ lease'.token = Free => asked = {}]_vars

\* A consumer that is sending has the claim, unless it went stale and another one
\* took it over: whoever is late settles no claim but its own, so a notification
\* goes out a second time only after a failure or a takeover.
HolderKeepsClaim ==
  \A n \in Notice : \A c \in Sending(n) \ usurped :
    delivery[n].status = "pending" /\ delivery[n].token = c

\* What was announced is settled: a notification is sent or has failed, a webhook
\* delivery gets its final status, although sweeps, messages and consumers come
\* and go.
AnnouncedIsSettled ==
  /\ \A n \in Notice : outbox[n] # "absent" ~> delivery[n].status \in {"sent", "failed"}
  /\ MaxAttempts > 0 /\ outbox[1] # "absent" ~> hook.status # "pending"
=============================================================================
