--------------------------- MODULE TableAuthority ---------------------------
(***************************************************************************)
(* The Durable Object that owns one collaborative table                    *)
(* (src/worker/table-authority.ts): its SQLite storage holds the table,    *)
(* the receipts and the events; D1 holds a projection of it that readers   *)
(* query.  A command is committed in one local transaction and projected   *)
(* afterwards, event by event and batch by batch; an owner (or the alarm)  *)
(* rebuilds the projection behind a write fence; permanent deletion stops  *)
(* the object and purges it.                                               *)
(*                                                                         *)
(* Two rows stand for the table.  A row is its last revision, Gone, or     *)
(* (in D1 only, while a repair runs) Bare: present without cells.  Row 2   *)
(* exists from the seed on; a capture creates row 1 and is cancelled when  *)
(* its destination refuses it; a bulk command writes every row present,    *)
(* each row in a batch of its own, and may delete row 2.                   *)
(***************************************************************************)
EXTENDS Integers, Sequences, Functions

CONSTANTS
    Captures,    \* create_row commands sent with cancelRowOnPublicationFailure
    Bulks,       \* bulk commands of update_cells and delete_row
    Request,     \* command requests the object can be serving at a time
    Deleting,    \* whether the page may be deleted permanently
    Fragile,     \* the rows D1 may lose
    MaxAsks,     \* bound on command requests and owner repairs
    MaxMishaps   \* bound on crashes, failing calls, lost rows, changes of destination

ASSUME OperationsAssumption ==
    Captures \intersect Bulks = {} /\ Captures \union Bulks # {}
ASSUME BoundsAssumption == MaxAsks \in Nat /\ MaxMishaps \in Nat /\ Deleting \in BOOLEAN /\ Fragile \subseteq {1, 2}

Op == Captures \union Bulks
Row == {1, 2}
Gone == 0
Bare == -1
Base == 1

VARIABLES
    table,      \* meta.revision and meta.projectedRevision; the rows
    entry,      \* per operation: its receipt, its event and the event's next_step
    intent,     \* meta.repairIntent
    stage,      \* deletionIntent and purged
    alarm,      \* whether an alarm is set
    request,    \* memory: the command requests being served
    projector,  \* memory: this.projecting
    handler,    \* memory: the alarm handler
    repair,     \* memory: this.repairWork
    mirror,     \* D1: the projected rows
    registry,   \* D1: the row of table_authority
    open,       \* D1: whether the destination accepts captures
    released,   \* D1: captures whose pages are published
    job,        \* D1: the phase of the page's deletion job
    lost,       \* history: rows D1 lost and no repair has verified since
    orphaned,   \* history: a crash left an event pending and no alarm
    asks, mishaps

vars == <<table, entry, intent, stage, alarm, request, projector, handler, repair,
          mirror, registry, open, released, job, lost, orphaned, asks, mishaps>>
durable == <<table, entry, intent, stage>>
memory == <<request, projector, handler, repair>>
d1 == <<mirror, registry, open, released, job>>
history == <<lost, orphaned, asks, mishaps>>

Phase == {"none", "fence", "drain", "headers", "rows", "reconcile", "verify", "publish", "blocked"}
Result == {"ok", "conflict", "missing", "failed"}
Working == {"fence", "again", "drain", "headers", "rows", "reconcile", "verify", "publish", "finish"}

Table == [revision: Nat, projected: Nat, rows: [Row -> Nat]]
Entry == [rev: Nat, writes: Seq(Row), drops: BOOLEAN, step: Nat, cancelled: BOOLEAN]
Intent == [phase: Phase, revision: Nat, tries: Nat, then: Phase]
Asked == [pc: {"idle", "armed", "read", "wait"}, op: Op, seen: BOOLEAN]
Projector == [pc: {"idle", "sent"} \union Result, mode: {"plain", "empty", "replay"},
              recover: BOOLEAN]
Registry == [fence: {"do", "repairing"}, published: Nat]

TypeOK ==
    /\ table \in Table /\ entry \in [Op -> Entry] /\ intent \in Intent
    /\ stage \in {"active", "stopping", "stopped", "purged"}
    /\ request \in [Request -> Asked] /\ projector \in Projector
    /\ handler \in {"idle", "project", "repair"} /\ repair \in Working \union {"idle"}
    /\ mirror \in [Row -> Nat \union {Bare}] /\ registry \in Registry
    /\ released \subseteq Captures /\ job \in {"none", "rows", "cleanup"} /\ lost \subseteq Row
    /\ alarm \in BOOLEAN /\ open \in BOOLEAN /\ orphaned \in BOOLEAN
    /\ asks \in 0..MaxAsks /\ mishaps \in 0..MaxMishaps

Uncommitted == [rev |-> 0, writes |-> <<>>, drops |-> FALSE, step |-> 1, cancelled |-> FALSE]
NoIntent == [phase |-> "none", revision |-> 0, tries |-> 0, then |-> "none"]
Resting == [pc |-> "idle", mode |-> "plain", recover |-> FALSE]
Unasked == [pc |-> "idle", op |-> CHOOSE o \in Op : TRUE, seen |-> FALSE]
Waiting == [Unasked EXCEPT !.pc = "wait"]

Init ==
    /\ table = [revision |-> Base, projected |-> Base, rows |-> [r \in Row |-> IF r = 2 THEN Base ELSE Gone]]
    /\ entry = [o \in Op |-> Uncommitted]
    /\ intent = NoIntent /\ stage = "active" /\ alarm = FALSE
    /\ request = [q \in Request |-> Unasked] /\ projector = Resting /\ handler = "idle" /\ repair = "idle"
    /\ mirror = table.rows /\ registry = [fence |-> "do", published |-> Base]
    /\ open = TRUE /\ released = {} /\ job = "none"
    /\ lost = {} /\ orphaned = FALSE /\ asks = 0 /\ mishaps = 0

Mishap == mishaps < MaxMishaps /\ mishaps' = mishaps + 1

-----------------------------------------------------------------------------
(* Events and the projector.                                               *)

Active == stage = "active"
Pending == {o \in Op : entry[o].rev > table.projected}
Event == CHOOSE o \in Pending : \A p \in Pending : entry[o].rev <= entry[p].rev
Present == {r \in Row : table.rows[r] # Gone}
Target == entry[Event].writes[entry[Event].step]
\* variant: D1 takes the revision over with the last batch but one
FinalEarly == entry[Event].step >= Len(entry[Event].writes) - 1
Final == entry[Event].step >= Len(entry[Event].writes)

\* scheduleAlarm: nothing is armed once a deletion has been accepted.
\* variant: an error is left to the alarm that is set
ArmedBefore == alarm
Armed == IF Active THEN TRUE ELSE alarm

Sent(mode, recover) == [pc |-> "sent", mode |-> mode, recover |-> recover]

\* A row whose capture was cancelled: a repair refuses to restore it.
Denied(r) == \E o \in Captures : entry[o].cancelled /\ r \in Range(entry[o].writes)

\* The batch deletes its row, or writes cells that need it in D1.
Drops(o, r) == entry[o].drops /\ r = 2
Needs == Event \in Bulks /\ ~Drops(Event, Target) /\ mirror[Target] = Gone

\* What the batch in flight does in D1, and what D1 answers to it.
Outcome ==
    IF job # "none" THEN "failed"
    ELSE IF projector.mode = "empty" THEN "ok"
    ELSE IF Event \in Captures THEN IF open \/ Event \in released THEN "ok" ELSE "conflict"
    ELSE IF Needs /\ projector.mode = "plain" THEN "missing"
    ELSE "ok"

Applied ==
    /\ mirror' = CASE projector.mode = "empty" -> mirror
                   [] projector.mode # "empty" /\ Drops(Event, Target) -> [mirror EXCEPT ![Target] = Gone]
                   [] projector.mode # "empty" /\ ~Drops(Event, Target) ->
                        [mirror EXCEPT ![Target] = entry[Event].rev]
    /\ registry' = [registry EXCEPT !.published = IF projector.mode = "empty" \/ Final
                                                  THEN entry[Event].rev ELSE @]
    /\ released' = IF Event \in Captures /\ projector.mode # "empty"
                   THEN released \union {Event} ELSE released

\* D1 executes the batch, or the call fails, with or without an effect.
Batch ==
    /\ projector.pc = "sent"
    /\ \/ /\ Outcome = "ok" /\ Applied
          /\ \/ projector' = [projector EXCEPT !.pc = "ok"] /\ UNCHANGED mishaps
             \/ projector' = [projector EXCEPT !.pc = "failed"] /\ Mishap
       \/ /\ Outcome # "ok"
          /\ projector' = [projector EXCEPT !.pc = Outcome]
          /\ UNCHANGED <<mirror, registry, released, mishaps>>
       \/ /\ Outcome # "failed" /\ projector' = [projector EXCEPT !.pc = "failed"] /\ Mishap
          /\ UNCHANGED <<mirror, registry, released>>
    /\ UNCHANGED <<durable, alarm, request, handler, repair, open, job, lost, orphaned, asks>>

-----------------------------------------------------------------------------
(* The turns of a repair (performRepair), and who waits for project().     *)

\* The alarm's handler ends with the work it waits for.
Handled(work) == IF handler \in work THEN "idle" ELSE handler

\* Any error but one about ownership: the alarm takes the next turn.
TurnFails(ended) ==
    repair' = "idle" /\ alarm' = Armed /\ handler' = Handled(ended) /\ UNCHANGED intent
TurnBlocked(ended) ==
    /\ repair' = "idle" /\ alarm' = FALSE /\ handler' = Handled(ended)
    /\ intent' = [intent EXCEPT !.phase = "blocked", !.then = intent.phase]
TurnYields(phase) ==
    /\ repair' = "idle" /\ alarm' = Armed /\ handler' = Handled({"repair"})
    /\ intent' = [intent EXCEPT !.phase = phase]
TurnGoesOn(phase) ==
    /\ repair' = phase /\ intent' = [intent EXCEPT !.phase = phase] /\ UNCHANGED <<alarm, handler>>

\* remainingPure: a rebuild covers the pending events, unless one publishes a
\* capture or has an effect outside the table (which is not modelled: a choice).
Skippable == Pending # {} /\ Pending \intersect Captures = {}

\* project() ends: whoever awaited it goes on in the same turn.
Settle(result) ==
    /\ projector' = Resting
    /\ request' = [q \in Request |-> IF request[q].pc = "wait" THEN Unasked ELSE request[q]]
    /\ LET awaited == (\E q \in Request : request[q].pc = "wait") \/ handler = "project"
           rearmed == alarm' = IF awaited /\ result # "ok" THEN Armed ELSE alarm
       IN  \/ /\ repair # "drain" /\ UNCHANGED <<repair, intent>>
              /\ rearmed /\ handler' = Handled({"project"})
           \/ /\ repair = "drain" /\ result \in {"ok", "missing"}
              /\ repair' = "again" /\ UNCHANGED intent
              /\ rearmed /\ handler' = Handled({"project"})
           \/ /\ repair = "drain" /\ result = "blocked" /\ Skippable
              /\ repair' = "headers" /\ intent' = [intent EXCEPT !.phase = "headers", !.revision = table.revision]
              /\ rearmed /\ handler' = Handled({"project"})
           \/ repair = "drain" /\ result = "blocked" /\ TurnBlocked({"project", "repair"})
           \/ repair = "drain" /\ result = "failed" /\ TurnFails({"project", "repair"})

\* project() handles D1's answer.
Advances ==
    /\ projector.pc = "ok" /\ Active
    /\ IF projector.mode # "empty" /\ ~Final
       THEN /\ entry' = [entry EXCEPT ![Event].step = @ + 1]
            /\ projector' = Sent("plain", projector.recover)
            /\ UNCHANGED <<table, intent, alarm, request, handler, repair, mishaps>>
       ELSE /\ table' = [table EXCEPT !.projected = entry[Event].rev]
            /\ entry' = IF projector.mode = "empty" THEN entry ELSE [entry EXCEPT ![Event].step = @ + 1]
            /\ \/ /\ Pending # {Event} /\ projector' = Sent("plain", projector.recover)
                  /\ UNCHANGED <<intent, alarm, request, handler, repair, mishaps>>
               \/ Pending = {Event} /\ Settle("ok") /\ UNCHANGED mishaps
               \/ Settle("failed") /\ Mishap      \* the broadcast failed
    /\ UNCHANGED <<stage, d1, lost, orphaned, asks>>

\* The destination refused the capture: the row goes, its receipt says so.
Cancels ==
    /\ projector.pc = "conflict" /\ Active
    /\ table' = [table EXCEPT !.rows[Target] = Gone]
    /\ entry' = [entry EXCEPT ![Event].cancelled = TRUE]
    /\ projector' = Sent("empty", projector.recover)
    /\ UNCHANGED <<intent, stage, alarm, request, handler, repair, d1, history>>

\* A parent is missing: a repair restores it from the event's prerequisites.
Recovers ==
    /\ projector.pc = "missing" /\ Active /\ projector.recover /\ ~Denied(Target)
    /\ projector' = Sent("replay", TRUE)
    /\ UNCHANGED <<durable, alarm, request, handler, repair, d1, history>>

GivesUp ==
    /\ \/ projector.pc = "missing" /\ Active /\ ~projector.recover /\ Settle("missing")
       \/ projector.pc = "missing" /\ Active /\ projector.recover /\ Denied(Target) /\ Settle("blocked")
       \/ projector.pc = "failed" /\ Settle("failed")
       \/ projector.pc \in Result /\ ~Active /\ Settle("failed")
    /\ UNCHANGED <<table, entry, stage, d1, history>>

-----------------------------------------------------------------------------
(* Command requests (POST /commands).                                      *)

\* variant: only a repair under way in this instance counts
UnfencedBetweenTurns == repair = "idle" /\ Active
Unfenced == repair = "idle" /\ intent.phase = "none" /\ Active

\* authorize, the checks of the references and scheduleAlarm.
Send(o) ==
    /\ asks < MaxAsks /\ \E q \in Request : request[q].pc = "idle"
    /\ registry.fence = "do" /\ job = "none" /\ Unfenced
    /\ LET free == CHOOSE q \in Request : request[q].pc = "idle"
       IN  request' = [request EXCEPT ![free] = [pc |-> "armed", op |-> o, seen |-> FALSE]]
    /\ alarm' = TRUE /\ asks' = asks + 1
    /\ UNCHANGED <<durable, projector, handler, repair, d1, lost, orphaned, mishaps>>

\* The second authorize reads D1 ...
Reads(q) ==
    /\ request[q].pc = "armed"
    /\ request' = [request EXCEPT ![q].pc = "read", ![q].seen = registry.fence = "do" /\ job = "none"]
    /\ UNCHANGED <<durable, alarm, projector, handler, repair, d1, history>>

\* ... and what it read is judged with the object's own state.
Authorized(q) == request[q].seen /\ Unfenced

Applicable(o) ==
    \/ o \in Captures /\ \A p \in Op : 1 \notin Range(entry[p].writes)   \* the row's ID is claimed
    \/ o \in Bulks /\ Present # {}
Writes(o) ==
    IF o \in Captures THEN <<1>> ELSE CHOOSE s \in {<<1>>, <<2>>, <<1, 2>>} : Range(s) = Present

\* The transaction finds no receipt of the operation.
\* variant: it does not look again after the awaits
NewAnyway(o) == TRUE
New(o) == entry[o].rev = 0

\* The transaction of a command that has no receipt.
Committed(o, drops) ==
    LET rev == table.revision + 1
    IN  /\ entry' = [entry EXCEPT ![o] = [Uncommitted EXCEPT !.rev = rev, !.writes = Writes(o), !.drops = drops]]
        /\ table' = [table EXCEPT !.revision = rev,
                       !.rows = [r \in Row |-> IF r \notin Range(Writes(o)) THEN @[r]
                                               ELSE IF drops /\ r = 2 THEN Gone ELSE rev]]

Projects == projector' = IF projector.pc = "idle" THEN Sent("plain", FALSE) ELSE projector

Commit(q) ==
    /\ request[q].pc = "read" /\ Authorized(q)
    /\ LET o == request[q].op
       IN  \/ /\ New(o) /\ Applicable(o)
              /\ \E drops \in BOOLEAN : (drops => o \in Bulks /\ 2 \in Present) /\ Committed(o, drops)
              /\ request' = [request EXCEPT ![q] = Waiting] /\ Projects
           \/ /\ ~New(o) /\ Pending # {}
              /\ request' = [request EXCEPT ![q] = Waiting] /\ Projects
              /\ UNCHANGED <<table, entry>>
           \/ /\ IF New(o) THEN ~Applicable(o) ELSE Pending = {}
              /\ request' = [request EXCEPT ![q] = Unasked] /\ UNCHANGED <<table, entry, projector>>
    /\ UNCHANGED <<intent, stage, alarm, handler, repair, d1, history>>

Refuse(q) ==
    /\ request[q].pc = "read" /\ ~Authorized(q)
    /\ request' = [request EXCEPT ![q] = Unasked]
    /\ UNCHANGED <<durable, alarm, projector, handler, repair, d1, history>>

-----------------------------------------------------------------------------
(* The alarm and the repair.                                               *)

Fenced == [NoIntent EXCEPT !.phase = "fence"]

\* The synchronous start of a turn, by the alarm or by an owner.
TurnStarts(from, owner) ==
    /\ repair' = "fence" /\ alarm' = TRUE
    /\ intent' = [from EXCEPT !.tries = IF owner THEN 0 ELSE @,
                              !.phase = IF @ = "blocked" THEN from.then ELSE @,
                              !.then = "none"]

\* alarm(): it reads the registry when it knows of no repair.
AlarmFires ==
    /\ alarm /\ handler = "idle"
    /\ LET from == IF intent.phase = "none" /\ registry.fence = "repairing" THEN Fenced ELSE intent
       IN  \/ /\ ~Active \/ (from.phase = "blocked" /\ repair = "idle")
              /\ alarm' = FALSE /\ UNCHANGED <<intent, projector, handler, repair, mishaps>>
           \/ /\ Active /\ intent.phase = "none" /\ Mishap        \* the registry could not be read
              /\ UNCHANGED <<intent, alarm, projector, handler, repair>>
           \/ /\ Active /\ from.phase = "none" /\ alarm' = FALSE
              /\ IF Pending = {} THEN UNCHANGED <<projector, handler>>
                 ELSE Projects /\ handler' = "project"
              /\ UNCHANGED <<intent, repair, mishaps>>
           \/ /\ Active /\ from.phase # "none" /\ repair # "idle"  \* "Repair is already running."
              /\ alarm' = (intent.phase # "blocked")
              /\ UNCHANGED <<intent, projector, handler, repair, mishaps>>
           \/ /\ Active /\ from.phase \notin {"none", "blocked"} /\ repair = "idle"
              /\ handler' = "repair" /\ TurnStarts(from, FALSE) /\ UNCHANGED <<projector, mishaps>>
    /\ UNCHANGED <<table, entry, stage, request, d1, lost, orphaned, asks>>

\* POST /repair of an owner of the workspace.
OwnerRepairs ==
    /\ asks < MaxAsks /\ asks' = asks + 1 /\ job = "none" /\ Active /\ repair = "idle"
    /\ TurnStarts(IF intent.phase = "none" THEN Fenced ELSE intent, TRUE)
    /\ UNCHANGED <<table, entry, stage, request, projector, handler, d1, lost, orphaned, mishaps>>

\* The registry is fenced; the turn goes on where the last one stopped.
RepairFence ==
    /\ repair = "fence" /\ job # "cleanup"
    /\ registry' = [registry EXCEPT !.fence = "repairing"]
    /\ IF ~Active \/ (intent.phase \notin {"fence", "drain"} /\ intent.revision # table.revision)
       THEN TurnFails({"repair"})
       ELSE /\ intent' = [intent EXCEPT !.phase = IF @ = "fence" THEN "drain" ELSE @]
            /\ repair' = IF intent.phase \in {"fence", "drain"} THEN "again" ELSE intent.phase
            /\ UNCHANGED <<alarm, handler>>
    /\ UNCHANGED <<table, entry, stage, request, projector, mirror, open, released, job, history>>

\* project(true), joined when it is already running.
RepairDrain ==
    /\ repair = "again"
    /\ \/ Active /\ projector.pc # "idle" /\ repair' = "drain" /\ UNCHANGED <<intent, alarm, handler, projector>>
       \/ /\ Active /\ projector.pc = "idle" /\ Pending # {}
          /\ repair' = "drain" /\ projector' = Sent("plain", TRUE) /\ UNCHANGED <<intent, alarm, handler>>
       \/ /\ Active /\ projector.pc = "idle" /\ Pending = {}
          /\ repair' = "headers" /\ intent' = [intent EXCEPT !.phase = "headers", !.revision = table.revision]
          /\ UNCHANGED <<alarm, handler, projector>>
       \/ ~Active /\ TurnFails({"repair"}) /\ UNCHANGED projector
    /\ UNCHANGED <<table, entry, stage, request, d1, history>>

\* The properties are written anew: their deletion takes every cell along.
RepairHeaders ==
    /\ repair = "headers" /\ job = "none"
    /\ mirror' = [r \in Row |-> IF mirror[r] = Gone THEN Gone ELSE Bare]
    /\ TurnYields("rows")
    /\ UNCHANGED <<table, entry, stage, request, projector, registry, open, released, job, history>>

RepairRows ==
    /\ repair = "rows" /\ job = "none"
    /\ mirror' = [r \in Row |-> IF r \in Present THEN table.rows[r] ELSE mirror[r]]
    /\ TurnGoesOn("reconcile")
    /\ UNCHANGED <<table, entry, stage, request, projector, registry, open, released, job, history>>

RepairReconcile ==
    /\ repair = "reconcile" /\ job = "none"
    /\ mirror' = [r \in Row |-> IF r \in Present THEN mirror[r] ELSE Gone]
    /\ TurnYields("verify")
    /\ UNCHANGED <<table, entry, stage, request, projector, registry, open, released, job, history>>

\* compareTableProjectionContent.
\* variant: only the rows D1 has are compared
MatchesWhatIsThere == \A r \in Row : mirror[r] \in {Gone, table.rows[r]}
Matches == mirror = table.rows

RepairVerify ==
    /\ repair = "verify" /\ Active
    /\ \/ Matches /\ TurnGoesOn("publish") /\ lost' = {}
       \/ /\ ~Matches /\ intent.tries = 0 /\ UNCHANGED lost
          /\ repair' = "idle" /\ alarm' = Armed /\ handler' = Handled({"repair"})
          /\ intent' = [intent EXCEPT !.phase = "headers", !.tries = 1]
       \/ /\ ~Matches /\ intent.tries > 0 /\ UNCHANGED lost
          /\ repair' = "idle" /\ alarm' = FALSE /\ handler' = Handled({"repair"})
          /\ intent' = [intent EXCEPT !.phase = "blocked", !.then = "headers", !.tries = @ + 1]
    /\ UNCHANGED <<table, entry, stage, request, projector, d1, orphaned, asks, mishaps>>

\* D1 publishes the rebuilt projection and lifts the fence ...
RepairPublish ==
    /\ repair = "publish" /\ job = "none"
    /\ registry' = [fence |-> "do", published |-> intent.revision]
    /\ repair' = "finish"
    /\ UNCHANGED <<durable, alarm, request, projector, handler, mirror, open, released, job, history>>

\* ... and the object forgets the intent and the events it covers.
RepairFinish ==
    /\ repair = "finish" /\ Active /\ intent.revision = table.revision
    /\ table' = [table EXCEPT !.projected = intent.revision]
    /\ repair' = "idle" /\ intent' = NoIntent /\ handler' = Handled({"repair"})
    /\ UNCHANGED <<entry, stage, alarm, request, projector, d1, history>>

\* A call of the turn fails: D1 does not answer, or its guard sees the deletion.
RepairFails ==
    /\ \/ repair \in {"fence", "headers", "rows", "reconcile", "verify", "publish", "finish"} /\ job = "none" /\ Mishap
       \/ /\ \/ repair = "fence" /\ job = "cleanup"
             \/ repair \in {"headers", "rows", "reconcile", "publish"} /\ job # "none"
             \/ repair = "verify" /\ ~Active
             \/ repair = "finish" /\ ~(Active /\ intent.revision = table.revision)
          /\ UNCHANGED mishaps
    /\ TurnFails({"repair"})
    /\ UNCHANGED <<table, entry, stage, request, projector, d1, lost, orphaned, asks>>

-----------------------------------------------------------------------------
(* Permanent deletion.                                                     *)

\* cleanup.ts accepts the page's deletion, though not during a repair; nobody
\* reaches the page any more.
AcceptDeletion ==
    /\ Deleting /\ job = "none" /\ registry.fence = "do" /\ job' = "rows" /\ asks' = MaxAsks
    /\ UNCHANGED <<durable, alarm, memory, mirror, registry, open, released, lost, orphaned, mishaps>>

Stop ==
    /\ job = "rows" /\ Active
    /\ stage' = "stopping" /\ alarm' = FALSE
    /\ UNCHANGED <<table, entry, intent, memory, d1, history>>

\* Promise.allSettled of the work under way.
\* variant: of the projection only
SettledProjection == projector.pc = "idle"
Settled == projector.pc = "idle" /\ repair = "idle"

Stopped ==
    /\ stage = "stopping" /\ Settled
    /\ stage' = "stopped" /\ alarm' = FALSE
    /\ UNCHANGED <<table, entry, intent, memory, d1, history>>

RemoveRows ==
    /\ job = "rows" /\ stage = "stopped"
    /\ job' = "cleanup" /\ mirror' = [r \in Row |-> Gone]
    /\ UNCHANGED <<durable, alarm, memory, registry, open, released, history>>

Purge ==
    /\ job = "cleanup" /\ stage = "stopped" /\ Settled
    /\ stage' = "purged" /\ alarm' = FALSE /\ intent' = NoIntent
    /\ table' = [revision |-> 0, projected |-> 0, rows |-> [r \in Row |-> Gone]]
    /\ entry' = [o \in Op |-> Uncommitted]
    /\ UNCHANGED <<memory, d1, history>>

-----------------------------------------------------------------------------
(* What happens around the object.                                         *)

\* The object is evicted: a handler that had begun runs again.
Crash ==
    /\ Mishap /\ stage # "purged"
    /\ request' = [q \in Request |-> Unasked] /\ projector' = Resting /\ handler' = "idle" /\ repair' = "idle"
    /\ alarm' = (alarm \/ handler # "idle")
    /\ orphaned' = (orphaned \/ (Active /\ Pending # {} /\ ~alarm /\ handler = "idle"))
    /\ UNCHANGED <<durable, d1, lost, asks>>

LoseRow(r) ==
    /\ Mishap /\ job = "none" /\ mirror[r] # Gone
    /\ mirror' = [mirror EXCEPT ![r] = Gone] /\ lost' = lost \union {r}
    /\ UNCHANGED <<durable, alarm, memory, registry, open, released, job, orphaned, asks>>

ChangeDestination ==
    /\ Mishap /\ job = "none" /\ open' = ~open
    /\ UNCHANGED <<durable, alarm, memory, mirror, registry, released, job, lost, orphaned, asks>>

\* Nothing is left to happen.
Rest ==
    /\ ~alarm /\ projector = Resting /\ handler = "idle" /\ repair = "idle"
    /\ \A q \in Request : request[q].pc = "idle"
    /\ UNCHANGED vars

Own ==
    \/ Batch \/ Advances \/ Cancels \/ Recovers \/ GivesUp
    \/ \E q \in Request : Reads(q) \/ Commit(q) \/ Refuse(q)
    \/ AlarmFires
    \/ RepairFence \/ RepairDrain \/ RepairHeaders \/ RepairRows \/ RepairReconcile
    \/ RepairVerify \/ RepairPublish \/ RepairFinish \/ RepairFails

Next ==
    \/ Own
    \/ \E o \in Op : Send(o)
    \/ OwnerRepairs \/ AcceptDeletion \/ Stop \/ Stopped \/ RemoveRows \/ Purge
    \/ Crash \/ (\E r \in Fragile : LoseRow(r)) \/ ChangeDestination
    \/ Rest

Spec == Init /\ [][Next]_vars

\* The runtime goes on with what has begun, and fires the alarm that is set.
Fairness == WF_vars(Own)
FairSpec == Spec /\ Fairness

-----------------------------------------------------------------------------
(* Properties.                                                             *)

\* The row's value after revision v.
Value(r, v) ==
    LET writers == {o \in Op : entry[o].rev \in 1..v /\ r \in Range(entry[o].writes)}
        last == CHOOSE o \in writers : \A p \in writers : entry[p].rev <= entry[o].rev
    IN  IF writers = {} THEN IF r = 2 THEN Base ELSE Gone
        ELSE IF Drops(last, r) THEN Gone ELSE entry[last].rev

\* Unless a repair is under way, D1 holds the table as of the revision D1
\* names, with at most the first batches of the next event: no event is
\* skipped, applied out of order or applied again over a later one.  Rows D1
\* lost and rows of cancelled captures are left out.
MirrorIsPrefix ==
    registry.fence = "do" /\ intent.phase = "none" /\ job = "none" =>
        \A r \in Row \ lost : ~Denied(r) =>
            \/ mirror[r] = Value(r, registry.published)
            \/ \E o \in Op : /\ entry[o].rev = registry.published + 1
                             /\ r \in Range(SubSeq(entry[o].writes, 1, entry[o].step))
                             /\ mirror[r] = Value(r, entry[o].rev)

\* Whatever is sent again, after a lost answer or a restart, an operation has
\* one event: until the purge its revision is never replaced.
CommittedOnce ==
    [][\A o \in Op : entry[o].rev # 0 => entry'[o].rev = entry[o].rev \/ stage' = "purged"]_vars

\* The publication that lifts the fence makes D1 the table as it is committed,
\* row for row, cancelled rows included (but for rows lost since the comparison).
PublishedIsCanonical ==
    [][registry.fence = "repairing" /\ registry'.fence = "do" =>
        /\ registry'.published = table.revision
        /\ \A r \in Row \ lost : mirror[r] = table.rows[r]]_vars

\* Once the object has said that it stopped, no projection and no repair of
\* it is under way, and none starts.
StoppedIsQuiet ==
    stage \in {"stopped", "purged"} => projector.pc = "idle" /\ repair = "idle"

\* The next event needs a row that D1 does not have: only a repair helps.
AwaitsOwner ==
    Pending # {} /\ entry[Event].step <= Len(entry[Event].writes) /\ Needs

\* A committed event is projected, unless the page is deleted, the repair is
\* blocked, an owner has to start one, or a crash left no alarm.
CommittedIsProjected ==
    \A o \in Op : entry[o].rev > table.projected
        ~> (entry[o].rev <= table.projected \/ job # "none" \/ intent.phase = "blocked"
            \/ AwaitsOwner \/ orphaned)

\* A repair that fenced the table lifts the fence, whatever fails on the way,
\* unless it is blocked or the page is deleted.
FenceIsLifted ==
    registry.fence = "repairing" ~> (registry.fence = "do" \/ intent.phase = "blocked" \/ job # "none")
=============================================================================
