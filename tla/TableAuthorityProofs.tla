------------------------- MODULE TableAuthorityProofs -------------------------
(***************************************************************************)
(* What TableAuthority guarantees for every set of commands and requests   *)
(* and for all bounds.                                                     *)
(***************************************************************************)
EXTENDS TableAuthority, TLAPS, WellFoundedInduction

-----------------------------------------------------------------------------
(* The inductive invariant.                                                *)

Writing == {<<1>>, <<2>>, <<1, 2>>}

\* The operations of the receipts e that have written a row by a revision, the last
\* of them, and the value it left.
Writers(e, r, v) == {o \in Op : e[o].rev \in 1..v /\ r \in Range(e[o].writes)}
LastOf(e, r, v) ==
    CHOOSE o \in Writers(e, r, v) : \A p \in Writers(e, r, v) : e[p].rev <= e[o].rev
ValueIn(e, r, v) ==
    IF Writers(e, r, v) = {} THEN IF r = 2 THEN Base ELSE Gone
    ELSE IF e[LastOf(e, r, v)].drops /\ r = 2 THEN Gone ELSE e[LastOf(e, r, v)].rev

\* A row of D1 is that of a revision; lost rows and rows of cancelled captures are left out.
Refused(e, r) == \E o \in Captures : e[o].cancelled /\ r \in Range(e[o].writes)
Has(m, l, e, r, v) == r \in l \/ Refused(e, r) \/ m[r] = ValueIn(e, r, v)

\* A receipt names the rows of its command; what is pending has a batch left, and only
\* the next event has sent one.
Shaped(o) ==
    /\ entry[o].rev = 0 => entry[o] = Uncommitted
    /\ entry[o].rev # 0 =>
        /\ entry[o].writes \in Writing
        /\ o \in Captures => entry[o].writes = <<1>> /\ ~entry[o].drops
        /\ entry[o].drops => 2 \in Range(entry[o].writes)
    /\ entry[o].cancelled => o \in Captures
    /\ entry[o].rev > table.projected => entry[o].step \in 1..Len(entry[o].writes)
    /\ entry[o].rev > table.projected + 1 => entry[o].step = 1 /\ ~entry[o].cancelled

\* The revisions are those of the events, each of one event.
Revisions ==
    /\ table.projected \in Base..table.revision
    /\ \A o \in Op : entry[o].rev # 0 => entry[o].rev \in Base + 1..table.revision
    /\ \A v \in Base + 1..table.revision : \E o \in Op : entry[o].rev = v
    /\ \A o, p \in Op : entry[o].rev # 0 /\ entry[o].rev = entry[p].rev => o = p

\* The table is what its events made it, but for rows of cancelled captures.
Recorded == \A r \in Row : ~Refused(entry, r) => table.rows[r] = ValueIn(entry, r, table.revision)

History == stage # "purged" => Revisions /\ Recorded

\* The projector has an event; a repair that rebuilds waits for it.
ProjectorAt ==
    projector.pc # "idle" =>
        /\ stage # "purged" /\ Pending # {}
        /\ intent.phase \in {"none", "fence", "drain"}
        /\ projector.mode = "empty" => Event \in Captures /\ entry[Event].cancelled
        /\ projector.pc = "conflict" => Event \in Captures

\* Where a turn is, by the phase it has recorded.
RepairAt ==
    /\ repair # "idle" => stage \in {"active", "stopping"} /\ intent.phase \notin {"none", "blocked"}
    /\ repair \in {"again", "drain"} => intent.phase = "drain"
    /\ repair = "drain" => projector.pc # "idle"
    /\ repair \in {"headers", "rows", "reconcile", "verify", "publish"} => intent.phase = repair
    /\ repair = "finish" => intent.phase = "publish"
    /\ intent.phase = "blocked" => intent.then \in {"drain", "headers"}

\* Deletion goes by its job.
StageAt ==
    /\ job = "none" => stage = "active"
    /\ stage \in {"stopped", "purged"} => projector.pc = "idle" /\ repair = "idle"
    /\ stage = "purged" => intent = NoIntent

\* A rebuilt projection describes the table as it is.
Rebuilding == {"headers", "rows", "reconcile", "verify", "publish"}
Rebuilt ==
    /\ intent.phase \in Rebuilding \/ (intent.phase = "blocked" /\ intent.then = "headers") =>
           intent.revision = table.revision
    /\ job = "none" /\ intent.phase = "publish" => \A r \in Row \ lost : mirror[r] = table.rows[r]
    /\ job = "none" /\ repair = "finish" => registry = [fence |-> "do", published |-> intent.revision]

\* What D1 (the rows m, of which l are lost, and the revision it names) has of event o
\* of the receipts e, when p is the revision before it.
Sending(m, l, published, e, p, o) ==
    LET w == e[o].writes IN
    /\ published \in {p, e[o].rev}
    /\ published = e[o].rev =>
           e[o].step = Len(w) /\ \A r \in Row : Has(m, l, e, r, e[o].rev)
    /\ published = p =>
           /\ \A r \in Row : Has(m, l, e, r, p) \/ Has(m, l, e, r, e[o].rev)
           /\ \A r \in Row : ~Has(m, l, e, r, p) => \E j \in 1..e[o].step : w[j] = r
           /\ \A j \in 1..e[o].step - 1 : Has(m, l, e, w[j], e[o].rev)

\* Unless a repair is under way, D1 is at a revision or on the way to the next.
Ends == projector.mode = "empty" \/ Final
Holds(r, v) == Has(mirror, lost, entry, r, v)
Projected ==
    job = "none" /\ intent.phase = "none" =>
        /\ Pending = {} =>
              registry.published = table.projected /\ \A r \in Row : Holds(r, table.projected)
        /\ Pending # {} => Sending(mirror, lost, registry.published, entry, table.projected, Event)
        /\ projector.pc = "ok" =>
              IF Ends THEN registry.published = entry[Event].rev ELSE Holds(Target, entry[Event].rev)

TableInv ==
    /\ TypeOK /\ (\A o \in Op : Shaped(o)) /\ History
    /\ ProjectorAt /\ RepairAt /\ StageAt /\ Rebuilt /\ Projected

-----------------------------------------------------------------------------
(* What a command writes.                                                  *)

\* The lists of rows that a receipt can have.
LEMMA WritingFacts ==
  ASSUME NEW w \in Writing
  PROVE  /\ w \in Seq(Row) /\ Len(w) \in {1, 2}
         /\ \A j \in 1..Len(w) : w[j] \in Row
         /\ \A r : r \in Range(w) <=> \E j \in 1..Len(w) : w[j] = r
         /\ \A j, k \in 1..Len(w) : w[j] = w[k] => j = k
<1>1. CASE w = <<1>>
  BY <1>1 DEF Row, Range
<1>2. CASE w = <<2>>
  BY <1>2 DEF Row, Range
<1>3. CASE w = <<1, 2>>
  BY <1>3 DEF Row, Range
<1>. QED
  BY <1>1, <1>2, <1>3 DEF Writing

\* A bulk command finds the list of the rows that are present.
LEMMA WritesFacts ==
  ASSUME NEW o \in Op, Applicable(o)
  PROVE  /\ Writes(o) \in Writing
         /\ o \in Captures => Writes(o) = <<1>>
         /\ o \notin Captures => Range(Writes(o)) = Present
<1>1. CASE o \in Captures
  BY <1>1 DEF Writes, Writing
<1>2. CASE o \notin Captures
  <2>1. Present # {} /\ Present \subseteq Row
    BY <1>2 DEF Applicable, Present, Op
  <2>2. Present = {1} \/ Present = {2} \/ Present = {1, 2}
    BY <2>1 DEF Row
  <2>3. Range(<<1>>) = {1} /\ Range(<<2>>) = {2} /\ Range(<<1, 2>>) = {1, 2}
    BY DEF Range
  <2>4. \E s \in Writing : Range(s) = Present
    BY <2>2, <2>3 DEF Writing
  <2>5. Writes(o) = CHOOSE s \in Writing : Range(s) = Present
    BY <1>2 DEF Writes, Writing
  <2>. QED
    BY <1>2, <2>4, <2>5
<1>. QED
  BY <1>1, <1>2

-----------------------------------------------------------------------------
(* Events and values.                                                      *)

\* The next event is the one of the next revision, and the only one of it.
LEMMA EventIsNext ==
  ASSUME Revisions, table.revision \in Nat, Pending # {}
  PROVE  /\ Event \in Op /\ Event \in Pending
         /\ entry[Event].rev = table.projected + 1
         /\ \A o \in Op : entry[o].rev = table.projected + 1 => o = Event
         /\ table.projected + 1 \in Base + 1..table.revision
<1>1. PICK q \in Op : entry[q].rev > table.projected
  BY DEF Pending
<1>2. entry[q].rev \in Base + 1..table.revision
  BY <1>1 DEF Revisions, Base
<1>3. table.projected + 1 \in Base + 1..table.revision
  BY <1>1, <1>2 DEF Revisions, Base
<1>4. PICK e \in Op : entry[e].rev = table.projected + 1
  BY <1>3 DEF Revisions
<1>5. e \in Pending /\ \A p \in Pending : entry[e].rev <= entry[p].rev
  <2>1. e \in Pending
    BY <1>3, <1>4 DEF Pending, Base, Revisions
  <2>2. \A p \in Pending : entry[p].rev \in Base + 1..table.revision /\ entry[p].rev > table.projected
    BY DEF Pending, Base, Revisions
  <2>. QED
    BY <1>4, <2>1, <2>2 DEF Revisions, Base
<1>6. Event \in Pending /\ \A p \in Pending : entry[Event].rev <= entry[p].rev
  BY <1>5 DEF Event
<1>7. entry[Event].rev = table.projected + 1
  BY <1>4, <1>5, <1>6 DEF Pending, Revisions, Base
<1>. QED
  BY <1>3, <1>6, <1>7 DEF Pending, Revisions, Base

\* The same of the state after a step.
LEMMA EventIsNextLater ==
  (Revisions /\ table.revision \in Nat /\ Pending # {} =>
     /\ Event \in Op /\ Event \in Pending
     /\ entry[Event].rev = table.projected + 1
     /\ \A o \in Op : entry[o].rev = table.projected + 1 => o = Event)'
<1>1. Revisions /\ table.revision \in Nat /\ Pending # {} =>
        /\ Event \in Op /\ Event \in Pending
        /\ entry[Event].rev = table.projected + 1
        /\ \A o \in Op : entry[o].rev = table.projected + 1 => o = Event
  BY EventIsNext
<1>. QED
  BY <1>1, PTL

\* A set of numbers below a bound has a greatest.
LEMMA GreatestExists ==
  ASSUME NEW v \in Nat, NEW T \in SUBSET (0..v), T # {}
  PROVE  \E n \in T : \A m \in T : m <= n
<1> DEFINE below == {v - n : n \in T}
<1> DEFINE less == OpToRel(<, Nat)
<1>1. below \subseteq Nat /\ below # {}
  <2>1. PICK n \in T : TRUE
    OBVIOUS
  <2>2. v - n \in below
    OBVIOUS
  <2>. QED
    BY <2>2
<1>2. \E x \in below : \A y \in below : ~ (<<y, x>> \in less)
  <2> HIDE DEF below, less
  <2>. QED
    BY <1>1, NatLessThanWellFounded, WFMin DEF less
<1>3. PICK x \in below : \A y \in below : ~ (<<y, x>> \in less)
  BY <1>2
<1>4. \A y \in below : x <= y
  <2> HIDE DEF below
  <2>1. \A y \in below : ~ (y < x)
    BY <1>1, <1>3 DEF OpToRel
  <2>. QED
    BY <1>1, <2>1
<1>5. PICK n \in T : x = v - n
  OBVIOUS
<1>6. \A m \in T : v - n <= v - m
  BY <1>4, <1>5
<1>. QED
  BY <1>6

\* There is a last writer if there is one.
LEMMA LastExists ==
  ASSUME NEW e, NEW v \in Nat, NEW r, Writers(e, r, v) # {}
  PROVE  /\ LastOf(e, r, v) \in Writers(e, r, v)
         /\ \A p \in Writers(e, r, v) : e[p].rev <= e[LastOf(e, r, v)].rev
<1> DEFINE T == {e[o].rev : o \in Writers(e, r, v)}
<1>1. T \in SUBSET (0..v) /\ T # {}
  <2>1. PICK o \in Writers(e, r, v) : TRUE
    OBVIOUS
  <2>2. e[o].rev \in T
    OBVIOUS
  <2>3. \A p \in Writers(e, r, v) : e[p].rev \in 0..v
    BY DEF Writers
  <2>. QED
    BY <2>2, <2>3
<1>2. \E n \in T : \A m \in T : m <= n
  <2> HIDE DEF T
  <2>. QED
    BY <1>1, GreatestExists
<1>3. \E o \in Writers(e, r, v) : \A p \in Writers(e, r, v) : e[p].rev <= e[o].rev
  BY <1>2
<1>. QED
  BY <1>3 DEF LastOf

\* The value a revision gave to a row it wrote.
LEMMA ValueWritten ==
  ASSUME NEW e, NEW o \in Op, e[o].rev \in Nat \ {0},
         \A p \in Op : e[p].rev = e[o].rev => p = o,
         NEW r, r \in Range(e[o].writes)
  PROVE  ValueIn(e, r, e[o].rev) = IF e[o].drops /\ r = 2 THEN Gone ELSE e[o].rev
<1> DEFINE v == e[o].rev
<1>2. o \in Writers(e, r, v)
  BY DEF Writers
<1>3. LastOf(e, r, v) \in Writers(e, r, v) /\ e[o].rev <= e[LastOf(e, r, v)].rev
  BY <1>2, LastExists
<1>4. e[LastOf(e, r, v)].rev = e[o].rev /\ LastOf(e, r, v) \in Op
  BY <1>3 DEF Writers
<1>5. LastOf(e, r, v) = o
  BY <1>4
<1>. QED
  BY <1>2, <1>5 DEF ValueIn

\* A revision leaves the rows it does not write as they were.
LEMMA ValueLeft ==
  ASSUME NEW e, NEW v \in Nat, NEW r,
         \A o \in Op : e[o].rev = v + 1 => r \notin Range(e[o].writes)
  PROVE  ValueIn(e, r, v + 1) = ValueIn(e, r, v)
<1>1. Writers(e, r, v + 1) = Writers(e, r, v)
  BY DEF Writers
<1>2. LastOf(e, r, v + 1) = LastOf(e, r, v)
  BY <1>1 DEF LastOf
<1>. QED
  BY <1>1, <1>2 DEF ValueIn

\* A value depends on nothing but the receipts up to its revision.
LEMMA ValueKept ==
  ASSUME NEW e, NEW f, NEW v \in Nat, NEW r,
         \A o \in Op : \/ f[o].rev = e[o].rev /\ f[o].writes = e[o].writes /\ f[o].drops = e[o].drops
                       \/ e[o].rev \notin 1..v /\ f[o].rev \notin 1..v
  PROVE  ValueIn(f, r, v) = ValueIn(e, r, v)
<1>1. Writers(f, r, v) = Writers(e, r, v)
  BY DEF Writers
<1>2. \A o \in Writers(e, r, v) : f[o].rev = e[o].rev /\ f[o].drops = e[o].drops
  BY DEF Writers
<1>3. LastOf(f, r, v) = LastOf(e, r, v)
  BY <1>1, <1>2 DEF LastOf
<1>4. Writers(e, r, v) # {} => LastOf(e, r, v) \in Writers(e, r, v)
  BY LastExists
<1>. QED
  BY <1>1, <1>2, <1>3, <1>4 DEF ValueIn

-----------------------------------------------------------------------------
(* Type correctness.                                                       *)

\* Changes of a record that keep its type.
LEMMA EntryStepped ==
  ASSUME NEW e \in Entry, NEW n \in Nat
  PROVE  [e EXCEPT !.step = n] \in Entry
  BY DEF Entry

LEMMA EntryCancelled ==
  ASSUME NEW e \in Entry
  PROVE  [e EXCEPT !.cancelled = TRUE] \in Entry
  BY DEF Entry

LEMMA EntryCommitted ==
  ASSUME NEW n \in Nat, NEW w \in Seq(Row), NEW b \in BOOLEAN
  PROVE  [Uncommitted EXCEPT !.rev = n, !.writes = w, !.drops = b] \in Entry
  BY DEF Entry, Uncommitted

LEMMA IntentTyped ==
  ASSUME NEW i \in Intent
  PROVE  i.phase \in Phase /\ i.then \in Phase /\ i.tries \in Nat /\ i.revision \in Nat
  BY DEF Intent

LEMMA IntentChanged ==
  ASSUME NEW i \in Intent
  PROVE  /\ \A p \in Phase : [i EXCEPT !.phase = p] \in Intent
         /\ \A p, t \in Phase : [i EXCEPT !.phase = p, !.then = t] \in Intent
         /\ \A p \in Phase, n \in Nat : [i EXCEPT !.phase = p, !.revision = n] \in Intent
         /\ \A p \in Phase, n \in Nat : [i EXCEPT !.phase = p, !.tries = n] \in Intent
         /\ \A p, t \in Phase, n \in Nat : [i EXCEPT !.phase = p, !.then = t, !.tries = n] \in Intent
         /\ \A p, t \in Phase, n \in Nat : [i EXCEPT !.tries = n, !.phase = p, !.then = t] \in Intent
  BY DEF Intent

LEMMA NoIntentTyped == NoIntent \in Intent /\ Fenced \in Intent
  BY DEF Intent, Fenced, NoIntent, Phase

LEMMA RequestChanged ==
  ASSUME NEW q \in Asked
  PROVE  /\ Unasked \in Asked /\ Waiting \in Asked /\ q.op \in Op
         /\ \A b \in BOOLEAN : [q EXCEPT !.pc = "read", !.seen = b] \in Asked
  BY OperationsAssumption DEF Asked, Unasked, Waiting, Op

LEMMA SentTyped ==
  ASSUME NEW mode \in {"plain", "empty", "replay"}, NEW recover \in BOOLEAN
  PROVE  Sent(mode, recover) \in Projector
  BY DEF Sent, Projector

LEMMA ProjectorChanged ==
  ASSUME NEW p \in Projector, NEW result \in Result
  PROVE  [p EXCEPT !.pc = result] \in Projector /\ p.recover \in BOOLEAN /\ Resting \in Projector
  BY DEF Projector, Resting

LEMMA TableTyped ==
  ASSUME NEW t \in Table
  PROVE  t.revision \in Nat /\ t.projected \in Nat /\ t.rows \in [Row -> Nat]
  BY DEF Table

LEMMA TableProjected ==
  ASSUME NEW t \in Table, NEW n \in Nat
  PROVE  [t EXCEPT !.projected = n] \in Table
  BY DEF Table

LEMMA TableCancelled ==
  ASSUME NEW t \in Table, NEW r \in Row
  PROVE  [t EXCEPT !.rows[r] = Gone] \in Table
  BY DEF Table, Gone

\* The event a projector that is not idle works at.
LEMMA BusyEvent ==
  ASSUME TableInv, projector.pc # "idle"
  PROVE  /\ Pending # {} /\ Revisions /\ stage # "purged"
         /\ Event \in Op /\ Event \in Pending
         /\ entry[Event].rev = table.projected + 1
         /\ table.projected + 1 \in Base + 1..table.revision
         /\ \A o \in Op : entry[o].rev = table.projected + 1 => o = Event
         /\ entry[Event].writes \in Writing
         /\ entry[Event].step \in 1..Len(entry[Event].writes)
         /\ Target \in Row
         /\ entry[Event].cancelled => Event \in Captures
         /\ Event \in Captures => /\ entry[Event].writes = <<1>> /\ ~entry[Event].drops
                                  /\ Target = 1 /\ entry[Event].step = 1
<1>1. stage # "purged" /\ Pending # {} /\ Revisions /\ table.revision \in Nat
  BY TableTyped DEF TableInv, ProjectorAt, History, TypeOK
<1>2. /\ Event \in Op /\ Event \in Pending
      /\ entry[Event].rev = table.projected + 1
      /\ \A o \in Op : entry[o].rev = table.projected + 1 => o = Event
      /\ table.projected + 1 \in Base + 1..table.revision
  BY <1>1, EventIsNext, Zenon
<1>3. Shaped(Event) /\ entry[Event].rev # 0 /\ entry[Event].rev > table.projected
  BY <1>1, <1>2, TableTyped DEF TableInv, Base, TypeOK
<1>4. entry[Event].writes \in Writing /\ entry[Event].step \in 1..Len(entry[Event].writes)
  BY <1>3 DEF Shaped
<1>5. Target \in Row
  BY <1>4, WritingFacts DEF Target
<1>6. ASSUME Event \in Captures
      PROVE  /\ entry[Event].writes = <<1>> /\ ~entry[Event].drops
             /\ Target = 1 /\ entry[Event].step = 1
  <2>1. entry[Event].writes = <<1>> /\ ~entry[Event].drops
    BY <1>3, <1>6 DEF Shaped
  <2>. QED
    BY <1>4, <2>1 DEF Target
<1>. QED
  BY <1>1, <1>2, <1>3, <1>4, <1>5, <1>6 DEF Shaped

LEMMA HandledTyped ==
  ASSUME TypeOK
  PROVE  Armed \in BOOLEAN /\ \A work : Handled(work) \in {"idle", "project", "repair"}
  BY DEF Armed, Handled, TypeOK

\* The end of a turn, and the end of project() for those who wait for it.
LEMMA TurnTyped ==
  ASSUME TypeOK,
         \/ \E work : TurnFails(work) \/ TurnBlocked(work)
         \/ \E p \in {"headers", "rows", "reconcile", "verify", "publish"} : TurnYields(p) \/ TurnGoesOn(p)
  PROVE  /\ repair' \in Working \union {"idle"} /\ intent' \in Intent
         /\ alarm' \in BOOLEAN /\ handler' \in {"idle", "project", "repair"}
<1>1. intent \in Intent
  BY DEF TypeOK
<1>2. \A p \in {"blocked", "headers", "rows", "reconcile", "verify", "publish"} :
         [intent EXCEPT !.phase = p] \in Intent /\ [intent EXCEPT !.phase = p, !.then = intent.phase] \in Intent
  <2>1. intent.phase \in Phase
    BY <1>1, IntentTyped
  <2>2. \A p \in Phase : [intent EXCEPT !.phase = p] \in Intent
    BY <1>1, IntentChanged
  <2>3. \A p \in Phase : [intent EXCEPT !.phase = p, !.then = intent.phase] \in Intent
    BY <1>1, <2>1, IntentChanged
  <2>. QED
    BY <2>2, <2>3 DEF Phase
<1>. QED
  BY <1>1, <1>2, HandledTyped DEF TurnFails, TurnBlocked, TurnYields, TurnGoesOn, TypeOK, Working

LEMMA SettleTyped ==
  ASSUME TypeOK, NEW result, Settle(result)
  PROVE  /\ projector' \in Projector /\ request' \in [Request -> Asked]
         /\ alarm' \in BOOLEAN /\ handler' \in {"idle", "project", "repair"}
         /\ repair' \in Working \union {"idle"} /\ intent' \in Intent
<1>1. projector' \in Projector
  BY DEF Settle, Resting, Projector
<1>2. request' \in [Request -> Asked]
  BY RequestChanged DEF Settle, TypeOK
<1>3. [intent EXCEPT !.phase = "headers", !.revision = table.revision] \in Intent
  BY IntentChanged, IntentTyped, TableTyped DEF TypeOK, Phase
<1>4. CASE TurnBlocked({"project", "repair"}) \/ TurnFails({"project", "repair"})
  BY <1>1, <1>2, <1>4, TurnTyped, Zenon
<1>5. CASE ~(TurnBlocked({"project", "repair"}) \/ TurnFails({"project", "repair"}))
  <2>1. alarm' \in BOOLEAN /\ handler' \in {"idle", "project", "repair"}
    BY <1>5, HandledTyped DEF Settle, TypeOK
  <2>2. repair' \in Working \union {"idle"} /\ intent' \in Intent
    BY <1>3, <1>5 DEF Settle, TypeOK, Working
  <2>. QED
    BY <1>1, <1>2, <2>1, <2>2
<1>. QED
  BY <1>4, <1>5

\* What D1 does with a batch, and what it answers.
LEMMA BatchTyped ==
  ASSUME TableInv, Batch
  PROVE  TypeOK'
<1>1. projector.pc = "sent" /\ TypeOK
  BY DEF Batch, TableInv
<1>2. entry[Event].rev \in Nat /\ Target \in Row /\ Event \in Op
  BY <1>1, BusyEvent DEF TypeOK, Entry
<1>3. Outcome \in Result
  BY DEF Outcome, Result
<1>4. ASSUME Applied
      PROVE  /\ mirror' \in [Row -> Nat \union {Bare}] /\ registry' \in Registry
             /\ released' \subseteq Captures
  <2>1. mirror' \in [Row -> Nat \union {Bare}]
    BY <1>1, <1>2, <1>4 DEF Applied, TypeOK, Gone, Drops
  <2>2. registry' \in Registry
    BY <1>1, <1>2, <1>4 DEF Applied, TypeOK, Registry
  <2>. QED
    BY <1>1, <1>4, <2>1, <2>2 DEF Applied, TypeOK
<1>5. /\ mirror' \in [Row -> Nat \union {Bare}] /\ registry' \in Registry
      /\ released' \subseteq Captures
  BY <1>1, <1>4 DEF Batch, TypeOK
<1>6. projector' \in Projector
  <2>1. \E result \in Result : projector' = [projector EXCEPT !.pc = result]
    BY <1>3 DEF Batch, Result
  <2>. QED
    BY <1>1, <2>1, ProjectorChanged DEF TypeOK
<1>7. mishaps' \in 0..MaxMishaps
  BY <1>1, BoundsAssumption DEF Batch, Mishap, TypeOK
<1>. QED
  BY <1>1, <1>5, <1>6, <1>7 DEF Batch, TypeOK, durable

\* A step of project().
LEMMA ProjectTyped ==
  ASSUME TableInv, Advances \/ Cancels \/ Recovers \/ GivesUp
  PROVE  TypeOK'
<1>1. projector.pc # "idle" /\ TypeOK
  BY DEF Advances, Cancels, Recovers, GivesUp, Result, TableInv
<1>2. Event \in Op /\ Target \in Row /\ entry[Event] \in Entry /\ entry[Event].rev \in Nat /\ entry[Event].step \in Nat
  BY <1>1, BusyEvent DEF TypeOK, Entry
<1>3. \A mode \in {"plain", "empty", "replay"} : Sent(mode, projector.recover) \in Projector /\ Sent(mode, TRUE) \in Projector
  BY <1>1, ProjectorChanged, SentTyped DEF TypeOK, Result
<1>4. ASSUME NEW e \in Entry, entry' = [entry EXCEPT ![Event] = e]
      PROVE  entry' \in [Op -> Entry]
  BY <1>1, <1>4 DEF TypeOK
<1>5. CASE Advances
  <2>1. entry' \in [Op -> Entry]
    <3>1. entry' = entry \/ entry' = [entry EXCEPT ![Event] = [entry[Event] EXCEPT !.step = entry[Event].step + 1]]
      BY <1>5 DEF Advances
    <3>2. [entry[Event] EXCEPT !.step = entry[Event].step + 1] \in Entry
      BY <1>2, EntryStepped
    <3>. QED
      BY <1>1, <1>4, <3>1, <3>2 DEF TypeOK
  <2>2. table' \in Table
    BY <1>1, <1>2, <1>5, TableProjected DEF Advances, TypeOK
  <2>3. mishaps' \in 0..MaxMishaps
    BY <1>1, <1>5, BoundsAssumption DEF Advances, TypeOK, Mishap
  <2>4. \/ projector' = Sent("plain", projector.recover) /\ UNCHANGED <<intent, alarm, request, handler, repair>>
        \/ Settle("ok") \/ Settle("failed")
    BY <1>5, Zenon DEF Advances
  <2>5. /\ projector' \in Projector /\ request' \in [Request -> Asked]
        /\ alarm' \in BOOLEAN /\ handler' \in {"idle", "project", "repair"}
        /\ repair' \in Working \union {"idle"} /\ intent' \in Intent
    <3>1. CASE projector' = Sent("plain", projector.recover) /\ UNCHANGED <<intent, alarm, request, handler, repair>>
      BY <1>1, <1>3, <3>1 DEF TypeOK
    <3>. QED
      BY <1>1, <2>4, <3>1, SettleTyped, Zenon
  <2>. QED
    BY <1>1, <1>5, <2>1, <2>2, <2>3, <2>5 DEF Advances, TypeOK, d1
<1>6. CASE Cancels
  <2>1. entry' \in [Op -> Entry]
    <3>1. entry' = [entry EXCEPT ![Event] = [entry[Event] EXCEPT !.cancelled = TRUE]]
      BY <1>6 DEF Cancels
    <3>2. [entry[Event] EXCEPT !.cancelled = TRUE] \in Entry
      BY <1>2, EntryCancelled
    <3>. QED
      BY <1>4, <3>1, <3>2
  <2>2. table' \in Table
    BY <1>1, <1>2, <1>6, TableCancelled DEF Cancels, TypeOK
  <2>3. projector' \in Projector
    BY <1>3, <1>6 DEF Cancels
  <2>. QED
    BY <1>1, <1>6, <2>1, <2>2, <2>3 DEF Cancels, TypeOK, d1, history
<1>7. CASE Recovers
  <2>1. projector' \in Projector
    BY <1>3, <1>7 DEF Recovers
  <2>. QED
    BY <1>1, <1>7, <2>1 DEF Recovers, TypeOK, d1, history, durable
<1>8. CASE GivesUp
  <2>1. \E result : Settle(result)
    BY <1>8 DEF GivesUp
  <2>2. /\ projector' \in Projector /\ request' \in [Request -> Asked]
        /\ alarm' \in BOOLEAN /\ handler' \in {"idle", "project", "repair"}
        /\ repair' \in Working \union {"idle"} /\ intent' \in Intent
    BY <1>1, <2>1, SettleTyped, Zenon
  <2>. QED
    BY <1>1, <1>8, <2>2 DEF GivesUp, TypeOK, d1, history
<1>. QED
  BY <1>5, <1>6, <1>7, <1>8

\* Requests.
LEMMA RequestsTyped ==
  ASSUME TypeOK,
         \/ \E o \in Op : Send(o)
         \/ \E q \in Request : Reads(q) \/ Commit(q) \/ Refuse(q)
  PROVE  TypeOK'
<1>1. \A q \in Request : request[q] \in Asked /\ request[q].op \in Op
  BY RequestChanged DEF TypeOK
<1>2. ASSUME NEW o \in Op, Send(o)
      PROVE  TypeOK'
  <2>1. [pc |-> "armed", op |-> o, seen |-> FALSE] \in Asked
    BY DEF Asked
  <2>2. request' \in [Request -> Asked]
    BY <1>2, <2>1 DEF Send, TypeOK
  <2>3. asks' \in 0..MaxAsks
    BY <1>2, BoundsAssumption DEF Send, TypeOK
  <2>. QED
    BY <1>2, <2>2, <2>3 DEF Send, TypeOK, durable, d1
<1>3. ASSUME NEW q \in Request, Reads(q)
      PROVE  TypeOK'
  <2>1. PICK b \in BOOLEAN : request' = [request EXCEPT ![q] = [request[q] EXCEPT !.pc = "read", !.seen = b]]
    BY <1>3 DEF Reads
  <2>. DEFINE read == [request[q] EXCEPT !.pc = "read", !.seen = b]
  <2>3. read \in Asked
    BY <1>1, RequestChanged
  <2>2. request' \in [Request -> Asked]
    <3>. HIDE DEF read
    <3>1. request' = [request EXCEPT ![q] = read]
      BY <2>1 DEF read
    <3>. QED
      BY <2>3, <3>1 DEF TypeOK
  <2>. QED
    BY <1>3, <2>2 DEF Reads, TypeOK, durable, d1, history
<1>4. ASSUME NEW q \in Request, Refuse(q)
      PROVE  TypeOK'
  <2>1. request' \in [Request -> Asked]
    BY <1>1, <1>4, RequestChanged DEF Refuse, TypeOK
  <2>. QED
    BY <1>4, <2>1 DEF Refuse, TypeOK, durable, d1, history
<1>5. ASSUME NEW q \in Request, Commit(q)
      PROVE  TypeOK'
  <2>1. request' \in [Request -> Asked]
    BY <1>1, <1>5, RequestChanged DEF Commit, TypeOK
  <2>2. projector' \in Projector
    BY <1>5, SentTyped DEF Commit, Projects, TypeOK
  <2>3. ASSUME NEW o \in Op, NEW drops \in BOOLEAN, Applicable(o), Committed(o, drops)
        PROVE  table' \in Table /\ entry' \in [Op -> Entry]
    <3>1. Writes(o) \in Seq(Row) /\ table.revision + 1 \in Nat
      BY <2>3, WritesFacts, WritingFacts, TableTyped DEF TypeOK
    <3>2. [Uncommitted EXCEPT !.rev = table.revision + 1, !.writes = Writes(o), !.drops = drops] \in Entry
      BY <3>1, EntryCommitted
    <3>3. entry' \in [Op -> Entry]
      BY <2>3, <3>2 DEF Committed, TypeOK
    <3>4. table' \in Table
      BY <2>3, <3>1 DEF Committed, TypeOK, Table, Gone
    <3>. QED
      BY <3>3, <3>4
  <2>4. table' \in Table /\ entry' \in [Op -> Entry]
    <3>1. CASE UNCHANGED <<table, entry>>
      BY <3>1 DEF TypeOK
    <3>2. CASE ~UNCHANGED <<table, entry>>
      <4>1. Applicable(request[q].op) /\ \E drops \in BOOLEAN : Committed(request[q].op, drops)
        BY <1>5, <3>2 DEF Commit
      <4>. QED
        BY <1>1, <2>3, <4>1
    <3>. QED
      BY <3>1, <3>2
  <2>. QED
    BY <1>5, <2>1, <2>2, <2>4 DEF Commit, TypeOK, d1, history
<1>. QED
  BY <1>2, <1>3, <1>4, <1>5

\* The start of a turn.
LEMMA StartTyped ==
  ASSUME NEW from \in Intent, NEW owner \in BOOLEAN, TurnStarts(from, owner)
  PROVE  /\ intent' \in Intent /\ repair' \in Working \union {"idle"} /\ alarm' \in BOOLEAN
<1>1. PICK n \in Nat, p \in Phase : intent' = [from EXCEPT !.tries = n, !.phase = p, !.then = "none"]
  <2>1. from.tries \in Nat /\ from.phase \in Phase /\ from.then \in Phase
    BY DEF Intent
  <2>2. intent' = [from EXCEPT !.tries = IF owner THEN 0 ELSE from.tries,
                               !.phase = IF from.phase = "blocked" THEN from.then ELSE from.phase,
                               !.then = "none"]
    BY DEF TurnStarts
  <2>. QED
    BY <2>1, <2>2
<1>2. intent' \in Intent
  <2>1. "none" \in Phase
    BY DEF Phase
  <2>. QED
    BY <1>1, <2>1, IntentChanged
<1>. QED
  BY <1>2 DEF TurnStarts, Working

\* The alarm and the steps of a repair.
LEMMA RepairTyped ==
  ASSUME TableInv,
         \/ AlarmFires \/ OwnerRepairs
         \/ RepairFence \/ RepairDrain \/ RepairHeaders \/ RepairRows \/ RepairReconcile
         \/ RepairVerify \/ RepairPublish \/ RepairFinish \/ RepairFails
  PROVE  TypeOK'
<1>. TypeOK /\ RepairAt
  BY DEF TableInv
<1>1. /\ Armed \in BOOLEAN /\ \A work : Handled(work) \in {"idle", "project", "repair"}
      /\ \A work : TurnFails(work) \/ TurnBlocked(work) =>
            /\ repair' \in Working \union {"idle"} /\ intent' \in Intent
            /\ alarm' \in BOOLEAN /\ handler' \in {"idle", "project", "repair"}
      /\ \A p \in {"headers", "rows", "reconcile", "verify", "publish"} : TurnYields(p) \/ TurnGoesOn(p) =>
            /\ repair' \in Working \union {"idle"} /\ intent' \in Intent
            /\ alarm' \in BOOLEAN /\ handler' \in {"idle", "project", "repair"}
  BY HandledTyped, TurnTyped, Zenon
<1>2. \A recover \in BOOLEAN : Sent("plain", recover) \in Projector
  BY SentTyped
<1>3. intent \in Intent /\ table.revision \in Nat /\ intent.phase \in Phase /\ intent.revision \in Nat
  BY TableTyped, IntentTyped DEF TypeOK
<1>4. CASE AlarmFires
  <2>1. (IF intent.phase = "none" /\ registry.fence = "repairing" THEN Fenced ELSE intent) \in Intent
    BY <1>3, NoIntentTyped
  <2>2. /\ intent' \in Intent /\ repair' \in Working \union {"idle"} /\ alarm' \in BOOLEAN
        /\ handler' \in {"idle", "project", "repair"}
    <3>1. CASE \E from \in Intent : TurnStarts(from, FALSE)
      BY <1>4, <3>1, StartTyped DEF AlarmFires, TypeOK
    <3>2. CASE ~\E from \in Intent : TurnStarts(from, FALSE)
      BY <1>3, <1>4, <2>1, <3>2 DEF AlarmFires, TypeOK
    <3>. QED
      BY <3>1, <3>2
  <2>3. projector' \in Projector
    BY <1>2, <1>4 DEF AlarmFires, Projects, TypeOK
  <2>4. mishaps' \in 0..MaxMishaps
    <3>1. mishaps' = mishaps \/ Mishap
      BY <1>4, Zenon DEF AlarmFires
    <3>. QED
      BY <3>1, BoundsAssumption DEF Mishap, TypeOK
  <2>. QED
    BY <1>4, <2>2, <2>3, <2>4 DEF AlarmFires, TypeOK, d1
<1>5. CASE OwnerRepairs
  <2>1. (IF intent.phase = "none" THEN Fenced ELSE intent) \in Intent
    BY <1>3, NoIntentTyped
  <2>2. /\ intent' \in Intent /\ repair' \in Working \union {"idle"} /\ alarm' \in BOOLEAN
    BY <1>5, <2>1, StartTyped DEF OwnerRepairs
  <2>3. asks' \in 0..MaxAsks
    BY <1>5, BoundsAssumption DEF OwnerRepairs, TypeOK
  <2>. QED
    BY <1>5, <2>2, <2>3 DEF OwnerRepairs, TypeOK, d1
<1>6. CASE RepairFence
  <2>1. registry' \in Registry
    BY <1>6 DEF RepairFence, TypeOK, Registry
  <2>2. CASE TurnFails({"repair"})
    BY <1>1, <1>6, <2>1, <2>2 DEF RepairFence, TypeOK, history
  <2>3. CASE ~TurnFails({"repair"})
    <3>1. \E p \in Phase : intent' = [intent EXCEPT !.phase = p]
      BY <1>3, <1>6, <2>3 DEF RepairFence, Phase
    <3>2. intent' \in Intent
      BY <1>3, <3>1, IntentChanged
    <3>3. repair' \in Working \union {"idle"}
      <4>1. intent.phase \notin {"none", "blocked"} /\ repair' \in {"again", intent.phase}
        BY <1>6, <2>3 DEF RepairFence, RepairAt
      <4>2. intent.phase # "fence" \/ repair' = "again"
        BY <1>6, <2>3 DEF RepairFence
      <4>. QED
        BY <1>3, <4>1, <4>2 DEF Phase, Working
    <3>. QED
      BY <1>6, <2>1, <2>3, <3>2, <3>3 DEF RepairFence, TypeOK, history
  <2>. QED
    BY <2>2, <2>3
<1>7. CASE RepairDrain
  <2>1. [intent EXCEPT !.phase = "headers", !.revision = table.revision] \in Intent
    BY <1>3, IntentChanged DEF Phase
  <2>2. /\ repair' \in Working \union {"idle"} /\ intent' \in Intent
        /\ alarm' \in BOOLEAN /\ handler' \in {"idle", "project", "repair"} /\ projector' \in Projector
    BY <1>1, <1>2, <1>7, <2>1 DEF RepairDrain, TypeOK, Working
  <2>. QED
    BY <1>7, <2>2 DEF RepairDrain, TypeOK, d1, history
<1>8. CASE RepairHeaders
  <2>1. mirror' \in [Row -> Nat \union {Bare}]
    BY <1>8 DEF RepairHeaders, Gone
  <2>. QED
    BY <1>1, <1>8, <2>1 DEF RepairHeaders, TypeOK, history
<1>9. CASE RepairRows
  <2>1. mirror' \in [Row -> Nat \union {Bare}]
    BY <1>9, TableTyped DEF RepairRows, TypeOK, Present
  <2>. QED
    BY <1>1, <1>9, <2>1 DEF RepairRows, TypeOK, history
<1>10. CASE RepairReconcile
  <2>1. mirror' \in [Row -> Nat \union {Bare}]
    BY <1>10 DEF RepairReconcile, TypeOK, Gone
  <2>. QED
    BY <1>1, <1>10, <2>1 DEF RepairReconcile, TypeOK, history
<1>11. CASE RepairVerify
  <2>. /\ "headers" \in Phase /\ "blocked" \in Phase
       /\ 1 \in Nat /\ intent.tries + 1 \in Nat
    BY <1>3, IntentTyped DEF Phase
  <2>3. [intent EXCEPT !.phase = "headers", !.tries = 1] \in Intent
    BY <1>3, IntentChanged
  <2>4. [intent EXCEPT !.phase = "blocked", !.then = "headers", !.tries = intent.tries + 1] \in Intent
    BY <1>3, IntentChanged
  <2>1. /\ [intent EXCEPT !.phase = "headers", !.tries = 1] \in Intent
        /\ [intent EXCEPT !.phase = "blocked", !.then = "headers", !.tries = intent.tries + 1] \in Intent
    BY <2>3, <2>4
  <2>2. /\ repair' \in Working \union {"idle"} /\ intent' \in Intent
        /\ alarm' \in BOOLEAN /\ handler' \in {"idle", "project", "repair"} /\ lost' \subseteq Row
    <3>1. CASE TurnGoesOn("publish") /\ lost' = {}
      BY <1>1, <3>1
    <3>2. CASE ~(TurnGoesOn("publish") /\ lost' = {})
      BY <1>1, <1>11, <2>1, <3>2 DEF RepairVerify, TypeOK
    <3>. QED
      BY <3>1, <3>2
  <2>. QED
    BY <1>11, <2>2 DEF RepairVerify, TypeOK, d1
<1>12. CASE RepairPublish
  <2>1. registry' \in Registry
    BY <1>3, <1>12 DEF RepairPublish, Registry
  <2>. QED
    BY <1>12, <2>1 DEF RepairPublish, TypeOK, Working, history, durable
<1>13. CASE RepairFinish
  <2>1. table' \in Table /\ intent' \in Intent
    BY <1>3, <1>13, TableProjected, NoIntentTyped DEF RepairFinish, TypeOK
  <2>. QED
    BY <1>1, <1>13, <2>1 DEF RepairFinish, TypeOK, history, d1
<1>14. CASE RepairFails
  <2>1. mishaps' \in 0..MaxMishaps
    BY <1>14, BoundsAssumption DEF RepairFails, Mishap, TypeOK
  <2>. QED
    BY <1>1, <1>14, <2>1 DEF RepairFails, TypeOK, d1
<1>. QED
  BY <1>4, <1>5, <1>6, <1>7, <1>8, <1>9, <1>10, <1>11, <1>12, <1>13, <1>14

\* Deletion and what happens around the object.
LEMMA AroundTyped ==
  ASSUME TypeOK,
         \/ AcceptDeletion \/ Stop \/ Stopped \/ RemoveRows \/ Purge
         \/ Crash \/ (\E r \in Fragile : LoseRow(r)) \/ ChangeDestination \/ Rest
  PROVE  TypeOK'
<1>8. CASE AcceptDeletion
  BY <1>8, BoundsAssumption DEF AcceptDeletion, TypeOK, durable, memory
<1>9. CASE Stop
  BY <1>9 DEF Stop, TypeOK, memory, d1, history
<1>10. CASE Stopped
  BY <1>10 DEF Stopped, TypeOK, memory, d1, history
<1>1. CASE AcceptDeletion \/ Stop \/ Stopped
  BY <1>1, <1>8, <1>9, <1>10
<1>2. CASE RemoveRows
  <2>1. mirror' \in [Row -> Nat \union {Bare}]
    BY <1>2 DEF RemoveRows, Gone
  <2>. QED
    BY <1>2, <2>1 DEF RemoveRows, TypeOK, durable, memory, history
<1>3. CASE Purge
  <2>1. table' \in Table /\ intent' \in Intent
    BY <1>3, NoIntentTyped DEF Purge, Table, Gone
  <2>2. entry' \in [Op -> Entry]
    BY <1>3 DEF Purge, Uncommitted, Entry
  <2>. QED
    BY <1>3, <2>1, <2>2 DEF Purge, TypeOK, memory, d1, history
<1>4. CASE Crash
  <2>1. request' \in [Request -> Asked] /\ projector' \in Projector
    BY <1>4, OperationsAssumption DEF Crash, Unasked, Op, Asked, Resting, Projector
  <2>2. mishaps' \in 0..MaxMishaps
    BY <1>4, BoundsAssumption DEF Crash, Mishap, TypeOK
  <2>3. alarm' \in BOOLEAN /\ orphaned' \in BOOLEAN
    BY <1>4 DEF Crash, TypeOK
  <2>. QED
    BY <1>4, <2>1, <2>2, <2>3 DEF Crash, TypeOK, durable, d1
<1>5. ASSUME NEW r \in Fragile, LoseRow(r)
      PROVE  TypeOK'
  <2>1. r \in Row
    BY BoundsAssumption DEF Row
  <2>2. mishaps' \in 0..MaxMishaps
    BY <1>5, BoundsAssumption DEF LoseRow, Mishap, TypeOK
  <2>3. mirror' \in [Row -> Nat \union {Bare}] /\ lost' \subseteq Row
    BY <1>5, <2>1 DEF LoseRow, TypeOK, Gone
  <2>. QED
    BY <1>5, <2>2, <2>3 DEF LoseRow, TypeOK, durable, memory
<1>6. CASE ChangeDestination
  <2>1. mishaps' \in 0..MaxMishaps
    BY <1>6, BoundsAssumption DEF ChangeDestination, Mishap, TypeOK
  <2>. QED
    BY <1>6, <2>1 DEF ChangeDestination, TypeOK, durable, memory
<1>7. CASE Rest
  BY <1>7 DEF Rest, vars, TypeOK
<1>. QED
  BY <1>1, <1>2, <1>3, <1>4, <1>5, <1>6, <1>7

\* Every step keeps the types.
LEMMA StepTyped ==
  ASSUME TableInv, [Next]_vars
  PROVE  TypeOK'
<1>1. TypeOK
  BY DEF TableInv
<1>2. CASE Next
  BY <1>1, <1>2, BatchTyped, ProjectTyped, RequestsTyped, RepairTyped, AroundTyped, Zenon DEF Next, Own
<1>3. CASE UNCHANGED vars
  BY <1>1, <1>3, AroundTyped, Zenon DEF vars, TypeOK
<1>. QED
  BY <1>2, <1>3

-----------------------------------------------------------------------------
(* The history of the table.                                               *)

\* What does not touch the table and its receipts.
LEMMA HistoryFrame ==
  ASSUME TableInv, UNCHANGED <<table, entry>>, stage = "purged" => stage' = "purged"
  PROVE  (\A o \in Op : Shaped(o))' /\ History'
<1>1. \A o \in Op : Shaped(o)'
  BY DEF TableInv, Shaped
<1>2. History'
  BY DEF TableInv, History, Revisions, Recorded
<1>. QED
  BY <1>1, <1>2

\* The steps of a projection.
LEMMA HistoryAdvances ==
  ASSUME TableInv, Advances
  PROVE  (\A o \in Op : Shaped(o))' /\ History'
<1> DEFINE v == entry[Event].rev
<1>. /\ TypeOK /\ (\A o \in Op : Shaped(o)) /\ History /\ ProjectorAt
     /\ projector.pc = "ok" /\ stage = "active" /\ stage' = "active"
  BY DEF TableInv, Advances, Active
<1>1. /\ Revisions /\ Recorded /\ Event \in Op /\ entry[Event].writes \in Writing
      /\ entry[Event].step \in 1..Len(entry[Event].writes)
      /\ v = table.projected + 1 /\ v \in Base + 1..table.revision
      /\ \A o \in Op : entry[o].rev = v => o = Event
  BY BusyEvent DEF History
<1>2. /\ table.revision \in Nat /\ table.projected \in Nat /\ entry \in [Op -> Entry]
      /\ \A o \in Op : entry[o].rev \in Nat /\ entry[o].step \in Nat
  BY TableTyped DEF TypeOK, Entry
<1>3. entry' = entry \/ entry' = [entry EXCEPT ![Event] = [entry[Event] EXCEPT !.step = entry[Event].step + 1]]
  BY DEF Advances
<1>4. \A o \in Op : /\ entry'[o].rev = entry[o].rev /\ entry'[o].writes = entry[o].writes
                    /\ entry'[o].drops = entry[o].drops /\ entry'[o].cancelled = entry[o].cancelled
                    /\ o # Event => entry'[o] = entry[o]
  BY <1>1, <1>2, <1>3 DEF Entry
<1>5. /\ table'.revision = table.revision /\ table'.rows = table.rows
      /\ \/ table'.projected = v
         \/ table'.projected = table.projected /\ entry[Event].step < Len(entry[Event].writes)
            /\ entry'[Event].step = entry[Event].step + 1
  BY <1>1, <1>2, TableTyped, WritingFacts DEF Advances, Final, TypeOK, Table, Entry
<1>6. ASSUME NEW o \in Op PROVE Shaped(o)'
  <2>1. Shaped(o) /\ entry[o].rev \in Nat
    BY <1>2
  <2>2. CASE o # Event
    BY <1>1, <1>2, <1>4, <1>5, <2>1, <2>2 DEF Shaped
  <2>3. CASE o = Event
    BY <1>1, <1>2, <1>4, <1>5, <2>1, <2>3, WritingFacts DEF Shaped, Base
  <2>. QED
    BY <2>2, <2>3
<1>7. Revisions'
  BY <1>1, <1>2, <1>4, <1>5 DEF Revisions, Base
<1>8. Recorded'
  <2>1. \A r : ValueIn(entry', r, table.revision) = ValueIn(entry, r, table.revision)
    BY <1>2, <1>4, ValueKept
  <2>2. \A r : Refused(entry', r) = Refused(entry, r)
    BY <1>4 DEF Refused, Op
  <2>. QED
    BY <1>1, <1>5, <2>1, <2>2 DEF Recorded
<1>. QED
  BY <1>6, <1>7, <1>8 DEF History

\* A capture is cancelled: its row is not recorded any more.
LEMMA HistoryCancels ==
  ASSUME TableInv, Cancels
  PROVE  (\A o \in Op : Shaped(o))' /\ History'
<1>. /\ TypeOK /\ (\A o \in Op : Shaped(o)) /\ History /\ ProjectorAt
     /\ projector.pc = "conflict" /\ stage = "active"
  BY DEF TableInv, Cancels, Active
<1>1. /\ Revisions /\ Recorded /\ Event \in Op /\ entry[Event].writes = <<1>> /\ Target = 1
      /\ entry[Event].rev = table.projected + 1 /\ Event \in Captures
  BY BusyEvent DEF History, ProjectorAt
<1>2. /\ table.revision \in Nat /\ table.projected \in Nat /\ entry \in [Op -> Entry]
      /\ \A o \in Op : entry[o].rev \in Nat /\ entry[o].step \in Nat
  BY TableTyped DEF TypeOK, Entry
<1>3. entry' = [entry EXCEPT ![Event] = [entry[Event] EXCEPT !.cancelled = TRUE]]
  BY DEF Cancels
<1>4. /\ \A o \in Op : /\ entry'[o].rev = entry[o].rev /\ entry'[o].writes = entry[o].writes
                       /\ entry'[o].drops = entry[o].drops /\ entry'[o].step = entry[o].step
                       /\ entry[o].cancelled => entry'[o].cancelled
                       /\ o # Event => entry'[o] = entry[o]
      /\ entry'[Event].cancelled
  BY <1>1, <1>2, <1>3 DEF Entry
<1>5. /\ table'.revision = table.revision /\ table'.projected = table.projected
      /\ \A r \in Row : r # 1 => table'.rows[r] = table.rows[r]
  BY <1>1, TableTyped DEF Cancels, TypeOK, Table
<1>6. ASSUME NEW o \in Op PROVE Shaped(o)'
  <2>1. Shaped(o) /\ entry[o].rev \in Nat
    BY <1>2
  <2>2. CASE o # Event
    BY <1>1, <1>2, <1>4, <1>5, <2>1, <2>2 DEF Shaped
  <2>3. CASE o = Event
    BY <1>1, <1>2, <1>4, <1>5, <2>1, <2>3 DEF Shaped, Base
  <2>. QED
    BY <2>2, <2>3
<1>7. Revisions'
  BY <1>1, <1>2, <1>4, <1>5 DEF Revisions, Base
<1>8. Recorded'
  <2>1. \A r : ValueIn(entry', r, table.revision) = ValueIn(entry, r, table.revision)
    BY <1>2, <1>4, ValueKept
  <2>2. \A r \in Row : ~Refused(entry', r) => ~Refused(entry, r) /\ r # 1
    BY <1>1, <1>4 DEF Refused, Op, Range
  <2>. QED
    BY <1>1, <1>5, <2>1, <2>2 DEF Recorded
<1>9. stage' # "purged"
  BY DEF Cancels
<1>. QED
  BY <1>6, <1>7, <1>8 DEF History

\* A command is committed with a revision above all others.
LEMMA CommitAdds ==
  ASSUME TableInv, NEW o \in Op, NEW drops \in BOOLEAN, entry[o].rev = 0, stage = "active",
         Applicable(o), drops => o \in Bulks /\ 2 \in Present, Committed(o, drops)
  PROVE  /\ table' \in Table /\ table'.revision = table.revision + 1 /\ table'.projected = table.projected
         /\ \A p \in Op : p # o => entry'[p] = entry[p]
         /\ entry'[o] = [rev |-> table.revision + 1, writes |-> Writes(o), drops |-> drops,
                        step |-> 1, cancelled |-> FALSE]
         /\ \A r \in Row : table'.rows[r] = IF r \notin Range(Writes(o)) THEN table.rows[r]
                                            ELSE IF drops /\ r = 2 THEN Gone ELSE table.revision + 1
         /\ Writes(o) \in Writing /\ (o \in Captures => Writes(o) = <<1>> /\ ~drops)
         /\ drops => 2 \in Range(Writes(o))
<1>1. entry \in [Op -> Entry] /\ table \in Table /\ table.revision \in Nat
  BY TableTyped DEF TableInv, TypeOK
<1>2. /\ Writes(o) \in Writing /\ (o \in Captures => Writes(o) = <<1>>)
      /\ o \notin Captures => Range(Writes(o)) = Present
  BY WritesFacts, Zenon
<1>3. drops => o \notin Captures
  BY OperationsAssumption
<1>4. Writes(o) \in Seq(Row)
  BY <1>2, WritingFacts
<1>5. PICK rows \in [Row -> Nat] :
        /\ rows = [r \in Row |-> IF r \notin Range(Writes(o)) THEN table.rows[r]
                                 ELSE IF drops /\ r = 2 THEN Gone ELSE table.revision + 1]
        /\ table' = [table EXCEPT !.revision = table.revision + 1, !.rows = rows]
  <2> DEFINE new == [r \in Row |-> IF r \notin Range(Writes(o)) THEN table.rows[r]
                                   ELSE IF drops /\ r = 2 THEN Gone ELSE table.revision + 1]
  <2>1. new \in [Row -> Nat]
    BY <1>1, TableTyped DEF Gone
  <2>2. table' = [table EXCEPT !.revision = table.revision + 1, !.rows = new]
    BY <1>1 DEF Committed
  <2>. QED
    BY <2>1, <2>2
<1>7. table' \in Table /\ table'.revision = table.revision + 1 /\ table'.projected = table.projected
      /\ table'.rows = rows
  <2>1. table \in Table /\ table.revision + 1 \in Nat
    BY <1>1
  <2>2. table' = [table EXCEPT !.revision = table.revision + 1, !.rows = rows]
    BY <1>5
  <2>3. table' \in Table
    BY <2>1, <2>2 DEF Table
  <2>4. table'.revision = table.revision + 1 /\ table'.projected = table.projected /\ table'.rows = rows
    BY <2>1, <2>2 DEF Table
  <2>. QED
    BY <2>3, <2>4
<1>8. /\ \A p \in Op : p # o => entry'[p] = entry[p]
      /\ entry'[o] = [rev |-> table.revision + 1, writes |-> Writes(o), drops |-> drops,
                     step |-> 1, cancelled |-> FALSE]
  BY <1>1 DEF Committed, Uncommitted
<1>. QED
  BY <1>2, <1>3, <1>5, <1>7, <1>8

\* What an earlier revision left is as it was.
LEMMA CommitKeeps ==
  ASSUME NEW e, NEW f, NEW o \in Op, NEW n \in Nat, NEW v \in 0..n,
         e[o].rev = 0, f[o].rev = n + 1, \A p \in Op : p # o => f[p] = e[p]
  PROVE  \A r : ValueIn(f, r, v) = ValueIn(e, r, v)
<1>1. ASSUME NEW p \in Op
      PROVE  \/ f[p].rev = e[p].rev /\ f[p].writes = e[p].writes /\ f[p].drops = e[p].drops
             \/ e[p].rev \notin 1..v /\ f[p].rev \notin 1..v
  <2>1. n + 1 \notin 1..v /\ 0 \notin 1..v
    OBVIOUS
  <2>3. CASE p = o
    BY <2>1, <2>3
  <2>4. CASE p # o
    BY <2>4
  <2>. QED
    BY <2>3, <2>4
<1>2. v \in Nat
  OBVIOUS
<1>. QED
  BY <1>1, <1>2, ValueKept

\* What the last revision made of the rows.
LEMMA HistoryCommitted ==
  ASSUME TableInv, NEW o \in Op, NEW drops \in BOOLEAN, entry[o].rev = 0, stage = "active",
         Applicable(o), drops => o \in Bulks /\ 2 \in Present, Committed(o, drops)
  PROVE  (\A p \in Op : Shaped(p))' /\ Revisions' /\ Recorded'
<1> DEFINE v == table.revision
<1>. TypeOK /\ (\A p \in Op : Shaped(p)) /\ Revisions /\ Recorded
  BY DEF TableInv, History
<1>1. /\ v \in Nat /\ table.projected \in Nat /\ table.projected \in Base..v
      /\ \A p \in Op : entry[p].rev \in Nat /\ entry[p].rev <= v
  BY TableTyped DEF TypeOK, Entry, Revisions, Base
<1>2. /\ table'.revision = v + 1 /\ table'.projected = table.projected
      /\ \A p \in Op : p # o => entry'[p] = entry[p]
      /\ entry'[o].rev = v + 1 /\ entry'[o].writes = Writes(o) /\ entry'[o].drops = drops
      /\ entry'[o].step = 1 /\ ~entry'[o].cancelled
  <2>1. entry'[o] = [rev |-> v + 1, writes |-> Writes(o), drops |-> drops, step |-> 1, cancelled |-> FALSE]
    BY CommitAdds
  <2>2. /\ table'.revision = v + 1 /\ table'.projected = table.projected
        /\ \A p \in Op : p # o => entry'[p] = entry[p]
    BY CommitAdds
  <2>. QED
    BY <2>1, <2>2
<1>3. /\ Writes(o) \in Writing /\ (o \in Captures => Writes(o) = <<1>> /\ ~drops)
      /\ drops => 2 \in Range(Writes(o))
      /\ \A r \in Row : table'.rows[r] = IF r \notin Range(Writes(o)) THEN table.rows[r]
                                         ELSE IF drops /\ r = 2 THEN Gone ELSE v + 1
  BY CommitAdds
<1>4. ASSUME NEW p \in Op PROVE Shaped(p)'
  <2>1. Shaped(p)
    OBVIOUS
  <2>2. CASE p # o
    BY <1>1, <1>2, <2>1, <2>2 DEF Shaped
  <2>3. CASE p = o
    <3>1. 1 \in 1..Len(Writes(o))
      BY <1>3, WritingFacts
    <3>. QED
      BY <1>1, <1>2, <1>3, <2>3, <3>1 DEF Shaped
  <2>. QED
    BY <2>2, <2>3
<1>5. Revisions'
  <2>1. \A p \in Op : entry'[p].rev # 0 => entry'[p].rev \in Base + 1..v + 1
    BY <1>1, <1>2 DEF Revisions, Base
  <2>2. \A n \in Base + 1..v + 1 : \E p \in Op : entry'[p].rev = n
    <3>1. \A n \in Base + 1..v : \E p \in Op : entry[p].rev = n /\ p # o
      BY <1>1 DEF Revisions, Base
    <3>. QED
      BY <1>1, <1>2, <3>1 DEF Base
  <2>3. \A p, q \in Op : entry'[p].rev # 0 /\ entry'[p].rev = entry'[q].rev => p = q
    BY <1>1, <1>2 DEF Revisions
  <2>. QED
    BY <1>1, <1>2, <2>1, <2>2, <2>3 DEF Revisions, Base
<1>6. Recorded'
  <2>1. ASSUME NEW r \in Row, ~Refused(entry', r)
        PROVE  table'.rows[r] = ValueIn(entry', r, v + 1)
    <3>1. ~Refused(entry, r)
      <4>1. ~entry[o].cancelled
        BY DEF Shaped, Uncommitted
      <4>. QED
        BY <1>2, <2>1, <4>1 DEF Refused, Op
    <3>2. CASE r \in Range(Writes(o))
      <4>1. ValueIn(entry', r, entry'[o].rev) = IF entry'[o].drops /\ r = 2 THEN Gone ELSE entry'[o].rev
        <5>1. entry'[o].rev \in Nat \ {0} /\ r \in Range(entry'[o].writes)
          BY <1>1, <1>2, <3>2
        <5>2. \A p \in Op : entry'[p].rev = entry'[o].rev => p = o
          BY <1>1, <1>2
        <5>. QED
          BY <5>1, <5>2, ValueWritten
      <4>. QED
        BY <1>2, <1>3, <3>2, <4>1
    <3>3. CASE r \notin Range(Writes(o))
      <4>1. ValueIn(entry', r, v + 1) = ValueIn(entry', r, v)
        <5>1. \A p \in Op : entry'[p].rev = v + 1 => r \notin Range(entry'[p].writes)
          BY <1>1, <1>2, <3>3
        <5>. QED
          BY <1>1, <5>1, ValueLeft
      <4>2. ValueIn(entry', r, v) = ValueIn(entry, r, v)
        BY <1>1, <1>2, CommitKeeps
      <4>. QED
        BY <1>3, <3>1, <3>3, <4>1, <4>2 DEF Recorded
    <3>. QED
      BY <3>2, <3>3
  <2>. QED
    BY <1>2, <2>1 DEF Recorded
<1>. QED
  BY <1>4, <1>5, <1>6

LEMMA HistoryCommit ==
  ASSUME TableInv, NEW q \in Request, Commit(q)
  PROVE  (\A o \in Op : Shaped(o))' /\ History'
<1>1. request[q].op \in Op
  BY DEF TableInv, TypeOK, Asked
<1>2. CASE UNCHANGED <<table, entry>>
  BY <1>2, HistoryFrame DEF Commit
<1>3. CASE ~UNCHANGED <<table, entry>>
  <2> DEFINE o == request[q].op
  <2>1. /\ New(o) /\ Applicable(o) /\ stage = "active"
        /\ \E drops \in BOOLEAN : (drops => o \in Bulks /\ 2 \in Present) /\ Committed(o, drops)
    BY <1>3 DEF Commit, Authorized, Unfenced, Active
  <2>. QED
    BY <1>1, <2>1, HistoryCommitted DEF New, History
<1>. QED
  BY <1>2, <1>3

\* The last publication covers every event.
LEMMA HistoryFinish ==
  ASSUME TableInv, RepairFinish
  PROVE  (\A o \in Op : Shaped(o))' /\ History'
<1>. /\ TypeOK /\ (\A o \in Op : Shaped(o)) /\ History
     /\ stage = "active" /\ stage' = "active" /\ entry' = entry
  BY DEF TableInv, RepairFinish, Active
<1>1. /\ table.revision \in Nat /\ Revisions /\ Recorded
      /\ \A o \in Op : entry[o].rev \in Nat /\ entry[o].rev <= table.revision
  BY TableTyped DEF TypeOK, Entry, History, Revisions, Base
<1>2. table'.projected = table.revision /\ table'.revision = table.revision /\ table'.rows = table.rows
  BY DEF RepairFinish, TypeOK, Table
<1>3. \A o \in Op : Shaped(o)'
  BY <1>1, <1>2 DEF Shaped
<1>4. Revisions' /\ Recorded'
  BY <1>1, <1>2 DEF Revisions, Recorded, Base
<1>. QED
  BY <1>3, <1>4 DEF History

\* Nothing is left of a purged table.
LEMMA HistoryPurged ==
  ASSUME TableInv, Purge
  PROVE  (\A o \in Op : Shaped(o))' /\ History'
<1>1. table'.projected = 0 /\ \A o \in Op : entry'[o] = Uncommitted
  BY DEF Purge
<1>2. \A o \in Op : Shaped(o)'
  BY <1>1 DEF Shaped, Uncommitted
<1>. QED
  BY <1>2 DEF Purge, History

\* Every step keeps the history.
LEMMA StepHistory ==
  ASSUME TableInv, [Next]_vars
  PROVE  (\A o \in Op : Shaped(o))' /\ History'
<1>1. ASSUME UNCHANGED <<table, entry>>, stage = "purged" => stage' = "purged"
      PROVE  (\A o \in Op : Shaped(o))' /\ History'
  BY <1>1, HistoryFrame
<1>2. CASE Advances
  BY <1>2, HistoryAdvances
<1>3. CASE Cancels
  BY <1>3, HistoryCancels
<1>4. CASE \E q \in Request : Commit(q)
  BY <1>4, HistoryCommit
<1>5. CASE RepairFinish
  BY <1>5, HistoryFinish
<1>6. CASE Purge
  BY <1>6, HistoryPurged
<1>7. CASE \/ Batch \/ Recovers \/ GivesUp \/ (\E o \in Op : Send(o))
           \/ (\E q \in Request : Reads(q) \/ Refuse(q)) \/ AlarmFires \/ OwnerRepairs
  BY <1>1, <1>7 DEF Batch, Recovers, GivesUp, Send, Reads, Refuse, AlarmFires, OwnerRepairs, durable
<1>8. CASE \/ RepairFence \/ RepairDrain \/ RepairHeaders \/ RepairRows \/ RepairReconcile
           \/ RepairVerify \/ RepairPublish \/ RepairFails
  BY <1>1, <1>8 DEF RepairFence, RepairDrain, RepairHeaders, RepairRows, RepairReconcile,
                    RepairVerify, RepairPublish, RepairFails, durable
<1>9. CASE \/ AcceptDeletion \/ Stop \/ Stopped \/ RemoveRows
           \/ Crash \/ (\E r \in Fragile : LoseRow(r)) \/ ChangeDestination \/ Rest \/ UNCHANGED vars
  BY <1>1, <1>9 DEF AcceptDeletion, Stop, Stopped, RemoveRows, Crash, LoseRow, ChangeDestination,
                    Rest, vars, durable, Active
<1>. QED
  BY <1>2, <1>3, <1>4, <1>5, <1>6, <1>7, <1>8, <1>9, Zenon DEF Next, Own

-----------------------------------------------------------------------------
(* The projector, the repair and the deletion.                             *)

\* The events depend on the revisions alone.
LEMMA EventsFrame ==
  ASSUME table'.projected = table.projected, \A o \in Op : entry'[o].rev = entry[o].rev
  PROVE  Pending' = Pending /\ (Pending # {} => Event' = Event)
<1>1. Pending' = Pending
  BY DEF Pending
<1>2. Event' = Event
  BY <1>1 DEF Event, Pending
<1>. QED
  BY <1>1, <1>2

\* What project() leaves to those that wait for it.
LEMMA SettleEffect ==
  ASSUME TypeOK, NEW result, Settle(result)
  PROVE  /\ projector'.pc = "idle"
         /\ \/ UNCHANGED <<repair, intent>> /\ repair # "drain"
            \/ repair = "drain" /\ repair' \in {"again", "idle"} /\ UNCHANGED intent
            \/ /\ repair = "drain" /\ repair' = "headers"
               /\ intent'.phase = "headers" /\ intent'.revision = table.revision
            \/ /\ repair = "drain" /\ repair' = "idle"
               /\ intent'.phase = "blocked" /\ intent'.then = intent.phase
<1>. intent \in Intent
  BY DEF TypeOK
<1>1. projector'.pc = "idle"
  BY DEF Settle, Resting
<1>2. CASE repair # "drain"
  BY <1>1, <1>2 DEF Settle
<1>3. CASE repair = "drain"
  BY <1>1, <1>3 DEF Settle, TurnBlocked, TurnFails, Intent
<1>. QED
  BY <1>2, <1>3

\* What does not touch the projection of an event.
LEMMA ProjectorFrame ==
  ASSUME TableInv, UNCHANGED <<table, entry, projector>>,
         projector.pc # "idle" => stage' # "purged" /\ intent'.phase \in {"none", "fence", "drain"}
  PROVE  ProjectorAt'
<1>1. Pending' = Pending /\ (Pending # {} => Event' = Event)
  BY EventsFrame
<1>. QED
  BY <1>1 DEF TableInv, ProjectorAt

\* project() and the batches it sends.
LEMMA ProjectControl ==
  ASSUME TableInv, Batch \/ Advances \/ Cancels \/ Recovers \/ GivesUp
  PROVE  ProjectorAt' /\ RepairAt' /\ StageAt'
<1>. TypeOK /\ ProjectorAt /\ RepairAt /\ StageAt
  BY DEF TableInv
<1>1. projector.pc # "idle" /\ stage' = stage /\ job' = job
  BY DEF Batch, Advances, Cancels, Recovers, GivesUp, Result, durable, d1
<1>2. stage \in {"active", "stopping"} /\ Pending # {} /\ intent.phase \in {"none", "fence", "drain"}
  BY <1>1 DEF ProjectorAt, StageAt, TypeOK
<1>3. ASSUME NEW result, Settle(result)
      PROVE  ProjectorAt' /\ RepairAt' /\ StageAt'
  <2>1. projector'.pc = "idle" /\ ProjectorAt'
    BY <1>3, SettleEffect DEF ProjectorAt
  <2>2. RepairAt'
    BY <1>1, <1>2, <1>3, SettleEffect DEF RepairAt
  <2>. QED
    BY <1>1, <1>2, <2>1, <2>2 DEF StageAt
<1>4. ASSUME UNCHANGED <<intent, repair>>, projector'.pc # "idle", ProjectorAt'
      PROVE  ProjectorAt' /\ RepairAt' /\ StageAt'
  BY <1>1, <1>2, <1>4 DEF RepairAt, StageAt
<1>5. CASE Batch
  <2>1. Pending' = Pending /\ Event' = Event
    BY <1>2, <1>5, EventsFrame DEF Batch, durable
  <2>2. \E result \in Result : projector' = [projector EXCEPT !.pc = result]
                             /\ (result = "conflict" => Event \in Captures)
    BY <1>5, Zenon DEF Batch, Outcome, Result
  <2>3. projector'.pc \in Result /\ projector'.mode = projector.mode /\ (projector'.pc = "conflict" => Event \in Captures)
    BY <2>2 DEF TypeOK, Projector
  <2>4. projector'.pc # "idle" /\ UNCHANGED <<intent, repair, stage, entry>>
    BY <1>5, <2>3 DEF Batch, durable, Result
  <2>5. ProjectorAt'
    BY <1>1, <2>1, <2>3, <2>4 DEF ProjectorAt
  <2>. QED
    BY <1>4, <2>4, <2>5
<1>6. CASE Advances
  <2>1. CASE \E result : Settle(result)
    BY <1>3, <2>1
  <2>2. CASE ~\E result : Settle(result)
    <3>1. /\ projector' = Sent("plain", projector.recover) /\ UNCHANGED <<intent, repair>>
          /\ \/ projector.mode # "empty" /\ ~Final /\ UNCHANGED table
                /\ entry' = [entry EXCEPT ![Event].step = @ + 1]
             \/ /\ table' = [table EXCEPT !.projected = entry[Event].rev] /\ Pending # {Event}
                /\ entry' = entry \/ entry' = [entry EXCEPT ![Event].step = @ + 1]
      BY <1>6, <2>2 DEF Advances
    <3>2. \A o \in Op : entry'[o].rev = entry[o].rev
      <4>1. entry' = entry \/ entry' = [entry EXCEPT ![Event] = [entry[Event] EXCEPT !.step = entry[Event].step + 1]]
        BY <3>1
      <4>. QED
        BY <4>1 DEF TypeOK, Entry
    <3>3. Pending' # {}
      <4>1. CASE UNCHANGED table
        BY <1>2, <3>2, <4>1, EventsFrame
      <4>2. CASE ~UNCHANGED table
        <5>1. PICK p \in Pending : p # Event
          BY <1>1, <3>1, <4>2, BusyEvent
        <5>2. entry[p].rev > table.projected + 1
          BY <1>1, <5>1, BusyEvent, TableTyped DEF Pending, TypeOK, Entry
        <5>3. table'.projected = table.projected + 1
          BY <1>1, <3>1, <4>2, BusyEvent DEF TypeOK, Table
        <5>. QED
          BY <3>2, <5>1, <5>2, <5>3 DEF Pending
      <4>. QED
        BY <4>1, <4>2
    <3>4. ProjectorAt'
      BY <1>1, <1>2, <3>1, <3>3 DEF ProjectorAt, Sent
    <3>. QED
      BY <1>4, <3>1, <3>4 DEF Sent
  <2>. QED
    BY <2>1, <2>2
<1>7. CASE Cancels
  <2>1. Pending' = Pending /\ Event' = Event
    <3>1. table'.projected = table.projected /\ \A o \in Op : entry'[o].rev = entry[o].rev
      BY <1>7 DEF Cancels, TypeOK, Entry, Table
    <3>. QED
      BY <1>2, <3>1, EventsFrame
  <2>2. Event \in Captures /\ entry'[Event].cancelled
    <3>1. Event \in Op
      BY <1>1, BusyEvent
    <3>. QED
      BY <1>7, <3>1 DEF Cancels, TypeOK, Entry, ProjectorAt
  <2>3. ProjectorAt'
    BY <1>1, <1>2, <1>7, <2>1, <2>2 DEF ProjectorAt, Cancels, Sent
  <2>. QED
    BY <1>4, <1>7, <2>3 DEF Cancels, Sent
<1>8. CASE Recovers
  <2>1. Pending' = Pending /\ Event' = Event
    BY <1>2, <1>8, EventsFrame DEF Recovers, durable
  <2>2. ProjectorAt'
    BY <1>1, <1>2, <1>8, <2>1 DEF ProjectorAt, Recovers, Sent, durable
  <2>. QED
    BY <1>4, <1>8, <2>2 DEF Recovers, Sent, durable
<1>9. CASE GivesUp
  BY <1>3, <1>9 DEF GivesUp
<1>. QED
  BY <1>5, <1>6, <1>7, <1>8, <1>9

\* Requests.
LEMMA RequestControl ==
  ASSUME TableInv, History', TypeOK',
         \/ \E o \in Op : Send(o)
         \/ \E q \in Request : Reads(q) \/ Commit(q) \/ Refuse(q)
  PROVE  ProjectorAt' /\ RepairAt' /\ StageAt'
<1>. TypeOK /\ ProjectorAt /\ RepairAt /\ StageAt
  BY DEF TableInv
<1>1. UNCHANGED <<intent, stage, repair, job>>
  BY DEF Send, Reads, Commit, Refuse, durable, d1
<1>2. CASE UNCHANGED <<table, entry, projector>>
  BY <1>1, <1>2, ProjectorFrame DEF ProjectorAt, RepairAt, StageAt
<1>3. CASE \E q \in Request : Commit(q) /\ ~UNCHANGED <<table, entry, projector>>
  <2>1. PICK q \in Request : Commit(q) /\ ~UNCHANGED <<table, entry, projector>>
    BY <1>3
  <2>2. stage = "active" /\ intent.phase = "none" /\ repair = "idle"
    BY <2>1 DEF Commit, Authorized, Unfenced, Active
  <2>3. projector' = IF projector.pc = "idle" THEN Sent("plain", FALSE) ELSE projector
    BY <2>1 DEF Commit, Projects
  <2>4. RepairAt' /\ StageAt'
    BY <1>1, <2>2 DEF RepairAt, StageAt
  <2>5. CASE ~\E o \in Op, drops \in BOOLEAN :
               /\ entry[o].rev = 0 /\ Applicable(o) /\ Committed(o, drops)
               /\ drops => o \in Bulks /\ 2 \in Present
    <3>1. request[q].op \in Op
      BY DEF TypeOK, Asked
    <3>2. Pending # {} /\ UNCHANGED <<table, entry>>
      BY <2>1, <2>5, <3>1 DEF Commit, New
    <3>3. Pending' = Pending /\ Event' = Event
      BY <3>2, EventsFrame
    <3>4. ProjectorAt'
      BY <1>1, <2>2, <2>3, <3>2, <3>3 DEF ProjectorAt, Sent
    <3>. QED
      BY <2>4, <3>4
  <2>6. ASSUME NEW o \in Op, NEW drops \in BOOLEAN, entry[o].rev = 0, Applicable(o), Committed(o, drops),
               drops => o \in Bulks /\ 2 \in Present
        PROVE  ProjectorAt' /\ RepairAt' /\ StageAt'
    <3>3. /\ table'.revision = table.revision + 1 /\ table'.projected = table.projected
          /\ \A p \in Op : p # o => entry'[p] = entry[p]
      BY <2>2, <2>6, CommitAdds
    <3>4. entry'[o].rev = table.revision + 1
      <4>1. entry'[o] = [rev |-> table.revision + 1, writes |-> Writes(o), drops |-> drops,
                         step |-> 1, cancelled |-> FALSE]
        BY <2>2, <2>6, CommitAdds
      <4>. QED
        BY <4>1
    <3>5. table.projected \in Nat /\ table.revision \in Nat /\ table.projected <= table.revision
      BY <2>2, TableTyped DEF TypeOK, TableInv, History, Revisions, Base
    <3>6. Pending' # {}
      BY <3>3, <3>4, <3>5 DEF Pending
    <3>7. CASE projector.pc = "idle"
      BY <1>1, <2>2, <2>3, <2>4, <3>6, <3>7 DEF ProjectorAt, Sent
    <3>8. CASE projector.pc # "idle"
      <4>1. Event \in Op /\ entry[Event].rev = table.projected + 1
        BY <3>8, BusyEvent
      <4>2. entry'[Event] = entry[Event]
        BY <2>6, <3>3, <3>5, <4>1
      <4>3. Revisions' /\ table'.revision \in Nat
        BY <1>1, <2>2, <3>3, <3>5 DEF History
      <4>4. \A p \in Op : entry'[p].rev = table'.projected + 1 => p = Event'
        BY <3>6, <4>3, EventIsNextLater
      <4>5. Event' = Event
        BY <3>3, <4>1, <4>2, <4>4
      <4>6. ProjectorAt'
        BY <1>1, <2>2, <2>3, <3>6, <3>8, <4>2, <4>5 DEF ProjectorAt
      <4>. QED
        BY <2>4, <4>6
    <3>. QED
      BY <3>7, <3>8
  <2>. QED
    BY <2>5, <2>6
<1>. QED
  BY <1>2, <1>3 DEF Send, Reads, Refuse, durable

\* The start of a turn: from a phase that is not blocked, with what the intent recorded.
LEMMA StartEffect ==
  ASSUME NEW from \in Intent, NEW owner \in BOOLEAN, TurnStarts(from, owner)
  PROVE  /\ repair' = "fence" /\ intent'.revision = from.revision
         /\ intent'.phase = IF from.phase = "blocked" THEN from.then ELSE from.phase
  BY DEF TurnStarts, Intent

LEMMA FencedPhase == Fenced.phase = "fence"
  BY DEF Fenced, NoIntent

\* The alarm, and an owner who starts a repair.
LEMMA StartControl ==
  ASSUME TableInv, AlarmFires \/ OwnerRepairs
  PROVE  ProjectorAt' /\ RepairAt' /\ StageAt' /\ Rebuilt'
<1>. TypeOK /\ ProjectorAt /\ RepairAt /\ StageAt /\ Rebuilt
  BY DEF TableInv
<1>1. UNCHANGED <<table, entry, stage, job, mirror, registry, lost>>
  BY DEF AlarmFires, OwnerRepairs, d1
<1>2. ASSUME NEW from \in Intent, NEW owner \in BOOLEAN, TurnStarts(from, owner), UNCHANGED projector,
             stage = "active", from.phase # "none", from.phase # "blocked" \/ owner,
             from = intent \/ (intent.phase = "none" /\ from.phase = "fence")
      PROVE  ProjectorAt' /\ RepairAt' /\ StageAt' /\ Rebuilt'
  <2>1. /\ repair' = "fence" /\ intent'.revision = from.revision
        /\ intent'.phase = IF from.phase = "blocked" THEN from.then ELSE from.phase
    BY <1>2, StartEffect
  <2>2. intent'.phase \notin {"none", "blocked"}
    BY <1>2, <2>1 DEF RepairAt
  <2>3. ProjectorAt'
    <3>1. projector.pc # "idle" => stage' # "purged" /\ intent'.phase \in {"none", "fence", "drain"}
      BY <1>1, <1>2, <2>1 DEF ProjectorAt
    <3>. QED
      BY <1>1, <1>2, <3>1, ProjectorFrame
  <2>4. RepairAt' /\ StageAt'
    BY <1>1, <1>2, <2>1, <2>2 DEF RepairAt, StageAt
  <2>5. Rebuilt'
    BY <1>1, <1>2, <2>1, <2>2 DEF Rebuilt, Rebuilding, RepairAt
  <2>. QED
    BY <2>3, <2>4, <2>5
<1>3. ASSUME UNCHANGED <<intent, repair>>, ProjectorAt', stage = "active" \/ UNCHANGED projector
      PROVE  ProjectorAt' /\ RepairAt' /\ StageAt' /\ Rebuilt'
  <2>1. repair = "drain" => projector'.pc # "idle"
    <3>1. projector.pc # "idle" => projector'.pc # "idle"
      BY DEF AlarmFires, OwnerRepairs, Projects
    <3>. QED
      BY <3>1 DEF RepairAt
  <2>2. RepairAt' /\ StageAt'
    BY <1>1, <1>3, <2>1 DEF RepairAt, StageAt
  <2>3. Rebuilt'
    BY <1>1, <1>3 DEF Rebuilt
  <2>. QED
    BY <1>3, <2>2, <2>3
<1>4. CASE AlarmFires
  <2> DEFINE from == IF intent.phase = "none" /\ registry.fence = "repairing" THEN Fenced ELSE intent
  <2>1. CASE UNCHANGED <<intent, repair, projector>>
    <3>1. ProjectorAt'
      BY <1>1, <2>1, ProjectorFrame DEF ProjectorAt
    <3>. QED
      BY <1>3, <2>1, <3>1
  <2>2. CASE /\ stage = "active" /\ from.phase = "none" /\ Pending # {} /\ Projects
             /\ UNCHANGED <<intent, repair>>
    <3>1. from = intent
      BY <2>2, FencedPhase
    <3>2. Pending' = Pending /\ Event' = Event
      BY <1>1, <2>2, EventsFrame
    <3>3. ProjectorAt'
      BY <1>1, <2>2, <3>1, <3>2 DEF ProjectorAt, Projects, Sent
    <3>. QED
      BY <1>3, <2>2, <3>3
  <2>3. CASE /\ stage = "active" /\ from.phase \notin {"none", "blocked"}
             /\ TurnStarts(from, FALSE) /\ UNCHANGED projector
    <3>1. from \in Intent
      BY NoIntentTyped DEF TypeOK
    <3>2. from = intent \/ (intent.phase = "none" /\ from = Fenced)
      <4>1. CASE intent.phase = "none" /\ registry.fence = "repairing"
        BY <4>1
      <4>2. CASE ~(intent.phase = "none" /\ registry.fence = "repairing")
        BY <4>2
      <4>. QED
        BY <4>1, <4>2
    <3>3. from = intent \/ (intent.phase = "none" /\ from.phase = "fence")
      <4>. HIDE DEF from
      <4>. QED
        BY <3>2, FencedPhase
    <3>. QED
      BY <1>2, <2>3, <3>1, <3>3
  <2>. QED
    BY <1>4, <2>1, <2>2, <2>3 DEF AlarmFires, Active
<1>5. CASE OwnerRepairs
  <2> DEFINE from == IF intent.phase = "none" THEN Fenced ELSE intent
  <2>1. from \in Intent
    BY NoIntentTyped DEF TypeOK
  <2>2. from.phase # "none" /\ (from = intent \/ (intent.phase = "none" /\ from.phase = "fence"))
    <3>1. CASE intent.phase = "none"
      <4>1. from = Fenced
        BY <3>1
      <4>. QED
        BY <3>1, <4>1, FencedPhase
    <3>2. CASE intent.phase # "none"
      <4>1. from = intent
        BY <3>2
      <4>. QED
        BY <3>2, <4>1
    <3>. QED
      BY <3>1, <3>2
  <2>. QED
    BY <1>2, <1>5, <2>1, <2>2 DEF OwnerRepairs, Active
<1>. QED
  BY <1>4, <1>5

\* What a turn leaves when it ends or goes on.
LEMMA TurnEffect ==
  ASSUME TypeOK
  PROVE  /\ \A work : TurnFails(work) => repair' = "idle" /\ UNCHANGED intent
         /\ \A p : TurnYields(p) => /\ repair' = "idle" /\ intent'.phase = p
                                   /\ intent'.revision = intent.revision
         /\ \A p : TurnGoesOn(p) => /\ repair' = p /\ intent'.phase = p
                                   /\ intent'.revision = intent.revision
  BY DEF TypeOK, Intent, TurnFails, TurnYields, TurnGoesOn

\* The steps of a repair.
LEMMA RepairControl ==
  ASSUME TableInv,
         \/ RepairFence \/ RepairDrain \/ RepairHeaders \/ RepairRows \/ RepairReconcile
         \/ RepairVerify \/ RepairPublish \/ RepairFinish \/ RepairFails
  PROVE  ProjectorAt' /\ RepairAt' /\ StageAt' /\ Rebuilt'
<1>. TypeOK /\ ProjectorAt /\ RepairAt /\ StageAt /\ Rebuilt
  BY DEF TableInv
<1>1. /\ repair # "idle" /\ stage \in {"active", "stopping"} /\ UNCHANGED <<stage, job, entry>>
      /\ intent.phase \notin {"none", "blocked"}
  BY DEF RepairFence, RepairDrain, RepairHeaders, RepairRows, RepairReconcile, RepairVerify,
         RepairPublish, RepairFinish, RepairFails, RepairAt, durable, d1
<1>2. StageAt'
  BY <1>1 DEF StageAt
\* A turn that failed leaves everything else as it was.
<1>3. ASSUME repair' = "idle", UNCHANGED <<intent, table, projector, mirror, lost>>
      PROVE  ProjectorAt' /\ RepairAt' /\ Rebuilt'
  <2>1. ProjectorAt'
    BY <1>1, <1>3, ProjectorFrame DEF ProjectorAt
  <2>2. RepairAt'
    BY <1>1, <1>3 DEF RepairAt
  <2>3. Rebuilt'
    BY <1>1, <1>3 DEF Rebuilt
  <2>. QED
    BY <2>1, <2>2, <2>3
\* The projector rests while the projection is rebuilt.
<1>4. ASSUME intent.phase \in Rebuilding, UNCHANGED projector
      PROVE  ProjectorAt'
  BY <1>4 DEF ProjectorAt, Rebuilding
<1>5. CASE RepairFence
  <2>1. CASE TurnFails({"repair"})
    BY <1>2, <1>3, <1>5, <2>1, TurnEffect DEF RepairFence, history
  <2>2. CASE ~TurnFails({"repair"})
    <3>1. /\ intent' = [intent EXCEPT !.phase = IF intent.phase = "fence" THEN "drain" ELSE intent.phase]
          /\ repair' = IF intent.phase \in {"fence", "drain"} THEN "again" ELSE intent.phase
          /\ UNCHANGED <<table, projector, mirror, lost>>
      BY <1>5, <2>2 DEF RepairFence, history
    <3>2. /\ intent'.phase = IF intent.phase = "fence" THEN "drain" ELSE intent.phase
          /\ intent'.revision = intent.revision /\ intent.phase \in Phase
      BY <3>1 DEF TypeOK, Intent
    <3>3. ProjectorAt'
      BY <1>1, <3>1, <3>2, ProjectorFrame DEF ProjectorAt
    <3>4. RepairAt'
      BY <1>1, <3>1, <3>2 DEF RepairAt, Phase
    <3>5. Rebuilt'
      BY <1>1, <3>1, <3>2 DEF Rebuilt, Rebuilding, Phase
    <3>. QED
      BY <1>2, <3>3, <3>4, <3>5
  <2>. QED
    BY <2>1, <2>2
<1>6. CASE RepairDrain
  <2>1. intent.phase = "drain" /\ UNCHANGED <<table, registry, mirror, lost>>
    BY <1>6 DEF RepairDrain, RepairAt, d1, history
  <2>2. CASE ~(stage = "active")
    BY <1>2, <1>3, <1>6, <2>1, <2>2, TurnEffect DEF RepairDrain, Active
  <2>3. CASE stage = "active" /\ UNCHANGED intent
    <3>1. /\ repair' = "drain" /\ projector'.pc # "idle" /\ UNCHANGED intent
          /\ UNCHANGED projector \/ (Pending # {} /\ projector' = Sent("plain", TRUE))
      <4>1. [intent EXCEPT !.phase = "headers", !.revision = table.revision] # intent
        <5>1. [intent EXCEPT !.phase = "headers", !.revision = table.revision].phase = "headers"
          BY DEF TypeOK, Intent
        <5>. QED
          BY <2>1, <5>1
      <4>2. \/ repair' = "drain" /\ projector.pc # "idle" /\ UNCHANGED projector
            \/ repair' = "drain" /\ Pending # {} /\ projector' = Sent("plain", TRUE)
        BY <1>6, <2>3, <4>1, Zenon DEF RepairDrain, Active
      <4>3. projector'.pc # "idle"
        BY <4>2 DEF Sent
      <4>. QED
        BY <2>3, <4>2, <4>3, Zenon
    <3>2. ProjectorAt'
      <4>1. CASE UNCHANGED projector
        BY <1>1, <2>1, <3>1, <4>1, ProjectorFrame DEF ProjectorAt
      <4>2. CASE Pending # {} /\ projector' = Sent("plain", TRUE)
        <5>1. Pending' = Pending
          BY <1>1, <2>1, EventsFrame
        <5>. QED
          BY <1>1, <2>1, <3>1, <4>2, <5>1 DEF ProjectorAt, Sent
      <4>. QED
        BY <3>1, <4>1, <4>2
    <3>3. RepairAt' /\ Rebuilt'
      BY <1>1, <2>1, <3>1 DEF RepairAt, Rebuilt, Rebuilding
    <3>. QED
      BY <1>2, <3>2, <3>3
  <2>4. CASE stage = "active" /\ ~UNCHANGED intent
    <3>1. /\ repair' = "headers" /\ projector.pc = "idle" /\ UNCHANGED projector
          /\ intent' = [intent EXCEPT !.phase = "headers", !.revision = table.revision]
      BY <1>6, <2>4 DEF RepairDrain, Active
    <3>2. intent'.phase = "headers" /\ intent'.revision = table.revision
      BY <3>1 DEF TypeOK, Intent
    <3>3. ProjectorAt'
      BY <3>1 DEF ProjectorAt
    <3>4. RepairAt' /\ Rebuilt'
      BY <1>1, <2>1, <3>1, <3>2 DEF RepairAt, Rebuilt, Rebuilding
    <3>. QED
      BY <1>2, <3>3, <3>4
  <2>. QED
    BY <2>2, <2>3, <2>4
<1>7. CASE RepairHeaders \/ RepairReconcile
  <2>1. /\ intent.phase \in {"headers", "reconcile"} /\ UNCHANGED <<table, projector, registry, lost>>
        /\ repair' = "idle" /\ intent'.phase \in {"rows", "verify"} /\ intent'.revision = intent.revision
    BY <1>7, TurnEffect DEF RepairHeaders, RepairReconcile, RepairAt, history
  <2>2. ProjectorAt'
    BY <1>4, <2>1 DEF Rebuilding
  <2>3. RepairAt' /\ Rebuilt'
    BY <1>1, <2>1 DEF RepairAt, Rebuilt, Rebuilding
  <2>. QED
    BY <1>2, <2>2, <2>3
<1>8. CASE RepairRows
  <2>1. /\ intent.phase = "rows" /\ UNCHANGED <<table, projector, registry, lost>>
        /\ repair' = "reconcile" /\ intent'.phase = "reconcile" /\ intent'.revision = intent.revision
    BY <1>8, TurnEffect DEF RepairRows, RepairAt, history
  <2>2. ProjectorAt'
    BY <1>4, <2>1 DEF Rebuilding
  <2>3. RepairAt' /\ Rebuilt'
    BY <1>1, <2>1 DEF RepairAt, Rebuilt, Rebuilding
  <2>. QED
    BY <1>2, <2>2, <2>3
<1>9. CASE RepairVerify
  <2>1. intent.phase = "verify" /\ UNCHANGED <<table, projector, registry, mirror>>
    BY <1>9 DEF RepairVerify, RepairAt, d1
  <2>2. ProjectorAt'
    BY <1>4, <2>1 DEF Rebuilding
  <2>3. CASE Matches /\ TurnGoesOn("publish") /\ lost' = {}
    <3>1. repair' = "publish" /\ intent'.phase = "publish" /\ intent'.revision = intent.revision
      BY <2>3, TurnEffect
    <3>2. RepairAt' /\ Rebuilt'
      BY <1>1, <2>1, <2>3, <3>1 DEF RepairAt, Rebuilt, Rebuilding, Matches
    <3>. QED
      BY <1>2, <2>2, <3>2
  <2>4. CASE ~(Matches /\ TurnGoesOn("publish") /\ lost' = {})
    <3>1. /\ repair' = "idle" /\ intent'.revision = intent.revision
          /\ \/ intent'.phase = "headers"
             \/ intent'.phase = "blocked" /\ intent'.then = "headers"
      BY <1>9, <2>4 DEF RepairVerify, TypeOK, Intent
    <3>2. RepairAt' /\ Rebuilt'
      BY <1>1, <2>1, <3>1 DEF RepairAt, Rebuilt, Rebuilding
    <3>. QED
      BY <1>2, <2>2, <3>2
  <2>. QED
    BY <2>3, <2>4
<1>10. CASE RepairPublish
  <2>1. /\ intent.phase = "publish" /\ UNCHANGED <<table, projector, intent, mirror, lost>>
        /\ repair' = "finish" /\ registry' = [fence |-> "do", published |-> intent.revision]
    BY <1>10 DEF RepairPublish, RepairAt, durable, history
  <2>2. ProjectorAt'
    BY <1>4, <2>1 DEF Rebuilding
  <2>3. RepairAt' /\ Rebuilt'
    BY <1>1, <2>1 DEF RepairAt, Rebuilt, Rebuilding
  <2>. QED
    BY <1>2, <2>2, <2>3
<1>11. CASE RepairFinish
  <2>1. intent.phase = "publish" /\ UNCHANGED projector /\ repair' = "idle" /\ intent'.phase = "none"
    BY <1>11 DEF RepairFinish, RepairAt, NoIntent
  <2>2. ProjectorAt'
    BY <1>4, <2>1 DEF Rebuilding
  <2>3. RepairAt' /\ Rebuilt'
    BY <1>1, <2>1 DEF RepairAt, Rebuilt, Rebuilding
  <2>. QED
    BY <1>2, <2>2, <2>3
<1>12. CASE RepairFails
  <2>1. repair' = "idle" /\ UNCHANGED <<intent, table, projector, mirror, lost>>
    BY <1>12, TurnEffect DEF RepairFails, d1
  <2>. QED
    BY <1>2, <1>3, <2>1
<1>. QED
  BY <1>5, <1>6, <1>7, <1>8, <1>9, <1>10, <1>11, <1>12

\* Deletion and what happens around the object.
LEMMA AroundControl ==
  ASSUME TableInv,
         \/ AcceptDeletion \/ Stop \/ Stopped \/ RemoveRows \/ Purge
         \/ Crash \/ (\E r \in Fragile : LoseRow(r)) \/ ChangeDestination \/ Rest
  PROVE  ProjectorAt' /\ RepairAt' /\ StageAt' /\ Rebuilt'
<1>. TypeOK /\ ProjectorAt /\ RepairAt /\ StageAt /\ Rebuilt
  BY DEF TableInv
<1>1. CASE AcceptDeletion \/ Stop \/ Stopped \/ RemoveRows
  <2>1. /\ UNCHANGED <<table, entry, intent, projector, repair>>
        /\ job' # "none" /\ stage' # "purged"
        /\ \/ stage' = stage
           \/ stage' = "stopping" /\ stage = "active"
           \/ stage' = "stopped" /\ projector.pc = "idle" /\ repair = "idle"
    <3>1. CASE AcceptDeletion
      <4>1. UNCHANGED <<table, entry, intent, projector, repair, stage>> /\ job = "none" /\ job' = "rows"
        BY <3>1 DEF AcceptDeletion, durable, memory
      <4>. QED
        BY <4>1 DEF StageAt
    <3>2. CASE Stop
      <4>1. UNCHANGED <<table, entry, intent, projector, repair>> /\ job = "rows" /\ job' = job
        BY <3>2 DEF Stop, memory, d1
      <4>2. stage = "active" /\ stage' = "stopping"
        BY <3>2 DEF Stop, Active
      <4>. QED
        BY <4>1, <4>2
    <3>4. CASE RemoveRows
      <4>1. UNCHANGED <<table, entry, intent, projector, repair, stage>> /\ stage = "stopped" /\ job' = "cleanup"
        BY <3>4 DEF RemoveRows, durable, memory
      <4>. QED
        BY <4>1
    <3>3. CASE Stopped
      BY <3>3 DEF Stopped, memory, d1, Settled, StageAt
    <3>. QED
      BY <1>1, <3>1, <3>2, <3>3, <3>4
  <2>2. ProjectorAt'
    BY <2>1, ProjectorFrame DEF ProjectorAt
  <2>3. RepairAt'
    BY <2>1 DEF RepairAt
  <2>4. StageAt' /\ Rebuilt'
    BY <2>1 DEF StageAt, Rebuilt
  <2>. QED
    BY <2>2, <2>3, <2>4
<1>2. CASE Purge
  <2>1. /\ UNCHANGED <<projector, repair, job>> /\ intent' = NoIntent /\ stage' = "purged"
        /\ projector.pc = "idle" /\ repair = "idle" /\ job # "none"
    BY <1>2 DEF Purge, Settled, memory, d1
  <2>2. ProjectorAt' /\ RepairAt' /\ StageAt' /\ Rebuilt'
    BY <2>1 DEF ProjectorAt, RepairAt, StageAt, Rebuilt, Rebuilding, NoIntent
  <2>. QED
    BY <2>2
<1>3. CASE Crash
  <2>1. /\ UNCHANGED <<table, entry, intent, stage, mirror, registry, job, lost>>
        /\ projector'.pc = "idle" /\ repair' = "idle"
    BY <1>3 DEF Crash, durable, d1, Resting
  <2>. QED
    BY <2>1 DEF ProjectorAt, RepairAt, StageAt, Rebuilt
<1>4. CASE (\E r \in Fragile : LoseRow(r)) \/ ChangeDestination \/ Rest
  <2>1. UNCHANGED <<table, entry, intent, stage, projector, repair, registry, job>>
    BY <1>4 DEF LoseRow, ChangeDestination, Rest, durable, memory, vars
  <2>2. ProjectorAt'
    BY <2>1, ProjectorFrame DEF ProjectorAt
  <2>3. RepairAt' /\ StageAt'
    BY <2>1 DEF RepairAt, StageAt
  <2>4. lost \subseteq lost' /\ \A r \in Row \ lost' : mirror'[r] = mirror[r]
    BY <1>4 DEF LoseRow, ChangeDestination, Rest, vars, TypeOK
  <2>5. Rebuilt'
    BY <2>1, <2>4 DEF Rebuilt
  <2>. QED
    BY <2>2, <2>3, <2>5
<1>. QED
  BY <1>1, <1>2, <1>3, <1>4

\* project() and the commands leave a repair that rebuilds alone.
LEMMA RebuiltFrame ==
  ASSUME TableInv,
         \/ Batch \/ Advances \/ Cancels \/ Recovers \/ GivesUp
         \/ \E o \in Op : Send(o)
         \/ \E q \in Request : Reads(q) \/ Commit(q) \/ Refuse(q)
  PROVE  Rebuilt'
<1>. TypeOK /\ ProjectorAt /\ RepairAt /\ StageAt /\ Rebuilt
  BY DEF TableInv
<1>1. CASE Batch \/ Advances \/ Cancels \/ Recovers \/ GivesUp
  <2>1. projector.pc # "idle" /\ intent.phase \in {"none", "fence", "drain"}
    BY <1>1 DEF Batch, Advances, Cancels, Recovers, GivesUp, Result, ProjectorAt
  <2>2. table'.revision = table.revision
    BY <1>1 DEF Batch, Advances, Cancels, Recovers, GivesUp, durable, TypeOK, Table
  <2>3. UNCHANGED <<intent, repair>> \/ \E result : Settle(result)
    BY <1>1, Zenon DEF Batch, Advances, Cancels, Recovers, GivesUp, durable
  <2>4. \/ UNCHANGED <<repair, intent>>
        \/ repair' \in {"again", "idle"} /\ UNCHANGED intent
        \/ repair' = "headers" /\ intent'.phase = "headers" /\ intent'.revision = table.revision
        \/ repair' = "idle" /\ intent'.phase = "blocked" /\ intent'.then = intent.phase
    BY <2>3, SettleEffect
  <2>5. repair # "finish"
    BY <2>1 DEF RepairAt
  <2>. QED
    BY <2>1, <2>2, <2>4, <2>5 DEF Rebuilt, Rebuilding
<1>2. CASE (\E o \in Op : Send(o)) \/ \E q \in Request : Reads(q) \/ Commit(q) \/ Refuse(q)
  <2>1. /\ UNCHANGED <<intent, repair, mirror, registry, job, lost>>
        /\ UNCHANGED table \/ (intent.phase = "none" /\ repair = "idle")
    <3>1. CASE \E o \in Op : Send(o)
      BY <3>1 DEF Send, durable, d1
    <3>3. CASE \E q \in Request : Reads(q) \/ Refuse(q)
      BY <3>3 DEF Reads, Refuse, durable, d1, history
    <3>2. CASE \E q \in Request : Commit(q)
      BY <3>2 DEF Commit, d1, history, Authorized, Unfenced
    <3>. QED
      BY <1>2, <3>1, <3>2, <3>3
  <2>. QED
    BY <2>1 DEF Rebuilt, Rebuilding
<1>. QED
  BY <1>1, <1>2

\* Every step keeps where the projector, the repair and the deletion are.
LEMMA StepControl ==
  ASSUME TableInv, TypeOK', History', [Next]_vars
  PROVE  ProjectorAt' /\ RepairAt' /\ StageAt' /\ Rebuilt'
<1>1. CASE Next
  <2>1. CASE Batch \/ Advances \/ Cancels \/ Recovers \/ GivesUp
    BY <2>1, ProjectControl, RebuiltFrame
  <2>2. CASE (\E o \in Op : Send(o)) \/ \E q \in Request : Reads(q) \/ Commit(q) \/ Refuse(q)
    BY <2>2, RequestControl, RebuiltFrame
  <2>. QED
    BY <1>1, <2>1, <2>2, StartControl, RepairControl, AroundControl, Zenon DEF Next, Own
<1>2. CASE UNCHANGED vars
  <2>1. UNCHANGED <<table, entry, intent, stage, projector, repair, mirror, registry, job, lost>>
    BY <1>2 DEF vars
  <2>2. ProjectorAt'
    BY <2>1, ProjectorFrame DEF TableInv, ProjectorAt
  <2>. QED
    BY <2>1, <2>2 DEF TableInv, RepairAt, StageAt, Rebuilt
<1>. QED
  BY <1>1, <1>2

-----------------------------------------------------------------------------
(* What D1 has.                                                            *)

\* What keeps a row where it is.
LEMMA HasKept ==
  ASSUME NEW m, NEW n, NEW l, NEW k, NEW e, NEW f, NEW r, NEW v \in Nat,
         Has(m, l, e, r, v), l \subseteq k, r \notin k => n[r] = m[r],
         \A o \in Op : \/ f[o].rev = e[o].rev /\ f[o].writes = e[o].writes /\ f[o].drops = e[o].drops
                       \/ e[o].rev \notin 1..v /\ f[o].rev \notin 1..v,
         \A o \in Captures : e[o].cancelled => f[o].cancelled /\ f[o].writes = e[o].writes
  PROVE  Has(n, k, f, r, v)
<1>1. ValueIn(f, r, v) = ValueIn(e, r, v)
  BY ValueKept
<1>2. Refused(e, r) => Refused(f, r)
  BY DEF Refused
<1>. QED
  BY <1>1, <1>2 DEF Has

\* What keeps an event on its way.
LEMMA SendingKept ==
  ASSUME NEW m, NEW n, NEW l, NEW k, NEW e, NEW f, NEW published, NEW p, NEW o,
         Sending(m, l, published, e, p, o), e[o].writes \in Writing, e[o].step \in 1..Len(e[o].writes),
         f[o].rev = e[o].rev, f[o].writes = e[o].writes, f[o].step = e[o].step,
         \A r \in Row : /\ Has(m, l, e, r, p) => Has(n, k, f, r, p)
                        /\ Has(m, l, e, r, e[o].rev) => Has(n, k, f, r, e[o].rev)
  PROVE  Sending(n, k, published, f, p, o)
<1>1. \A j \in 1..e[o].step - 1 : e[o].writes[j] \in Row
  BY WritingFacts
<1>2. published \in {p, e[o].rev}
  BY DEF Sending
<1>3. ASSUME published = e[o].rev
      PROVE  e[o].step = Len(e[o].writes) /\ \A r \in Row : Has(n, k, f, r, e[o].rev)
  <2>1. e[o].step = Len(e[o].writes) /\ \A r \in Row : Has(m, l, e, r, e[o].rev)
    BY <1>3 DEF Sending
  <2>. QED
    BY <2>1, Zenon
<1>4. ASSUME published = p
      PROVE  /\ \A r \in Row : Has(n, k, f, r, p) \/ Has(n, k, f, r, e[o].rev)
             /\ \A r \in Row : ~Has(n, k, f, r, p) => \E j \in 1..e[o].step : e[o].writes[j] = r
             /\ \A j \in 1..e[o].step - 1 : Has(n, k, f, e[o].writes[j], e[o].rev)
  <2>1. /\ \A r \in Row : Has(m, l, e, r, p) \/ Has(m, l, e, r, e[o].rev)
        /\ \A r \in Row : ~Has(m, l, e, r, p) => \E j \in 1..e[o].step : e[o].writes[j] = r
        /\ \A j \in 1..e[o].step - 1 : Has(m, l, e, e[o].writes[j], e[o].rev)
    BY <1>4 DEF Sending
  <2>2. \A r \in Row : Has(n, k, f, r, p) \/ Has(n, k, f, r, e[o].rev)
    BY <2>1, Zenon
  <2>3. \A r \in Row : ~Has(n, k, f, r, p) => \E j \in 1..e[o].step : e[o].writes[j] = r
    BY <2>1, Zenon
  <2>4. \A j \in 1..e[o].step - 1 : Has(n, k, f, e[o].writes[j], e[o].rev)
    BY <1>1, <2>1, Zenon
  <2>. QED
    BY <2>2, <2>3, <2>4
<1>. QED
  BY <1>2, <1>3, <1>4 DEF Sending

\* The event there is when there is one pending.
LEMMA PendingEvent ==
  ASSUME TableInv, stage # "purged", Pending # {}
  PROVE  /\ Revisions /\ Event \in Op /\ entry[Event].rev = table.projected + 1
         /\ table.projected \in Nat /\ table.projected + 1 <= table.revision
         /\ entry[Event].writes \in Writing /\ entry[Event].step \in 1..Len(entry[Event].writes)
         /\ \A o \in Op : entry[o].rev = table.projected + 1 => o = Event
<1>1. table.revision \in Nat /\ table.projected \in Nat /\ \A o \in Op : Shaped(o)
  BY TableTyped DEF TableInv, TypeOK
<1>2. Revisions
  BY DEF TableInv, History
<1>3. /\ Event \in Op /\ entry[Event].rev = table.projected + 1
      /\ \A o \in Op : entry[o].rev = table.projected + 1 => o = Event
      /\ table.projected + 1 \in Base + 1..table.revision
  BY <1>1, <1>2, EventIsNext, Zenon
<1>. QED
  BY <1>1, <1>2, <1>3 DEF Shaped, Base

\* What neither publishes nor touches the rows, the receipts or the revisions.
LEMMA ProjectedFrame ==
  ASSUME TableInv,
         job' = "none" /\ intent'.phase = "none" =>
           /\ job = "none" /\ intent.phase = "none" /\ table'.projected = table.projected
           /\ \A o \in Op : /\ entry'[o].rev = entry[o].rev /\ entry'[o].writes = entry[o].writes
                            /\ entry'[o].drops = entry[o].drops /\ entry'[o].step = entry[o].step
                            /\ entry[o].cancelled => entry'[o].cancelled
           /\ lost \subseteq lost' /\ \A r \in Row : r \notin lost' => mirror'[r] = mirror[r]
           /\ registry'.published = registry.published
           /\ projector'.pc = "ok" => UNCHANGED projector
  PROVE  Projected'
<1>. SUFFICES ASSUME job' = "none", intent'.phase = "none"
              PROVE  /\ Pending' = {} =>
                          /\ registry'.published = table'.projected
                          /\ \A r \in Row : Has(mirror', lost', entry', r, table'.projected)
                     /\ Pending' # {} =>
                          Sending(mirror', lost', registry'.published, entry', table'.projected, Event')
                     /\ projector'.pc = "ok" =>
                          IF Ends' THEN registry'.published = entry'[Event'].rev
                                   ELSE Has(mirror', lost', entry', Target', entry'[Event'].rev)
  BY DEF Projected, Holds
<1>1. /\ job = "none" /\ intent.phase = "none" /\ table'.projected = table.projected
      /\ \A o \in Op : /\ entry'[o].rev = entry[o].rev /\ entry'[o].writes = entry[o].writes
                       /\ entry'[o].drops = entry[o].drops /\ entry'[o].step = entry[o].step
                       /\ entry[o].cancelled => entry'[o].cancelled
      /\ lost \subseteq lost' /\ \A r \in Row : r \notin lost' => mirror'[r] = mirror[r]
      /\ registry'.published = registry.published
      /\ projector'.pc = "ok" => UNCHANGED projector
  OBVIOUS
<1>2. stage # "purged" /\ Projected /\ table.projected \in Nat
  BY <1>1, TableTyped DEF TableInv, TypeOK, StageAt
<1>3. ASSUME NEW r \in Row, NEW v \in Nat, Has(mirror, lost, entry, r, v)
      PROVE  Has(mirror', lost', entry', r, v)
  BY <1>1, <1>3, HasKept DEF Op
<1>4. Pending' = Pending /\ (Pending # {} => Event' = Event)
  BY <1>1, EventsFrame
<1>5. CASE Pending = {}
  <2>1. projector.pc # "ok"
    BY <1>5 DEF TableInv, ProjectorAt
  <2>2. registry.published = table.projected /\ \A r \in Row : Has(mirror, lost, entry, r, table.projected)
    BY <1>1, <1>2, <1>5 DEF Projected, Holds
  <2>. QED
    BY <1>1, <1>2, <1>3, <1>4, <1>5, <2>1, <2>2
<1>6. CASE Pending # {}
  <2>1. /\ Event \in Op /\ entry[Event].rev = table.projected + 1
        /\ entry[Event].writes \in Writing /\ entry[Event].step \in 1..Len(entry[Event].writes)
    BY <1>2, <1>6, PendingEvent
  <2>2. Sending(mirror, lost, registry.published, entry, table.projected, Event)
    BY <1>1, <1>2, <1>6 DEF Projected
  <2>3. \A r \in Row : /\ Has(mirror, lost, entry, r, table.projected) => Has(mirror', lost', entry', r, table.projected)
                       /\ Has(mirror, lost, entry, r, entry[Event].rev) => Has(mirror', lost', entry', r, entry[Event].rev)
    BY <1>2, <1>3, <2>1
  <2>4. Sending(mirror', lost', registry.published, entry', table.projected, Event)
    BY <1>1, <2>1, <2>2, <2>3, SendingKept
  <2>5. ASSUME projector'.pc = "ok"
        PROVE  IF Ends' THEN registry'.published = entry'[Event'].rev
                        ELSE Has(mirror', lost', entry', Target', entry'[Event'].rev)
    <3>1. projector.pc = "ok" /\ projector'.mode = projector.mode
      BY <1>1, <2>5
    <3>2. Event' = Event /\ Ends' = Ends /\ Target' = Target
      BY <1>1, <1>4, <1>6, <2>1, <3>1 DEF Ends, Final, Target
    <3>3. Target \in Row
      BY <3>1, BusyEvent
    <3>4. IF Ends THEN registry.published = entry[Event].rev ELSE Has(mirror, lost, entry, Target, entry[Event].rev)
      BY <1>1, <1>2, <3>1 DEF Projected, Holds
    <3>5. entry'[Event].rev = entry[Event].rev /\ registry'.published = registry.published
      BY <1>1, <2>1
    <3>6. CASE Ends
      BY <3>2, <3>4, <3>5, <3>6
    <3>7. CASE ~Ends
      <4>1. Has(mirror', lost', entry', Target, entry[Event].rev)
        BY <2>3, <3>3, <3>4, <3>7, Zenon
      <4>. QED
        BY <3>2, <3>5, <3>7, <4>1, Zenon
    <3>. QED
      BY <3>6, <3>7
  <2>. QED
    BY <1>1, <1>4, <1>6, <2>4, <2>5
<1>. QED
  BY <1>5, <1>6

\* D1 executes a batch.
LEMMA BatchProjected ==
  ASSUME TableInv, Batch, Outcome = "ok", Applied, projector' = [projector EXCEPT !.pc = "ok"] \/
         projector' = [projector EXCEPT !.pc = "failed"]
  PROVE  Projected'
<1>. SUFFICES ASSUME job' = "none", intent'.phase = "none"
              PROVE  /\ Pending' = {} =>
                          /\ registry'.published = table'.projected
                          /\ \A r \in Row : Has(mirror', lost', entry', r, table'.projected)
                     /\ Pending' # {} =>
                          Sending(mirror', lost', registry'.published, entry', table'.projected, Event')
                     /\ projector'.pc = "ok" =>
                          IF Ends' THEN registry'.published = entry'[Event'].rev
                                   ELSE Has(mirror', lost', entry', Target', entry'[Event'].rev)
  BY DEF Projected, Holds
<1> DEFINE e == Event
           p == table.projected
           w == entry[e].writes
           k == entry[e].step
           v == entry[e].rev
<1>1. /\ UNCHANGED <<table, entry, intent, stage, job, lost>> /\ projector.pc = "sent"
      /\ job = "none" /\ intent.phase = "none" /\ TypeOK /\ Projected /\ ProjectorAt
  BY DEF Batch, durable, TableInv
<1>2. /\ Pending # {} /\ e \in Op /\ v = p + 1 /\ w \in Writing /\ k \in 1..Len(w)
      /\ Target \in Row /\ Target = w[k] /\ \A o \in Op : entry[o].rev = p + 1 => o = e
      /\ e \in Captures => w = <<1>>
  BY <1>1, BusyEvent DEF Target
<1>3. p \in Nat /\ v \in Nat \ {0} /\ mirror \in [Row -> Nat \union {Bare}] /\ projector \in Projector
  BY <1>1, <1>2, TableTyped DEF TypeOK
<1>4. Pending' = Pending /\ Event' = e /\ Target' = Target
  <2>1. Pending' = Pending /\ Event' = e
    BY <1>1, <1>2, EventsFrame
  <2>. QED
    BY <1>1, <2>1 DEF Target
<1>5. projector'.mode = projector.mode /\ Ends' = Ends
  <2>1. projector'.mode = projector.mode
    BY <1>3 DEF Projector
  <2>. QED
    BY <1>1, <1>4, <2>1 DEF Ends, Final
<1>6. Sending(mirror, lost, registry.published, entry, p, e)
  BY <1>1, <1>2 DEF Projected
<1>7. registry'.published = IF Ends THEN v ELSE registry.published
  BY <1>1 DEF Applied, Ends, TypeOK, Registry
<1>8. \A r \in Row : r # Target \/ projector.mode = "empty" => mirror'[r] = mirror[r]
  BY <1>2, <1>3 DEF Applied
\* The row of the batch is that of the event.
<1>9. projector.mode # "empty" => Has(mirror', lost, entry, Target, v)
  <2>1. ASSUME projector.mode # "empty"
        PROVE  mirror'[Target] = ValueIn(entry, Target, v)
    <3>1. ValueIn(entry, Target, v) = IF entry[e].drops /\ Target = 2 THEN Gone ELSE v
      <4>1. Target \in Range(w)
        BY <1>2, WritingFacts
      <4>2. \A o \in Op : entry[o].rev = v => o = e
        BY <1>2
      <4>. QED
        BY <1>2, <1>3, <4>1, <4>2, ValueWritten
    <3>2. mirror'[Target] = IF Drops(e, Target) THEN Gone ELSE v
      BY <1>2, <1>3, <2>1 DEF Applied
    <3>. QED
      BY <3>1, <3>2 DEF Drops
  <2>. QED
    BY <2>1 DEF Has
\* The other rows are as they were.
<1>10. ASSUME NEW r \in Row, NEW x, Has(mirror, lost, entry, r, x), r # Target \/ projector.mode = "empty"
       PROVE  Has(mirror', lost, entry, r, x)
  BY <1>8, <1>10 DEF Has
<1>11. ASSUME NEW r \in Row, Has(mirror, lost, entry, r, v)
       PROVE  Has(mirror', lost, entry, r, v)
  BY <1>9, <1>10, <1>11
\* A row the event does not write is at both revisions at once.
<1>12. ASSUME NEW r \in Row, r \notin Range(w), Has(mirror, lost, entry, r, p)
       PROVE  Has(mirror, lost, entry, r, v)
  <2>1. \A o \in Op : entry[o].rev = p + 1 => r \notin Range(entry[o].writes)
    BY <1>2, <1>12
  <2>2. ValueIn(entry, r, p + 1) = ValueIn(entry, r, p)
    BY <1>3, <2>1, ValueLeft
  <2>. QED
    BY <1>2, <1>12, <2>2 DEF Has
<1>13. CASE Ends
  <2>1. k = Len(w)
    <3>1. CASE projector.mode = "empty"
      <4>1. e \in Captures
        BY <1>1, <3>1 DEF ProjectorAt
      <4>2. w = <<1>> /\ Len(<<1>>) = 1
        BY <1>2, <4>1
      <4>. QED
        BY <1>2, <4>2
    <3>2. CASE Final
      BY <1>2, <3>2, WritingFacts DEF Final
    <3>. QED
      BY <1>13, <3>1, <3>2 DEF Ends
  <2>2. ASSUME NEW r \in Row
        PROVE  Has(mirror', lost, entry, r, v)
    <3>1. CASE r = Target /\ projector.mode # "empty"
      BY <1>9, <3>1
    <3>2. CASE projector.mode = "empty" /\ r = Target
      <4>1. e \in Captures /\ entry[e].cancelled
        BY <1>1, <3>2 DEF ProjectorAt
      <4>2. r \in Range(w)
        BY <1>2, <3>2, WritingFacts
      <4>. QED
        BY <4>1, <4>2 DEF Has, Refused
    <3>3. CASE r # Target
      <4>1. Has(mirror, lost, entry, r, v)
        <5>1. CASE registry.published = v
          BY <1>6, <5>1 DEF Sending
        <5>2. CASE registry.published = p
          <6>1. /\ Has(mirror, lost, entry, r, p) \/ Has(mirror, lost, entry, r, v)
                /\ \A j \in 1..k - 1 : Has(mirror, lost, entry, w[j], v)
            BY <1>6, <5>2 DEF Sending
          <6>2. CASE r \in Range(w)
            <7>1. PICK j \in 1..Len(w) : w[j] = r
              BY <1>2, <6>2, WritingFacts
            <7>2. j \in 1..k - 1
              BY <1>2, <2>1, <3>3, <7>1, WritingFacts
            <7>. QED
              BY <6>1, <7>1, <7>2
          <6>3. CASE r \notin Range(w)
            BY <1>12, <6>1, <6>3
          <6>. QED
            BY <6>2, <6>3
        <5>. QED
          BY <1>6, <5>1, <5>2 DEF Sending
      <4>. QED
        BY <1>11, <4>1
    <3>. QED
      BY <3>1, <3>2, <3>3
  <2>3. Sending(mirror', lost, v, entry, p, e)
    BY <1>2, <1>3, <2>1, <2>2 DEF Sending
  <2>. QED
    BY <1>1, <1>2, <1>4, <1>5, <1>7, <1>13, <2>3
<1>14. CASE ~Ends
  <2>1. projector.mode # "empty" /\ k < Len(w)
    BY <1>2, <1>14, WritingFacts DEF Ends, Final
  <2>2. registry.published = p
    BY <1>6, <2>1 DEF Sending
  <2>3. /\ \A r \in Row : Has(mirror, lost, entry, r, p) \/ Has(mirror, lost, entry, r, v)
        /\ \A r \in Row : ~Has(mirror, lost, entry, r, p) => \E j \in 1..k : w[j] = r
        /\ \A j \in 1..k - 1 : Has(mirror, lost, entry, w[j], v)
    BY <1>6, <2>2 DEF Sending
  <2>4. \A r \in Row : Has(mirror', lost, entry, r, p) \/ Has(mirror', lost, entry, r, v)
    BY <1>9, <1>10, <1>11, <2>1, <2>3
  <2>5. \A r \in Row : ~Has(mirror', lost, entry, r, p) => \E j \in 1..k : w[j] = r
    <3>1. ASSUME NEW r \in Row, ~Has(mirror', lost, entry, r, p)
          PROVE  \E j \in 1..k : w[j] = r
      <4>1. CASE r = Target
        BY <1>2, <4>1, WritingFacts
      <4>2. CASE r # Target
        BY <1>10, <2>3, <3>1, <4>2
      <4>. QED
        BY <4>1, <4>2
    <3>. QED
      BY <3>1
  <2>6. \A j \in 1..k - 1 : Has(mirror', lost, entry, w[j], v)
    <3>1. \A j \in 1..k - 1 : w[j] \in Row
      BY <1>2, WritingFacts
    <3>. QED
      BY <1>11, <2>3, <3>1
  <2>7. Sending(mirror', lost, p, entry, p, e)
    BY <1>2, <1>3, <2>4, <2>5, <2>6 DEF Sending
  <2>. QED
    BY <1>1, <1>2, <1>4, <1>5, <1>7, <1>9, <1>14, <2>1, <2>2, <2>7
<1>. QED
  BY <1>13, <1>14

\* An event is taken off, or its next batch is sent.
LEMMA AdvancesProjected ==
  ASSUME TableInv, TypeOK', History', Advances
  PROVE  Projected'
<1> DEFINE e == Event
           p == table.projected
           w == entry[e].writes
           k == entry[e].step
           v == entry[e].rev
<1>. /\ TypeOK /\ Projected /\ ProjectorAt /\ projector.pc = "ok" /\ stage = "active"
     /\ UNCHANGED <<stage, job, mirror, registry, lost>>
  BY DEF TableInv, Advances, Active, d1
<1>1. projector'.pc # "ok" /\ (intent'.phase = "none" => intent.phase = "none")
  <2>1. (projector' = Sent("plain", projector.recover) /\ UNCHANGED intent) \/ \E result : Settle(result)
    BY Zenon DEF Advances
  <2>2. CASE projector' = Sent("plain", projector.recover) /\ UNCHANGED intent
    BY <2>2 DEF Sent
  <2>3. CASE \E result : Settle(result)
    BY <2>3, SettleEffect
  <2>. QED
    BY <2>1, <2>2, <2>3
<1>. SUFFICES ASSUME job' = "none", intent'.phase = "none"
              PROVE  /\ Pending' = {} =>
                          /\ registry'.published = table'.projected
                          /\ \A r \in Row : Has(mirror', lost', entry', r, table'.projected)
                     /\ Pending' # {} =>
                          Sending(mirror', lost', registry'.published, entry', table'.projected, Event')
  BY <1>1 DEF Projected, Holds
<1>2. job = "none" /\ intent.phase = "none"
  BY <1>1
<1>3. /\ Pending # {} /\ e \in Op /\ v = p + 1 /\ w \in Writing /\ k \in 1..Len(w)
      /\ Target \in Row /\ Target = w[k] /\ \A o \in Op : entry[o].rev = p + 1 => o = e
  BY BusyEvent DEF Target
<1>4. p \in Nat /\ v \in Nat /\ table.revision \in Nat /\ entry \in [Op -> Entry]
      /\ \A o \in Op : entry[o].rev \in Nat
  BY <1>3, TableTyped DEF TypeOK, Entry
<1>5. Sending(mirror, lost, registry.published, entry, p, e)
  BY <1>2, <1>3 DEF Projected
<1>6. IF Ends THEN registry.published = v ELSE Has(mirror, lost, entry, Target, v)
  BY <1>2 DEF Projected, Holds
<1>7. entry' = entry \/ entry' = [entry EXCEPT ![e] = [entry[e] EXCEPT !.step = entry[e].step + 1]]
  BY DEF Advances
<1>8. \A o \in Op : /\ entry'[o].rev = entry[o].rev /\ entry'[o].writes = entry[o].writes
                    /\ entry'[o].drops = entry[o].drops /\ entry'[o].cancelled = entry[o].cancelled
                    /\ o # e => entry'[o] = entry[o]
  BY <1>3, <1>4, <1>7 DEF Entry
<1>9. ASSUME NEW r \in Row, NEW x \in Nat, Has(mirror, lost, entry, r, x)
      PROVE  Has(mirror, lost, entry', r, x)
  BY <1>8, <1>9, HasKept DEF Op
<1>10. CASE ~Ends
  <2>1. /\ UNCHANGED table /\ entry'[e].step = k + 1 /\ k < Len(w)
    <3>1. /\ UNCHANGED table /\ entry' = [entry EXCEPT ![e] = [entry[e] EXCEPT !.step = entry[e].step + 1]]
      BY <1>10 DEF Advances, Ends
    <3>. QED
      BY <1>3, <1>4, <1>10, <3>1, WritingFacts DEF Ends, Final, Entry
  <2>2. registry.published = p
    BY <1>5, <2>1 DEF Sending
  <2>3. /\ \A r \in Row : Has(mirror, lost, entry, r, p) \/ Has(mirror, lost, entry, r, v)
        /\ \A r \in Row : ~Has(mirror, lost, entry, r, p) => \E j \in 1..k : w[j] = r
        /\ \A j \in 1..k - 1 : Has(mirror, lost, entry, w[j], v)
    BY <1>5, <2>2 DEF Sending
  <2>4. \A r \in Row : Has(mirror, lost, entry', r, p) \/ Has(mirror, lost, entry', r, v)
    BY <1>4, <1>9, <2>3
  <2>5. \A r \in Row : ~Has(mirror, lost, entry', r, p) => \E j \in 1..k + 1 : w[j] = r
    <3>1. ASSUME NEW r \in Row, ~Has(mirror, lost, entry', r, p)
          PROVE  \E j \in 1..k + 1 : w[j] = r
      <4>1. ~Has(mirror, lost, entry, r, p)
        BY <1>4, <1>9, <3>1
      <4>2. PICK j \in 1..k : w[j] = r
        BY <2>3, <4>1
      <4>. QED
        BY <1>3, <4>2
    <3>. QED
      BY <3>1
  <2>6. \A j \in 1..k : Has(mirror, lost, entry', w[j], v)
    <3>1. ASSUME NEW j \in 1..k
          PROVE  Has(mirror, lost, entry', w[j], v)
      <4>1. w[j] \in Row
        BY <1>3, WritingFacts
      <4>2. Has(mirror, lost, entry, w[j], v)
        <5>1. CASE j = k
          BY <1>3, <1>6, <1>10, <5>1
        <5>2. CASE j # k
          BY <1>3, <2>3, <5>2
        <5>. QED
          BY <5>1, <5>2
      <4>. QED
        BY <1>4, <1>9, <4>1, <4>2
    <3>. QED
      BY <3>1
  <2>7. Sending(mirror, lost, p, entry', p, e)
    <3>1. entry'[e].rev = v /\ entry'[e].writes = w /\ v # p
      BY <1>3, <1>4, <1>8
    <3>2. (k + 1) - 1 = k
      BY <1>3
    <3>. QED
      BY <2>1, <2>4, <2>5, <2>6, <3>1, <3>2 DEF Sending
  <2>8. Pending' = Pending /\ Event' = e
    BY <1>3, <1>8, <2>1, EventsFrame
  <2>. QED
    BY <1>3, <2>1, <2>2, <2>7, <2>8
<1>11. CASE Ends
  <2>1. table'.projected = v /\ registry.published = v /\ v # p
    <3>1. table' = [table EXCEPT !.projected = v]
      BY <1>11 DEF Advances, Ends
    <3>. QED
      BY <1>3, <1>4, <1>6, <1>11, <3>1 DEF TypeOK, Table
  <2>2. \A r \in Row : Has(mirror, lost, entry, r, v)
    BY <1>5, <2>1 DEF Sending
  <2>3. \A r \in Row : Has(mirror, lost, entry', r, v)
    BY <1>4, <1>9, <2>2
  <2>4. ASSUME Pending' # {}
        PROVE  Sending(mirror, lost, v, entry', v, Event')
    <3>1. Revisions' /\ table'.revision \in Nat
      BY TableTyped DEF History, TypeOK, Table
    <3>2. Event' \in Op /\ entry'[Event'].rev = v + 1
      BY <2>1, <2>4, <3>1, EventIsNextLater
    <3>3. PICK f \in Op : f = Event'
      BY <3>2
    <3>4. entry'[f] = entry[f] /\ entry[f].rev = v + 1
      BY <1>3, <1>4, <1>8, <3>2, <3>3
    <3>5. entry[f].step = 1
      BY <1>3, <1>4, <3>4 DEF TableInv, Shaped
    <3>6. entry'[f].rev # v /\ entry'[f].step = 1 /\ \A j : j \notin 1..1 - 1
      BY <1>4, <3>4, <3>5
    <3>7. Sending(mirror, lost, v, entry', v, f)
      BY <2>3, <3>6 DEF Sending
    <3>. QED
      BY <3>3, <3>7
  <2>. QED
    BY <2>1, <2>3, <2>4
<1>. QED
  BY <1>10, <1>11

\* The repair publishes the table it has compared.
LEMMA FinishProjected ==
  ASSUME TableInv, RepairFinish
  PROVE  Projected'
<1>. /\ TypeOK /\ History /\ Rebuilt /\ RepairAt /\ ProjectorAt
     /\ stage = "active" /\ UNCHANGED <<entry, projector, mirror, registry, job, lost>>
     /\ repair = "finish" /\ intent.revision = table.revision
  BY DEF TableInv, RepairFinish, Active, d1, history
<1>. SUFFICES ASSUME job = "none"
              PROVE  Projected'
  BY DEF Projected
<1>1. intent.phase = "publish" /\ projector.pc = "idle"
  BY DEF RepairAt, ProjectorAt
<1>2. table'.projected = table.revision /\ table'.revision = table.revision
  BY DEF RepairFinish, TypeOK, Table
<1>3. Pending' = {}
  <2>1. \A o \in Op : ~(entry[o].rev > table.revision)
    BY TableTyped DEF History, Revisions, TypeOK, Entry, Base
  <2>. QED
    BY <1>2, <2>1 DEF Pending
<1>4. registry.published = table.revision /\ \A r \in Row \ lost : mirror[r] = table.rows[r]
  BY <1>1 DEF Rebuilt
<1>5. \A r \in Row : Has(mirror, lost, entry, r, table.revision)
  BY <1>4 DEF Has, History, Recorded
<1>. QED
  BY <1>1, <1>2, <1>3, <1>4, <1>5 DEF Projected, Holds

\* A command is committed behind the events that are pending.
LEMMA CommitProjected ==
  ASSUME TableInv, TypeOK', History', NEW q \in Request, Commit(q)
  PROVE  Projected'
<1>. /\ TypeOK /\ Projected /\ ProjectorAt /\ History /\ stage = "active" /\ intent.phase = "none"
     /\ UNCHANGED <<stage, job, intent, mirror, registry, lost>>
  BY DEF TableInv, Commit, Authorized, Unfenced, Active, d1, history
<1>1. projector' = projector \/ (projector.pc = "idle" /\ projector'.pc = "sent")
  BY DEF Commit, Projects, Sent
<1>2. CASE UNCHANGED <<table, entry>>
  BY <1>1, <1>2, ProjectedFrame
<1>3. ASSUME NEW o \in Op, NEW drops \in BOOLEAN, entry[o].rev = 0, Applicable(o), Committed(o, drops),
             drops => o \in Bulks /\ 2 \in Present
      PROVE  Projected'
  <2>. SUFFICES ASSUME job = "none"
                PROVE  Projected'
    BY DEF Projected
  <2> DEFINE p == table.projected
  <2>1. /\ table'.revision = table.revision + 1 /\ table'.projected = p
        /\ \A a \in Op : a # o => entry'[a] = entry[a]
    BY <1>3, CommitAdds
  <2>2. entry'[o].rev = table.revision + 1 /\ entry'[o].step = 1
    <3>1. entry'[o] = [rev |-> table.revision + 1, writes |-> Writes(o), drops |-> drops,
                       step |-> 1, cancelled |-> FALSE]
      BY <1>3, CommitAdds
    <3>. QED
      BY <3>1
  <2>3. p \in Nat /\ table.revision \in Nat /\ p <= table.revision /\ Revisions /\ ~entry[o].cancelled
    BY <1>3, TableTyped DEF TypeOK, TableInv, Shaped, Uncommitted, History, Revisions, Base
  <2>4. ASSUME NEW r \in Row, NEW x \in 0..table.revision, Has(mirror, lost, entry, r, x)
        PROVE  Has(mirror, lost, entry', r, x)
    <3>1. ValueIn(entry', r, x) = ValueIn(entry, r, x)
      BY <1>3, <2>1, <2>2, <2>3, CommitKeeps
    <3>2. Refused(entry, r) => Refused(entry', r)
      BY <2>1, <2>3 DEF Refused, Op
    <3>. QED
      BY <2>4, <3>1, <3>2 DEF Has
  <2>5. Pending' # {}
    BY <2>1, <2>2, <2>3 DEF Pending
  <2>6. Event' \in Op /\ \A a \in Op : entry'[a].rev = p + 1 => a = Event'
    <3>1. Revisions' /\ table'.revision \in Nat
      BY <2>1, <2>3 DEF History
    <3>. QED
      BY <2>1, <2>5, <3>1, EventIsNextLater
  <2>7. CASE Pending = {}
    <3>1. p = table.revision
      <4>1. ~(p + 1 \in Base + 1..table.revision)
        BY <2>3, <2>7 DEF Pending, Revisions, Base
      <4>. QED
        BY <2>3, <4>1 DEF Revisions, Base
    <3>2. Event' = o
      BY <2>2, <2>6, <3>1
    <3>3. registry.published = p /\ \A r \in Row : Has(mirror, lost, entry, r, p)
      BY <2>7 DEF Projected, Holds
    <3>4. \A r \in Row : Has(mirror, lost, entry', r, p)
      BY <2>3, <2>4, <3>1, <3>3
    <3>5. projector'.pc # "ok"
      BY <1>1, <2>7 DEF ProjectorAt
    <3>6. Sending(mirror, lost, p, entry', p, o)
      <4>1. p # entry'[o].rev /\ \A j : j \notin 1..1 - 1
        BY <2>2, <2>3, <3>1
      <4>. QED
        BY <2>2, <3>4, <4>1 DEF Sending
    <3>. QED
      BY <2>1, <2>5, <3>2, <3>3, <3>5, <3>6 DEF Projected
  <2>8. CASE Pending # {}
    <3>1. /\ Event \in Op /\ entry[Event].rev = p + 1 /\ p + 1 <= table.revision
          /\ entry[Event].writes \in Writing /\ entry[Event].step \in 1..Len(entry[Event].writes)
      BY <2>8, PendingEvent
    <3>2. Event # o /\ entry'[Event] = entry[Event]
      BY <1>3, <2>1, <2>3, <3>1
    <3>3. Event' = Event
      BY <2>6, <3>1, <3>2
    <3>4. p \in 0..table.revision /\ p + 1 \in 0..table.revision
      BY <2>3, <3>1
    <3>5. \A r \in Row : /\ Has(mirror, lost, entry, r, p) => Has(mirror, lost, entry', r, p)
                         /\ Has(mirror, lost, entry, r, entry[Event].rev) => Has(mirror, lost, entry', r, entry[Event].rev)
      BY <2>4, <3>1, <3>4
    <3>6. Sending(mirror, lost, registry.published, entry, p, Event)
      BY <2>8 DEF Projected
    <3>7. Sending(mirror, lost, registry.published, entry', p, Event)
      BY <3>1, <3>2, <3>5, <3>6, SendingKept
    <3>8. ASSUME projector'.pc = "ok"
          PROVE  IF Ends' THEN registry.published = entry'[Event].rev ELSE Has(mirror, lost, entry', Target', entry'[Event].rev)
      <4>1. projector' = projector /\ projector.pc = "ok"
        BY <1>1, <3>8
      <4>2. Ends' = Ends /\ Target' = Target
        BY <3>2, <3>3, <4>1 DEF Ends, Final, Target
      <4>3. IF Ends THEN registry.published = entry[Event].rev ELSE Has(mirror, lost, entry, Target, entry[Event].rev)
        BY <4>1 DEF Projected, Holds
      <4>4. Target \in Row
        BY <4>1, BusyEvent
      <4>5. CASE Ends
        BY <3>2, <4>2, <4>3, <4>5
      <4>6. CASE ~Ends
        <5>1. Has(mirror, lost, entry', Target, entry[Event].rev)
          BY <3>5, <4>3, <4>4, <4>6, Zenon
        <5>. QED
          BY <3>2, <4>2, <4>6, <5>1, Zenon
      <4>. QED
        BY <4>5, <4>6
    <3>. QED
      BY <2>1, <2>5, <3>3, <3>7, <3>8 DEF Projected, Holds
  <2>. QED
    BY <2>7, <2>8
<1>4. CASE ~UNCHANGED <<table, entry>>
  <2>1. request[q].op \in Op
    BY DEF TypeOK, Asked
  <2>2. \E drops \in BOOLEAN : /\ entry[request[q].op].rev = 0 /\ Applicable(request[q].op)
                               /\ Committed(request[q].op, drops)
                               /\ drops => request[q].op \in Bulks /\ 2 \in Present
    BY <1>4 DEF Commit, New
  <2>. QED
    BY <1>3, <2>1, <2>2
<1>. QED
  BY <1>2, <1>4

\* A repair goes on in some phase, but for its last step.
LEMMA RepairGoesOn ==
  ASSUME TableInv,
         \/ RepairFence \/ RepairDrain \/ RepairHeaders \/ RepairRows \/ RepairReconcile
         \/ RepairVerify \/ RepairPublish \/ RepairFails
  PROVE  intent'.phase # "none"
<1>. TypeOK /\ RepairAt /\ intent.phase # "none"
  BY DEF TableInv, RepairFence, RepairDrain, RepairHeaders, RepairRows, RepairReconcile, RepairVerify,
         RepairPublish, RepairFails, RepairAt
<1>1. CASE RepairFence
  <2>1. UNCHANGED intent \/ intent' = [intent EXCEPT !.phase = IF intent.phase = "fence" THEN "drain" ELSE intent.phase]
    BY <1>1 DEF RepairFence, TurnFails
  <2>. QED
    BY <2>1 DEF TypeOK, Intent
<1>2. CASE RepairDrain
  <2>1. UNCHANGED intent \/ intent' = [intent EXCEPT !.phase = "headers", !.revision = table.revision]
    BY <1>2 DEF RepairDrain, TurnFails
  <2>. QED
    BY <2>1 DEF TypeOK, Intent
<1>3. CASE RepairHeaders \/ RepairRows \/ RepairReconcile
  BY <1>3, TurnEffect DEF RepairHeaders, RepairRows, RepairReconcile
<1>4. CASE RepairVerify
  <2>1. CASE TurnGoesOn("publish")
    BY <2>1, TurnEffect
  <2>2. CASE ~TurnGoesOn("publish")
    BY <1>4, <2>2 DEF RepairVerify, TypeOK, Intent
  <2>. QED
    BY <2>1, <2>2
<1>5. CASE RepairPublish \/ RepairFails
  BY <1>5, TurnEffect DEF RepairPublish, RepairFails, durable
<1>. QED
  BY <1>1, <1>2, <1>3, <1>4, <1>5

\* Every step keeps what D1 has.
LEMMA StepProjected ==
  ASSUME TableInv, TypeOK', History', RepairAt', StageAt', [Next]_vars
  PROVE  Projected'
<1>. TypeOK /\ ProjectorAt /\ RepairAt /\ StageAt
  BY DEF TableInv
<1>1. ASSUME UNCHANGED <<table, entry, mirror, registry, lost, job>>,
             intent'.phase = "none" => intent.phase = "none",
             projector'.pc = "ok" => UNCHANGED projector
      PROVE  Projected'
  BY <1>1, ProjectedFrame
<1>2. ASSUME job' # "none" \/ intent'.phase # "none"
      PROVE  Projected'
  BY <1>2 DEF Projected
<1>3. CASE Batch
  <2>1. CASE UNCHANGED <<mirror, registry>> /\ projector'.pc # "ok"
    BY <1>1, <1>3, <2>1 DEF Batch, durable
  <2>2. CASE ~(UNCHANGED <<mirror, registry>> /\ projector'.pc # "ok")
    <3>1. \A result \in {"conflict", "missing", "failed"} : [projector EXCEPT !.pc = result].pc # "ok"
      BY DEF TypeOK, Projector
    <3>2. Outcome \in Result
      BY DEF Outcome, Result
    <3>3. /\ Outcome = "ok" /\ Applied
          /\ \/ projector' = [projector EXCEPT !.pc = "ok"]
             \/ projector' = [projector EXCEPT !.pc = "failed"]
      BY <1>3, <2>2, <3>1, <3>2 DEF Batch, Result
    <3>. QED
      BY <1>3, <3>3, BatchProjected
  <2>. QED
    BY <2>1, <2>2
<1>4. CASE Advances
  BY <1>4, AdvancesProjected
<1>5. CASE Cancels
  <2>1. /\ table'.projected = table.projected /\ UNCHANGED <<intent, job, lost, mirror, registry>>
        /\ projector'.pc = "sent"
    BY <1>5 DEF Cancels, d1, history, TypeOK, Table, Sent
  <2>2. \A o \in Op : /\ entry'[o].rev = entry[o].rev /\ entry'[o].writes = entry[o].writes
                      /\ entry'[o].drops = entry[o].drops /\ entry'[o].step = entry[o].step
                      /\ entry[o].cancelled => entry'[o].cancelled
    BY <1>5 DEF Cancels, TypeOK, Entry
  <2>. QED
    BY <2>1, <2>2, ProjectedFrame
<1>6. CASE Recovers
  BY <1>1, <1>6 DEF Recovers, durable, d1, history, Sent
<1>7. CASE GivesUp
  <2>1. \E result : Settle(result)
    BY <1>7 DEF GivesUp
  <2>2. projector'.pc # "ok" /\ (intent'.phase = "none" => intent.phase = "none")
    BY <2>1, SettleEffect
  <2>. QED
    BY <1>1, <1>7, <2>2 DEF GivesUp, d1, history
<1>8. CASE (\E o \in Op : Send(o)) \/ \E q \in Request : Reads(q) \/ Refuse(q)
  <2>1. UNCHANGED <<table, entry, mirror, registry, lost, job, intent, projector>>
    BY <1>8 DEF Send, Reads, Refuse, durable, d1, history
  <2>. QED
    BY <1>1, <2>1
<1>9. CASE \E q \in Request : Commit(q)
  BY <1>9, CommitProjected
<1>10. CASE AlarmFires \/ OwnerRepairs
  <2>1. UNCHANGED <<table, entry, mirror, registry, lost, job>>
    BY <1>10 DEF AlarmFires, OwnerRepairs, d1
  <2>2. projector'.pc = "ok" => UNCHANGED projector
    <3>1. projector' = projector \/ projector' = Sent("plain", FALSE)
      BY <1>10, Zenon DEF AlarmFires, OwnerRepairs, Projects
    <3>. QED
      BY <3>1 DEF Sent
  <2>3. UNCHANGED intent \/ repair' = "fence"
    BY <1>10 DEF AlarmFires, OwnerRepairs, TurnStarts
  <2>4. repair' = "fence" => intent'.phase # "none"
    BY DEF RepairAt
  <2>. QED
    BY <1>1, <2>1, <2>2, <2>3, <2>4
<1>11. CASE \/ RepairFence \/ RepairDrain \/ RepairHeaders \/ RepairRows \/ RepairReconcile
            \/ RepairVerify \/ RepairPublish \/ RepairFails
  BY <1>2, <1>11, RepairGoesOn
<1>12. CASE RepairFinish
  BY <1>12, FinishProjected
<1>13. CASE AcceptDeletion \/ RemoveRows
  BY <1>2, <1>13 DEF AcceptDeletion, RemoveRows
<1>14. CASE Stop \/ Stopped \/ Purge
  <2>1. job' = job /\ job # "none"
    BY <1>14 DEF Stop, Stopped, Purge, d1, StageAt
  <2>. QED
    BY <1>2, <2>1
<1>15. CASE Crash
  BY <1>1, <1>15 DEF Crash, durable, d1, Resting
<1>16. CASE \E r \in Fragile : LoseRow(r)
  <2>1. UNCHANGED <<table, entry, intent, projector, registry, job>>
    BY <1>16 DEF LoseRow, durable, memory
  <2>2. lost \subseteq lost' /\ \A r \in Row : r \notin lost' => mirror'[r] = mirror[r]
    BY <1>16 DEF LoseRow, TypeOK
  <2>. QED
    BY <2>1, <2>2, ProjectedFrame
<1>17. CASE ChangeDestination \/ Rest \/ UNCHANGED vars
  <2>1. UNCHANGED <<table, entry, mirror, registry, lost, job, intent, projector>>
    BY <1>17 DEF ChangeDestination, Rest, vars, durable, memory
  <2>. QED
    BY <1>1, <2>1
<1>. QED
  BY <1>3, <1>4, <1>5, <1>6, <1>7, <1>8, <1>9, <1>10, <1>11, <1>12, <1>13, <1>14, <1>15, <1>16, <1>17,
     Zenon DEF Next, Own

-----------------------------------------------------------------------------
(* The theorems.                                                           *)

LEMMA InitInv ==
  ASSUME Init
  PROVE  TableInv
<1>1. /\ table = [revision |-> Base, projected |-> Base, rows |-> [r \in Row |-> IF r = 2 THEN Base ELSE Gone]]
      /\ \A o \in Op : entry[o] = Uncommitted
      /\ intent.phase = "none" /\ stage = "active" /\ projector.pc = "idle" /\ repair = "idle"
      /\ mirror = table.rows /\ registry = [fence |-> "do", published |-> Base] /\ job = "none" /\ lost = {}
  BY DEF Init, NoIntent, Resting
<1>2. TypeOK
  <2>1. table \in Table /\ mirror \in [Row -> Nat \union {Bare}] /\ registry \in Registry
    BY <1>1 DEF Table, Base, Gone, Registry
  <2>2. entry \in [Op -> Entry]
    BY DEF Init, Entry, Uncommitted
  <2>3. request \in [Request -> Asked] /\ projector \in Projector /\ intent \in Intent
    BY NoIntentTyped, OperationsAssumption DEF Init, Unasked, Op, Asked, Resting, Projector
  <2>4. asks \in 0..MaxAsks /\ mishaps \in 0..MaxMishaps
    BY BoundsAssumption DEF Init
  <2>5. /\ stage \in {"active", "stopping", "stopped", "purged"} /\ handler \in {"idle", "project", "repair"}
        /\ repair \in Working \union {"idle"} /\ released \subseteq Captures
        /\ job \in {"none", "rows", "cleanup"} /\ lost \subseteq Row
        /\ alarm \in BOOLEAN /\ open \in BOOLEAN /\ orphaned \in BOOLEAN
    BY DEF Init
  <2>. QED
    BY <2>1, <2>2, <2>3, <2>4, <2>5 DEF TypeOK
<1>3. \A o \in Op : Shaped(o)
  BY <1>1 DEF Shaped, Uncommitted, Base
<1>4. \A r \in Row : \A v : ValueIn(entry, r, v) = table.rows[r] /\ Writers(entry, r, v) = {}
  <2>1. \A r, v : Writers(entry, r, v) = {}
    BY <1>1 DEF Writers, Uncommitted
  <2>. QED
    BY <1>1, <2>1 DEF ValueIn
<1>5. History
  BY <1>1, <1>4 DEF History, Revisions, Recorded, Uncommitted, Base
<1>6. Pending = {}
  BY <1>1 DEF Pending, Uncommitted, Base
<1>7. Projected
  BY <1>1, <1>4, <1>6 DEF Projected, Holds, Has
<1>8. ProjectorAt /\ RepairAt /\ StageAt /\ Rebuilt
  BY <1>1 DEF ProjectorAt, RepairAt, StageAt, Rebuilt, Rebuilding
<1>. QED
  BY <1>2, <1>3, <1>5, <1>7, <1>8 DEF TableInv

\* The invariant holds of every reachable state, for all commands, requests and bounds.
THEOREM TableInvariant == Spec => []TableInv
<1>1. Init => TableInv
  BY InitInv
<1>2. TableInv /\ [Next]_vars => TableInv'
  <2>. SUFFICES ASSUME TableInv, [Next]_vars
                PROVE  TableInv'
    OBVIOUS
  <2>1. TypeOK'
    BY StepTyped
  <2>2. (\A o \in Op : Shaped(o))' /\ History'
    BY StepHistory
  <2>3. ProjectorAt' /\ RepairAt' /\ StageAt' /\ Rebuilt'
    BY <2>1, <2>2, StepControl
  <2>4. Projected'
    BY <2>1, <2>2, <2>3, StepProjected
  <2>. QED
    BY <2>1, <2>2, <2>3, <2>4 DEF TableInv
<1>. QED
  BY <1>1, <1>2, PTL DEF Spec

\* Every variable keeps its type: revisions, steps and phases are what the code's schema
\* and its state machine say.
THEOREM TableTypeCorrect == Spec => []TypeOK
<1>1. TableInv => TypeOK
  BY DEF TableInv
<1>. QED
  BY <1>1, TableInvariant, PTL

\* What has stopped for the deletion projects and repairs no more (acceptDeletion and stop
\* wait for the work under way; nothing starts behind them).
THEOREM TableStoppedIsQuiet == Spec => []StoppedIsQuiet
<1>1. TableInv => StoppedIsQuiet
  BY DEF TableInv, StageAt, StoppedIsQuiet
<1>. QED
  BY <1>1, TableInvariant, PTL

\* However often a command is sent, its receipt keeps its revision until the purge.
THEOREM TableCommittedOnce == Spec => CommittedOnce
<1>1. TableInv /\ [Next]_vars =>
        [\A o \in Op : entry[o].rev # 0 => entry'[o].rev = entry[o].rev \/ stage' = "purged"]_vars
  <2>. SUFFICES ASSUME TableInv, Next, NEW o \in Op, entry[o].rev # 0
                PROVE  entry'[o].rev = entry[o].rev \/ stage' = "purged"
    OBVIOUS
  <2>. entry \in [Op -> Entry]
    BY DEF TableInv, TypeOK
  <2>1. CASE Advances
    <3>1. entry' = entry \/ entry' = [entry EXCEPT ![Event] = [entry[Event] EXCEPT !.step = entry[Event].step + 1]]
      BY <2>1 DEF Advances
    <3>2. CASE o = Event
      <4>1. entry'[o] = entry[o] \/ entry'[o] = [entry[o] EXCEPT !.step = entry[o].step + 1]
        BY <3>1, <3>2
      <4>. QED
        BY <4>1 DEF Entry
    <3>3. CASE o # Event
      BY <3>1, <3>3
    <3>. QED
      BY <3>2, <3>3
  <2>2. CASE Cancels
    BY <2>2 DEF Cancels, Entry
  <2>3. CASE \E q \in Request : Commit(q)
    BY <2>3 DEF Commit, New, Committed
  <2>4. CASE Purge
    BY <2>4 DEF Purge
  <2>5. CASE \/ Batch \/ Recovers \/ GivesUp \/ (\E p \in Op : Send(p))
             \/ (\E q \in Request : Reads(q) \/ Refuse(q)) \/ AlarmFires \/ OwnerRepairs
    BY <2>5 DEF Batch, Recovers, GivesUp, Send, Reads, Refuse, AlarmFires, OwnerRepairs, durable
  <2>6. CASE \/ RepairFence \/ RepairDrain \/ RepairHeaders \/ RepairRows \/ RepairReconcile
             \/ RepairVerify \/ RepairPublish \/ RepairFinish \/ RepairFails
    BY <2>6 DEF RepairFence, RepairDrain, RepairHeaders, RepairRows, RepairReconcile,
                RepairVerify, RepairPublish, RepairFinish, RepairFails, durable
  <2>7. CASE \/ AcceptDeletion \/ Stop \/ Stopped \/ RemoveRows
             \/ Crash \/ (\E r \in Fragile : LoseRow(r)) \/ ChangeDestination \/ Rest
    BY <2>7 DEF AcceptDeletion, Stop, Stopped, RemoveRows, Crash, LoseRow, ChangeDestination,
                Rest, vars, durable
  <2>. QED
    BY <2>1, <2>2, <2>3, <2>4, <2>5, <2>6, <2>7, Zenon DEF Next, Own
<1>. QED
  BY <1>1, TableInvariant, PTL DEF Spec, CommittedOnce

\* A repair lifts the fence over the table as it is committed, and over all of it.
THEOREM TablePublishedIsCanonical == Spec => PublishedIsCanonical
<1>1. TableInv /\ [Next]_vars =>
        [registry.fence = "repairing" /\ registry'.fence = "do" =>
           /\ registry'.published = table.revision
           /\ \A r \in Row \ lost : mirror[r] = table.rows[r]]_vars
  <2>. SUFFICES ASSUME TableInv, Next, registry.fence = "repairing", registry'.fence = "do"
                PROVE  /\ registry'.published = table.revision
                       /\ \A r \in Row \ lost : mirror[r] = table.rows[r]
    OBVIOUS
  <2>1. CASE RepairPublish
    <3>1. intent.phase = "publish" /\ job = "none" /\ registry'.published = intent.revision
      BY <2>1 DEF RepairPublish, TableInv, RepairAt
    <3>. QED
      BY <3>1 DEF TableInv, Rebuilt, Rebuilding
  <2>2. registry'.fence = registry.fence \/ registry'.fence = "repairing" \/ RepairPublish
    <3>. registry \in Registry
      BY DEF TableInv, TypeOK
    <3>1. CASE Batch
      BY <3>1 DEF Batch, Applied, Registry
    <3>2. CASE RepairFence
      BY <3>2 DEF RepairFence, Registry
    <3>3. CASE \/ Advances \/ Cancels \/ Recovers \/ GivesUp \/ (\E p \in Op : Send(p))
               \/ (\E q \in Request : Reads(q) \/ Commit(q) \/ Refuse(q)) \/ AlarmFires \/ OwnerRepairs
      BY <3>3 DEF Advances, Cancels, Recovers, GivesUp, Send, Reads, Commit, Refuse, AlarmFires, OwnerRepairs, d1
    <3>4. CASE \/ RepairDrain \/ RepairHeaders \/ RepairRows \/ RepairReconcile
               \/ RepairVerify \/ RepairFinish \/ RepairFails
      BY <3>4 DEF RepairDrain, RepairHeaders, RepairRows, RepairReconcile, RepairVerify, RepairFinish, RepairFails, d1
    <3>5. CASE \/ AcceptDeletion \/ Stop \/ Stopped \/ RemoveRows \/ Purge
               \/ Crash \/ (\E r \in Fragile : LoseRow(r)) \/ ChangeDestination \/ Rest
      BY <3>5 DEF AcceptDeletion, Stop, Stopped, RemoveRows, Purge, Crash, LoseRow, ChangeDestination, Rest, vars, d1
    <3>. QED
      BY <3>1, <3>2, <3>3, <3>4, <3>5, Zenon DEF Next, Own
  <2>. QED
    BY <2>1, <2>2
<1>. QED
  BY <1>1, TableInvariant, PTL DEF Spec, PublishedIsCanonical

\* A list of rows begins with the rows of its first batches.
LEMMA FirstBatches ==
  ASSUME NEW w \in Writing, NEW k \in 1..Len(w), NEW j \in 1..k
  PROVE  w[j] \in Range(SubSeq(w, 1, k))
<1>1. w \in Seq(Row) /\ Len(w) \in Nat /\ k <= Len(w)
  BY WritingFacts
<1>2. SubSeq(w, 1, k)[j] = w[j] /\ j \in DOMAIN SubSeq(w, 1, k)
  BY <1>1
<1>. QED
  BY <1>2 DEF Range

\* D1 has the table of the revision it names, with at most the first batches of the next
\* event: events are projected in their order, none is skipped or applied again.
THEOREM TableMirrorIsPrefix == Spec => []MirrorIsPrefix
<1>1. TableInv => MirrorIsPrefix
  <2>. SUFFICES ASSUME TableInv, registry.fence = "do", intent.phase = "none", job = "none",
                       NEW r \in Row \ lost, ~Denied(r)
                PROVE  \/ mirror[r] = Value(r, registry.published)
                       \/ \E o \in Op : /\ entry[o].rev = registry.published + 1
                                        /\ r \in Range(SubSeq(entry[o].writes, 1, entry[o].step))
                                        /\ mirror[r] = Value(r, entry[o].rev)
    BY DEF MirrorIsPrefix
  <2>1. \A v : Value(r, v) = ValueIn(entry, r, v)
    BY DEF Value, ValueIn, Writers, LastOf, Drops
  <2>2. \A v : Has(mirror, lost, entry, r, v) => mirror[r] = Value(r, v)
    BY <2>1 DEF Has, Refused, Denied
  <2>3. Projected /\ stage # "purged"
    BY DEF TableInv, StageAt
  <2>4. CASE Pending = {}
    BY <2>2, <2>3, <2>4 DEF Projected, Holds
  <2>5. CASE Pending # {}
    <3>1. /\ Event \in Op /\ entry[Event].rev = table.projected + 1
          /\ entry[Event].writes \in Writing /\ entry[Event].step \in 1..Len(entry[Event].writes)
      BY <2>3, <2>5, PendingEvent
    <3>2. Sending(mirror, lost, registry.published, entry, table.projected, Event)
      BY <2>3, <2>5 DEF Projected
    <3>3. CASE registry.published = entry[Event].rev
      BY <2>2, <3>2, <3>3 DEF Sending
    <3>4. CASE registry.published = table.projected
      <4>1. CASE Has(mirror, lost, entry, r, table.projected)
        BY <2>2, <3>4, <4>1
      <4>2. CASE ~Has(mirror, lost, entry, r, table.projected)
        <5>1. Has(mirror, lost, entry, r, entry[Event].rev) /\ \E j \in 1..entry[Event].step : entry[Event].writes[j] = r
          BY <3>2, <3>4, <4>2 DEF Sending
        <5>2. r \in Range(SubSeq(entry[Event].writes, 1, entry[Event].step))
          BY <3>1, <5>1, FirstBatches
        <5>. QED
          BY <2>2, <3>1, <3>4, <5>1, <5>2
      <4>. QED
        BY <4>1, <4>2
    <3>. QED
      BY <3>2, <3>3, <3>4 DEF Sending
  <2>. QED
    BY <2>4, <2>5
<1>. QED
  BY <1>1, TableInvariant, PTL
=============================================================================
