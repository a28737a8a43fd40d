------------------------- MODULE JobLifecycleProofs -------------------------
(***************************************************************************)
(* What JobLifecycle guarantees for any number of invocations, attempts    *)
(* and mishaps.                                                            *)
(***************************************************************************)
EXTENDS JobLifecycle, TLAPS

-----------------------------------------------------------------------------
(* The rows, one set for each.                                             *)

JobRow == [status : JobStatus, attempt : Attempt, instance : Instance,
           target : {"none", "canceled", "failed"}, token : Cleaner \cup {Free}, stale : BOOLEAN]
RunRow == [status : {"none", "active", "complete", "errored", "terminated"},
           pc : RunPc, attempt : 0 .. MaxAttempts, key : 0 .. MaxAttempts]
PageRow == [state : {"none", "staged", "published"}, epoch : 0 .. MaxAttempts]
StarterRow == [pc : {"idle", "create"}, instance : Instance, attempt : Attempt, rotates : BOOLEAN]
CleanerRow == [pc : CleanerPc, attempt : Attempt, instance : Instance,
               staged : 0 .. MaxAttempts, key : 0 .. MaxAttempts]

Staging ==
  /\ page \in PageRow /\ room \in [Attempt -> {"empty", "started", "filled", "purged"}]
  /\ att \in 0 .. MaxAttempts /\ objects \subseteq Attempt
Invocations ==
  /\ starter \in [Starter -> StarterRow] /\ cleaner \in [Cleaner -> CleanerRow]
  /\ mishaps \in 0 .. MaxMishaps
Typed == job \in JobRow /\ run \in [Instance -> RunRow] /\ Staging /\ Invocations

-----------------------------------------------------------------------------
(* The inductive invariant.                                                *)

\* An instance that has claimed its job.
Claimed(r) == r.pc \notin {"load", "catch", "off"}

\* What a record of the row says about the attempt.
JobAt ==
  /\ job.status \in {"queued", "running", "succeeded", "canceled"} => job.target = "none"
  /\ job.target = "none" => job.token = Free

\* The instance of a queued job that has ended without having claimed it.
Spoilt ==
  /\ job.status = "queued" /\ run[job.instance].status # "none"
  /\ ~(run[job.instance].status = "active" /\ run[job.instance].pc = "load")

\* There is an id left: each attempt takes one, and each mishap may take one more.
IdsLeft ==
  /\ job.instance <= job.attempt + mishaps
  /\ Spoilt => job.instance < job.attempt + mishaps

\* What a starter asks for is not newer than the row.
StarterAt(s) ==
  starter[s].pc = "create" =>
    /\ starter[s].instance <= job.instance /\ starter[s].attempt <= job.attempt
    /\ starter[s].instance = job.instance => starter[s].attempt = job.attempt

\* An attempt has one instance that claims it, while the job is running.
RunAt(i) ==
  /\ run[i].status = "none" => run[i] = NoRun
  /\ i > job.instance => run[i].status = "none"
  /\ run[i].pc # "off" => run[i].attempt \in 1 .. job.attempt /\ run[i].key < run[i].attempt
  /\ i = job.instance /\ run[i].pc # "off" => run[i].attempt = job.attempt
  /\ Claimed(run[i]) /\ run[i].attempt = job.attempt =>
       i = job.instance /\ job.status \notin {"queued", "succeeded"}

\* What the instance of a running attempt has staged so far.
StagedSoFar(i) ==
  Active(i) =>
    /\ Claimed(run[i]) /\ run[i].pc \notin {"stage", "fence", "insert"} =>
         page = [state |-> "staged", epoch |-> run[i].attempt]
    /\ run[i].pc \in {"row", "move"} => run[i].attempt \in objects
    /\ run[i].pc \in {"drop", "initialize", "fill", "publish"} => att = run[i].attempt
    /\ run[i].pc = "publish" => room[run[i].attempt] = "filled"

\* Page and attachment are of attempts that were; those of the running one are whole.
PageAt ==
  /\ page.state = "none" => page = NoPage
  /\ page.state # "none" => page.epoch \in 1 .. job.attempt
  /\ att <= job.attempt /\ (job.status = "queued" => att < job.attempt)
  /\ job.status \in {"running", "succeeded"} /\ att = job.attempt => att \in objects
  /\ page.state = "published" <=> job.status = "succeeded"
  /\ job.status = "succeeded" =>
       page.epoch = job.attempt /\ att = job.attempt /\ room[job.attempt] = "filled"

\* A cleaner's attempt is over, and all it takes is of that attempt or an earlier one.
CleanerAt(k) ==
  cleaner[k].pc # "idle" =>
    /\ cleaner[k].attempt <= job.attempt /\ cleaner[k].instance <= job.instance
    /\ cleaner[k].attempt = job.attempt => job.status \in {"failed", "canceled", "canceling"}
    /\ job.status = "queued" => cleaner[k].instance < job.instance
    /\ cleaner[k].key <= cleaner[k].attempt
    /\ cleaner[k].pc \in {"purge", "objects", "delete"} => cleaner[k].staged \in 1 .. cleaner[k].attempt

JobInv ==
  /\ Typed /\ JobAt /\ IdsLeft /\ PageAt
  /\ (\A s \in Starter : StarterAt(s))
  /\ (\A i \in Instance : RunAt(i) /\ StagedSoFar(i))
  /\ (\A k \in Cleaner : CleanerAt(k))

Over == {"failed", "canceled", "canceling"}

-----------------------------------------------------------------------------
(* The state before a step.                                                *)

\* Types of what the definitions compare.
LEMMA Fields ==
  ASSUME Typed
  PROVE  /\ job.attempt \in Attempt /\ job.instance \in Instance /\ job.status \in JobStatus
         /\ job.token \in Cleaner \cup {Free} /\ job.target \in {"none", "canceled", "failed"}
         /\ \A i \in Instance :
              /\ run[i] \in RunRow /\ run[i].pc \in RunPc
              /\ run[i].attempt \in 0 .. MaxAttempts /\ run[i].key \in 0 .. MaxAttempts
         /\ \A s \in Starter : starter[s] \in StarterRow /\ starter[s].instance \in Instance /\ starter[s].attempt \in Attempt
         /\ \A k \in Cleaner :
              /\ cleaner[k] \in CleanerRow
              /\ cleaner[k].attempt \in Attempt /\ cleaner[k].instance \in Instance
              /\ cleaner[k].key \in 0 .. MaxAttempts /\ cleaner[k].staged \in 0 .. MaxAttempts
         /\ page.epoch \in 0 .. MaxAttempts /\ page.state \in {"none", "staged", "published"}
         /\ att \in 0 .. MaxAttempts /\ objects \subseteq Attempt /\ mishaps \in 0 .. MaxMishaps
  BY DEF Typed, Staging, Invocations, JobRow, RunRow, PageRow, StarterRow, CleanerRow

LEMMA Numbers ==
  /\ MaxAttempts \in Nat /\ MaxMishaps \in Nat /\ MaxCleaners \in Nat
  /\ Attempt \subseteq Nat \ {0} /\ Instance \subseteq Nat \ {0} /\ Cleaner \subseteq Nat \ {0}
  /\ 1 \in Attempt /\ 1 \in Instance
  BY ConstantsAssumption DEF Attempt, Instance, Cleaner

LEMMA RowNumbers ==
  ASSUME Typed
  PROVE  job.instance \in Nat /\ job.attempt \in Nat \ {0} /\ mishaps \in Nat
<1>1. job.instance \in Instance /\ job.attempt \in Attempt
  BY Fields
<1>2. mishaps \in 0 .. MaxMishaps /\ MaxMishaps \in Nat
  BY Numbers DEF Typed, Invocations
<1>3. job.instance \in Nat /\ job.attempt \in Nat \ {0}
  BY <1>1, Numbers
<1>4. mishaps \in Nat
  BY <1>2
<1>. QED
  BY <1>3, <1>4

\* The smallest id that is left is the next one.
LEMMA FreshIsNext ==
  ASSUME Typed, \A i \in Instance : RunAt(i), job.instance + 1 \in Instance
  PROVE  Fresh = job.instance + 1
<1>0. PICK n \in Instance : n = job.instance + 1
  OBVIOUS
<1>a. job.instance \in Nat /\ n \in Nat /\ Instance \subseteq Nat
  BY Fields, Numbers
<1>1. run[n].status = "none" /\ n > job.instance
  BY <1>0, <1>a DEF RunAt
<1>2. \A j \in Instance : j > job.instance => n <= j
  BY <1>0, <1>a
<1>3. \A i \in Instance :
        /\ run[i].status = "none" /\ i > job.instance
        /\ \A j \in Instance : j > job.instance /\ run[j].status = "none" => i <= j
        => i = n
  BY <1>1, <1>2, <1>a
<1>4. Fresh \in Instance /\ run[Fresh].status = "none" /\ Fresh > job.instance
        /\ \A j \in Instance : j > job.instance /\ run[j].status = "none" => Fresh <= j
  BY <1>1, <1>2 DEF Fresh
<1>. QED
  BY <1>0, <1>3, <1>4

-----------------------------------------------------------------------------
(* Steps of an instance.                                                   *)

\* What a step of instance i makes of its record.
LEMMA ToFacts ==
  ASSUME Typed, NEW i \in Instance, NEW pc \in RunPc, To(i, pc)
  PROVE  /\ run' \in [Instance -> RunRow] /\ \A j \in Instance \ {i} : run'[j] = run[j]
         /\ run'[i].pc = pc /\ run'[i].status = run[i].status /\ run'[i].attempt = run[i].attempt
         /\ run'[i].key = IF pc \in {"row", "move", "drop"} THEN run[i].key ELSE 0
<1>1. run \in [Instance -> RunRow] /\ run[i].key \in 0 .. MaxAttempts /\ 0 \in 0 .. MaxAttempts
  BY Fields, Numbers DEF Typed
<1>2. run[i] \in RunRow
  BY <1>1
<1>. QED
  BY <1>1, <1>2 DEF To, RunRow

LEMMA EndFacts ==
  ASSUME Typed, NEW i \in Instance, NEW status \in {"complete", "errored", "terminated"}, End(i, status)
  PROVE  /\ run' \in [Instance -> RunRow] /\ \A j \in Instance \ {i} : run'[j] = run[j]
         /\ run'[i].pc = "off" /\ run'[i].status # "none"
  BY Fields, Numbers DEF Typed, End, NoRun, RunRow, RunPc, Callback

\* A step in which the instance goes on in its attempt, or ends.
Onward(i) ==
  /\ run' \in [Instance -> RunRow] /\ \A j \in Instance \ {i} : run'[j] = run[j]
  /\ run'[i].status # "none"
  /\ run'[i].pc # "off" =>
       /\ run'[i].attempt = run[i].attempt /\ run'[i].status = run[i].status
       /\ run'[i].key < run[i].attempt
       /\ Claimed(run'[i]) => Claimed(run[i])

LEMMA GoesOn ==
  ASSUME JobInv, NEW i \in Instance, run[i].pc # "off", NEW pc \in RunPc, To(i, pc),
         Claimed([run[i] EXCEPT !.pc = pc]) => Claimed(run[i])
  PROVE  Onward(i) /\ run'[i].pc = pc /\ run'[i].attempt = run[i].attempt /\ run'[i].status = run[i].status
<1>1. Typed /\ RunAt(i)
  BY DEF JobInv
<1>2. run[i].status # "none" /\ run[i].key < run[i].attempt /\ run[i].attempt > 0
  BY <1>1, Fields, Numbers DEF RunAt, NoRun
<1>3. Claimed(run'[i]) <=> Claimed([run[i] EXCEPT !.pc = pc])
  BY <1>1, ToFacts, Fields DEF Claimed, RunRow
<1>. QED
  BY <1>1, <1>2, <1>3, ToFacts, Fields, Numbers DEF Onward

LEMMA Ends ==
  ASSUME JobInv, NEW i \in Instance, NEW status \in {"complete", "errored", "terminated"}, End(i, status)
  PROVE  Onward(i) /\ run'[i].pc = "off"
  BY EndFacts DEF JobInv, Onward

\* Such a step leaves all but the staging as it should be.
LEMMA OnwardStep ==
  ASSUME JobInv, NEW i \in Instance, Onward(i), run[i].pc # "off",
         UNCHANGED <<job, starter, cleaner>>,
         \/ /\ mishaps' = mishaps
            /\ run[i].pc # "load" \/ run[i].status = "terminated" \/ ~(i = job.instance /\ job.status = "queued")
         \/ Mishap
  PROVE  /\ job' \in JobRow /\ run' \in [Instance -> RunRow] /\ Invocations'
         /\ JobAt' /\ IdsLeft'
         /\ (\A s \in Starter : StarterAt(s))' /\ (\A j \in Instance : RunAt(j)')
         /\ (\A k \in Cleaner : CleanerAt(k))'
<1>1. Typed /\ \A j \in Instance : RunAt(j)
  BY DEF JobInv
<1>2. mishaps' \in 0 .. MaxMishaps /\ mishaps <= mishaps'
  BY <1>1, Fields, Numbers DEF Mishap
<1>3. job' \in JobRow /\ run' \in [Instance -> RunRow] /\ Invocations'
  BY <1>1, <1>2 DEF Typed, Invocations, Onward
<1>4. JobAt' /\ (\A s \in Starter : StarterAt(s))' /\ (\A k \in Cleaner : CleanerAt(k))'
  BY DEF JobInv, JobAt, StarterAt, CleanerAt
<1>5. IdsLeft'
  <2>1. IdsLeft
    BY DEF JobInv
  <2>2. CASE Mishap
    <3>1. job.instance \in Nat /\ job.attempt \in Nat /\ mishaps \in Nat
      BY <1>1, RowNumbers
    <3>2. mishaps' = mishaps + 1
      BY <2>2 DEF Mishap
    <3>. QED
      BY <2>1, <3>1, <3>2 DEF IdsLeft
  <2>3. CASE mishaps' = mishaps /\ ~Mishap
    <3>1. run[i].status # "none"
      BY <1>1 DEF RunAt, NoRun
    <3>2. Spoilt' => Spoilt
      <4>1. CASE i = job.instance
        BY <2>3, <3>1, <4>1 DEF Spoilt
      <4>2. CASE i # job.instance
        BY <1>1, <4>2, Fields DEF Spoilt, Onward
      <4>. QED
        BY <4>1, <4>2
    <3>. QED
      BY <2>1, <2>3, <3>2 DEF IdsLeft
  <2>. QED
    BY <2>2, <2>3
<1>6. ASSUME NEW j \in Instance
      PROVE  RunAt(j)'
  <2>1. CASE j # i
    BY <1>1, <2>1 DEF RunAt, Onward, Claimed
  <2>2. CASE j = i
    <3>1. RunAt(i) /\ run[i].status # "none"
      BY <1>1 DEF RunAt, NoRun
    <3>2. CASE run'[i].pc = "off"
      BY <2>2, <3>1, <3>2 DEF RunAt, Onward, Claimed
    <3>3. CASE run'[i].pc # "off"
      BY <2>2, <3>1, <3>3 DEF RunAt, Onward
    <3>. QED
      BY <3>2, <3>3
  <2>. QED
    BY <2>1, <2>2
<1>. QED
  BY <1>3, <1>4, <1>5, <1>6

\* What attempt a has staged stays.
Keeps(a) ==
  /\ page = [state |-> "staged", epoch |-> a] => page' = page /\ (att = a => att' = a)
  /\ a \in objects => a \in objects'
  /\ room[a] = "filled" => room'[a] = "filled"

LEMMA KeepsStaged ==
  ASSUME JobInv, NEW j \in Instance, run'[j] = run[j], job' = job,
         Active(j) /\ Claimed(run[j]) => Keeps(run[j].attempt)
  PROVE  StagedSoFar(j)'
<1>1. StagedSoFar(j)
  BY DEF JobInv
<1>2. CASE Active(j) /\ Claimed(run[j])
  BY <1>1, <1>2 DEF StagedSoFar, Active, Keeps
<1>3. CASE ~(Active(j) /\ Claimed(run[j]))
  BY <1>3 DEF StagedSoFar, Active, Claimed
<1>. QED
  BY <1>2, <1>3

\* A step of an instance that leaves the row as it is.
LEMMA StagingStep ==
  ASSUME JobInv, NEW i \in Instance, Onward(i), run[i].pc # "off",
         UNCHANGED <<job, starter, cleaner>>,
         \/ /\ mishaps' = mishaps
            /\ run[i].pc # "load" \/ run[i].status = "terminated" \/ ~(i = job.instance /\ job.status = "queued")
         \/ Mishap,
         Staging', PageAt', StagedSoFar(i)',
         \/ UNCHANGED staging
         \/ Claimed(run[i]) /\ (run[i].attempt < job.attempt => Keeps(job.attempt))
  PROVE  JobInv'
<1>1. \A j \in Instance : RunAt(j)
  BY DEF JobInv
<1>2. ASSUME NEW j \in Instance, j # i
      PROVE  StagedSoFar(j)'
  <2>1. Active(j) /\ Claimed(run[j]) => Keeps(run[j].attempt)
    <3>1. CASE UNCHANGED staging
      BY <3>1 DEF staging, Keeps
    <3>2. CASE Claimed(run[i]) /\ (run[i].attempt < job.attempt => Keeps(job.attempt))
      <4>1. Active(j) /\ Claimed(run[j]) => j = job.instance /\ run[j].attempt = job.attempt
        BY <1>1 DEF RunAt, Active
      <4>2. i # job.instance => run[i].attempt # job.attempt /\ run[i].attempt \in 1 .. job.attempt
        BY <1>1, <3>2 DEF RunAt, Claimed
      <4>3. job.attempt \in Nat
        BY Fields, Numbers DEF JobInv
      <4>. QED
        BY <1>2, <3>2, <4>1, <4>2, <4>3
    <3>. QED
      BY <3>1, <3>2
  <2>. QED
    BY <1>2, <2>1, KeepsStaged DEF Onward
<1>3. \A j \in Instance : StagedSoFar(j)'
  BY <1>2
<1>. QED
  BY <1>3, OnwardStep DEF JobInv, Typed

\* A job that is given up leaves nothing to keep.
LEMMA GivenUp ==
  ASSUME JobInv, job.status \in {"queued", "running"},
         NEW status \in {"failed", "canceling"}, NEW target \in {"failed", "canceled"},
         job' = [job EXCEPT !.status = status, !.target = target],
         run' = run \/ \E i \in Instance : run[i].pc # "off" /\ Onward(i) /\ run'[i].pc = "off",
         UNCHANGED <<staging, starter, cleaner, mishaps>>
  PROVE  JobInv'
<1>1. Typed /\ \A i \in Instance : RunAt(i)
  BY DEF JobInv
<1>2. /\ job' \in JobRow /\ job'.status = status /\ job'.target = target
      /\ job'.attempt = job.attempt /\ job'.instance = job.instance /\ job'.token = job.token
  BY <1>1 DEF Typed, JobRow, JobStatus
<1>3. Typed'
  BY <1>1, <1>2 DEF Typed, Staging, Invocations, Onward, staging
<1>4. JobAt' /\ PageAt' /\ (\A s \in Starter : StarterAt(s))' /\ (\A k \in Cleaner : CleanerAt(k))'
  BY <1>2 DEF JobInv, JobAt, PageAt, StarterAt, CleanerAt, staging
<1>5. IdsLeft'
  BY <1>2 DEF JobInv, IdsLeft, Spoilt
<1>6. ASSUME NEW j \in Instance
      PROVE  RunAt(j)' /\ StagedSoFar(j)'
  <2>1. StagedSoFar(j)'
    BY <1>2 DEF StagedSoFar, Active
  <2>2. run'[j] = run[j] \/ (run'[j].pc = "off" /\ run'[j].status # "none" /\ run[j].status # "none")
    <3>1. CASE run' = run
      BY <3>1
    <3>2. ASSUME NEW i \in Instance, run[i].pc # "off", Onward(i), run'[i].pc = "off"
          PROVE  run'[j] = run[j] \/ (run'[j].pc = "off" /\ run'[j].status # "none" /\ run[j].status # "none")
      BY <1>1, <3>2 DEF Onward, RunAt, NoRun
    <3>. QED
      BY <3>1, <3>2
  <2>. QED
    BY <1>1, <1>2, <2>1, <2>2 DEF RunAt, Claimed
<1>. QED
  BY <1>3, <1>4, <1>5, <1>6 DEF JobInv

\* What is known of an instance that has claimed its job.
LEMMA ClaimedFacts ==
  ASSUME JobInv, NEW i \in Instance, Claimed(run[i])
  PROVE  /\ run[i].pc # "off" /\ run[i].pc # "load" /\ run[i].pc # "catch"
         /\ run[i].attempt \in 1 .. job.attempt /\ run[i].attempt \in Attempt
         /\ run[i].key < run[i].attempt /\ run[i].key \in Nat
         /\ job.attempt \in Nat
         /\ Active(i) => run[i].attempt = job.attempt /\ job.status = "running" /\ i = job.instance
         /\ ~Active(i) => run[i].attempt < job.attempt \/ job.status \in Over
<1>1. Typed /\ RunAt(i)
  BY DEF JobInv
<1>2. job.attempt \in Nat /\ job.attempt \in Attempt /\ run[i].key \in 0 .. MaxAttempts /\ MaxAttempts \in Nat
  BY <1>1, RowNumbers, Fields, Numbers
<1>3. run[i].attempt \in 1 .. job.attempt /\ run[i].key < run[i].attempt
  BY <1>1 DEF RunAt, Claimed
<1>4. run[i].attempt \in Attempt
  BY <1>2, <1>3 DEF Attempt
<1>5. job.status \in {"queued", "running", "canceling", "succeeded", "failed", "canceled"}
  BY <1>1, Fields DEF JobStatus
<1>6. Active(i) => run[i].attempt = job.attempt /\ job.status = "running" /\ i = job.instance
  BY <1>1 DEF RunAt, Active
<1>7. ~Active(i) => run[i].attempt < job.attempt \/ job.status \in Over
  BY <1>1, <1>2, <1>3, <1>5 DEF RunAt, Active, Over
<1>. QED
  BY <1>2, <1>3, <1>4, <1>6, <1>7 DEF Claimed

\* The callback is called again, or the step gives up.
LEMMA ThrowsOn ==
  ASSUME JobInv, NEW i \in Instance, Claimed(run[i]), NEW callback \in Callback \ {"load"},
         Throws(i, callback)
  PROVE  Onward(i) /\ run'[i].pc \in {callback, "catch"} /\ run'[i].attempt = run[i].attempt
<1>1. CASE To(i, callback)
  BY <1>1, GoesOn DEF Callback, RunPc, Claimed
<1>2. CASE To(i, "catch")
  <2>1. run[i] \in RunRow
    BY Fields DEF JobInv
  <2>2. ~Claimed([run[i] EXCEPT !.pc = "catch"])
    BY <2>1 DEF Claimed, RunRow
  <2>. QED
    BY <1>2, <2>2, GoesOn DEF RunPc, Claimed
<1>. QED
  BY <1>1, <1>2 DEF Throws

LEMMA ToOn ==
  ASSUME JobInv, NEW i \in Instance, Claimed(run[i]), NEW pc \in RunPc \ {"load"}, To(i, pc)
  PROVE  Onward(i) /\ run'[i].pc = pc /\ run'[i].attempt = run[i].attempt
  BY GoesOn DEF Claimed

LEMMA StageStep ==
  ASSUME JobInv, NEW i \in Instance, Stage(i)
  PROVE  JobInv'
<1>1. Claimed(run[i]) /\ run[i].pc = "stage"
  BY DEF Stage, At, Claimed
<1>2. ~(Active(i) /\ page.state = "published")
  BY DEF JobInv, PageAt, Active
<1>3. PICK pc \in {"catch", "insert", "attach", "fence"} :
        /\ To(i, pc)
        /\ pc = "attach" => page.state # "none" /\ page.epoch = run[i].attempt
  BY <1>2 DEF Stage
<1>4. Onward(i) /\ run'[i].pc = pc /\ run'[i].attempt = run[i].attempt
  BY <1>1, <1>3, ToOn DEF RunPc, Callback
<1>5. UNCHANGED <<job, staging, starter, cleaner, mishaps>>
  BY <1>2 DEF Stage
<1>6. StagedSoFar(i)'
  <2>1. page.state \in {"none", "staged", "published"} /\ page \in PageRow
    BY Fields DEF JobInv, Typed, Staging
  <2>2. Active(i) /\ pc = "attach" => page = [state |-> "staged", epoch |-> run[i].attempt]
    BY <1>2, <1>3, <2>1 DEF PageRow
  <2>. QED
    BY <1>4, <1>5, <2>2 DEF StagedSoFar, Active, Claimed, staging
<1>. QED
  BY <1>1, <1>4, <1>5, <1>6, StagingStep DEF JobInv, Typed, Staging, PageAt, staging

LEMMA FenceStep ==
  ASSUME JobInv, NEW i \in Instance, Fence(i)
  PROVE  JobInv'
<1>1. Claimed(run[i]) /\ run[i].pc = "fence"
  BY DEF Fence, At, Claimed
<1>2. UNCHANGED <<job, room, att, objects, starter, cleaner, mishaps>>
  BY DEF Fence
<1>3. CASE page.state = "staged" /\ Active(i)
  <2>1. page' = [page EXCEPT !.epoch = run[i].attempt] /\ To(i, "attach")
    BY <1>3 DEF Fence
  <2>2. Onward(i) /\ run'[i].pc = "attach" /\ run'[i].attempt = run[i].attempt
    BY <1>1, <2>1, ToOn DEF RunPc, Callback
  <2>3. page \in PageRow /\ run[i].attempt \in 0 .. MaxAttempts
    BY Fields DEF JobInv, Typed, Staging
  <2>4. page' = [state |-> "staged", epoch |-> run[i].attempt] /\ page' \in PageRow
    BY <1>3, <2>1, <2>3 DEF PageRow
  <2>5. PageAt'
    BY <1>1, <1>2, <1>3, <2>4, ClaimedFacts DEF JobInv, PageAt
  <2>6. StagedSoFar(i)'
    BY <2>2, <2>4 DEF StagedSoFar
  <2>. QED
    BY <1>1, <1>2, <1>3, <2>2, <2>4, <2>5, <2>6, StagingStep, ClaimedFacts DEF JobInv, Typed, Staging
<1>4. CASE ~(page.state = "staged" /\ Active(i))
  <2>1. page' = page /\ Throws(i, "stage")
    BY <1>4 DEF Fence
  <2>2. Onward(i) /\ run'[i].pc \in {"stage", "catch"}
    BY <1>1, <2>1, ThrowsOn DEF Callback
  <2>3. StagedSoFar(i)'
    BY <2>2 DEF StagedSoFar, Claimed
  <2>. QED
    BY <1>1, <1>2, <2>1, <2>2, <2>3, StagingStep DEF JobInv, Typed, Staging, PageAt, staging
<1>. QED
  BY <1>3, <1>4

\* A callback that throws and has staged nothing.
LEMMA ThrowsStep ==
  ASSUME JobInv, NEW i \in Instance, Claimed(run[i]), NEW callback \in Callback \ {"load", "publish"},
         Throws(i, callback), UNCHANGED <<job, staging, starter, cleaner>>, mishaps' = mishaps \/ Mishap,
         callback = "initialize" => run[i].pc \in {"drop", "initialize", "fill", "publish"},
         callback = "attach" => run[i].pc \notin {"stage", "fence", "insert"}
  PROVE  JobInv'
<1>1. Onward(i) /\ run'[i].pc \in {callback, "catch"} /\ run'[i].attempt = run[i].attempt
  BY ThrowsOn
<1>2. StagedSoFar(i)'
  BY <1>1 DEF JobInv, StagedSoFar, Active, Claimed, staging, Callback
<1>. QED
  BY <1>1, <1>2, StagingStep, ClaimedFacts DEF JobInv, Typed, Staging, PageAt, staging

\* An instance that goes on without having staged anything.
LEMMA ToStep ==
  ASSUME JobInv, NEW i \in Instance, Claimed(run[i]), NEW pc \in RunPc \ {"load"},
         To(i, pc), UNCHANGED <<job, staging, starter, cleaner, mishaps>>,
         Active(i) /\ pc # "catch" => StagedSoFar(i)'
  PROVE  JobInv'
<1>1. Onward(i) /\ run'[i].pc = pc /\ run'[i].attempt = run[i].attempt
  BY ToOn
<1>2. StagedSoFar(i)'
  BY <1>1 DEF StagedSoFar, Active, Claimed
<1>. QED
  BY <1>1, <1>2, StagingStep, ClaimedFacts DEF JobInv, Typed, Staging, PageAt, staging

LEMMA InsertStep ==
  ASSUME JobInv, NEW i \in Instance, Insert(i)
  PROVE  JobInv'
<1>1. Claimed(run[i]) /\ run[i].pc = "insert"
  BY DEF Insert, At, Claimed
<1>2. UNCHANGED <<job, room, att, objects, starter, cleaner, mishaps>>
  BY DEF Insert
<1>3. CASE page.state = "none"
  <2>1. page' = [state |-> "staged", epoch |-> run[i].attempt] /\ To(i, "attach")
    BY <1>3 DEF Insert
  <2>2. Onward(i) /\ run'[i].pc = "attach" /\ run'[i].attempt = run[i].attempt
    BY <1>1, <2>1, ToOn DEF RunPc, Callback
  <2>3. page' \in PageRow
    BY <2>1, Fields DEF JobInv, PageRow
  <2>4. PageAt'
    BY <1>1, <1>2, <1>3, <2>1, ClaimedFacts DEF JobInv, PageAt
  <2>5. StagedSoFar(i)'
    BY <2>1, <2>2 DEF StagedSoFar
  <2>. QED
    BY <1>1, <1>2, <1>3, <2>2, <2>3, <2>4, <2>5, StagingStep, ClaimedFacts DEF JobInv, Typed, Staging, Keeps
<1>4. CASE page.state # "none"
  BY <1>1, <1>2, <1>4, ThrowsStep DEF Insert, Callback, staging
<1>. QED
  BY <1>3, <1>4

LEMMA AttachStep ==
  ASSUME JobInv, NEW i \in Instance, Attach(i)
  PROVE  JobInv'
<1>1. Claimed(run[i]) /\ run[i].pc = "attach"
  BY DEF Attach, At, Claimed
<1>2. UNCHANGED <<job, staging, starter, cleaner, mishaps>>
  BY DEF Attach
<1>3. CASE ~Active(i)
  BY <1>1, <1>2, <1>3, ToStep DEF Attach, RunPc
<1>4. CASE Active(i) /\ att = run[i].attempt
  <2>1. To(i, "initialize")
    BY <1>4 DEF Attach
  <2>2. run'[i].pc = "initialize" /\ run'[i].attempt = run[i].attempt
    BY <1>1, <2>1, ToOn DEF RunPc, Callback
  <2>3. StagedSoFar(i)'
    BY <1>1, <1>2, <1>4, <2>2 DEF JobInv, StagedSoFar, Active, Claimed, staging
  <2>. QED
    BY <1>1, <1>2, <2>1, <2>3, ToStep DEF RunPc, Callback
<1>5. CASE Active(i) /\ att # run[i].attempt
  <2>1. run' = [run EXCEPT ![i].pc = "put", ![i].key = att]
    BY <1>5 DEF Attach
  <2>2. run \in [Instance -> RunRow] /\ run[i] \in RunRow /\ att \in 0 .. MaxAttempts
    BY Fields DEF JobInv, Typed
  <2>3. /\ run' \in [Instance -> RunRow] /\ \A j \in Instance \ {i} : run'[j] = run[j]
        /\ run'[i].pc = "put" /\ run'[i].status = run[i].status /\ run'[i].attempt = run[i].attempt
        /\ run'[i].key = att
    BY <2>1, <2>2 DEF RunRow, RunPc
  <2>4. att < run[i].attempt
    <3>1. att <= job.attempt /\ att \in Nat
      BY <2>2, Numbers DEF JobInv, PageAt
    <3>. QED
      BY <1>1, <1>5, <3>1, ClaimedFacts
  <2>5. run[i].status # "none"
    BY <1>1 DEF JobInv, RunAt, NoRun
  <2>6. Onward(i)
    BY <1>1, <2>3, <2>4, <2>5 DEF Onward, Claimed
  <2>7. StagedSoFar(i)'
    BY <1>1, <1>2, <2>3 DEF JobInv, StagedSoFar, Active, Claimed, staging
  <2>. QED
    BY <1>1, <1>2, <2>6, <2>7, StagingStep DEF JobInv, Typed, Staging, PageAt, staging
<1>. QED
  BY <1>3, <1>4, <1>5

LEMMA PutStep ==
  ASSUME JobInv, NEW i \in Instance, Put(i)
  PROVE  JobInv'
<1>1. Claimed(run[i]) /\ run[i].pc = "put"
  BY DEF Put, At, Claimed
<1>2. UNCHANGED <<job, page, room, att, starter, cleaner, mishaps>> /\ objects' = objects \cup {run[i].attempt}
  BY DEF Put
<1>3. PICK pc \in {"row", "move"} : To(i, pc)
  BY DEF Put
<1>4. Onward(i) /\ run'[i].pc = pc /\ run'[i].attempt = run[i].attempt
  BY <1>1, <1>3, ToOn DEF RunPc, Callback
<1>5. Staging' /\ PageAt' /\ Keeps(job.attempt)
  BY <1>1, <1>2, ClaimedFacts DEF JobInv, Typed, Staging, PageAt, Keeps
<1>6. StagedSoFar(i)'
  BY <1>1, <1>2, <1>4 DEF JobInv, StagedSoFar, Active, Claimed
<1>. QED
  BY <1>1, <1>2, <1>4, <1>5, <1>6, StagingStep

LEMMA AddRowStep ==
  ASSUME JobInv, NEW i \in Instance, AddRow(i)
  PROVE  JobInv'
<1>1. Claimed(run[i]) /\ run[i].pc = "row"
  BY DEF AddRow, At, Claimed
<1>2. UNCHANGED <<job, page, room, objects, starter, cleaner, mishaps>>
  BY DEF AddRow
<1>3. CASE att = 0 /\ page.state # "none"
  <2>1. att' = run[i].attempt /\ To(i, "initialize")
    BY <1>3 DEF AddRow
  <2>2. Onward(i) /\ run'[i].pc = "initialize" /\ run'[i].attempt = run[i].attempt
    BY <1>1, <2>1, ToOn DEF RunPc, Callback
  <2>3. Staging'
    BY <1>2, <2>1, Fields DEF JobInv, Typed, Staging
  <2>4. PageAt'
    <3>1. StagedSoFar(i) /\ PageAt /\ (run[i].attempt = job.attempt => job.status \notin {"queued", "succeeded"})
      BY <1>1 DEF JobInv, RunAt
    <3>2. job.status # "succeeded"
      BY <1>1, <1>3, <3>1, ClaimedFacts DEF PageAt
    <3>. QED
      BY <1>1, <1>2, <2>1, <3>1, <3>2, ClaimedFacts DEF PageAt, StagedSoFar, Active
  <2>5. StagedSoFar(i)'
    BY <1>1, <1>2, <2>1, <2>2 DEF JobInv, StagedSoFar, Active, Claimed
  <2>6. Keeps(job.attempt)
    BY <1>1, <1>2, <1>3, ClaimedFacts DEF Keeps
  <2>. QED
    BY <1>1, <1>2, <2>2, <2>3, <2>4, <2>5, <2>6, StagingStep
<1>4. CASE ~(att = 0 /\ page.state # "none")
  BY <1>1, <1>2, <1>4, ThrowsStep DEF AddRow, Callback, staging
<1>. QED
  BY <1>3, <1>4

LEMMA MoveStep ==
  ASSUME JobInv, NEW i \in Instance, Move(i)
  PROVE  JobInv'
<1>1. Claimed(run[i]) /\ run[i].pc = "move"
  BY DEF Move, At, Claimed
<1>2. UNCHANGED <<job, page, room, starter, cleaner, mishaps>>
  BY DEF Move
<1>3. CASE Moves(i)
  <2>1. att' = run[i].attempt /\ To(i, "drop") /\ objects' = objects
    BY <1>3 DEF Move
  <2>2. Onward(i) /\ run'[i].pc = "drop" /\ run'[i].attempt = run[i].attempt
    BY <1>1, <2>1, ToOn DEF RunPc, Callback
  <2>3. Staging'
    BY <1>2, <2>1, Fields DEF JobInv, Typed, Staging
  <2>4. PageAt' /\ StagedSoFar(i)'
    BY <1>1, <1>2, <1>3, <2>1, <2>2, ClaimedFacts DEF JobInv, PageAt, StagedSoFar, Active, Moves, Claimed
  <2>5. ~(run[i].attempt < job.attempt)
    BY <1>1, <1>3, ClaimedFacts DEF Moves
  <2>. QED
    BY <1>1, <1>2, <2>2, <2>3, <2>4, <2>5, StagingStep
<1>4. CASE ~Moves(i) /\ att = run[i].attempt
  <2>1. To(i, "initialize") /\ UNCHANGED staging
    BY <1>2, <1>4 DEF Move, staging
  <2>2. run'[i].pc = "initialize" /\ run'[i].attempt = run[i].attempt
    BY <1>1, <2>1, ToOn DEF RunPc, Callback
  <2>3. StagedSoFar(i)'
    BY <1>1, <1>2, <1>4, <2>1, <2>2 DEF JobInv, StagedSoFar, Active, Claimed, staging
  <2>. QED
    BY <1>1, <1>2, <2>1, <2>3, ToStep DEF RunPc, Callback
<1>5. CASE ~Moves(i) /\ att # run[i].attempt
  <2>1. att' = att /\ objects' = objects \ {run[i].attempt} /\ Throws(i, "attach")
    BY <1>5 DEF Move
  <2>2. Onward(i) /\ run'[i].pc \in {"attach", "catch"} /\ run'[i].attempt = run[i].attempt
    BY <1>1, <2>1, ThrowsOn DEF Callback
  <2>3. Staging' /\ PageAt'
    BY <1>2, <1>5, <2>1, Fields DEF JobInv, Typed, Staging, PageAt
  <2>4. StagedSoFar(i)'
    BY <1>1, <1>2, <2>1, <2>2 DEF JobInv, StagedSoFar, Active, Claimed
  <2>5. run[i].attempt < job.attempt => Keeps(job.attempt)
    BY <1>1, <1>2, <2>1, ClaimedFacts DEF Keeps
  <2>. QED
    BY <1>1, <1>2, <2>2, <2>3, <2>4, <2>5, StagingStep
<1>. QED
  BY <1>3, <1>4, <1>5

LEMMA DropStep ==
  ASSUME JobInv, NEW i \in Instance, Drop(i)
  PROVE  JobInv'
<1>1. Claimed(run[i]) /\ run[i].pc = "drop"
  BY DEF Drop, At, Claimed
<1>2. UNCHANGED <<job, page, room, att, starter, cleaner, mishaps>> /\ objects' = objects \ {run[i].key}
  BY DEF Drop
<1>3. Onward(i) /\ run'[i].pc = "initialize" /\ run'[i].attempt = run[i].attempt
  BY <1>1, ToOn DEF Drop, RunPc, Callback
<1>4. run[i].key # job.attempt
  BY <1>1, ClaimedFacts
<1>5. Staging' /\ PageAt'
  BY <1>2, <1>4, Fields DEF JobInv, Typed, Staging, PageAt
<1>6. StagedSoFar(i)'
  BY <1>1, <1>2, <1>3 DEF JobInv, StagedSoFar, Active, Claimed
<1>7. Keeps(job.attempt)
  BY <1>2, <1>4 DEF Keeps
<1>. QED
  BY <1>1, <1>2, <1>3, <1>5, <1>6, <1>7, StagingStep

LEMMA InitializeStep ==
  ASSUME JobInv, NEW i \in Instance, Initialize(i)
  PROVE  JobInv'
<1>1. Claimed(run[i]) /\ run[i].pc = "initialize"
  BY DEF Initialize, At, Claimed
<1>2. UNCHANGED <<job, staging, starter, cleaner, mishaps>>
  BY DEF Initialize
<1>3. CASE ~Active(i)
  BY <1>1, <1>2, <1>3, ToStep DEF Initialize, RunPc
<1>4. CASE Active(i) /\ Throws(i, "initialize")
  BY <1>1, <1>2, <1>4, ThrowsStep DEF Callback
<1>5. ASSUME Active(i), NEW pc \in {"fill", "publish"}, To(i, pc),
             pc = "publish" => room[run[i].attempt] = "filled"
      PROVE  JobInv'
  <2>1. run'[i].pc = pc /\ run'[i].attempt = run[i].attempt
    BY <1>1, <1>5, ToOn DEF RunPc, Callback
  <2>2. StagedSoFar(i)'
    BY <1>1, <1>2, <1>5, <2>1 DEF JobInv, StagedSoFar, Active, Claimed, staging
  <2>. QED
    BY <1>1, <1>2, <1>5, <2>2, ToStep DEF RunPc, Callback
<1>. QED
  BY <1>3, <1>4, <1>5 DEF Initialize

LEMMA FillStep ==
  ASSUME JobInv, NEW i \in Instance, Fill(i) \/ FillFails(i)
  PROVE  JobInv'
<1>1. Claimed(run[i]) /\ run[i].pc = "fill"
  BY DEF Fill, FillFails, At, Claimed
<1>2. UNCHANGED <<job, page, att, objects, starter, cleaner>> /\ (mishaps' = mishaps \/ Mishap)
  BY DEF Fill, FillFails
<1>3. CASE room' = room /\ Throws(i, "initialize")
  BY <1>1, <1>2, <1>3, ThrowsStep DEF Callback, staging
<1>4. ASSUME NEW state \in {"filled", "started"}, room' = [room EXCEPT ![run[i].attempt] = state],
             IF state = "filled" THEN To(i, "publish") ELSE Throws(i, "initialize")
      PROVE  JobInv'
  <2>1. run[i].attempt \in Attempt /\ room \in [Attempt -> {"empty", "started", "filled", "purged"}]
    BY <1>1, ClaimedFacts DEF JobInv, Typed, Staging
  <2>2. Staging' /\ room'[run[i].attempt] = state /\ \A a \in Attempt : a # run[i].attempt => room'[a] = room[a]
    BY <1>2, <1>4, <2>1 DEF JobInv, Typed, Staging
  <2>3. /\ Onward(i) /\ run'[i].attempt = run[i].attempt
        /\ run'[i].pc \in {"publish", "initialize", "catch"}
        /\ run'[i].pc = "publish" => state = "filled"
    <3>1. CASE To(i, "publish") /\ state = "filled"
      BY <1>1, <3>1, ToOn DEF RunPc, Callback
    <3>2. CASE Throws(i, "initialize")
      BY <1>1, <3>2, ThrowsOn DEF Callback
    <3>. QED
      BY <1>4, <3>1, <3>2
  <2>4. StagedSoFar(i)'
    BY <1>1, <1>2, <2>2, <2>3 DEF JobInv, StagedSoFar, Active, Claimed
  <2>5. job.attempt \in Attempt
    BY Fields DEF JobInv
  <2>6. PageAt'
    <3>1. job.status = "succeeded" => run[i].attempt # job.attempt
      BY <1>1 DEF JobInv, RunAt
    <3>. QED
      BY <1>2, <2>2, <2>5, <3>1 DEF JobInv, PageAt
  <2>7. run[i].attempt < job.attempt => Keeps(job.attempt)
    BY <1>1, <1>2, <2>2, <2>5, ClaimedFacts DEF Keeps
  <2>. QED
    BY <1>1, <1>2, <2>2, <2>3, <2>4, <2>6, <2>7, StagingStep
<1>. QED
  BY <1>3, <1>4 DEF Fill, FillFails

LEMMA AlarmStep ==
  ASSUME JobInv, NEW a \in Attempt, Alarm(a)
  PROVE  JobInv'
<1>1. UNCHANGED <<job, run, page, att, objects, starter, cleaner, mishaps>> /\ room' = [room EXCEPT ![a] = "filled"]
  BY DEF Alarm
<1>2. Staging' /\ \A b \in Attempt : room[b] = "filled" => room'[b] = "filled"
  BY <1>1 DEF JobInv, Typed, Staging
<1>3. Typed'
  BY <1>1, <1>2 DEF JobInv, Typed, Invocations
<1>4. job.attempt \in Attempt
  BY Fields DEF JobInv
<1>5. PageAt'
  BY <1>1, <1>2, <1>4 DEF JobInv, PageAt
<1>6. ASSUME NEW i \in Instance
      PROVE  StagedSoFar(i)' /\ RunAt(i)'
  BY <1>1, <1>2, <1>4 DEF JobInv, StagedSoFar, Active, RunAt
<1>7. JobAt' /\ IdsLeft' /\ (\A s \in Starter : StarterAt(s))' /\ (\A k \in Cleaner : CleanerAt(k))'
  BY <1>1 DEF JobInv, JobAt, IdsLeft, Spoilt, StarterAt, CleanerAt
<1>. QED
  BY <1>3, <1>5, <1>6, <1>7 DEF JobInv

\* An instance that ends, or gives up, and has no say in the row.
LEMMA StopsStep ==
  ASSUME JobInv, NEW i \in Instance, run[i].pc # "off", Onward(i), ~Claimed(run'[i]),
         UNCHANGED <<job, staging, starter, cleaner>>,
         \/ /\ mishaps' = mishaps
            /\ run[i].pc # "load" \/ run[i].status = "terminated" \/ ~(i = job.instance /\ job.status = "queued")
         \/ Mishap
  PROVE  JobInv'
<1>1. StagedSoFar(i)'
  BY DEF StagedSoFar, Claimed
<1>. QED
  BY <1>1, StagingStep DEF JobInv, Typed, Staging, PageAt, staging

LEMMA PublishStep ==
  ASSUME JobInv, NEW i \in Instance, Publish(i)
  PROVE  JobInv'
<1>1. Claimed(run[i]) /\ run[i].pc = "publish"
  BY DEF Publish, At, Claimed
<1>2. UNCHANGED <<room, att, objects, starter, cleaner, mishaps>>
  BY DEF Publish
<1>3. CASE Active(i)
  <2>1. /\ page = [state |-> "staged", epoch |-> run[i].attempt] /\ att = run[i].attempt
        /\ room[run[i].attempt] = "filled"
    BY <1>1, <1>3 DEF JobInv, StagedSoFar
  <2>2. run[i].attempt = job.attempt /\ job.status = "running" /\ i = job.instance
    BY <1>1, <1>3, ClaimedFacts
  <2>3. page' = [page EXCEPT !.state = "published"] /\ job' = [job EXCEPT !.status = "succeeded"]
    BY <1>3, <2>1 DEF Publish, Publishes
  <2>4. job \in JobRow /\ page \in PageRow /\ run[i].attempt \in 0 .. MaxAttempts
    BY Fields DEF JobInv, Typed, Staging
  <2>5. /\ page' = [state |-> "published", epoch |-> job.attempt] /\ page' \in PageRow
    BY <2>1, <2>2, <2>3, <2>4 DEF PageRow
  <2>6. /\ job' \in JobRow /\ job'.status = "succeeded" /\ job'.attempt = job.attempt
        /\ job'.instance = job.instance /\ job'.target = job.target /\ job'.token = job.token
    BY <2>3, <2>4 DEF JobRow, JobStatus
  <2>7. Onward(i) /\ run'[i].pc = "off"
    BY <2>5, Ends DEF Publish
  <2>8. Typed'
    BY <1>2, <2>5, <2>6, <2>7 DEF JobInv, Typed, Staging, Invocations, Onward
  <2>9. JobAt' /\ IdsLeft' /\ (\A s \in Starter : StarterAt(s))' /\ (\A k \in Cleaner : CleanerAt(k))'
    BY <1>2, <2>2, <2>6 DEF JobInv, JobAt, IdsLeft, Spoilt, StarterAt, CleanerAt
  <2>10. PageAt'
    BY <1>1, <1>2, <2>1, <2>2, <2>5, <2>6, ClaimedFacts DEF JobInv, PageAt
  <2>11. ASSUME NEW j \in Instance
         PROVE  RunAt(j)' /\ StagedSoFar(j)'
    <3>1. StagedSoFar(j)'
      BY <2>6 DEF StagedSoFar, Active
    <3>2. CASE j = i
      BY <1>1, <2>6, <2>7, <3>1, <3>2 DEF JobInv, RunAt, NoRun, Onward, Claimed
    <3>3. CASE j # i
      <4>1. run'[j] = run[j] /\ RunAt(j)
        BY <2>7, <3>3 DEF Onward, JobInv
      <4>2. ~(Claimed(run[j]) /\ run[j].attempt = job.attempt)
        BY <2>2, <3>3, <4>1 DEF RunAt
      <4>. QED
        BY <2>6, <3>1, <4>1, <4>2 DEF RunAt
    <3>. QED
      BY <3>2, <3>3
  <2>. QED
    BY <2>8, <2>9, <2>10, <2>11 DEF JobInv
<1>4. CASE ~Active(i)
  <2>1. page' = page /\ job' = job
    BY <1>4 DEF Publish, Publishes
  <2>2. CASE page.state = "published"
    <3>1. Onward(i) /\ run'[i].pc = "off"
      BY <2>1, <2>2, Ends DEF Publish
    <3>. QED
      BY <1>1, <1>2, <2>1, <3>1, StopsStep DEF Claimed, staging
  <2>3. CASE page.state # "published"
    <3>1. To(i, "catch")
      BY <1>4, <2>1, <2>3 DEF Publish
    <3>. QED
      BY <1>1, <1>2, <1>4, <2>1, <3>1, ToStep DEF RunPc, staging
  <2>. QED
    BY <2>2, <2>3
<1>. QED
  BY <1>3, <1>4

LEMMA FailedGivesUp ==
  ASSUME JobInv, job.status = "running", job' = Failed,
         run' = run \/ \E i \in Instance : run[i].pc # "off" /\ Onward(i) /\ run'[i].pc = "off",
         UNCHANGED <<staging, starter, cleaner, mishaps>>
  PROVE  JobInv'
<1>1. job.target = "none" /\ job \in JobRow
  BY DEF JobInv, JobAt, Typed
<1>2. job' = [job EXCEPT !.status = "failed", !.target = "failed"]
  BY <1>1 DEF Failed, JobRow
<1>. QED
  BY <1>2, GivenUp

LEMMA CatchStep ==
  ASSUME JobInv, NEW i \in Instance, Catch(i)
  PROVE  JobInv'
<1>1. run[i].pc = "catch" /\ UNCHANGED <<staging, starter, cleaner, mishaps>>
  BY DEF Catch, At
<1>2. Onward(i) /\ run'[i].pc = "off"
  BY Ends DEF Catch
<1>3. CASE job' = job
  BY <1>1, <1>2, <1>3, StopsStep DEF Claimed
<1>4. CASE job' = Failed /\ job.status = "running"
  BY <1>1, <1>2, <1>4, FailedGivesUp
<1>. QED
  BY <1>3, <1>4 DEF Catch

LEMMA HaltStep ==
  ASSUME JobInv, NEW i \in Instance, Halt(i)
  PROVE  JobInv'
<1>1. Onward(i) /\ run'[i].pc = "off"
  BY Ends DEF Halt
<1>. QED
  BY <1>1, StopsStep DEF Halt, Claimed

LEMMA InterruptedStep ==
  ASSUME JobInv, NEW i \in Instance, Interrupted(i)
  PROVE  JobInv'
<1>1. run[i].pc # "off" /\ Mishap /\ UNCHANGED <<job, staging, starter, cleaner>>
  BY DEF Interrupted
<1>2. CASE End(i, "errored")
  BY <1>1, <1>2, Ends, StopsStep DEF Claimed
<1>3. CASE run[i].pc \in {"load", "catch"} /\ Throws(i, CallbackOf(run[i].pc))
  <2>1. PICK pc \in {"load", "catch"} : To(i, pc)
    BY <1>3 DEF Throws, CallbackOf
  <2>2. run[i] \in RunRow
    BY Fields DEF JobInv
  <2>3. ~Claimed([run[i] EXCEPT !.pc = pc])
    BY <2>2 DEF Claimed, RunRow
  <2>4. Onward(i) /\ run'[i].pc = pc
    BY <1>1, <2>1, <2>3, GoesOn DEF RunPc, Callback
  <2>. QED
    BY <1>1, <2>4, StopsStep DEF Claimed
<1>4. CASE Claimed(run[i]) /\ run[i].pc # "publish" /\ Throws(i, CallbackOf(run[i].pc))
  <2>1. /\ CallbackOf(run[i].pc) \in Callback \ {"load", "publish"}
        /\ CallbackOf(run[i].pc) = "initialize" => run[i].pc \in {"initialize", "fill"}
        /\ CallbackOf(run[i].pc) = "attach" => run[i].pc \notin {"stage", "fence", "insert"}
    <3>1. run[i].pc \in RunPc
      BY Fields DEF JobInv
    <3>. QED
      BY <1>4, <3>1 DEF CallbackOf, Callback, RunPc, Claimed
  <2>. QED
    BY <1>1, <1>4, <2>1, ThrowsStep
<1>5. CASE run[i].pc = "publish" /\ Throws(i, CallbackOf(run[i].pc))
  <2>1. Claimed(run[i]) /\ Throws(i, "publish")
    BY <1>5 DEF Claimed, CallbackOf
  <2>2. Onward(i) /\ run'[i].pc \in {"publish", "catch"} /\ run'[i].attempt = run[i].attempt
    BY <2>1, ThrowsOn DEF Callback
  <2>3. StagedSoFar(i)'
    BY <1>1, <1>5, <2>1, <2>2 DEF JobInv, StagedSoFar, Active, Claimed, staging
  <2>. QED
    BY <1>1, <2>1, <2>2, <2>3, StagingStep DEF JobInv, Typed, Staging, PageAt, staging
<1>. QED
  BY <1>1, <1>2, <1>3, <1>4, <1>5 DEF Interrupted, Claimed

LEMMA LoadStep ==
  ASSUME JobInv, NEW i \in Instance, Load(i)
  PROVE  JobInv'
<1>1. run[i].pc = "load" /\ run[i].status = "active" /\ UNCHANGED <<staging, starter, cleaner, mishaps>>
  BY DEF Load, At, Callback
<1>2. job \in JobRow /\ RunAt(i) /\ JobAt /\ Typed
  BY DEF JobInv, Typed
<1>3. CASE ~(Current(i) /\ job.status \in {"queued", "running"})
  <2>1. job' = job /\ End(i, "complete")
    BY <1>3 DEF Load
  <2>2. Onward(i) /\ run'[i].pc = "off"
    BY <2>1, Ends
  <2>3. ~(i = job.instance /\ job.status = "queued")
    BY <1>1, <1>2, <1>3 DEF RunAt, JobAt, Current
  <2>. QED
    BY <1>1, <2>1, <2>2, <2>3, StopsStep DEF Claimed
<1>4. CASE Current(i) /\ job.status \in {"queued", "running"}
  <2>1. job' = [job EXCEPT !.status = "running"] /\ To(i, "stage")
    BY <1>4 DEF Load
  <2>2. /\ job' \in JobRow /\ job'.status = "running" /\ job'.attempt = job.attempt
        /\ job'.instance = job.instance /\ job'.target = job.target /\ job'.token = job.token
    BY <1>2, <2>1 DEF JobRow, JobStatus
  <2>3. /\ run' \in [Instance -> RunRow] /\ \A j \in Instance \ {i} : run'[j] = run[j]
        /\ run'[i].pc = "stage" /\ run'[i].status = run[i].status /\ run'[i].attempt = run[i].attempt
        /\ run'[i].key = 0
    BY <1>2, <2>1, ToFacts DEF RunPc, Callback
  <2>4. i = job.instance /\ run[i].attempt = job.attempt
    BY <1>4 DEF Current
  <2>5. Typed'
    BY <1>1, <2>2, <2>3 DEF JobInv, Typed, Staging, Invocations, staging
  <2>6. JobAt' /\ IdsLeft' /\ (\A s \in Starter : StarterAt(s))' /\ (\A k \in Cleaner : CleanerAt(k))'
    BY <1>1, <1>4, <2>2 DEF JobInv, JobAt, IdsLeft, Spoilt, StarterAt, CleanerAt
  <2>7. PageAt'
    <3>1. job.status = "queued" => att # job.attempt
      BY <1>2, Fields, RowNumbers, Numbers DEF JobInv, PageAt
    <3>. QED
      BY <1>1, <1>4, <2>2, <3>1 DEF JobInv, PageAt, staging
  <2>8. ASSUME NEW j \in Instance
        PROVE  RunAt(j)' /\ StagedSoFar(j)'
    <3>1. CASE j = i
      BY <1>1, <1>2, <2>2, <2>3, <2>4, <3>1, RowNumbers DEF RunAt, StagedSoFar, Active, Claimed
    <3>2. CASE j # i
      <4>1. run'[j] = run[j] /\ RunAt(j)
        BY <2>3, <3>2 DEF JobInv
      <4>2. ~(Claimed(run[j]) /\ run[j].attempt = job.attempt)
        BY <2>4, <3>2, <4>1 DEF RunAt
      <4>. QED
        BY <2>2, <4>1, <4>2 DEF RunAt, StagedSoFar, Active, Claimed
    <3>. QED
      BY <3>1, <3>2
  <2>. QED
    BY <2>5, <2>6, <2>7, <2>8 DEF JobInv
<1>. QED
  BY <1>3, <1>4

-----------------------------------------------------------------------------
(* Starting, the routes and recovery.                                      *)

\* The row gets the next id, in this attempt or in another one.
LEMMA NextInstance ==
  ASSUME JobInv, NEW attempt \in Attempt, NEW status \in JobStatus,
         job.instance < job.attempt + mishaps \/ (attempt = job.attempt + 1 /\ ~(job.attempt + 1 > MaxAttempts)),
         attempt \in {job.attempt, job.attempt + 1},
         job.target = "none", job.status \in {"queued", "failed", "canceled"}, status = "queued",
         attempt = job.attempt => job.status = "queued",
         job' = [job EXCEPT !.status = status, !.attempt = attempt, !.instance = Fresh],
         UNCHANGED <<run, staging, cleaner, mishaps>>,
         starter' \in [Starter -> StarterRow],
         \A s \in Starter : starter'[s] = starter[s] \/ starter'[s].pc = "idle"
              \/ (starter'[s].instance = Fresh /\ starter'[s].attempt = attempt)
  PROVE  JobInv' /\ job'.instance = job.instance + 1
<1>1. Typed /\ (\A i \in Instance : RunAt(i)) /\ JobAt /\ IdsLeft /\ PageAt
  BY DEF JobInv
<1>2. /\ job.instance \in Nat \ {0} /\ job.attempt \in Nat \ {0} /\ mishaps \in 0 .. MaxMishaps
      /\ MaxMishaps \in Nat /\ MaxAttempts \in Nat /\ job.attempt <= MaxAttempts /\ attempt \in 1 .. MaxAttempts
  <2>1. job.instance \in Instance /\ job.attempt \in Attempt
    BY <1>1, Fields
  <2>. QED
    BY <1>1, <2>1, Numbers DEF Typed, Invocations, Attempt
<1>3. job.instance + 1 <= attempt + mishaps
  BY <1>1, <1>2 DEF IdsLeft
<1>4. Fresh = job.instance + 1 /\ job.instance + 1 \in Instance
  <2>1. job.instance + 1 \in 1 .. (MaxAttempts + MaxMishaps)
    BY <1>2, <1>3
  <2>. QED
    BY <1>1, <2>1, FreshIsNext DEF Instance
<1>5. /\ job' \in JobRow /\ job'.status = "queued" /\ job'.attempt = attempt
      /\ job'.instance = job.instance + 1 /\ job'.target = "none" /\ job'.token = job.token
  BY <1>1, <1>4 DEF Typed, JobRow
<1>6. Typed'
  BY <1>1, <1>5 DEF Typed, Staging, Invocations, staging
<1>7. JobAt'
  BY <1>1, <1>5 DEF JobAt
<1>8. run[job.instance + 1].status = "none"
  BY <1>1, <1>2, <1>4 DEF RunAt
<1>9. IdsLeft'
  BY <1>3, <1>5, <1>8 DEF IdsLeft, Spoilt
<1>10. ASSUME NEW s \in Starter
       PROVE  StarterAt(s)'
  <2>1. StarterAt(s) /\ starter[s].instance \in Nat /\ starter[s].attempt \in Nat
    BY <1>1, Fields, Numbers DEF JobInv
  <2>2. CASE starter'[s] = starter[s]
    BY <1>2, <1>5, <2>1, <2>2 DEF StarterAt
  <2>3. CASE starter'[s].pc = "idle"
    BY <2>3 DEF StarterAt
  <2>4. CASE starter'[s].instance = Fresh /\ starter'[s].attempt = attempt
    BY <1>2, <1>4, <1>5, <2>4 DEF StarterAt
  <2>. QED
    BY <2>2, <2>3, <2>4
<1>11. ASSUME NEW i \in Instance
       PROVE  RunAt(i)' /\ StagedSoFar(i)'
  <2>1. StagedSoFar(i)'
    BY <1>5 DEF StagedSoFar, Active
  <2>2. RunAt(i) /\ i \in Nat /\ run[i].attempt \in Nat /\ run[i].key \in Nat
    BY <1>1, Fields, Numbers
  <2>3. i = job.instance + 1 => run[i].pc = "off"
    BY <1>2, <2>2 DEF RunAt, NoRun
  <2>4. ~(Claimed(run[i]) /\ run[i].attempt = attempt)
    BY <1>2, <2>2 DEF RunAt, Claimed
  <2>. QED
    BY <1>2, <1>5, <2>1, <2>2, <2>3, <2>4 DEF RunAt
<1>12. ASSUME NEW k \in Cleaner
       PROVE  CleanerAt(k)'
  <2>1. CleanerAt(k) /\ cleaner[k].attempt \in Nat /\ cleaner[k].instance \in Nat
    BY <1>1, Fields, Numbers DEF JobInv
  <2>. QED
    BY <1>2, <1>5, <2>1 DEF CleanerAt
<1>13. PageAt'
  <2>1. page.epoch \in Nat /\ att \in Nat
    BY <1>1, Fields, Numbers
  <2>. QED
    BY <1>1, <1>2, <1>5, <2>1 DEF PageAt, staging
<1>. QED
  BY <1>5, <1>6, <1>7, <1>9, <1>10, <1>11, <1>12, <1>13 DEF JobInv

LEMMA RetryStep ==
  ASSUME JobInv, RetryJob
  PROVE  JobInv'
<1>1. job.attempt \in Nat \ {0} /\ job.attempt < MaxAttempts /\ MaxAttempts \in Nat
  BY RowNumbers, Numbers DEF JobInv, RetryJob
<1>2. job.attempt + 1 \in Attempt /\ ~(job.attempt + 1 > MaxAttempts)
  BY <1>1 DEF Attempt
<1>3. job' = [job EXCEPT !.status = "queued", !.attempt = job.attempt + 1, !.instance = Fresh]
  BY DEF RetryJob
<1>4. job.attempt + 1 # job.attempt
  BY <1>1
<1>. QED
  BY <1>2, <1>3, <1>4, NextInstance DEF RetryJob, Retryable, JobStatus, JobInv, Typed, Invocations

\* Steps of a starter that leave the row and the instances.
LEMMA StarterStep ==
  ASSUME JobInv, UNCHANGED <<job, run, staging, cleaner>>, mishaps' = mishaps \/ Mishap,
         starter' \in [Starter -> StarterRow], \A s \in Starter : StarterAt(s)'
  PROVE  JobInv'
<1>1. Typed /\ mishaps' \in 0 .. MaxMishaps /\ mishaps <= mishaps'
  <2>1. mishaps \in 0 .. MaxMishaps /\ MaxMishaps \in Nat
    BY Numbers DEF JobInv, Typed, Invocations
  <2>. QED
    BY <2>1 DEF JobInv, Mishap
<1>2. Typed'
  BY <1>1 DEF Typed, Staging, Invocations, staging
<1>3. IdsLeft'
  BY <1>1, RowNumbers, Numbers DEF JobInv, IdsLeft, Spoilt, Mishap
<1>4. /\ JobAt' /\ PageAt' /\ (\A i \in Instance : RunAt(i) /\ StagedSoFar(i))'
      /\ (\A k \in Cleaner : CleanerAt(k))'
  BY DEF JobInv, JobAt, PageAt, RunAt, StagedSoFar, Active, CleanerAt, staging
<1>. QED
  BY <1>2, <1>3, <1>4 DEF JobInv

LEMMA StartStarts ==
  ASSUME JobInv, NEW s \in Starter, Start(s)
  PROVE  JobInv'
<1>1. /\ job.instance \in Instance /\ job.attempt \in Attempt /\ starter \in [Starter -> StarterRow]
      /\ job.instance \in Nat /\ job.attempt \in Nat
  BY Fields, RowNumbers DEF JobInv, Typed, Invocations
<1>2. starter' = [starter EXCEPT ![s] = [pc |-> "create", instance |-> job.instance,
                                         attempt |-> job.attempt, rotates |-> TRUE]]
  BY DEF Start
<1>3. starter' \in [Starter -> StarterRow]
  BY <1>1, <1>2 DEF StarterRow
<1>4. \A t \in Starter : StarterAt(t)'
  BY <1>1, <1>2 DEF JobInv, StarterAt, Start
<1>. QED
  BY <1>3, <1>4, StarterStep DEF Start

LEMMA IdleFacts ==
  ASSUME JobInv, NEW s \in Starter, Idle(s)
  PROVE  /\ starter' \in [Starter -> StarterRow]
         /\ \A t \in Starter : starter'[t] = starter[t] \/ starter'[t].pc = "idle"
  BY Numbers DEF JobInv, Typed, Invocations, Idle, NoStart, StarterRow

LEMMA CreateStep ==
  ASSUME JobInv, NEW s \in Starter, Create(s)
  PROVE  JobInv'
<1> DEFINE i == starter[s].instance
<1> DEFINE a == starter[s].attempt
<1>1. /\ run[i].status = "none" /\ starter[s].pc = "create"
      /\ run' = [run EXCEPT ![i] = [status |-> "active", pc |-> "load", attempt |-> a, key |-> 0]]
      /\ UNCHANGED <<job, staging, cleaner, mishaps>> /\ Idle(s)
  BY DEF Create
<1>2. /\ Typed /\ StarterAt(s) /\ i \in Instance /\ a \in Attempt /\ i \in Nat /\ a \in Nat \ {0}
      /\ job.attempt \in Nat /\ job.instance \in Nat /\ a \in 0 .. MaxAttempts /\ 0 \in 0 .. MaxAttempts
  <2>1. Typed /\ StarterAt(s)
    BY DEF JobInv
  <2>2. i \in Instance /\ a \in Attempt
    BY <2>1, Fields
  <2>3. i \in Nat /\ a \in Nat \ {0}
    BY <2>2, Numbers
  <2>4. a \in 0 .. MaxAttempts /\ 0 \in 0 .. MaxAttempts
    BY <2>2, Numbers DEF Attempt
  <2>5. job.attempt \in Nat /\ job.instance \in Nat
    BY <2>1, RowNumbers
  <2>. QED
    BY <2>1, <2>2, <2>3, <2>4, <2>5
<1> HIDE DEF i, a
<1>3. /\ run' \in [Instance -> RunRow] /\ \A j \in Instance \ {i} : run'[j] = run[j]
      /\ run'[i] = [status |-> "active", pc |-> "load", attempt |-> a, key |-> 0]
  BY <1>1, <1>2 DEF Typed, RunRow, RunPc, Callback
<1>4. i <= job.instance /\ a <= job.attempt /\ (i = job.instance => a = job.attempt)
  BY <1>1, <1>2 DEF StarterAt, i, a
<1>5. Typed' /\ JobAt' /\ PageAt' /\ (\A t \in Starter : StarterAt(t))' /\ (\A k \in Cleaner : CleanerAt(k))'
  BY <1>1, <1>2, <1>3, IdleFacts DEF JobInv, Typed, Staging, Invocations, JobAt, PageAt, StarterAt, CleanerAt, staging
<1>6. IdsLeft'
  <2>1. Spoilt' => Spoilt
    BY <1>1, <1>2, <1>3, Fields DEF Spoilt
  <2>. QED
    BY <1>1, <2>1 DEF JobInv, IdsLeft
<1>7. ASSUME NEW j \in Instance
      PROVE  RunAt(j)' /\ StagedSoFar(j)'
  <2>1. CASE j = i
    BY <1>1, <1>2, <1>3, <1>4, <2>1 DEF RunAt, StagedSoFar, Claimed
  <2>2. CASE j # i
    BY <1>1, <1>3, <2>2 DEF JobInv, RunAt, StagedSoFar, Active, Claimed, staging
  <2>. QED
    BY <2>1, <2>2
<1>. QED
  BY <1>5, <1>6, <1>7 DEF JobInv

LEMMA CreateFailsStep ==
  ASSUME JobInv, NEW s \in Starter, CreateFails(s)
  PROVE  JobInv'
<1>1. \A t \in Starter : StarterAt(t)'
  BY IdleFacts DEF JobInv, StarterAt, CreateFails
<1>. QED
  BY <1>1, IdleFacts, StarterStep DEF CreateFails

LEMMA CreateExistsStep ==
  ASSUME JobInv, NEW s \in Starter, CreateExists(s)
  PROVE  JobInv'
<1>1. CASE Ended(starter[s].instance) /\ starter[s].rotates /\ StillQueued(s)
  <2>1. /\ job' = [job EXCEPT !.instance = Fresh] /\ UNCHANGED <<run, staging, cleaner, mishaps>>
        /\ starter' = [starter EXCEPT ![s].instance = Fresh, ![s].rotates = FALSE]
    BY <1>1 DEF CreateExists
  <2>2. /\ job \in JobRow /\ job.status = "queued" /\ job.attempt = starter[s].attempt
        /\ job.instance = starter[s].instance /\ job.attempt \in Attempt /\ job.target = "none"
    BY <1>1, Fields DEF StillQueued, JobInv, Typed, JobAt
  <2>3. Spoilt
    BY <1>1, <2>2 DEF Spoilt, Ended
  <2>4. job.instance < job.attempt + mishaps
    BY <2>3 DEF JobInv, IdsLeft
  <2>5. job' = [job EXCEPT !.status = "queued", !.attempt = job.attempt, !.instance = Fresh]
    BY <2>1, <2>2 DEF JobRow
  <2>6. Fresh \in Instance
    <3>1. /\ job.instance \in Nat /\ mishaps \in 0 .. MaxMishaps /\ MaxMishaps \in Nat
          /\ job.attempt \in 1 .. MaxAttempts /\ MaxAttempts \in Nat
      BY <2>2, RowNumbers, Numbers DEF JobInv, Typed, Invocations, Attempt
    <3>2. job.instance + 1 \in 1 .. (MaxAttempts + MaxMishaps)
      BY <2>4, <3>1
    <3>. QED
      BY <3>2, FreshIsNext DEF Instance, JobInv
  <2>7. starter' \in [Starter -> StarterRow]
    BY <2>1, <2>6 DEF JobInv, Typed, Invocations, StarterRow
  <2>8. \A t \in Starter : starter'[t] = starter[t] \/ (starter'[t].instance = Fresh /\ starter'[t].attempt = job.attempt)
    <3>1. starter \in [Starter -> StarterRow] /\ starter[s] \in StarterRow
      BY Fields DEF JobInv, Typed, Invocations
    <3>. QED
      BY <2>1, <2>2, <3>1 DEF StarterRow
  <2>. QED
    BY <2>1, <2>2, <2>4, <2>5, <2>7, <2>8, NextInstance DEF JobStatus
<1>2. CASE ~(Ended(starter[s].instance) /\ starter[s].rotates /\ StillQueued(s))
  <2>1. Idle(s) /\ UNCHANGED <<job, run, staging, cleaner, mishaps>>
    BY <1>2 DEF CreateExists
  <2>2. \A t \in Starter : StarterAt(t)'
    BY <2>1, IdleFacts DEF JobInv, StarterAt
  <2>. QED
    BY <2>1, <2>2, IdleFacts, StarterStep
<1>. QED
  BY <1>1, <1>2

LEMMA CancelStep ==
  ASSUME JobInv, Cancel
  PROVE  JobInv'
  BY GivenUp DEF Cancel

LEMMA RecoverStep ==
  ASSUME JobInv, RecoverRunning
  PROVE  JobInv'
  BY FailedGivesUp DEF RecoverRunning

-----------------------------------------------------------------------------
(* The cleanup.                                                            *)

\* A step of cleaner k that leaves the attempt as it is.
Tidies(k) ==
  /\ job' \in JobRow /\ job'.attempt = job.attempt /\ job'.instance = job.instance
  /\ job'.status = job.status \/ (job.status \in Over /\ job'.status \in Over)
  /\ JobAt'
  /\ cleaner' \in [Cleaner -> CleanerRow] /\ \A l \in Cleaner \ {k} : cleaner'[l] = cleaner[l]
  /\ cleaner'[k].pc # "idle" =>
       /\ cleaner'[k].attempt = cleaner[k].attempt /\ cleaner'[k].instance = cleaner[k].instance
       /\ cleaner'[k].key <= cleaner[k].attempt
       /\ cleaner'[k].pc \in {"purge", "objects", "delete"} => cleaner'[k].staged \in 1 .. cleaner[k].attempt

\* What a cleaner that goes on, or stops, makes of the row and of its record.
LEMMA GoesFacts ==
  ASSUME JobInv, NEW k \in Cleaner, cleaner[k].pc # "idle", NEW pc \in CleanerPc, Goes(k, pc),
         pc \in {"purge", "objects", "delete"} => cleaner[k].pc \in {"purge", "objects", "delete"}
  PROVE  Tidies(k)
<1>1. /\ job \in JobRow /\ cleaner \in [Cleaner -> CleanerRow] /\ cleaner[k] \in CleanerRow
      /\ JobAt /\ CleanerAt(k)
  BY Fields DEF JobInv, Typed, Invocations
<1>2. CASE Owned(k)
  <2>1. job' = [job EXCEPT !.stale = FALSE] /\ cleaner' = [cleaner EXCEPT ![k].pc = pc]
    BY <1>2 DEF Goes
  <2>2. /\ job' \in JobRow /\ job'.attempt = job.attempt /\ job'.instance = job.instance
        /\ job'.status = job.status /\ job'.target = job.target /\ job'.token = job.token
    BY <1>1, <2>1 DEF JobRow
  <2>3. /\ cleaner' \in [Cleaner -> CleanerRow] /\ \A l \in Cleaner \ {k} : cleaner'[l] = cleaner[l]
        /\ cleaner'[k] = [cleaner[k] EXCEPT !.pc = pc]
    BY <1>1, <2>1 DEF CleanerRow
  <2>4. /\ cleaner'[k].pc = pc /\ cleaner'[k].attempt = cleaner[k].attempt /\ cleaner'[k].instance = cleaner[k].instance
        /\ cleaner'[k].key = cleaner[k].key /\ cleaner'[k].staged = cleaner[k].staged
    BY <1>1, <2>3 DEF CleanerRow
  <2>. QED
    BY <1>1, <2>2, <2>3, <2>4 DEF Tidies, JobAt, CleanerAt
<1>3. CASE ~Owned(k)
  <2>1. job' = job /\ cleaner' = [cleaner EXCEPT ![k] = NoCleanup]
    BY <1>3 DEF Goes
  <2>2. NoCleanup \in CleanerRow /\ NoCleanup.pc = "idle"
    BY Numbers DEF NoCleanup, CleanerRow, CleanerPc
  <2>. QED
    BY <1>1, <2>1, <2>2 DEF Tidies, JobAt
<1>. QED
  BY <1>2, <1>3

\* A cleaner that has the lease works at the attempt that the row has, and it is over.
LEMMA OwnedFacts ==
  ASSUME JobInv, NEW k \in Cleaner, cleaner[k].pc # "idle", Owned(k)
  PROVE  cleaner[k].attempt = job.attempt /\ job.status \in Over /\ job.target # "none" /\ job.token = k
  BY DEF JobInv, CleanerAt, Owned, Pending, Over

\* Such a step leaves everything as it should be that it does not take itself.
LEMMA CleanerStep ==
  ASSUME JobInv, NEW k \in Cleaner, cleaner[k].pc # "idle", Tidies(k),
         UNCHANGED starter, mishaps' = mishaps \/ Mishap,
         run' \in [Instance -> RunRow],
         \A i \in Instance : run'[i] = run[i] \/
           (/\ i = cleaner[k].instance /\ run[i].status # "none" /\ run'[i].status = "terminated"
            /\ run'[i].pc = run[i].pc /\ run'[i].attempt = run[i].attempt /\ run'[i].key = run[i].key),
         Staging', PageAt', job.status = "running" => Keeps(job.attempt)
  PROVE  JobInv'
<1>1. /\ Typed /\ (\A i \in Instance : RunAt(i) /\ StagedSoFar(i)) /\ IdsLeft
      /\ (\A l \in Cleaner : CleanerAt(l)) /\ (\A s \in Starter : StarterAt(s))
  BY DEF JobInv
<1>2. /\ job.instance \in Nat /\ job.attempt \in Nat /\ mishaps' \in 0 .. MaxMishaps /\ mishaps <= mishaps'
      /\ mishaps \in Nat /\ mishaps' \in Nat
  <2>1. mishaps \in 0 .. MaxMishaps /\ MaxMishaps \in Nat
    BY <1>1, Numbers DEF Typed, Invocations
  <2>2. mishaps' = mishaps \/ (mishaps < MaxMishaps /\ mishaps' = mishaps + 1)
    BY DEF Mishap
  <2>3. job.instance \in Nat /\ job.attempt \in Nat
    BY <1>1, RowNumbers
  <2>. QED
    BY <2>1, <2>2, <2>3
<1>3. Typed'
  BY <1>1, <1>2 DEF Typed, Invocations, Tidies
<1>4. IdsLeft'
  <2>1. Spoilt' => Spoilt
    <3>1. job.instance \in Instance /\ cleaner[k].instance \in Nat
      BY <1>1, Fields, Numbers
    <3>2. job'.status = "queued" => job.status = "queued"
      BY DEF Tidies, Over
    <3>3. job.status = "queued" => run'[job.instance] = run[job.instance]
      BY <1>1, <1>2, <3>1 DEF CleanerAt
    <3>. QED
      BY <3>2, <3>3 DEF Spoilt, Tidies
  <2>2. job'.attempt = job.attempt /\ job'.instance = job.instance
    BY DEF Tidies
  <2>. QED
    BY <1>1, <1>2, <2>1, <2>2 DEF IdsLeft
<1>5. \A s \in Starter : StarterAt(s)'
  BY <1>1 DEF StarterAt, Tidies
<1>6. ASSUME NEW i \in Instance
      PROVE  RunAt(i)' /\ StagedSoFar(i)'
  <2>1. RunAt(i) /\ StagedSoFar(i)
    BY <1>1
  <2>2. /\ run'[i].pc = run[i].pc /\ run'[i].attempt = run[i].attempt /\ run'[i].key = run[i].key
        /\ run'[i] = run[i] \/ (run[i].status # "none" /\ run'[i].status # "none")
    OBVIOUS
  <2>3. RunAt(i)'
    BY <2>1, <2>2 DEF RunAt, Tidies, Claimed, Over
  <2>4. Active(i)' => Active(i) /\ job.status = "running"
    BY <2>2 DEF Active, Tidies, Over
  <2>5. StagedSoFar(i)'
    BY <2>1, <2>2, <2>4 DEF StagedSoFar, Keeps, Active, Claimed
  <2>. QED
    BY <2>3, <2>5
<1>7. ASSUME NEW l \in Cleaner
      PROVE  CleanerAt(l)'
  <2>1. CleanerAt(l) /\ CleanerAt(k)
    BY <1>1
  <2>. QED
    BY <2>1 DEF CleanerAt, Tidies, Over
<1>. QED
  BY <1>3, <1>4, <1>5, <1>6, <1>7 DEF JobInv, Tidies

\* What a cleaner takes is of an attempt that is over.
LEMMA TakenIsOld ==
  ASSUME JobInv, NEW k \in Cleaner, cleaner[k].pc # "idle"
  PROVE  /\ job.attempt \in Nat /\ cleaner[k].attempt \in Nat /\ cleaner[k].key \in Nat
         /\ cleaner[k].key <= cleaner[k].attempt /\ cleaner[k].attempt <= job.attempt
         /\ job.status \in {"running", "succeeded", "queued"} => cleaner[k].attempt < job.attempt
         /\ cleaner[k].pc \in {"purge", "objects", "delete"} =>
              cleaner[k].staged \in 1 .. cleaner[k].attempt /\ cleaner[k].staged \in Attempt
<1>1. Typed /\ CleanerAt(k)
  BY DEF JobInv
<1>2. /\ job.attempt \in Nat /\ cleaner[k].attempt \in Nat /\ cleaner[k].key \in 0 .. MaxAttempts
      /\ cleaner[k].staged \in 0 .. MaxAttempts /\ MaxAttempts \in Nat
  BY <1>1, RowNumbers, Fields, Numbers
<1>. QED
  BY <1>1, <1>2 DEF CleanerAt, Attempt

LEMMA TerminateStep ==
  ASSUME JobInv, NEW k \in Cleaner, Terminate(k)
  PROVE  JobInv'
<1> DEFINE i == cleaner[k].instance
<1>1. /\ cleaner[k].pc = "terminate" /\ Goes(k, "read") /\ UNCHANGED <<staging, starter, mishaps>>
      /\ run' = IF run[i].status = "active" THEN [run EXCEPT ![i].status = "terminated"] ELSE run
  BY DEF Terminate
<1>2. Tidies(k)
  BY <1>1, GoesFacts DEF CleanerPc
<1>3. i \in Instance /\ run \in [Instance -> RunRow] /\ run[i] \in RunRow
  BY Fields DEF JobInv, Typed
<1>4. /\ run' \in [Instance -> RunRow]
      /\ \A j \in Instance : run'[j] = run[j] \/
           (/\ j = i /\ run[j].status # "none" /\ run'[j].status = "terminated"
            /\ run'[j].pc = run[j].pc /\ run'[j].attempt = run[j].attempt /\ run'[j].key = run[j].key)
  <2> HIDE DEF i
  <2>1. CASE run[i].status = "active"
    <3>1. run' = [run EXCEPT ![i].status = "terminated"]
      BY <1>1, <2>1 DEF i
    <3>. QED
      BY <1>3, <2>1, <3>1 DEF RunRow
  <2>2. CASE run[i].status # "active"
    BY <1>1, <1>3, <2>2 DEF i
  <2>. QED
    BY <2>1, <2>2
<1>5. PageAt'
  BY <1>1, <1>2 DEF JobInv, PageAt, Tidies, Over, staging
<1>. QED
  BY <1>1, <1>2, <1>4, <1>5, CleanerStep DEF JobInv, Typed, Staging, staging, Keeps

\* A step of a cleaner that takes nothing.
LEMMA QuietStep ==
  ASSUME JobInv, NEW k \in Cleaner, cleaner[k].pc # "idle", Tidies(k),
         UNCHANGED <<run, staging, starter>>, mishaps' = mishaps \/ Mishap
  PROVE  JobInv'
<1>1. PageAt'
  BY DEF JobInv, PageAt, Tidies, Over, staging
<1>. QED
  BY <1>1, CleanerStep DEF JobInv, Typed, Staging, staging, Keeps

LEMMA ClaimStep ==
  ASSUME JobInv, NEW k \in Cleaner, NEW terminates \in BOOLEAN, ClaimCleanup(k, terminates)
  PROVE  JobInv'
<1> DEFINE c == [pc |-> IF terminates THEN "terminate" ELSE "read", attempt |-> job.attempt,
                 instance |-> job.instance, staged |-> 0, key |-> 0]
<1>1. /\ job' = [job EXCEPT !.token = k, !.stale = FALSE] /\ cleaner' = [cleaner EXCEPT ![k] = c]
      /\ UNCHANGED <<run, staging, starter, mishaps>> /\ Pending
  BY DEF ClaimCleanup
<1>2. Typed /\ JobAt /\ job \in JobRow /\ cleaner \in [Cleaner -> CleanerRow]
  BY DEF JobInv, Typed, Invocations
<1>3. /\ job' \in JobRow /\ job'.attempt = job.attempt /\ job'.instance = job.instance
      /\ job'.status = job.status /\ job'.target = job.target
  BY <1>1, <1>2 DEF JobRow
<1>4. c \in CleanerRow
  BY <1>2, Fields, Numbers DEF CleanerRow, CleanerPc
<1>5. cleaner' \in [Cleaner -> CleanerRow] /\ cleaner'[k] = c /\ \A l \in Cleaner \ {k} : cleaner'[l] = cleaner[l]
  BY <1>1, <1>2, <1>4
<1>6. job.target # "none" /\ job.status \in Over
  BY <1>1, <1>2 DEF Pending, JobAt, Over
<1>7. JobAt'
  BY <1>2, <1>3, <1>6 DEF JobAt
<1>8. Typed' /\ IdsLeft' /\ PageAt' /\ (\A s \in Starter : StarterAt(s))'
      /\ (\A i \in Instance : RunAt(i) /\ StagedSoFar(i))'
  BY <1>1, <1>3, <1>5 DEF JobInv, Typed, Staging, Invocations, IdsLeft, Spoilt, PageAt, StarterAt, RunAt,
       StagedSoFar, Active, staging
<1>9. ASSUME NEW l \in Cleaner
      PROVE  CleanerAt(l)'
  <2>1. CASE l = k
    BY <1>2, <1>3, <1>5, <1>6, <2>1, RowNumbers DEF CleanerAt, Over
  <2>2. CASE l # k
    BY <1>3, <1>5, <2>2 DEF JobInv, CleanerAt
  <2>. QED
    BY <2>1, <2>2
<1>. QED
  BY <1>7, <1>8, <1>9 DEF JobInv

LEMMA StopFacts ==
  ASSUME JobInv, NEW k \in Cleaner, cleaner' = [cleaner EXCEPT ![k] = NoCleanup]
  PROVE  /\ cleaner' \in [Cleaner -> CleanerRow] /\ cleaner'[k].pc = "idle"
         /\ \A l \in Cleaner \ {k} : cleaner'[l] = cleaner[l]
<1>1. NoCleanup \in CleanerRow /\ NoCleanup.pc = "idle"
  BY Numbers DEF NoCleanup, CleanerRow, CleanerPc
<1>. QED
  BY <1>1 DEF JobInv, Typed, Invocations

LEMMA ReadStep ==
  ASSUME JobInv, NEW k \in Cleaner, Read(k)
  PROVE  JobInv'
<1>1. cleaner[k].pc = "read" /\ UNCHANGED <<run, staging, starter, mishaps>>
  BY DEF Read
<1>2. Typed /\ JobAt /\ PageAt /\ job \in JobRow /\ cleaner \in [Cleaner -> CleanerRow] /\ cleaner[k] \in CleanerRow
  BY Fields DEF JobInv, Typed, Invocations
<1>3. CASE ~Owned(k)
  BY <1>1, <1>2, <1>3, StopFacts, QuietStep DEF Read, Tidies, JobAt, Typed
<1>4. CASE Owned(k)
  <2>1. job' = [job EXCEPT !.stale = FALSE]
    BY <1>4 DEF Read
  <2>2. /\ job' \in JobRow /\ job'.attempt = job.attempt /\ job'.instance = job.instance
        /\ job'.status = job.status /\ job'.target = job.target /\ job'.token = job.token
    BY <1>2, <2>1 DEF JobRow
  <2>3. cleaner[k].attempt = job.attempt /\ job.attempt \in Nat /\ cleaner[k].key <= cleaner[k].attempt
    BY <1>1, <1>4, OwnedFacts, TakenIsOld
  <2>4. CASE StagedFor(k)
    <3>1. cleaner' = [cleaner EXCEPT ![k].pc = "purge", ![k].staged = page.epoch, ![k].key = att]
      BY <1>4, <2>4 DEF Read
    <3>2. page.epoch \in 0 .. MaxAttempts /\ att \in 0 .. MaxAttempts
      BY <1>2, Fields
    <3>3. /\ cleaner' \in [Cleaner -> CleanerRow] /\ \A l \in Cleaner \ {k} : cleaner'[l] = cleaner[l]
          /\ cleaner'[k].attempt = cleaner[k].attempt /\ cleaner'[k].instance = cleaner[k].instance
          /\ cleaner'[k].staged = page.epoch /\ cleaner'[k].key = att
      BY <1>2, <3>1, <3>2 DEF CleanerRow, CleanerPc
    <3>4. att <= cleaner[k].attempt /\ page.epoch \in 1 .. cleaner[k].attempt
      BY <1>2, <2>3, <2>4 DEF PageAt, StagedFor
    <3>5. Tidies(k)
      BY <1>2, <2>2, <3>3, <3>4 DEF Tidies, JobAt
    <3>. QED
      BY <1>1, <3>5, QuietStep
  <2>5. CASE ~StagedFor(k)
    <3>1. cleaner' = [cleaner EXCEPT ![k].pc = "finish"]
      BY <1>4, <2>5 DEF Read
    <3>2. /\ cleaner' \in [Cleaner -> CleanerRow] /\ \A l \in Cleaner \ {k} : cleaner'[l] = cleaner[l]
          /\ cleaner'[k].attempt = cleaner[k].attempt /\ cleaner'[k].instance = cleaner[k].instance
          /\ cleaner'[k].pc = "finish" /\ cleaner'[k].key = cleaner[k].key
      BY <1>2, <3>1 DEF CleanerRow, CleanerPc
    <3>3. Tidies(k)
      BY <1>2, <2>2, <2>3, <3>2 DEF Tidies, JobAt
    <3>. QED
      BY <1>1, <3>3, QuietStep
  <2>. QED
    BY <2>4, <2>5
<1>. QED
  BY <1>3, <1>4

LEMMA PurgeStep ==
  ASSUME JobInv, NEW k \in Cleaner, Purge(k)
  PROVE  JobInv'
<1>1. /\ cleaner[k].pc = "purge" /\ Goes(k, "objects") /\ UNCHANGED <<run, page, att, objects, starter, mishaps>>
      /\ room' = [room EXCEPT ![cleaner[k].staged] = "purged"]
  BY DEF Purge
<1>2. Tidies(k)
  BY <1>1, GoesFacts DEF CleanerPc
<1>3. /\ cleaner[k].staged \in Attempt /\ job.attempt \in Attempt
      /\ job.status \in {"running", "succeeded"} => cleaner[k].staged # job.attempt
  BY <1>1, TakenIsOld, Fields DEF JobInv
<1>4. Staging' /\ \A a \in Attempt : a # cleaner[k].staged => room'[a] = room[a]
  BY <1>1, <1>3 DEF JobInv, Typed, Staging
<1>5. PageAt'
  BY <1>1, <1>2, <1>3, <1>4 DEF JobInv, PageAt, Tidies, Over
<1>6. job.status = "running" => Keeps(job.attempt)
  BY <1>1, <1>3, <1>4 DEF Keeps
<1>. QED
  BY <1>1, <1>2, <1>4, <1>5, <1>6, CleanerStep DEF JobInv, Typed

\* The keys that a cleaner deletes are not those of an attempt that goes on or has succeeded.
LEMMA KeysAreOld ==
  ASSUME JobInv, NEW k \in Cleaner, cleaner[k].pc # "idle", job.status \in {"running", "succeeded"}
  PROVE  job.attempt \notin Keys(k)
  BY TakenIsOld DEF Keys

LEMMA DeleteObjectsStep ==
  ASSUME JobInv, NEW k \in Cleaner, DeleteObjects(k)
  PROVE  JobInv'
<1>1. /\ cleaner[k].pc = "objects" /\ Goes(k, "delete") /\ UNCHANGED <<run, page, room, att, starter, mishaps>>
      /\ objects' = objects \ Keys(k)
  BY DEF DeleteObjects
<1>2. Tidies(k)
  BY <1>1, GoesFacts DEF CleanerPc
<1>3. job.status \in {"running", "succeeded"} => job.attempt \notin Keys(k)
  BY <1>1, KeysAreOld
<1>4. Staging'
  BY <1>1 DEF JobInv, Typed, Staging
<1>5. PageAt'
  BY <1>1, <1>2, <1>3 DEF JobInv, PageAt, Tidies, Over
<1>6. job.status = "running" => Keeps(job.attempt)
  BY <1>1, <1>3 DEF Keeps
<1>. QED
  BY <1>1, <1>2, <1>4, <1>5, <1>6, CleanerStep DEF JobInv, Typed

LEMMA DeletePageStep ==
  ASSUME JobInv, NEW k \in Cleaner, DeletePage(k)
  PROVE  JobInv'
<1>1. /\ cleaner[k].pc = "delete" /\ Goes(k, "finish") /\ UNCHANGED <<run, room, objects, starter, mishaps>>
      /\ IF Deletes(k) THEN page' = NoPage /\ att' = 0 ELSE UNCHANGED <<page, att>>
  BY DEF DeletePage
<1>2. Tidies(k)
  BY <1>1, GoesFacts DEF CleanerPc
<1>3. CASE ~Deletes(k)
  BY <1>1, <1>2, <1>3, QuietStep DEF staging
<1>4. CASE Deletes(k)
  <2>1. page.state = "staged" /\ page.epoch = cleaner[k].staged /\ page' = NoPage /\ att' = 0
    BY <1>1, <1>4 DEF Deletes
  <2>2. Staging'
    BY <1>1, <2>1, Numbers DEF JobInv, Typed, Staging, NoPage, PageRow
  <2>3. job.attempt \in Nat \ {0} /\ (job.status = "running" => page.epoch < job.attempt)
    BY <1>1, <2>1, TakenIsOld, RowNumbers DEF JobInv
  <2>4. PageAt'
    BY <1>2, <2>1, <2>3 DEF JobInv, PageAt, Tidies, Over, NoPage
  <2>5. job.status = "running" => Keeps(job.attempt)
    BY <1>1, <2>1, <2>3 DEF Keeps
  <2>. QED
    BY <1>1, <1>2, <2>2, <2>4, <2>5, CleanerStep DEF JobInv, Typed
<1>. QED
  BY <1>3, <1>4

LEMMA FinishStep ==
  ASSUME JobInv, NEW k \in Cleaner, Finish(k)
  PROVE  JobInv'
<1>1. /\ cleaner[k].pc = "finish" /\ UNCHANGED <<run, staging, starter, mishaps>>
      /\ cleaner' = [cleaner EXCEPT ![k] = NoCleanup]
  BY DEF Finish
<1>2. Typed /\ JobAt /\ job \in JobRow
  BY DEF JobInv, Typed
<1>3. CASE Owned(k)
  <2>1. job.target \in {"failed", "canceled"} /\ job.status \in Over
    BY <1>1, <1>2, <1>3, OwnedFacts, Fields
  <2>2. job' = [job EXCEPT !.status = job.target, !.target = "none", !.token = Free, !.stale = FALSE]
    BY <1>3 DEF Finish
  <2>3. /\ job' \in JobRow /\ job'.attempt = job.attempt /\ job'.instance = job.instance
        /\ job'.status = job.target /\ job'.target = "none" /\ job'.token = Free
    BY <1>2, <2>1, <2>2 DEF JobRow, JobStatus
  <2>4. Tidies(k)
    BY <1>1, <2>1, <2>3, StopFacts DEF Tidies, JobAt, Over
  <2>. QED
    BY <1>1, <2>4, QuietStep
<1>4. CASE ~Owned(k)
  <2>1. job' = job
    BY <1>4 DEF Finish
  <2>2. Tidies(k)
    BY <1>1, <1>2, <2>1, StopFacts DEF Tidies, JobAt
  <2>. QED
    BY <1>1, <2>2, QuietStep
<1>. QED
  BY <1>3, <1>4

LEMMA CleanupFailsStep ==
  ASSUME JobInv, NEW k \in Cleaner, CleanupFails(k) \/ CleanerDies(k)
  PROVE  JobInv'
<1>1. /\ cleaner[k].pc # "idle" /\ UNCHANGED <<run, staging, starter>> /\ Mishap
      /\ cleaner' = [cleaner EXCEPT ![k] = NoCleanup]
  BY DEF CleanupFails, CleanerDies
<1>2. Typed /\ JobAt /\ job \in JobRow /\ CleanerAt(k) /\ k # Free
  BY Numbers DEF JobInv, Typed, Free
<1>3. CASE CleanupFails(k) /\ job.token = k /\ job.attempt = cleaner[k].attempt
  <2>1. job' = [job EXCEPT !.token = Free, !.stale = FALSE,
                           !.status = IF job.target = "canceled" THEN "canceling" ELSE "failed"]
    BY <1>3 DEF CleanupFails
  <2>2. job.target # "none" /\ job.status \in Over
    BY <1>1, <1>2, <1>3 DEF JobAt, CleanerAt, Over
  <2>3. /\ job' \in JobRow /\ job'.attempt = job.attempt /\ job'.instance = job.instance
        /\ job'.status \in {"canceling", "failed"} /\ job'.target = job.target /\ job'.token = Free
    BY <1>2, <2>1 DEF JobRow, JobStatus
  <2>4. Tidies(k)
    BY <1>1, <2>2, <2>3, StopFacts DEF Tidies, JobAt, Over
  <2>. QED
    BY <1>1, <2>4, QuietStep
<1>4. CASE job' = job
  <2>1. Tidies(k)
    BY <1>1, <1>2, <1>4, StopFacts DEF Tidies, JobAt
  <2>. QED
    BY <1>1, <2>1, QuietStep
<1>. QED
  BY <1>3, <1>4 DEF CleanupFails, CleanerDies

LEMMA LeaseStep ==
  ASSUME JobInv, LeaseRunsOut
  PROVE  JobInv'
<1>1. /\ job' = [job EXCEPT !.stale = TRUE] /\ UNCHANGED <<run, staging, starter, cleaner>>
      /\ mishaps' = mishaps \/ Mishap
  BY DEF LeaseRunsOut, Fine
<1>2. job \in JobRow
  BY DEF JobInv, Typed
<1>3. /\ job' \in JobRow /\ job'.attempt = job.attempt /\ job'.instance = job.instance
      /\ job'.status = job.status /\ job'.target = job.target /\ job'.token = job.token
  BY <1>1, <1>2 DEF JobRow
<1>4. mishaps' \in 0 .. MaxMishaps /\ mishaps <= mishaps' /\ mishaps \in Nat /\ mishaps' \in Nat
  <2>1. mishaps \in 0 .. MaxMishaps /\ MaxMishaps \in Nat
    BY Numbers DEF JobInv, Typed, Invocations
  <2>2. mishaps' = mishaps \/ (mishaps < MaxMishaps /\ mishaps' = mishaps + 1)
    BY <1>1 DEF Mishap
  <2>. QED
    BY <2>1, <2>2
<1>5. IdsLeft'
  <2>1. job.instance \in Nat /\ job.attempt \in Nat /\ IdsLeft
    BY RowNumbers DEF JobInv
  <2>. QED
    BY <1>1, <1>3, <1>4, <2>1 DEF IdsLeft, Spoilt
<1>6. /\ Typed' /\ JobAt' /\ PageAt' /\ (\A s \in Starter : StarterAt(s))'
      /\ (\A i \in Instance : RunAt(i) /\ StagedSoFar(i))' /\ (\A k \in Cleaner : CleanerAt(k))'
  BY <1>1, <1>3, <1>4 DEF JobInv, Typed, Staging, Invocations, JobAt, PageAt, StarterAt, RunAt,
       StagedSoFar, Active, CleanerAt, staging
<1>. QED
  BY <1>5, <1>6 DEF JobInv

-----------------------------------------------------------------------------
(* The theorems.                                                           *)

LEMMA InitHolds ==
  ASSUME Init
  PROVE  JobInv
<1>1. /\ job = [status |-> "queued", attempt |-> 1, instance |-> 1, target |-> "none",
               token |-> Free, stale |-> FALSE]
      /\ \A i \in Instance : run[i] = NoRun
      /\ \A s \in Starter : starter[s] = NoStart
      /\ \A k \in Cleaner : cleaner[k] = NoCleanup
  BY DEF Init
<1>2. NoRun \in RunRow /\ NoPage \in PageRow /\ NoStart \in StarterRow /\ NoCleanup \in CleanerRow
  BY Numbers DEF NoRun, NoPage, NoStart, NoCleanup, RunRow, PageRow, StarterRow, CleanerRow,
       RunPc, Callback, CleanerPc
<1>3. job \in JobRow
  BY <1>1, Numbers DEF JobRow, JobStatus
<1>4. Typed
  BY <1>2, <1>3, Numbers DEF Init, Typed, Staging, Invocations
<1>5. JobAt /\ IdsLeft /\ PageAt
  BY <1>1, Numbers DEF Init, JobAt, IdsLeft, Spoilt, PageAt, NoRun, NoPage
<1>6. (\A s \in Starter : StarterAt(s)) /\ (\A k \in Cleaner : CleanerAt(k))
  BY <1>1 DEF StarterAt, CleanerAt, NoStart, NoCleanup
<1>7. \A i \in Instance : RunAt(i) /\ StagedSoFar(i)
  BY <1>1 DEF RunAt, StagedSoFar, Claimed, NoRun, Active
<1>. QED
  BY <1>4, <1>5, <1>6, <1>7 DEF JobInv

LEMMA StepKeepsInv ==
  ASSUME JobInv, [Next]_vars
  PROVE  JobInv'
<1>1. CASE Next
  <2>1. CASE Cancel \/ RetryJob \/ LeaseRunsOut \/ RecoverRunning
    BY <2>1, CancelStep, RetryStep, LeaseStep, RecoverStep
  <2>2. ASSUME NEW s \in Starter, Start(s) \/ StartStep(s) \/ CreateFails(s)
        PROVE  JobInv'
    BY <2>2, StartStarts, CreateStep, CreateExistsStep, CreateFailsStep DEF StartStep
  <2>3. ASSUME NEW i \in Instance, RunStep(i) \/ FillFails(i) \/ Interrupted(i) \/ Halt(i)
        PROVE  JobInv'
    BY <2>3, LoadStep, StageStep, FenceStep, InsertStep, AttachStep, PutStep, AddRowStep, MoveStep,
       DropStep, InitializeStep, FillStep, PublishStep, CatchStep, InterruptedStep, HaltStep DEF RunStep
  <2>4. ASSUME NEW a \in Attempt, Alarm(a)
        PROVE  JobInv'
    BY <2>4, AlarmStep
  <2>5. ASSUME NEW k \in Cleaner,
               \/ ClaimCleanup(k, TRUE) \/ ClaimCleanup(k, FALSE)
               \/ CleanupStep(k) \/ CleanupFails(k) \/ CleanerDies(k)
        PROVE  JobInv'
    BY <2>5, ClaimStep, TerminateStep, ReadStep, PurgeStep, DeleteObjectsStep, DeletePageStep,
       FinishStep, CleanupFailsStep DEF CleanupStep
  <2>. QED
    BY <1>1, <2>1, <2>2, <2>3, <2>4, <2>5 DEF Next
<1>2. CASE UNCHANGED vars
  BY <1>2 DEF vars, staging, JobInv, Typed, Staging, Invocations, JobAt, IdsLeft, Spoilt, PageAt, StarterAt,
     RunAt, StagedSoFar, Active, CleanerAt
<1>. QED
  BY <1>1, <1>2

\* The inductive invariant holds in every reachable state.
THEOREM JobInvariant == Spec => []JobInv
<1>1. Init => JobInv
  BY InitHolds
<1>2. JobInv /\ [Next]_vars => JobInv'
  BY StepKeepsInv
<1>. QED
  BY <1>1, <1>2, PTL DEF Spec

\* The job, its instances, what they staged and who cleans up are typed; above all, there is
\* always an id left for an instance that has to be replaced.
THEOREM JobTypeCorrect == Spec => []TypeOK
<1>1. JobInv => TypeOK
  BY DEF JobInv, Typed, Staging, Invocations, JobRow, RunRow, PageRow, StarterRow, CleanerRow, TypeOK
<1>. QED
  BY <1>1, JobInvariant, PTL

\* A job that succeeded has published its page, and what is published is whole: the content is
\* in the room of its epoch, the attachment has its row and its object.
THEOREM PublishedIsWhole == Spec => []SucceededIsWhole
<1>1. JobInv => SucceededIsWhole
  BY DEF JobInv, PageAt, SucceededIsWhole
<1>. QED
  BY <1>1, JobInvariant, PTL

\* What the running attempt has staged is still there after a step.
StillThere ==
  /\ page'.state # "none" /\ page'.epoch = page.epoch
  /\ room'[page.epoch] = "purged" => room[page.epoch] = "purged"
  /\ att = job.attempt => att' = att /\ objects \cap {att} \subseteq objects'

LEMMA InstanceLeavesStaged ==
  ASSUME JobInv, NEW i \in Instance, job.status = "running", page.state = "staged", page.epoch = job.attempt,
         RunStep(i) \/ FillFails(i)
  PROVE  StillThere
<1>1. /\ page \in PageRow /\ room \in [Attempt -> {"empty", "started", "filled", "purged"}]
      /\ job.attempt \in Attempt /\ job.attempt \in Nat \ {0}
  BY Fields, RowNumbers DEF JobInv, Typed, Staging
<1>2. CASE UNCHANGED staging
  BY <1>2 DEF staging, StillThere
<1>3. CASE Fence(i) \/ Publish(i)
  <2>1. UNCHANGED <<room, att, objects>>
    BY <1>3 DEF Fence, Publish
  <2>2. page' = page \/ page' = [page EXCEPT !.state = "published"] \/
          (Active(i) /\ page' = [page EXCEPT !.epoch = run[i].attempt])
    BY <1>3 DEF Fence, Publish
  <2>3. page'.state # "none" /\ page'.epoch = page.epoch
    BY <1>1, <2>2 DEF PageRow, Active
  <2>. QED
    BY <2>1, <2>3 DEF StillThere
<1>4. CASE Insert(i) \/ AddRow(i)
  <2>1. UNCHANGED <<page, room, objects>> /\ (att # 0 => att' = att)
    BY <1>4 DEF Insert, AddRow
  <2>. QED
    BY <1>1, <2>1 DEF StillThere
<1>5. CASE Put(i)
  BY <1>5 DEF Put, StillThere
<1>6. CASE Move(i)
  <2>1. Claimed(run[i]) /\ UNCHANGED <<page, room>>
    BY <1>6 DEF Move, At, Claimed
  <2>2. att = job.attempt => ~Moves(i)
    BY <2>1, ClaimedFacts DEF Moves
  <2>3. att = job.attempt => att' = att /\ (objects' = objects \/ (run[i].attempt # att /\ objects' = objects \ {run[i].attempt}))
    BY <1>6, <2>2 DEF Move
  <2>. QED
    BY <2>1, <2>3 DEF StillThere
<1>7. CASE Drop(i)
  <2>1. Claimed(run[i]) /\ UNCHANGED <<page, room, att>> /\ objects' = objects \ {run[i].key}
    BY <1>7 DEF Drop, At, Claimed
  <2>2. run[i].key # job.attempt
    BY <2>1, ClaimedFacts
  <2>. QED
    BY <2>1, <2>2 DEF StillThere
<1>8. CASE Fill(i) \/ FillFails(i)
  <2>1. UNCHANGED <<page, att, objects>>
        /\ (room' = room \/ \E state \in {"filled", "started"} : room' = [room EXCEPT ![run[i].attempt] = state])
    BY <1>8 DEF Fill, FillFails
  <2>. QED
    BY <1>1, <2>1 DEF StillThere
<1>. QED
  BY <1>2, <1>3, <1>4, <1>5, <1>6, <1>7, <1>8 DEF RunStep, Load, Stage, Attach, Initialize, Catch

LEMMA CleanerLeavesStaged ==
  ASSUME JobInv, NEW k \in Cleaner, job.status = "running", page.state = "staged", page.epoch = job.attempt,
         CleanupStep(k)
  PROVE  StillThere
<1>1. room \in [Attempt -> {"empty", "started", "filled", "purged"}] /\ job.attempt \in Attempt
  BY Fields DEF JobInv, Typed, Staging
<1>2. CASE UNCHANGED staging
  BY <1>2 DEF staging, StillThere
<1>3. CASE Purge(k)
  <2>1. UNCHANGED <<page, att, objects>> /\ room' = [room EXCEPT ![cleaner[k].staged] = "purged"] /\ cleaner[k].pc = "purge"
    BY <1>3 DEF Purge
  <2>2. cleaner[k].staged # job.attempt
    BY <2>1, TakenIsOld
  <2>. QED
    BY <1>1, <2>1, <2>2 DEF StillThere
<1>4. CASE DeleteObjects(k)
  <2>1. UNCHANGED <<page, room, att>> /\ objects' = objects \ Keys(k) /\ cleaner[k].pc = "objects"
    BY <1>4 DEF DeleteObjects
  <2>. QED
    BY <2>1, KeysAreOld DEF StillThere
<1>5. CASE DeletePage(k)
  <2>1. cleaner[k].pc = "delete"
    BY <1>5 DEF DeletePage
  <2>2. ~Deletes(k)
    BY <2>1, TakenIsOld DEF Deletes
  <2>. QED
    BY <1>5, <2>2 DEF DeletePage, StillThere
<1>. QED
  BY <1>2, <1>3, <1>4, <1>5 DEF CleanupStep, Terminate, Read, Finish, staging

\* While an attempt runs, nothing takes what it has staged: no cleanup of an earlier attempt
\* that is late, no callback of an instance that was terminated.
THEOREM RunningKeepsStaged == Spec => StagedIsKept
<1>1. ASSUME JobInv, [Next]_vars, job.status = "running", page.state = "staged", page.epoch = job.attempt
      PROVE  StillThere
  <2>1. CASE UNCHANGED staging
    BY <1>1, <2>1 DEF staging, StillThere
  <2>2. ASSUME NEW i \in Instance, RunStep(i) \/ FillFails(i)
        PROVE  StillThere
    BY <1>1, <2>2, InstanceLeavesStaged
  <2>3. ASSUME NEW k \in Cleaner, CleanupStep(k)
        PROVE  StillThere
    BY <1>1, <2>3, CleanerLeavesStaged
  <2>4. ASSUME NEW a \in Attempt, Alarm(a)
        PROVE  StillThere
    <3>1. room \in [Attempt -> {"empty", "started", "filled", "purged"}] /\ job.attempt \in Attempt
      BY <1>1, Fields DEF JobInv, Typed, Staging
    <3>. QED
      BY <1>1, <2>4, <3>1 DEF Alarm, StillThere
  <2>5. CASE Next
    BY <2>1, <2>2, <2>3, <2>4, <2>5 DEF Next, Cancel, RetryJob, LeaseRunsOut, RecoverRunning, Start, StartStep,
       Create, CreateExists, CreateFails, Interrupted, Halt, ClaimCleanup, CleanupFails, CleanerDies
  <2>. QED
    BY <1>1, <2>1, <2>5 DEF vars
<1>2. JobInv /\ [Next]_vars =>
        [job.status = "running" /\ job'.status \in {"running", "succeeded"}
           /\ page.state = "staged" /\ page.epoch = job.attempt =>
             /\ page'.state # "none" /\ page'.epoch = page.epoch
             /\ room'[page.epoch] = "purged" => room[page.epoch] = "purged"
             /\ att = job.attempt => att' = att /\ objects \cap {att} \subseteq objects']_vars
  BY <1>1 DEF StillThere
<1>. QED
  BY <1>2, JobInvariant, PTL DEF Spec, StagedIsKept
=============================================================================
