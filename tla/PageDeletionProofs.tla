------------------------- MODULE PageDeletionProofs -------------------------
(* Proofs about PageDeletion for any set of pages, jobs and workers and any *)
(* bounds: its types, the ownership of pages by accepted deletions, and the *)
(* frozen subtrees that make the removal of their rows safe.                *)
EXTENDS PageDeletion, TLAPS

------------------------------------------------------------------------------
(* The tree.                                                               *)

\* The pages below a page exist.
LEMMA SubtreeTyped ==
  ASSUME TypeOK, NEW p
  PROVE  Subtree(p) \subseteq live /\ Subtree(p) \subseteq Page
  BY DEF TypeOK, Subtree

\* A page that exists is in its own subtree.
LEMMA SubtreeHasRoot ==
  ASSUME NEW p \in live
  PROVE  p \in Subtree(p)
  BY DEF Subtree

\* The subtree is closed: the children of its pages are in it.
LEMMA SubtreeClosed ==
  ASSUME NEW p, NEW q \in Subtree(p)
  PROVE  Children(q) \subseteq Subtree(p)
<1>. SUFFICES ASSUME NEW c \in Children(q)
              PROVE  c \in Subtree(p)
  OBVIOUS
<1>1. c \in live /\ p \in live
  BY DEF Children, Subtree
<1>2. ASSUME NEW S \in SUBSET live, p \in S, ClosedBelow(S)
      PROVE  c \in S
  <2>1. q \in S
    BY <1>2 DEF Subtree
  <2>. QED
    BY <1>2, <2>1 DEF ClosedBelow
<1>. QED
  BY <1>1, <1>2 DEF Subtree

\* A closed set of pages with the root holds the subtree.
LEMMA SubtreeLeast ==
  ASSUME NEW p, NEW S \in SUBSET live, p \in S, ClosedBelow(S)
  PROVE  Subtree(p) \subseteq S
  BY DEF Subtree

\* Every page of a subtree but its root hangs below a page of it.
LEMMA SubtreeParents ==
  ASSUME NEW p, NEW q \in Subtree(p)
  PROVE  q = p \/ parent[q] \in Subtree(p)
<1>. DEFINE S == {c \in Subtree(p) : c = p \/ parent[c] \in Subtree(p)}
<1>1. S \in SUBSET live /\ p \in live
  BY DEF Subtree
<1>2. p \in S
  BY <1>1, SubtreeHasRoot
<1>3. ClosedBelow(S)
  <2>. SUFFICES ASSUME NEW c \in S, NEW d \in Children(c)
                PROVE  d \in S
    BY DEF ClosedBelow
  <2>1. d \in Subtree(p)
    BY SubtreeClosed
  <2>2. parent[d] = c
    BY DEF Children
  <2>. QED
    BY <2>1, <2>2
<1>4. Subtree(p) \subseteq S
  BY <1>1, <1>2, <1>3, SubtreeLeast
<1>. QED
  BY <1>4

------------------------------------------------------------------------------
(* An accepted deletion whose pages a step leaves alone.                    *)

\* What DeletionInv says of one accepted job.
Frozen(j) ==
  /\ root[j] \in Locked(j)
  /\ Subtree(root[j]) = Locked(j)
  /\ \A p \in Locked(j) :
       /\ p \in live /\ stamp[p] = lock[j][p]
       /\ Children(p) \subseteq Locked(j)
       /\ p = root[j] \/ parent[p] \in Locked(j)

\* A step leaves the locked pages of a job alone: their rows, their archive, their
\* places and the pages below them.
LeftAlone(j) ==
  /\ lock'[j] = lock[j] /\ root'[j] = root[j]
  /\ \A p \in Locked(j) :
       /\ p \in live' /\ stamp'[p] = stamp[p] /\ parent'[p] = parent[p]
       /\ Children(p)' = Children(p)

\* A frozen job whose pages are left alone stays frozen.
LEMMA FrozenKept ==
  ASSUME NEW j \in Job, Frozen(j), LeftAlone(j)
  PROVE  Frozen(j)'
<1>1. Locked(j)' = Locked(j) /\ root'[j] = root[j] /\ root[j] \in Locked(j)
  BY DEF LeftAlone, Locked, Frozen
<1>2. \A p \in Locked(j) :
        /\ p \in live' /\ stamp'[p] = lock'[j][p]
        /\ Children(p)' \subseteq Locked(j)
        /\ p = root[j] \/ parent'[p] \in Locked(j)
  BY DEF LeftAlone, Frozen
<1>3. Locked(j) \subseteq live /\ Locked(j) \subseteq live'
  BY <1>2 DEF Frozen
<1>4. Subtree(root[j])' \subseteq Locked(j)
  <2>1. ClosedBelow(Locked(j))'
    BY <1>1, <1>2 DEF ClosedBelow
  <2>. QED
    BY <1>1, <1>3, <2>1 DEF Subtree
<1>5. Locked(j) \subseteq Subtree(root[j])'
  <2>. SUFFICES ASSUME NEW p \in Locked(j), NEW S \in SUBSET live', root[j] \in S,
                       \A q \in S : Children(q)' \subseteq S
                PROVE  p \in S
    BY <1>1, <1>3 DEF Subtree, ClosedBelow
  <2>. DEFINE T == S \cap Locked(j)
  <2>1. T \in SUBSET live /\ root[j] \in T
    BY <1>1, <1>3
  <2>2. ClosedBelow(T)
    <3>. SUFFICES ASSUME NEW q \in T
                  PROVE  Children(q) \subseteq T
      BY DEF ClosedBelow
    <3>1. Children(q) \subseteq S
      BY DEF LeftAlone
    <3>2. Children(q) \subseteq Locked(j)
      BY DEF Frozen
    <3>. QED
      BY <3>1, <3>2
  <2>3. Subtree(root[j]) \subseteq T
    BY <2>1, <2>2, SubtreeLeast
  <2>. QED
    BY <2>3 DEF Frozen
<1>. QED
  BY <1>1, <1>2, <1>4, <1>5 DEF Frozen

------------------------------------------------------------------------------
(* Type correctness.                                                       *)

\* What a step needs to keep the types.
Typed == TypeOK /\ RequestsStamped /\ WorkersHaveJobs

\* The variables start with their types.
LEMMA TypeInit == Init => Typed
  BY ConstantsAssumption
     DEF Init, Typed, TypeOK, RequestsStamped, WorkersHaveJobs, Node, Active, Idle, Processing

\* A route that has read keeps the types, and its stamp is one that was given.
LEMMA TypeRoutes ==
  ASSUME Typed, NEW p \in Page, NEW q \in Node,
         AdmitCreate(p, q) \/ AdmitMove(p, q) \/ AdmitArchive(p) \/ AdmitRestore(p)
  PROVE  Typed'
<1>. USE DEF Typed, TypeOK, RequestsStamped, WorkersHaveJobs, Admit, tree, jobs, stored
<1>1. CASE AdmitCreate(p, q)
  BY <1>1 DEF AdmitCreate, Request, Active
<1>2. CASE AdmitMove(p, q)
  BY <1>2 DEF AdmitMove, Request, Active
<1>3. CASE AdmitArchive(p)
  <2>1. ArchiveStamp(p) \in 0..clock' /\ clock' \in Nat /\ clock <= clock'
    BY <1>3 DEF AdmitArchive, ArchiveStamp
  <2>2. stamp' \in [Page -> 0..clock'] /\ lock' \in [Job -> [Page -> 0..clock']]
    BY <1>3, <2>1 DEF AdmitArchive
  <2>3. requests' \in SUBSET Request /\ \A r \in requests' : r.stamp <= clock'
    BY <1>3, <2>1 DEF AdmitArchive, Request, Node
  <2>. QED
    BY <1>3, <2>1, <2>2, <2>3 DEF AdmitArchive
<1>4. CASE AdmitRestore(p)
  BY <1>4 DEF AdmitRestore, Request, Node
<1>. QED
  BY <1>1, <1>2, <1>3, <1>4

\* The write of a route keeps the types.
LEMMA TypeWrite ==
  ASSUME Typed, NEW r \in requests, Write(r)
  PROVE  Typed'
<1>. USE DEF Typed, TypeOK, RequestsStamped, WorkersHaveJobs, tree, jobs, stored
<1>1. r \in Request /\ r.stamp \in 0..clock /\ requests' \subseteq requests /\ Active \in 0..clock
  BY DEF Write, Request, Active
<1>2. live' \in SUBSET Page /\ parent' \in [Page -> Node]
      /\ stamp' \in [Page -> 0..clock] /\ epoch' \in [Page -> 1..MaxEpoch]
  <2>1. CASE CommitCreate(r)
    BY <1>1, <2>1, ConstantsAssumption DEF CommitCreate, Request
  <2>2. CASE CommitMove(r)
    BY <1>1, <2>2 DEF CommitMove, Request
  <2>3. CASE CommitArchive(r)
    BY <1>1, <2>3 DEF CommitArchive
  <2>4. CASE CommitRestore(r)
    BY <1>1, <2>4 DEF CommitRestore
  <2>5. CASE UNCHANGED tree
    BY <2>5
  <2>. QED
    BY <2>1, <2>2, <2>3, <2>4, <2>5 DEF Write
<1>. QED
  BY <1>1, <1>2 DEF Write

\* The targets of a set of pages are targets.
LEMMA TargetsTyped ==
  ASSUME NEW S \in SUBSET Page
  PROVE  TargetsOf(S) \subseteq Target
  BY DEF TargetsOf, Target

\* A step of an invocation keeps the types, and its claim is on a job.
LEMMA TypeWork ==
  ASSUME Typed, NEW w \in Worker, Work(w) \/ Mishap(w)
  PROVE  Typed'
<1>. USE DEF Typed, TypeOK, RequestsStamped, WorkersHaveJobs, Processing, tree, jobs, stored
<1>1. ASSUME NEW j \in Job, Claim(w, j)
      PROVE  Typed'
  BY <1>1 DEF Claim
<1>2. CASE RemoveRows(w)
  <2>. DEFINE j == worker[w].job
  <2>1. j \in Job /\ Subtree(root[j]) \subseteq Page /\ Active \in 0..clock
    BY <1>2, SubtreeTyped DEF RemoveRows, Active
  <2>2. /\ live' \in SUBSET Page /\ parent' \in [Page -> Node]
        /\ stamp' \in [Page -> 0..clock] /\ epoch' \in [Page -> 1..MaxEpoch]
    BY <1>2, <2>1, ConstantsAssumption DEF RemoveRows, Node
  <2>3. /\ worker' \in [Worker -> Processing]
        /\ \A v \in Worker : worker'[v].job = worker[v].job
        /\ \A v \in Worker : worker'[v].pc # "idle" => worker[v].pc # "idle"
    <3>1. worker' = [worker EXCEPT ![w].pc = "cleanup"] /\ worker[w].pc = "rows"
      BY <1>2 DEF RemoveRows
    <3>. QED
      BY <3>1
  <2>4. phase' \in [Job ->
          {"none", "staging", "rows", "cleanup", "dropped", "gone"}]
    BY <1>2 DEF RemoveRows
  <2>5. UNCHANGED <<clock, requests, root, lock, todo, lease, steals, stored>>
    BY <1>2 DEF RemoveRows
  <2>. QED
    BY <2>2, <2>3, <2>4, <2>5
<1>3. CASE ReadTargets(w)
  BY <1>3 DEF ReadTargets
<1>4. CASE Mark(w)
  <2>1. worker[w] \in Processing /\ worker[w].job \in Job
    BY <1>4 DEF Mark
  <2>2. worker' \in [Worker -> Processing]
    BY <1>4, <2>1 DEF Mark
  <2>3. \A v \in Worker : worker'[v].pc # "idle" => worker'[v].job \in Job
    BY <1>4, <2>1 DEF Mark
  <2>4. todo' \in [Job -> SUBSET Target]
    BY <1>4, <2>1 DEF Mark
  <2>. QED
    BY <1>4, <2>2, <2>3, <2>4 DEF Mark
<1>5. CASE Finish(w)
  <2>1. [p \in Page |-> Active] \in [Page -> 0..clock] /\ Idle \in Processing
    BY DEF Active, Idle
  <2>2. /\ phase' \in [Job -> {"none", "staging", "rows", "cleanup", "dropped", "gone"}]
        /\ root' \in [Job -> Node] /\ lock' \in [Job -> [Page -> 0..clock]]
        /\ todo' \in [Job -> SUBSET Target] /\ lease' \in [Job -> Worker \cup {Free}]
    <3>1. CASE Holds(w)
      <4>. DEFINE j == worker[w].job
      <4>1. /\ phase' = [phase EXCEPT ![j] = "gone"]
            /\ root' = [root EXCEPT ![j] = Top]
            /\ lock' = [lock EXCEPT ![j] = [p \in Page |-> Active]]
            /\ todo' = [todo EXCEPT ![j] = {}]
            /\ lease' = [lease EXCEPT ![j] = Free]
        BY <1>5, <3>1 DEF Finish
      <4>. HIDE DEF j
      <4>. QED
        BY <2>1, <4>1 DEF Node
    <3>2. CASE ~Holds(w)
      BY <1>5, <3>2 DEF Finish
    <3>. QED
      BY <3>1, <3>2
  <2>3. worker' = [worker EXCEPT ![w] = Idle] /\ Idle.pc = "idle"
    BY <1>5 DEF Finish, Idle
  <2>4. UNCHANGED <<tree, clock, requests, steals, stored>>
    BY <1>5 DEF Finish
  <2>5. worker' \in [Worker -> Processing]
    BY <2>1, <2>3
  <2>6. \A v \in Worker : worker'[v].pc # "idle" => worker'[v].job \in Job
    BY <2>3
  <2>. QED
    BY <2>2, <2>4, <2>5, <2>6
<1>6. CASE Release(w)
  BY <1>6 DEF Release, Idle
<1>7. CASE Die(w)
  BY <1>7 DEF Die, Idle
<1>8. ASSUME NEW t \in worker[w].left, Perform(w, t)
      PROVE  Typed'
  <2>1. rooms' \in SUBSET (Page \X Nat) /\ objects' \in SUBSET Page
    BY <1>8 DEF Perform, Effect
  <2>2. worker[w] \in Processing /\ {t} \in SUBSET Target
    BY <1>8
  <2>3. worker' \in [Worker -> Processing]
    BY <1>8, <2>2 DEF Perform
  <2>4. \A v \in Worker : worker'[v].pc # "idle" => worker'[v].job \in Job
    BY <1>8, <2>2 DEF Perform
  <2>. QED
    BY <1>8, <2>1, <2>3, <2>4 DEF Perform
<1>9. ASSUME NEW t \in worker[w].left, Fail(w, t)
      PROVE  Typed'
  <2>1. rooms' \in SUBSET (Page \X Nat) /\ objects' \in SUBSET Page
    BY <1>9 DEF Fail, Effect
  <2>. QED
    BY <1>9, <2>1 DEF Fail, AfterFailure
<1>. QED
  BY <1>1, <1>2, <1>3, <1>4, <1>5, <1>6, <1>7, <1>8, <1>9 DEF Work, Mishap

\* Every step keeps the types.
LEMMA TypeStep == Typed /\ [Next]_vars => Typed'
<1>. SUFFICES ASSUME Typed, [Next]_vars
              PROVE  Typed'
  OBVIOUS
<1>1. ASSUME NEW p \in Page, NEW q \in Node, AdmitCreate(p, q) \/ AdmitMove(p, q)
      PROVE  Typed'
  BY <1>1, TypeRoutes
<1>2. ASSUME NEW p \in Page, AdmitArchive(p) \/ AdmitRestore(p)
      PROVE  Typed'
  BY <1>2, TypeRoutes DEF Node
<1>3. ASSUME NEW r \in requests, Write(r)
      PROVE  Typed'
  BY <1>3, TypeWrite
<1>. USE DEF Typed, TypeOK, RequestsStamped, WorkersHaveJobs, tree, jobs, stored
<1>4. ASSUME NEW p \in Page, NextEpoch(p)
      PROVE  Typed'
  BY <1>4, ConstantsAssumption DEF NextEpoch
<1>5. ASSUME NEW p \in Page, Open(p)
      PROVE  Typed'
  BY <1>5, ConstantsAssumption DEF Open
<1>6. ASSUME NEW p \in Page, Compact(p)
      PROVE  Typed'
  BY <1>6 DEF Compact
<1>7. ASSUME NEW j \in Job, Activate(j)
      PROVE  Typed'
  BY <1>7 DEF Activate
<1>8. ASSUME NEW j \in Job, Drop(j)
      PROVE  Typed'
  <2>1. [p \in Page |-> Active] \in [Page -> 0..clock]
    BY DEF Active
  <2>. QED
    BY <1>8, <2>1 DEF Drop, Node
<1>9. ASSUME NEW j \in Job, NEW p \in Page, Stage(j, p)
      PROVE  Typed'
  <2>1. Subtree(p) \in SUBSET Page
    BY SubtreeTyped
  <2>2. [q \in Page |-> IF q \in Subtree(p) THEN stamp[q] ELSE Active] \in [Page -> 0..clock]
    BY DEF Active
  <2>3. TargetsOf(Subtree(p)) \subseteq Target
    BY <2>1, TargetsTyped
  <2>. QED
    BY <1>9, <2>2, <2>3 DEF Stage, Node
<1>10. ASSUME NEW w \in Worker, Work(w) \/ Mishap(w)
       PROVE  Typed'
  BY <1>10, TypeWork
<1>11. CASE UNCHANGED vars
  BY <1>11 DEF vars
<1>. QED
  BY <1>1, <1>2, <1>3, <1>4, <1>5, <1>6, <1>7, <1>8, <1>9, <1>10, <1>11
     DEF Next, Routes, Contents, Acceptance

\* The variables of the page tree and of the deletion jobs keep their types.
THEOREM DeletionTypeCorrect == Spec => []TypeOK
<1>1. Typed => TypeOK
  BY DEF Typed
<1>. QED
  BY TypeInit, TypeStep, <1>1, PTL DEF Spec

------------------------------------------------------------------------------
(* What each step leaves alone.                                            *)

\* Frozen jobs, owned pages and roots: DeletionInv without its types.
Owned ==
  /\ RootLocked /\ OneOwner /\ GoneStaysGone
  /\ \A j \in Job : phase[j] = "rows" => Frozen(j)

\* DeletionInv is the types and what is owned.
LEMMA InvIsOwned == DeletionInv <=> Typed /\ Owned
  BY DEF DeletionInv, Typed, Owned, RootLocked, AcceptedFrozen, LockedIsSubtree, Frozen

\* A step that changes neither the tree nor the locks leaves every job alone.
LEMMA SameTree ==
  ASSUME NEW j \in Job, Frozen(j), UNCHANGED tree,
         lock'[j] = lock[j], root'[j] = root[j]
  PROVE  LeftAlone(j)
  BY DEF Frozen, LeftAlone, tree, Children

\* The write of a route leaves the pages of an accepted job alone: the triggers
\* refuse what would touch them, whatever the route has read.
LEMMA WriteLeavesAlone ==
  ASSUME Typed, NEW j \in Job, phase[j] = "rows", Frozen(j), NEW r \in requests, Write(r)
  PROVE  LeftAlone(j)
<1>. USE DEF Typed, TypeOK
<1>1. lock' = lock /\ root' = root
  BY DEF Write, jobs
<1>2. r \in Request /\ r.page \in Page
  BY DEF Request
<1>3. Locked(j) \subseteq live /\ Locked(j) \subseteq Page
  BY DEF Frozen, Locked
<1>4. CASE CommitCreate(r)
  <2>1. r.page \notin live /\ r.to \notin Locked(j) /\ live' = live \cup {r.page}
        /\ parent' = [parent EXCEPT ![r.page] = r.to]
        /\ stamp' = [stamp EXCEPT ![r.page] = Active]
    BY <1>4 DEF CommitCreate, MayInsert, LockedIn
  <2>2. ASSUME NEW p \in Locked(j)
        PROVE  Children(p)' = Children(p)
    BY <1>2, <1>3, <2>1, <2>2 DEF Children
  <2>. QED
    BY <1>1, <1>2, <1>3, <2>1, <2>2 DEF LeftAlone
<1>5. CASE CommitMove(r)
  <2>1. live' = live /\ stamp' = stamp /\ parent' = [parent EXCEPT ![r.page] = r.to]
        /\ (parent[r.page] # r.to => r.page \notin Locked(j) /\ r.to \notin Locked(j))
    BY <1>5 DEF CommitMove, MayMove, LockedIn
  <2>2. CASE parent[r.page] = r.to
    BY <1>1, <1>2, <1>3, <2>1, <2>2 DEF LeftAlone, Children
  <2>3. CASE parent[r.page] # r.to
    <3>1. ASSUME NEW p \in Locked(j)
          PROVE  Children(p)' = Children(p)
      <4>1. r.page \notin Children(p)
        BY <1>3, <2>1, <2>3, <3>1 DEF Frozen
      <4>. QED
        BY <1>2, <1>3, <2>1, <2>3, <3>1, <4>1 DEF Children
    <3>. QED
      BY <1>1, <1>2, <1>3, <2>1, <2>3, <3>1 DEF LeftAlone
  <2>. QED
    BY <2>2, <2>3
<1>6. CASE CommitArchive(r)
  <2>1. live' = live /\ parent' = parent
    BY <1>6 DEF CommitArchive
  <2>2. ASSUME NEW p \in Locked(j)
        PROVE  stamp'[p] = stamp[p]
    BY <1>3, <1>6, <2>2 DEF CommitArchive, Frozen, Locked
  <2>. QED
    BY <1>1, <1>3, <2>1, <2>2 DEF LeftAlone, Children
<1>7. CASE CommitRestore(r)
  <2>1. live' = live /\ parent' = parent
    BY <1>7 DEF CommitRestore
  <2>2. ASSUME NEW p \in Locked(j)
        PROVE  stamp'[p] = stamp[p]
    <3>1. stamp[p] = lock[j][p] /\ p \in Page
      BY <1>3, <2>2 DEF Frozen
    <3>2. p \notin Subtree(r.page)
      BY <1>7, <2>2, <3>1 DEF CommitRestore, MayRestore
    <3>. QED
      BY <1>7, <3>1, <3>2 DEF CommitRestore
  <2>. QED
    BY <1>1, <1>3, <2>1, <2>2 DEF LeftAlone, Children
<1>8. CASE UNCHANGED tree
  BY <1>1, <1>8, SameTree
<1>. QED
  BY <1>4, <1>5, <1>6, <1>7, <1>8 DEF Write

\* The rows that a job removes are exactly those of the pages it locked.
LEMMA RemovedIsLocked ==
  ASSUME Typed, Owned, NEW w \in Worker, RemoveRows(w)
  PROVE  /\ worker[w].job \in Job /\ phase[worker[w].job] = "rows"
         /\ Frozen(worker[w].job)
         /\ live' = live \ Locked(worker[w].job)
<1>. DEFINE j == worker[w].job
<1>1. worker[w].pc = "rows" /\ phase[j] = "rows" /\ live' = live \ Subtree(root[j])
  BY DEF RemoveRows
<1>2. j \in Job
  BY <1>1 DEF Typed, WorkersHaveJobs
<1>. QED
  BY <1>1, <1>2 DEF Owned, Frozen

\* The removal of the rows of one job leaves the pages of every other alone.
LEMMA RemoveLeavesAlone ==
  ASSUME Typed, Owned, NEW w \in Worker, RemoveRows(w),
         NEW j \in Job, phase[j] = "rows", phase'[j] = "rows"
  PROVE  LeftAlone(j)
<1>. DEFINE k == worker[w].job
<1>1. k \in Job /\ phase[k] = "rows" /\ Frozen(k) /\ live' = live \ Locked(k)
  BY RemovedIsLocked
<1>2. phase'[k] = "cleanup" /\ lock' = lock /\ root' = root
  BY <1>1 DEF RemoveRows, Typed, TypeOK
<1>3. Frozen(j)
  BY DEF Owned
<1>4. Locked(j) \cap Locked(k) = {} /\ Locked(j) \subseteq Page
  BY <1>1, <1>2 DEF Owned, OneOwner, Locked
<1>5. \A p \in Page \ Locked(k) : parent'[p] = parent[p] /\ stamp'[p] = stamp[p]
  BY <1>1 DEF RemoveRows, Frozen
<1>. HIDE DEF k
<1>6. ASSUME NEW p \in Locked(j)
      PROVE  Children(p)' = Children(p)
  <2>1. Children(p) \subseteq Locked(j)
    BY <1>3, <1>6 DEF Frozen
  <2>. QED
    BY <1>1, <1>4, <1>5, <2>1 DEF Children, Typed, TypeOK
<1>. QED
  BY <1>1, <1>2, <1>3, <1>4, <1>5, <1>6 DEF LeftAlone, Frozen

------------------------------------------------------------------------------
(* The inductive invariant.                                                *)

\* No job is accepted, no page exists.
LEMMA OwnedInit == Init => Owned
  BY DEF Init, Owned, RootLocked, OneOwner, GoneStaysGone

\* A step that changes no job keeps what is owned, if it leaves accepted jobs alone
\* and creates no page of a job that still deletes.
LEMMA SameJobs ==
  ASSUME Owned, UNCHANGED <<phase, root, lock>>,
         \A j \in Job : phase[j] = "rows" => LeftAlone(j),
         \A j \in Job : phase[j] = "cleanup" => Locked(j) \cap live' = {}
  PROVE  Owned'
<1>1. \A j \in Job : Locked(j)' = Locked(j)
  BY DEF Locked
<1>2. RootLocked' /\ OneOwner' /\ GoneStaysGone'
  BY <1>1 DEF Owned, RootLocked, OneOwner, GoneStaysGone
<1>3. \A j \in Job : phase'[j] = "rows" => Frozen(j)'
  BY FrozenKept DEF Owned
<1>. QED
  BY <1>2, <1>3 DEF Owned

\* A step that changes neither the tree nor any job.
LEMMA OwnedUnchanged ==
  ASSUME Owned, UNCHANGED <<tree, phase, root, lock>>
  PROVE  Owned'
<1>1. \A j \in Job : phase[j] = "rows" => LeftAlone(j)
  BY SameTree DEF Owned
<1>2. \A j \in Job : phase[j] = "cleanup" => Locked(j) \cap live' = {}
  BY DEF Owned, GoneStaysGone, tree
<1>. QED
  BY <1>1, <1>2, SameJobs

\* A step that changes one job, which is not accepted after it, and not the tree.
LEMMA OneJob ==
  ASSUME Typed, Owned, UNCHANGED tree, NEW j \in Job,
         phase'[j] \notin {"rows", "cleanup"},
         phase'[j] = "staging" => root'[j] \in Locked(j)',
         \A k \in Job \ {j} : phase'[k] = phase[k] /\ root'[k] = root[k] /\ lock'[k] = lock[k]
  PROVE  Owned'
<1>1. \A k \in Job \ {j} : Locked(k)' = Locked(k)
  BY DEF Locked
<1>2. RootLocked' /\ OneOwner' /\ GoneStaysGone'
  BY <1>1 DEF Owned, RootLocked, OneOwner, GoneStaysGone, tree
<1>3. ASSUME NEW k \in Job, phase'[k] = "rows"
      PROVE  Frozen(k)'
  <2>1. k # j /\ phase[k] = "rows" /\ Frozen(k)
    BY <1>3 DEF Owned
  <2>. QED
    BY <2>1, SameTree, FrozenKept
<1>. QED
  BY <1>2, <1>3 DEF Owned

\* Acceptance freezes the subtree of the root.
LEMMA ActivateOwned ==
  ASSUME Typed, Owned, NEW j \in Job, Activate(j)
  PROVE  Owned'
<1>. USE DEF Typed, TypeOK
<1>1. /\ phase[j] = "staging" /\ phase' = [phase EXCEPT ![j] = "rows"]
      /\ UNCHANGED <<tree, root, lock>>
      /\ LocksHold(j) /\ SoleOwner(j) /\ WholeSubtree(j)
  BY DEF Activate
<1>2. \A k \in Job : Locked(k)' = Locked(k)
  BY <1>1 DEF Locked
<1>3. root[j] \in Locked(j)
  BY <1>1 DEF Owned, RootLocked
<1>4. Frozen(j)
  <2>1. Subtree(root[j]) = Locked(j)
    BY <1>1 DEF WholeSubtree
  <2>2. ASSUME NEW p \in Locked(j)
        PROVE  /\ p \in live /\ stamp[p] = lock[j][p]
               /\ Children(p) \subseteq Locked(j)
               /\ p = root[j] \/ parent[p] \in Locked(j)
    <3>1. p \in live /\ stamp[p] = lock[j][p]
      BY <1>1, <2>2 DEF LocksHold
    <3>. QED
      BY <2>1, <2>2, <3>1, SubtreeClosed, SubtreeParents
  <2>. QED
    BY <1>3, <2>1, <2>2 DEF Frozen
<1>5. RootLocked' /\ GoneStaysGone'
  BY <1>1, <1>2, <1>3 DEF Owned, RootLocked, GoneStaysGone, tree
<1>6. OneOwner'
  BY <1>1, <1>2 DEF Owned, OneOwner, SoleOwner
<1>7. ASSUME NEW k \in Job, phase'[k] = "rows"
      PROVE  Frozen(k)'
  <2>1. Frozen(k)
    BY <1>1, <1>4, <1>7 DEF Owned
  <2>. QED
    BY <1>1, <2>1, SameTree, FrozenKept
<1>. QED
  BY <1>5, <1>6, <1>7 DEF Owned

\* The removal of the rows ends the job's claim on the tree: none of its pages
\* exists any more.
LEMMA RemoveOwned ==
  ASSUME Typed, Owned, NEW w \in Worker, RemoveRows(w)
  PROVE  Owned'
<1>. DEFINE k == worker[w].job
<1>1. k \in Job /\ phase[k] = "rows" /\ live' = live \ Locked(k)
  BY RemovedIsLocked
<1>2. phase' = [phase EXCEPT ![k] = "cleanup"] /\ lock' = lock /\ root' = root
  BY DEF RemoveRows
<1>3. \A j \in Job : Locked(j)' = Locked(j)
  BY <1>2 DEF Locked
<1>4. \A j \in Job : phase'[j] = "rows" => phase[j] = "rows" /\ LeftAlone(j)
  BY <1>1, <1>2, RemoveLeavesAlone DEF Typed, TypeOK
<1>. HIDE DEF k
<1>5. RootLocked'
  BY <1>1, <1>2, <1>3 DEF Owned, RootLocked, Typed, TypeOK
<1>6. OneOwner'
  BY <1>1, <1>2, <1>3 DEF Owned, OneOwner, Typed, TypeOK
<1>7. GoneStaysGone'
  BY <1>1, <1>2, <1>3 DEF Owned, GoneStaysGone, Typed, TypeOK
<1>8. \A j \in Job : phase'[j] = "rows" => Frozen(j)'
  BY <1>4, FrozenKept DEF Owned
<1>. QED
  BY <1>5, <1>6, <1>7, <1>8 DEF Owned

\* Every step keeps what is owned.
LEMMA OwnedStep == Typed /\ Owned /\ [Next]_vars => Owned'
<1>. SUFFICES ASSUME Typed, Owned, [Next]_vars
              PROVE  Owned'
  OBVIOUS
<1>. USE DEF tree, jobs
<1>1. ASSUME NEW p \in Page, NEW q \in Node, AdmitCreate(p, q) \/ AdmitMove(p, q)
      PROVE  Owned'
  BY <1>1, OwnedUnchanged DEF AdmitCreate, AdmitMove, Admit
<1>2. ASSUME NEW p \in Page, AdmitArchive(p) \/ AdmitRestore(p)
      PROVE  Owned'
  BY <1>2, OwnedUnchanged DEF AdmitArchive, AdmitRestore, Admit
<1>3. ASSUME NEW r \in requests, Write(r)
      PROVE  Owned'
  <2>1. \A j \in Job : phase[j] = "rows" => LeftAlone(j)
    BY <1>3, WriteLeavesAlone DEF Owned
  <2>2. UNCHANGED <<phase, root, lock>>
    BY <1>3 DEF Write
  <2>3. ASSUME NEW j \in Job, phase[j] = "cleanup"
        PROVE  Locked(j) \cap live' = {}
    <3>1. Locked(j) \cap live = {}
      BY <2>3 DEF Owned, GoneStaysGone
    <3>2. live' = live \/ (live' = live \cup {r.page} /\ r.page \notin Locked(j))
      BY <1>3, <2>3 DEF Write, CommitCreate, CommitMove, CommitArchive, CommitRestore,
                        MayInsert, LockedIn
    <3>. QED
      BY <3>1, <3>2
  <2>. QED
    BY <2>1, <2>2, <2>3, SameJobs
<1>4. ASSUME NEW p \in Page, NextEpoch(p)
      PROVE  Owned'
  <2>1. UNCHANGED <<live, parent, stamp, phase, root, lock>>
    BY <1>4 DEF NextEpoch
  <2>2. \A j \in Job : phase[j] = "rows" => LeftAlone(j)
    BY <2>1 DEF Owned, Frozen, LeftAlone, Children
  <2>3. \A j \in Job : phase[j] = "cleanup" => Locked(j) \cap live' = {}
    BY <2>1 DEF Owned, GoneStaysGone
  <2>. QED
    BY <2>1, <2>2, <2>3, SameJobs
<1>5. ASSUME NEW p \in Page, Open(p) \/ Compact(p)
      PROVE  Owned'
  BY <1>5, OwnedUnchanged DEF Open, Compact
<1>6. ASSUME NEW j \in Job, Activate(j)
      PROVE  Owned'
  BY <1>6, ActivateOwned
<1>7. ASSUME NEW j \in Job, Drop(j)
      PROVE  Owned'
  <2>1. /\ UNCHANGED tree /\ phase'[j] = "dropped"
        /\ \A k \in Job \ {j} : phase'[k] = phase[k] /\ root'[k] = root[k] /\ lock'[k] = lock[k]
    BY <1>7 DEF Drop, Typed, TypeOK
  <2>. QED
    BY <2>1, OneJob
<1>8. ASSUME NEW j \in Job, NEW p \in Page, Stage(j, p)
      PROVE  Owned'
  <2>1. p \in Subtree(p) /\ stamp[p] # Active
    BY <1>8, SubtreeHasRoot DEF Stage, IsArchived
  <2>2. /\ phase'[j] = "staging" /\ root'[j] = p
        /\ lock'[j] = [q \in Page |-> IF q \in Subtree(p) THEN stamp[q] ELSE Active]
        /\ \A k \in Job \ {j} : phase'[k] = phase[k] /\ root'[k] = root[k] /\ lock'[k] = lock[k]
    BY <1>8 DEF Stage, Typed, TypeOK
  <2>3. p \in Locked(j)'
    BY <2>1, <2>2 DEF Locked
  <2>4. UNCHANGED tree
    BY <1>8 DEF Stage
  <2>. QED
    BY <2>2, <2>3, <2>4, OneJob
<1>9. ASSUME NEW w \in Worker, RemoveRows(w)
      PROVE  Owned'
  BY <1>9, RemoveOwned
<1>10. ASSUME NEW w \in Worker, Finish(w)
       PROVE  Owned'
  <2>1. worker[w].job \in Job /\ UNCHANGED tree
    BY <1>10 DEF Finish, Typed, WorkersHaveJobs
  <2>2. CASE Holds(w)
    <3>. DEFINE j == worker[w].job
    <3>1. /\ phase' = [phase EXCEPT ![j] = "gone"]
          /\ root' = [root EXCEPT ![j] = Top]
          /\ lock' = [lock EXCEPT ![j] = [p \in Page |-> Active]]
      BY <1>10, <2>2 DEF Finish
    <3>. HIDE DEF j
    <3>2. /\ j \in Job => phase'[j] = "gone"
          /\ \A k \in Job \ {j} :
               phase'[k] = phase[k] /\ root'[k] = root[k] /\ lock'[k] = lock[k]
      BY <3>1 DEF Typed, TypeOK
    <3>3. j \in Job
      BY <2>1 DEF j
    <3>. QED
      BY <2>1, <3>2, <3>3, OneJob
  <2>3. CASE ~Holds(w)
    BY <1>10, <2>3, OwnedUnchanged DEF Finish
  <2>. QED
    BY <2>2, <2>3
<1>11. ASSUME NEW w \in Worker,
              (\E j \in Job : Claim(w, j)) \/ ReadTargets(w) \/ Mark(w) \/ Release(w) \/ Die(w)
       PROVE  Owned'
  <2>1. UNCHANGED <<tree, phase, root, lock>>
    BY <1>11 DEF Claim, ReadTargets, Mark, Release, Die
  <2>. QED
    BY <2>1, OwnedUnchanged
<1>12. ASSUME NEW w \in Worker, NEW t \in worker[w].left, Perform(w, t) \/ Fail(w, t)
       PROVE  Owned'
  <2>1. UNCHANGED <<tree, phase, root, lock>>
    BY <1>12 DEF Perform, Fail
  <2>. QED
    BY <2>1, OwnedUnchanged
<1>13. CASE UNCHANGED vars
  BY <1>13, OwnedUnchanged DEF vars
<1>. QED
  BY <1>1, <1>2, <1>3, <1>4, <1>5, <1>6, <1>7, <1>8, <1>9, <1>10, <1>11, <1>12, <1>13
     DEF Next, Routes, Contents, Acceptance, Work, Mishap

\* The inductive invariant holds in every reachable state.
LEMMA DeletionInvariant == Spec => []DeletionInv
<1>1. Init => DeletionInv
  BY TypeInit, OwnedInit, InvIsOwned
<1>2. DeletionInv /\ [Next]_vars => DeletionInv'
  <2>1. DeletionInv /\ [Next]_vars => Typed' /\ Owned'
    BY TypeStep, OwnedStep, InvIsOwned
  <2>2. (Typed /\ Owned)' => DeletionInv'
    BY InvIsOwned, PTL
  <2>. QED
    BY <2>1, <2>2
<1>. QED
  BY <1>1, <1>2, PTL DEF Spec

------------------------------------------------------------------------------
(* What follows from it.                                                   *)

\* No page ever belongs to two accepted deletions, however many attempts to
\* delete overlapping subtrees run at once.
THEOREM OwnersAreSole == Spec => []OneOwner
<1>1. DeletionInv => OneOwner
  BY DEF DeletionInv
<1>. QED
  BY DeletionInvariant, <1>1, PTL

\* The subtree of an accepted deletion stays as it was locked until its rows are
\* removed, whatever the routes had read before.
THEOREM AcceptedStaysFrozen == Spec => []AcceptedFrozen
<1>1. DeletionInv => AcceptedFrozen
  BY DEF DeletionInv
<1>. QED
  BY DeletionInvariant, <1>1, PTL

\* No page exists, or is created again, under an id whose deletion still has
\* targets to erase.
THEOREM DeletedStaysGone == Spec => []GoneStaysGone
<1>1. DeletionInv => GoneStaysGone
  BY DEF DeletionInv
<1>. QED
  BY DeletionInvariant, <1>1, PTL

\* A page's row disappears only by an accepted deletion that locked the page, in
\* the archive it was locked with.
THEOREM RemovedWasLocked == Spec => DeletedWasLocked
<1>. DEFINE Allowed == \A p \in live \ live' :
              \E j \in Job : phase[j] = "rows" /\ p \in Locked(j) /\ stamp[p] = lock[j][p]
<1>1. DeletionInv /\ [Next]_vars => Allowed \/ UNCHANGED vars
  <2>. SUFFICES ASSUME DeletionInv, Next
                PROVE  Allowed
    BY DEF vars
  <2>1. CASE \E w \in Worker : RemoveRows(w)
    <3>. PICK w \in Worker : RemoveRows(w)
      BY <2>1
    <3>. QED
      BY RemovedIsLocked, InvIsOwned DEF Frozen
  <2>2. CASE live \subseteq live'
    BY <2>2
  <2>3. (\E w \in Worker : RemoveRows(w)) \/ live \subseteq live'
    BY DEF Next, Routes, Contents, Acceptance, Work, Mishap, AdmitCreate, AdmitMove,
           AdmitArchive, AdmitRestore, Admit, Write, CommitCreate, CommitMove,
           CommitArchive, CommitRestore, NextEpoch, Open, Compact, Activate, Drop,
           Stage, Claim, ReadTargets, Mark, Finish, Release, Perform, Die, Fail, tree, jobs
  <2>. QED
    BY <2>1, <2>2, <2>3
<1>. QED
  BY DeletionInvariant, <1>1, PTL DEF Spec, DeletedWasLocked

------------------------------------------------------------------------------
(* Content that stays, while no lease runs out under a working claim.       *)

\* What makes the erasures safe, as one invariant.
Leased == TargetsLocked /\ WorkersHoldLease

\* A step of a route or of the acceptance that leaves the workers, the leases and
\* the accepted jobs alone.
LEMMA LeasedUnchanged ==
  ASSUME Leased, UNCHANGED <<phase, lock, todo, lease, worker>>
  PROVE  Leased'
  BY DEF Leased, TargetsLocked, WorkersHoldLease, HoldsLease, Locked

\* Staging locks the pages of the targets it writes.
LEMMA StagedTargets ==
  ASSUME Typed, TargetsLocked, NEW j \in Job, NEW p \in Page, Stage(j, p)
  PROVE  /\ TargetsLocked'
         /\ phase[j] = "none" /\ UNCHANGED <<lease, worker>>
         /\ \A k \in Job \ {j} : phase'[k] = phase[k] /\ lock'[k] = lock[k]
<1>1. /\ phase[j] = "none" /\ UNCHANGED <<lease, worker>>
      /\ phase' = [phase EXCEPT ![j] = "staging"]
      /\ todo' = [todo EXCEPT ![j] = TargetsOf(Subtree(p))]
      /\ lock' = [lock EXCEPT
           ![j] = [q \in Page |-> IF q \in Subtree(p) THEN stamp[q] ELSE Active]]
      /\ \A q \in Subtree(p) : stamp[q] # Active
  BY Zenon DEF Stage
<1>2. \A t \in todo'[j] : t.page \in Subtree(p)
  BY <1>1 DEF TargetsOf, Typed, TypeOK
<1>3. Subtree(p) \in SUBSET Page
  BY SubtreeTyped DEF Typed
<1>4. Locked(j)' = Subtree(p)
  BY <1>1, <1>3 DEF Locked, Typed, TypeOK
<1>5. \A k \in Job \ {j} :
        phase'[k] = phase[k] /\ todo'[k] = todo[k] /\ lock'[k] = lock[k]
  BY <1>1 DEF Typed, TypeOK
<1>6. \A k \in Job \ {j} : Locked(k)' = Locked(k)
  BY <1>5 DEF Locked
<1>7. TargetsLocked'
  BY <1>2, <1>4, <1>5, <1>6 DEF TargetsLocked
<1>. QED
  BY <1>1, <1>5, <1>7

\* Nobody works on the job that is staged.
LEMMA LeasedStage ==
  ASSUME Typed, Leased, NEW j \in Job, NEW p \in Page, Stage(j, p)
  PROVE  Leased'
<1>1. /\ TargetsLocked' /\ phase[j] = "none" /\ UNCHANGED <<lease, worker>>
      /\ \A k \in Job \ {j} : phase'[k] = phase[k] /\ lock'[k] = lock[k]
  BY StagedTargets DEF Leased
<1>2. \A w \in Worker : worker[w].pc # "idle" => worker[w].job \in Job \ {j}
  BY <1>1 DEF Leased, WorkersHoldLease, HoldsLease, Typed, WorkersHaveJobs
<1>3. WorkersHoldLease'
  BY <1>1, <1>2 DEF Leased, WorkersHoldLease, HoldsLease, Locked
<1>. QED
  BY <1>1, <1>3 DEF Leased

\* Nobody works on a job that is staged.
LEMMA LeasedAcceptance ==
  ASSUME Typed, Leased, NEW j \in Job, Activate(j) \/ Drop(j)
  PROVE  Leased'
<1>1. /\ phase[j] = "staging" /\ UNCHANGED worker
      /\ \/ phase'[j] = "rows" /\ todo' = todo /\ lock' = lock
         \/ phase'[j] = "dropped"
      /\ \A k \in Job \ {j} :
           /\ phase'[k] = phase[k] /\ todo'[k] = todo[k]
           /\ lock'[k] = lock[k] /\ lease'[k] = lease[k]
  BY DEF Activate, Drop, Typed, TypeOK
<1>2. \A w \in Worker : worker[w].pc # "idle" => worker[w].job \in Job \ {j}
  BY <1>1 DEF Leased, WorkersHoldLease, HoldsLease, Typed, WorkersHaveJobs
<1>3. TargetsLocked'
  BY <1>1 DEF Leased, TargetsLocked, Locked
<1>4. WorkersHoldLease'
  BY <1>1, <1>2 DEF Leased, WorkersHoldLease, HoldsLease, Locked
<1>. QED
  BY <1>3, <1>4 DEF Leased

\* A claim takes a job that nobody works on.
LEMMA LeasedClaim ==
  ASSUME MaxSteals = 0, Typed, Leased, NEW w \in Worker, NEW j \in Job, Claim(w, j)
  PROVE  Leased'
<1>1. /\ phase[j] \in {"rows", "cleanup"} /\ ~LeaseRunning(j)
      /\ lease' = [lease EXCEPT ![j] = w]
      /\ worker' = [worker EXCEPT ![w] = [pc |-> phase[j], job |-> j, left |-> {}, did |-> {}]]
      /\ UNCHANGED <<phase, lock, todo>>
  BY DEF Claim, Typed, TypeOK
<1>2. ASSUME NEW v \in Worker, worker[v].pc # "idle" PROVE worker[v].job \in Job \ {j}
  <2>1. worker[v].job \in Job /\ lease[worker[v].job] = v /\ v # Free
    BY <1>2, ConstantsAssumption DEF Leased, WorkersHoldLease, HoldsLease, Typed, WorkersHaveJobs
  <2>. QED
    BY <1>1, <1>2, <2>1 DEF LeaseRunning, Works
<1>3. TargetsLocked'
  BY <1>1 DEF Leased, TargetsLocked, Locked
<1>4. ASSUME NEW v \in Worker, v # w
      PROVE  HoldsLease(v)'
  <2>1. worker'[v] = worker[v]
    BY <1>1, <1>4 DEF Typed, TypeOK
  <2>2. SUFFICES ASSUME worker[v].pc # "idle" PROVE HoldsLease(v)'
    BY <2>1 DEF HoldsLease
  <2>3. lease'[worker[v].job] = lease[worker[v].job] /\ worker[v].job \in Job
    BY <1>1, <1>2, <2>2 DEF Typed, TypeOK
  <2>. QED
    BY <1>1, <2>1, <2>3 DEF Leased, WorkersHoldLease, HoldsLease, Locked
<1>5. worker'[w] = [pc |-> phase[j], job |-> j, left |-> {}, did |-> {}] /\ lease'[j] = w
  BY <1>1 DEF Typed, TypeOK
<1>6. HoldsLease(w)'
  BY <1>1, <1>5 DEF HoldsLease
<1>. QED
  BY <1>3, <1>4, <1>6 DEF Leased, WorkersHoldLease

\* What a working invocation does to its own job disturbs no other one.
LEMMA LeasedWork ==
  ASSUME Typed, Leased, NEW w \in Worker, worker[w].pc # "idle",
         \A v \in Worker \ {w} : worker'[v] = worker[v],
         \A k \in Job \ {worker[w].job} :
           /\ phase'[k] = phase[k] /\ todo'[k] = todo[k]
           /\ lock'[k] = lock[k] /\ lease'[k] = lease[k],
         HoldsLease(w)',
         \/ phase'[worker[w].job] \notin {"staging", "rows", "cleanup"}
         \/ /\ lock'[worker[w].job] = lock[worker[w].job]
            /\ todo'[worker[w].job] \subseteq todo[worker[w].job]
  PROVE  Leased'
<1>1. /\ worker[w].job \in Job /\ lease[worker[w].job] = w
      /\ phase[worker[w].job] \in {"rows", "cleanup"}
  BY DEF Leased, WorkersHoldLease, HoldsLease, Typed, WorkersHaveJobs
<1>2. TargetsLocked'
  BY <1>1 DEF Leased, TargetsLocked, Locked
<1>3. ASSUME NEW v \in Worker \ {w} PROVE HoldsLease(v)'
  <2>1. worker'[v] = worker[v]
    OBVIOUS
  <2>2. SUFFICES ASSUME worker[v].pc # "idle" PROVE HoldsLease(v)'
    BY <2>1 DEF HoldsLease
  <2>3. worker[v].job \in Job \ {worker[w].job}
    BY <1>1, <2>2 DEF Leased, WorkersHoldLease, HoldsLease, Typed, WorkersHaveJobs
  <2>. QED
    BY <2>1, <2>3 DEF Leased, WorkersHoldLease, HoldsLease, Locked
<1>. QED
  BY <1>2, <1>3 DEF Leased, WorkersHoldLease

\* Each step of an invocation keeps it.
LEMMA LeasedWorkStep ==
  ASSUME MaxSteals = 0, Typed, Leased, NEW w \in Worker, Work(w) \/ Mishap(w)
  PROVE  Leased'
<1>. DEFINE j == worker[w].job
<1>. USE DEF tree, jobs, stored
<1>t. /\ worker \in [Worker -> Processing]
      /\ phase \in [Job -> {"none", "staging", "rows", "cleanup", "dropped", "gone"}]
      /\ lease \in [Job -> Worker \cup {Free}] /\ todo \in [Job -> SUBSET Target]
      /\ worker[w].pc # "idle" => j \in Job
  BY DEF Typed, TypeOK, WorkersHaveJobs
<1>h. worker[w].pc # "idle" =>
        /\ lease[j] = w
        /\ phase[j] = IF worker[w].pc = "rows" THEN "rows" ELSE "cleanup"
        /\ \A t \in worker[w].left : t.page \in Locked(j)
        /\ \A t \in todo[j] : t.page \in Locked(j)
  BY <1>t DEF Leased, WorkersHoldLease, HoldsLease, TargetsLocked
<1>1. ASSUME NEW k \in Job, Claim(w, k) PROVE Leased'
  BY <1>1, LeasedClaim
<1>2. CASE RemoveRows(w)
  <2>1. /\ worker[w].pc = "rows" /\ UNCHANGED <<lock, todo, lease>>
        /\ phase' = [phase EXCEPT ![j] = "cleanup"]
        /\ worker' = [worker EXCEPT ![w].pc = "cleanup"]
    BY <1>2 DEF RemoveRows
  <2>2. HoldsLease(w)'
    BY <1>t, <1>h, <2>1 DEF HoldsLease, Locked, Processing
  <2>. QED
    BY <1>t, <2>1, <2>2, LeasedWork
<1>3. CASE ReadTargets(w)
  <2>1. /\ worker[w].pc = "cleanup" /\ UNCHANGED <<phase, lock, todo, lease>>
        /\ worker' = [worker EXCEPT ![w].pc = "working", ![w].left = todo[j]]
    BY <1>3 DEF ReadTargets
  <2>2. HoldsLease(w)'
    BY <1>t, <1>h, <2>1 DEF HoldsLease, Locked, Processing
  <2>. QED
    BY <1>t, <2>1, <2>2, LeasedWork
<1>4. CASE Mark(w)
  <2>1. /\ worker[w].pc = "marking" /\ UNCHANGED <<phase, lock, lease>>
        /\ todo' = [todo EXCEPT ![j] = @ \ worker[w].did] \/ todo' = todo
        /\ worker' = [worker EXCEPT ![w].pc = "working", ![w].left = @ \ worker[w].did,
                                    ![w].did = {}]
    BY <1>4 DEF Mark
  <2>2. HoldsLease(w)'
    BY <1>t, <1>h, <2>1 DEF HoldsLease, Locked, Processing
  <2>3. /\ todo'[j] \subseteq todo[j]
        /\ \A k \in Job \ {j} : todo'[k] = todo[k]
    BY <1>t, <2>1
  <2>. QED
    BY <1>t, <2>1, <2>2, <2>3, LeasedWork
<1>5. ASSUME NEW t \in worker[w].left, Perform(w, t) \/ Fail(w, t) PROVE Leased'
  <2>1. /\ worker[w].pc = "working" /\ UNCHANGED <<phase, lock, todo, lease>>
        /\ \/ worker' = [worker EXCEPT ![w].pc = "marking", ![w].did = {t}]
           \/ worker' = [worker EXCEPT ![w].left = @ \ {t}]
    BY <1>5 DEF Perform, Fail, AfterFailure
  <2>2. HoldsLease(w)'
    BY <1>t, <1>h, <2>1 DEF HoldsLease, Locked, Processing
  <2>. QED
    BY <1>t, <2>1, <2>2, LeasedWork
<1>6. CASE Finish(w) \/ Release(w) \/ Die(w)
  <2>1. worker[w].pc # "idle" /\ worker' = [worker EXCEPT ![w] = Idle]
    BY <1>6 DEF Finish, Release, Die
  <2>2. HoldsLease(w)'
    BY <1>t, <2>1 DEF HoldsLease, Idle
  <2>3. \A k \in Job \ {j} : /\ phase'[k] = phase[k] /\ todo'[k] = todo[k]
                             /\ lock'[k] = lock[k] /\ lease'[k] = lease[k]
    BY <1>t, <1>6 DEF Finish, Release, Die, Typed, TypeOK
  <2>4. \/ phase'[j] = "gone"
        \/ lock'[j] = lock[j] /\ todo'[j] = todo[j]
    BY <1>t, <1>h, <1>6, <2>1 DEF Finish, Release, Die, Holds
  <2>. QED
    BY <1>t, <2>1, <2>2, <2>3, <2>4, LeasedWork
<1>. QED
  BY <1>1, <1>2, <1>3, <1>4, <1>5, <1>6 DEF Work, Mishap

\* Every step keeps it.
LEMMA LeasedStep == MaxSteals = 0 /\ Typed /\ Leased /\ [Next]_vars => Leased'
<1>. SUFFICES ASSUME MaxSteals = 0, Typed, Leased, [Next]_vars
              PROVE  Leased'
  OBVIOUS
<1>. USE DEF tree, jobs, stored
<1>1. CASE Routes
  BY <1>1, LeasedUnchanged DEF Routes, AdmitCreate, AdmitMove, AdmitArchive, AdmitRestore,
                               Admit, Write
<1>2. CASE Contents \/ UNCHANGED vars
  BY <1>2, LeasedUnchanged DEF Contents, NextEpoch, Open, Compact, vars
<1>3. CASE Acceptance
  BY <1>3, LeasedAcceptance, LeasedStage DEF Acceptance
<1>4. CASE \E w \in Worker : Work(w) \/ Mishap(w)
  BY <1>4, LeasedWorkStep
<1>. QED
  BY <1>1, <1>2, <1>3, <1>4 DEF Next

\* While no lease runs out under a working claim, deleting a page never takes the
\* content of a page that exists, one created again under its id included.
THEOREM LiveContentStays ==
  ASSUME MaxSteals = 0
  PROVE  Spec => LiveContentKept
<1>. DEFINE Kept == \A p \in live \cap live' :
              /\ p \in objects => p \in objects'
              /\ \A e \in 1..MaxEpoch : <<p, e>> \in rooms => <<p, e>> \in rooms'
<1>1. Init => Leased
  BY DEF Init, Leased, TargetsLocked, WorkersHoldLease, HoldsLease, Idle
<1>2. DeletionInv /\ Leased /\ [Next]_vars => Leased'
  BY LeasedStep, InvIsOwned
<1>3. DeletionInv /\ Leased /\ [Next]_vars => Kept \/ UNCHANGED vars
  <2>. SUFFICES ASSUME DeletionInv, Leased, Next
                PROVE  Kept
    BY DEF vars
  <2>1. CASE objects \subseteq objects' /\ rooms \subseteq rooms'
    BY <2>1
  <2>2. ASSUME NEW w \in Worker, NEW t \in worker[w].left, Perform(w, t) \/ Fail(w, t)
        PROVE  Kept
    <3>1. /\ worker[w].pc = "working" /\ worker[w].job \in Job
          /\ phase[worker[w].job] = "cleanup" /\ t.page \in Locked(worker[w].job)
      BY <2>2 DEF Perform, Fail, Leased, WorkersHoldLease, HoldsLease, DeletionInv,
                  WorkersHaveJobs
    <3>2. t.page \notin live
      BY <3>1 DEF DeletionInv, GoneStaysGone
    <3>3. /\ objects' = objects \/ objects' = objects \ {t.page}
          /\ rooms' = rooms \/ rooms' = rooms \ {<<t.page, t.epoch>>}
      BY <2>2 DEF Perform, Fail, Effect, stored
    <3>. QED
      BY <3>2, <3>3
  <2>3. \/ objects \subseteq objects' /\ rooms \subseteq rooms'
        \/ \E w \in Worker : \E t \in worker[w].left : Perform(w, t) \/ Fail(w, t)
    BY DEF Next, Routes, Contents, Acceptance, Work, Mishap, AdmitCreate, AdmitMove,
           AdmitArchive, AdmitRestore, Admit, Write, NextEpoch, Open, Compact, Activate,
           Drop, Stage, Claim, RemoveRows, ReadTargets, Mark, Finish, Release, Die, stored
  <2>. QED
    BY <2>1, <2>2, <2>3
<1>. QED
  BY <1>1, <1>2, <1>3, DeletionInvariant, PTL DEF Spec, LiveContentKept

------------------------------------------------------------------------------
(* What an accepted deletion has completed, leases that run out included.   *)

\* The fence of next_attempt_at as one invariant.
ErasureInv == TargetsLocked /\ WorkersFenced

\* No room of a page that a job has deleted is filled again.
LEMMA DeletedStaysEmpty ==
  ASSUME Typed, Owned, [Next]_vars, NEW j \in Job, phase[j] = "cleanup",
         NEW p \in Locked(j), NEW e, <<p, e>> \notin rooms
  PROVE  <<p, e>> \notin rooms'
<1>. USE DEF tree, jobs, stored
<1>1. p \notin live
  BY DEF Owned, GoneStaysGone
<1>2. ASSUME NEW q \in Page, Open(q) PROVE <<p, e>> \notin rooms'
  BY <1>1, <1>2 DEF Open
<1>3. ASSUME NEW w \in Worker, NEW t \in worker[w].left, Perform(w, t) \/ Fail(w, t)
      PROVE  rooms' \subseteq rooms
  BY <1>3 DEF Perform, Fail, Effect
<1>4. \/ \E q \in Page : Open(q)
      \/ \E w \in Worker : \E t \in worker[w].left : Perform(w, t) \/ Fail(w, t)
      \/ rooms' = rooms
  BY DEF Next, vars, Routes, Contents, Acceptance, Work, Mishap, AdmitCreate, AdmitMove,
         AdmitArchive, AdmitRestore, Admit, Write, NextEpoch, Compact, Activate,
         Drop, Stage, Claim, RemoveRows, ReadTargets, Mark, Finish, Release, Die
<1>. QED
  BY <1>2, <1>3, <1>4

\* An invocation that does not step stays fenced if whoever steps leaves its job
\* alone or takes its lease.
LEMMA FencedOther ==
  ASSUME Typed, Owned, [Next]_vars, NEW v \in Worker, Fenced(v), worker'[v] = worker[v],
         worker[v].pc # "idle" /\ lease'[worker[v].job] = v =>
           /\ lease[worker[v].job] = v
           /\ phase'[worker[v].job] = phase[worker[v].job]
           /\ lock'[worker[v].job] = lock[worker[v].job]
  PROVE  Fenced(v)'
<1>. DEFINE j == worker[v].job
<1>. SUFFICES ASSUME worker[v].pc # "idle", lease'[j] = v
              PROVE  Fenced(v)'
  BY DEF Fenced, Holds
<1>1. /\ lease[j] = v /\ phase'[j] = phase[j] /\ Locked(j)' = Locked(j) /\ j \in Job
      /\ phase[j] = IF worker[v].pc = "rows" THEN "rows" ELSE "cleanup"
      /\ \A t \in worker[v].left : t.page \in Locked(j)
  BY DEF Fenced, Holds, Locked, Typed, WorkersHaveJobs
<1>2. ASSUME worker[v].pc = "marking", NEW t \in worker[v].did
      PROVE  t.page \in Locked(j) /\ Emptied(t)'
  <2>1. t.page \in Locked(j) /\ Emptied(t) /\ phase[j] = "cleanup"
    BY <1>1, <1>2 DEF Fenced, Holds
  <2>. QED
    BY <1>1, <2>1, DeletedStaysEmpty DEF Emptied
<1>. QED
  BY <1>1, <1>2 DEF Fenced

\* A step that leaves the workers, the leases and the jobs alone.
LEMMA FencedUnchanged ==
  ASSUME Typed, Owned, ErasureInv, [Next]_vars, UNCHANGED <<phase, lock, todo, lease, worker>>
  PROVE  ErasureInv'
<1>1. TargetsLocked'
  BY DEF ErasureInv, TargetsLocked, Locked
<1>2. WorkersFenced'
  BY FencedOther DEF ErasureInv, WorkersFenced
<1>. QED
  BY <1>1, <1>2 DEF ErasureInv

\* Nobody holds the lease of a job that is staged, activated or dropped.
LEMMA FencedAcceptance ==
  ASSUME Typed, Owned, ErasureInv, [Next]_vars, NEW j \in Job,
         Activate(j) \/ Drop(j) \/ \E p \in Page : Stage(j, p)
  PROVE  ErasureInv'
<1>1. /\ phase[j] \in {"none", "staging"} /\ UNCHANGED worker
      /\ \A k \in Job \ {j} : /\ phase'[k] = phase[k] /\ lock'[k] = lock[k]
                              /\ lease'[k] = lease[k]
      /\ lease'[j] \in {Free, lease[j]}
  <2>1. CASE Activate(j) \/ Drop(j)
    BY <2>1 DEF Activate, Drop, Typed, TypeOK
  <2>2. ASSUME NEW p \in Page, Stage(j, p)
        PROVE  /\ phase[j] \in {"none", "staging"} /\ UNCHANGED worker
               /\ \A k \in Job \ {j} : /\ phase'[k] = phase[k] /\ lock'[k] = lock[k]
                                       /\ lease'[k] = lease[k]
               /\ lease'[j] \in {Free, lease[j]}
    BY <2>2, StagedTargets DEF ErasureInv
  <2>. QED
    BY <2>1, <2>2
<1>2. TargetsLocked'
  <2>1. CASE Activate(j) \/ Drop(j)
    <3>1. /\ phase[j] = "staging"
          /\ \/ phase'[j] = "rows" /\ todo' = todo /\ lock' = lock
             \/ phase'[j] = "dropped"
          /\ \A k \in Job \ {j} : /\ phase'[k] = phase[k] /\ todo'[k] = todo[k]
                                  /\ lock'[k] = lock[k]
      BY <2>1 DEF Activate, Drop, Typed, TypeOK
    <3>. QED
      BY <3>1 DEF ErasureInv, TargetsLocked, Locked
  <2>2. CASE \E p \in Page : Stage(j, p)
    BY <2>2, StagedTargets DEF ErasureInv
  <2>. QED
    BY <2>1, <2>2
<1>3. ASSUME NEW v \in Worker PROVE Fenced(v)'
  <2>. DEFINE k == worker[v].job
  <2>1. Fenced(v) /\ worker'[v] = worker[v]
    BY <1>1 DEF ErasureInv, WorkersFenced
  <2>2. ASSUME worker[v].pc # "idle", lease'[k] = v
        PROVE  lease[k] = v /\ phase'[k] = phase[k] /\ lock'[k] = lock[k]
    <3>1. k \in Job /\ v # Free
      BY <2>2, ConstantsAssumption DEF Typed, WorkersHaveJobs
    <3>2. lease[k] = v
      BY <1>1, <2>2, <3>1
    <3>3. phase[k] \in {"rows", "cleanup"}
      BY <2>1, <2>2, <3>2 DEF Fenced, Holds
    <3>. QED
      BY <1>1, <3>1, <3>2, <3>3
  <2>. QED
    BY <2>1, <2>2, FencedOther
<1>. QED
  BY <1>2, <1>3 DEF ErasureInv, WorkersFenced

\* A step of one invocation that touches no job but its own, and that one only
\* under the lease or by taking the lease, keeps the others fenced.
LEMMA FencedWork ==
  ASSUME Typed, Owned, ErasureInv, [Next]_vars, NEW w \in Worker, NEW j \in Job,
         \A v \in Worker \ {w} : worker'[v] = worker[v],
         \A k \in Job \ {j} : /\ phase'[k] = phase[k] /\ todo'[k] = todo[k]
                              /\ lock'[k] = lock[k] /\ lease'[k] = lease[k],
         \/ lock'[j] = lock[j] /\ todo'[j] \subseteq todo[j]
         \/ phase'[j] \notin {"staging", "rows", "cleanup"},
         \/ lease[j] = w \/ lease'[j] = w
         \/ phase'[j] = phase[j] /\ lock'[j] = lock[j] /\ lease'[j] = lease[j],
         lease'[j] \in {w, Free, lease[j]},
         phase[j] \in {"rows", "cleanup"} \/ phase'[j] = phase[j],
         Fenced(w)'
  PROVE  ErasureInv'
<1>1. TargetsLocked'
  BY DEF ErasureInv, TargetsLocked, Locked
<1>2. ASSUME NEW v \in Worker \ {w} PROVE Fenced(v)'
  <2>. DEFINE k == worker[v].job
  <2>1. Fenced(v) /\ worker'[v] = worker[v]
    BY DEF ErasureInv, WorkersFenced
  <2>2. ASSUME worker[v].pc # "idle", lease'[k] = v
        PROVE  lease[k] = v /\ phase'[k] = phase[k] /\ lock'[k] = lock[k]
    <3>1. k \in Job /\ v # Free /\ v # w
      BY <2>2, ConstantsAssumption DEF Typed, WorkersHaveJobs
    <3>. QED
      BY <2>2, <3>1
  <2>. QED
    BY <2>1, <2>2, FencedOther
<1>. QED
  BY <1>1, <1>2 DEF ErasureInv, WorkersFenced

\* Each step of an invocation keeps the fence.
LEMMA FencedWorkStep ==
  ASSUME Typed, Owned, ErasureInv, [Next]_vars, NEW w \in Worker, Work(w) \/ Mishap(w)
  PROVE  ErasureInv'
<1>. DEFINE j == worker[w].job
<1>. USE DEF tree, jobs, stored
<1>t. /\ worker \in [Worker -> Processing]
      /\ phase \in [Job -> {"none", "staging", "rows", "cleanup", "dropped", "gone"}]
      /\ lease \in [Job -> Worker \cup {Free}] /\ todo \in [Job -> SUBSET Target]
      /\ lock \in [Job -> [Page -> 0..clock]]
      /\ worker[w].pc # "idle" => j \in Job
  BY DEF Typed, TypeOK, WorkersHaveJobs
<1>h. worker[w].pc # "idle" /\ lease[j] = w =>
        /\ phase[j] = IF worker[w].pc = "rows" THEN "rows" ELSE "cleanup"
        /\ \A t \in worker[w].left : t.page \in Locked(j)
        /\ \A t \in todo[j] : t.page \in Locked(j)
  BY <1>t DEF ErasureInv, WorkersFenced, Fenced, Holds, TargetsLocked
<1>1. ASSUME NEW k \in Job, Claim(w, k) PROVE ErasureInv'
  <2>1. /\ phase[k] \in {"rows", "cleanup"} /\ UNCHANGED <<phase, lock, todo>>
        /\ lease' = [lease EXCEPT ![k] = w]
        /\ worker' = [worker EXCEPT ![w] = [pc |-> phase[k], job |-> k, left |-> {}, did |-> {}]]
    BY <1>1 DEF Claim
  <2>2. Fenced(w)'
    BY <1>t, <2>1 DEF Fenced
  <2>. QED
    BY <1>t, <2>1, <2>2, FencedWork
<1>2. CASE RemoveRows(w)
  <2>1. /\ worker[w].pc = "rows" /\ lease[j] = w /\ UNCHANGED <<lock, todo, lease>>
        /\ phase' = [phase EXCEPT ![j] = "cleanup"] /\ phase[j] = "rows"
        /\ worker' = [worker EXCEPT ![w].pc = "cleanup"]
    BY <1>2 DEF RemoveRows, Holds
  <2>2. Fenced(w)'
    BY <1>t, <1>h, <2>1 DEF Fenced, Locked, Processing
  <2>. QED
    BY <1>t, <2>1, <2>2, FencedWork
<1>3. CASE ReadTargets(w)
  <2>1. /\ worker[w].pc = "cleanup" /\ UNCHANGED <<phase, lock, todo, lease>>
        /\ worker' = [worker EXCEPT ![w].pc = "working", ![w].left = todo[j]]
    BY <1>3 DEF ReadTargets
  <2>2. Fenced(w)'
    BY <1>t, <1>h, <2>1 DEF Fenced, Holds, Locked, Processing
  <2>. QED
    BY <1>t, <2>1, <2>2, FencedWork
<1>4. CASE Mark(w)
  <2>1. /\ worker[w].pc = "marking" /\ UNCHANGED <<phase, lock, lease>>
        /\ todo' = [todo EXCEPT ![j] = @ \ worker[w].did] \/ todo' = todo
        /\ worker' = [worker EXCEPT ![w].pc = "working", ![w].left = @ \ worker[w].did,
                                    ![w].did = {}]
    BY <1>4 DEF Mark
  <2>2. Fenced(w)'
    BY <1>t, <1>h, <2>1 DEF Fenced, Holds, Locked, Processing
  <2>3. /\ todo'[j] \subseteq todo[j]
        /\ \A k \in Job \ {j} : todo'[k] = todo[k]
    BY <1>t, <2>1
  <2>. QED
    BY <1>t, <2>1, <2>2, <2>3, FencedWork
<1>5. ASSUME NEW t \in worker[w].left, Perform(w, t) PROVE ErasureInv'
  <2>1. /\ worker[w].pc = "working" /\ UNCHANGED <<phase, lock, todo, lease>>
        /\ worker' = [worker EXCEPT ![w].pc = "marking", ![w].did = {t}]
    BY <1>5 DEF Perform
  <2>2. Emptied(t)'
    BY <1>5 DEF Perform, Effect, Emptied
  <2>3. Fenced(w)'
    BY <1>t, <1>h, <2>1, <2>2 DEF Fenced, Holds, Locked, Processing
  <2>. QED
    BY <1>t, <2>1, <2>3, FencedWork
<1>6. ASSUME NEW t \in worker[w].left, Fail(w, t) PROVE ErasureInv'
  <2>1. /\ worker[w].pc = "working" /\ UNCHANGED <<phase, lock, todo, lease>>
        /\ worker' = [worker EXCEPT ![w].left = @ \ {t}]
    BY <1>6 DEF Fail, AfterFailure
  <2>2. Fenced(w)'
    BY <1>t, <1>h, <2>1 DEF Fenced, Holds, Locked, Processing
  <2>. QED
    BY <1>t, <2>1, <2>2, FencedWork
<1>7. CASE Finish(w) \/ Release(w) \/ Die(w)
  <2>1. worker[w].pc # "idle" /\ worker' = [worker EXCEPT ![w] = Idle]
    BY <1>7 DEF Finish, Release, Die
  <2>2. Fenced(w)'
    BY <1>t, <2>1 DEF Fenced, Idle
  <2>3. \A k \in Job \ {j} : /\ phase'[k] = phase[k] /\ todo'[k] = todo[k]
                             /\ lock'[k] = lock[k] /\ lease'[k] = lease[k]
    BY <1>t, <1>7 DEF Finish, Release, Die
  <2>4. /\ \/ lock'[j] = lock[j] /\ todo'[j] = todo[j]
           \/ phase'[j] = "gone"
        /\ \/ lease[j] = w
           \/ phase'[j] = phase[j] /\ lock'[j] = lock[j] /\ lease'[j] = lease[j]
        /\ lease'[j] \in {Free, lease[j]}
    BY <1>t, <1>7, <2>1 DEF Finish, Release, Die, Holds
  <2>5. phase[j] \in {"rows", "cleanup"} \/ phase'[j] = phase[j]
    BY <1>h, <2>1, <2>4, <1>7 DEF Finish, Release, Die, Holds
  <2>. QED
    BY <1>t, <2>1, <2>2, <2>3, <2>4, <2>5, FencedWork
<1>. QED
  BY <1>1, <1>2, <1>3, <1>4, <1>5, <1>6, <1>7 DEF Work, Mishap

\* Every step keeps the fence.
LEMMA FencedStep == Typed /\ Owned /\ ErasureInv /\ [Next]_vars => ErasureInv'
<1>. SUFFICES ASSUME Typed, Owned, ErasureInv, [Next]_vars
              PROVE  ErasureInv'
  OBVIOUS
<1>1. CASE Routes \/ Contents \/ UNCHANGED vars
  <2>1. UNCHANGED <<phase, lock, todo, lease, worker>>
    BY <1>1 DEF Routes, AdmitCreate, AdmitMove, AdmitArchive, AdmitRestore, Admit, Write,
                Contents, NextEpoch, Open, Compact, vars, tree, jobs, stored
  <2>. QED
    BY <2>1, FencedUnchanged
<1>2. CASE Acceptance
  BY <1>2, FencedAcceptance DEF Acceptance
<1>3. CASE \E w \in Worker : Work(w) \/ Mishap(w)
  BY <1>3, FencedWorkStep
<1>. QED
  BY <1>1, <1>2, <1>3 DEF Next

\* What a step does to a job in its cleanup phase.
Complete(j) ==
  /\ \A t \in todo[j] \ todo'[j] : Emptied(t)'
  /\ \A p \in Locked(j), e \in Nat : <<p, e>> \notin rooms => <<p, e>> \notin rooms'
  /\ phase'[j] # "cleanup" => phase'[j] = "gone" /\ todo[j] = {}

\* Only the acceptance, the removal of the rows and the end of a job change which
\* jobs are accepted and what they have locked.
JobsKept ==
  \A j \in Job :
    /\ \A ph \in {"rows", "cleanup"} : phase'[j] = ph <=> phase[j] = ph
    /\ phase[j] \in {"rows", "cleanup"} => lock'[j] = lock[j] /\ root'[j] = root[j]

\* An invocation ends the job that it holds.
Ends(w) == Finish(w) /\ Holds(w)

\* A cleanup phase completes a target only with its effect, and ends with none left.
LEMMA CompleteStep ==
  ASSUME Typed, Owned, ErasureInv, [Next]_vars, NEW j \in Job, phase[j] = "cleanup"
  PROVE  Complete(j)
<1>t. /\ phase \in [Job -> {"none", "staging", "rows", "cleanup", "dropped", "gone"}]
      /\ todo \in [Job -> SUBSET Target]
  BY DEF Typed, TypeOK
<1>1. \A p \in Locked(j), e \in Nat : <<p, e>> \notin rooms => <<p, e>> \notin rooms'
  BY DeletedStaysEmpty
<1>2. ASSUME NEW w \in Worker, Mark(w) PROVE Complete(j)
  <2>1. /\ worker[w].pc = "marking" /\ UNCHANGED <<phase, rooms>>
        /\ todo' = IF Holds(w) THEN [todo EXCEPT ![worker[w].job] = @ \ worker[w].did] ELSE todo
    BY <1>2 DEF Mark, stored
  <2>2. ASSUME NEW t \in todo[j] \ todo'[j] PROVE Emptied(t)
    <3>1. Holds(w) /\ t \in worker[w].did
      BY <1>t, <2>1, <2>2
    <3>. QED
      BY <2>1, <3>1 DEF ErasureInv, WorkersFenced, Fenced
  <2>3. \A t : Emptied(t)' <=> Emptied(t)
    BY <2>1 DEF Emptied
  <2>. QED
    BY <1>1, <2>1, <2>2, <2>3 DEF Complete
<1>3. ASSUME NEW w \in Worker, Finish(w) PROVE Complete(j)
  <2>1. \/ UNCHANGED <<phase, todo>>
        \/ /\ phase' = [phase EXCEPT ![worker[w].job] = "gone"]
           /\ todo' = [todo EXCEPT ![worker[w].job] = {}] /\ todo[worker[w].job] = {}
    BY <1>3 DEF Finish, NothingPending, jobs
  <2>. QED
    BY <1>t, <1>1, <2>1 DEF Complete
<1>4. \/ \E w \in Worker : Mark(w) \/ Finish(w)
      \/ phase'[j] = phase[j] /\ todo'[j] = todo[j]
  <2>1. CASE Routes \/ Contents \/ UNCHANGED vars
    BY <2>1 DEF Routes, AdmitCreate, AdmitMove, AdmitArchive, AdmitRestore, Admit, Write,
                Contents, NextEpoch, Open, Compact, vars, tree, jobs, stored
  <2>2. ASSUME NEW k \in Job, Activate(k) \/ Drop(k)
        PROVE  phase'[j] = phase[j] /\ todo'[j] = todo[j]
    BY <1>t, <2>2 DEF Activate, Drop
  <2>3. ASSUME NEW k \in Job, NEW p \in Page, Stage(k, p)
        PROVE  phase'[j] = phase[j] /\ todo'[j] = todo[j]
    <3>1. /\ phase[k] = "none" /\ phase' = [phase EXCEPT ![k] = "staging"]
          /\ todo' = [todo EXCEPT ![k] = TargetsOf(Subtree(p))]
      BY <2>3, Zenon DEF Stage
    <3>. QED
      BY <1>t, <3>1
  <2>4. ASSUME NEW w \in Worker, RemoveRows(w)
        PROVE  phase'[j] = phase[j] /\ todo'[j] = todo[j]
    BY <1>t, <2>4 DEF RemoveRows
  <2>5. ASSUME NEW w \in Worker, Work(w) \/ Mishap(w), ~RemoveRows(w), ~Mark(w), ~Finish(w)
        PROVE  phase'[j] = phase[j] /\ todo'[j] = todo[j]
    BY <2>5 DEF Work, Mishap, Claim, ReadTargets, Release, Perform, Die, Fail, AfterFailure, jobs
  <2>. QED
    BY <2>1, <2>2, <2>3, <2>4, <2>5 DEF Next, Acceptance
<1>5. CASE phase'[j] = phase[j] /\ todo'[j] = todo[j]
  BY <1>1, <1>5 DEF Complete
<1>. QED
  BY <1>2, <1>3, <1>4, <1>5

\* Every other step keeps the jobs, and of those only writes of routes touch the tree.
LEMMA JobSteps ==
  ASSUME Typed, ErasureInv, [Next]_vars
  PROVE  \/ \E j \in Job : Activate(j)
         \/ \E w \in Worker : RemoveRows(w) \/ Ends(w)
         \/ (\E r \in requests : Write(r)) /\ JobsKept
         \/ UNCHANGED <<live, parent, stamp>> /\ JobsKept
<1>. USE DEF tree, jobs, stored
<1>t. /\ phase \in [Job -> {"none", "staging", "rows", "cleanup", "dropped", "gone"}]
      /\ lock \in [Job -> [Page -> 0..clock]] /\ root \in [Job -> Node]
  BY DEF Typed, TypeOK
<1>1. CASE Routes
  BY <1>1 DEF Routes, AdmitCreate, AdmitMove, AdmitArchive, AdmitRestore, Admit, Write, JobsKept
<1>2. CASE Contents \/ UNCHANGED vars
  BY <1>2 DEF Contents, NextEpoch, Open, Compact, vars, JobsKept
<1>3. ASSUME NEW j \in Job, Drop(j)
      PROVE  UNCHANGED <<live, parent, stamp>> /\ JobsKept
  BY <1>t, <1>3 DEF Drop, JobsKept
<1>4. ASSUME NEW j \in Job, NEW p \in Page, Stage(j, p)
      PROVE  UNCHANGED <<live, parent, stamp>> /\ JobsKept
  <2>1. /\ phase[j] = "none" /\ phase' = [phase EXCEPT ![j] = "staging"] /\ UNCHANGED tree
        /\ root' = [root EXCEPT ![j] = p]
        /\ lock' = [lock EXCEPT
             ![j] = [q \in Page |-> IF q \in Subtree(p) THEN stamp[q] ELSE Active]]
    BY <1>4, Zenon DEF Stage
  <2>. QED
    BY <1>t, <2>1 DEF JobsKept
<1>5. ASSUME NEW w \in Worker, Work(w) \/ Mishap(w), ~RemoveRows(w), ~Ends(w)
      PROVE  UNCHANGED <<live, parent, stamp>> /\ JobsKept
  <2>1. UNCHANGED <<live, parent, stamp, phase, lock, root>>
    BY <1>5 DEF Work, Mishap, Claim, ReadTargets, Mark, Finish, Ends, Release, Perform, Die,
                Fail, AfterFailure
  <2>. QED
    BY <2>1 DEF JobsKept
<1>. QED
  BY <1>1, <1>2, <1>3, <1>4, <1>5 DEF Next, Acceptance

\* The invocation that ends a job has it in its cleanup phase.
LEMMA EndsCleanup ==
  ASSUME Typed, ErasureInv, NEW w \in Worker, Ends(w)
  PROVE  /\ worker[w].job \in Job /\ phase[worker[w].job] = "cleanup"
         /\ phase' = [phase EXCEPT ![worker[w].job] = "gone"]
         /\ \A k \in Job \ {worker[w].job} : lock'[k] = lock[k]
         /\ UNCHANGED tree
<1>1. worker[w].pc = "working" /\ Holds(w) /\ UNCHANGED tree
      /\ phase' = [phase EXCEPT ![worker[w].job] = "gone"]
      /\ lock' = [lock EXCEPT ![worker[w].job] = [p \in Page |-> Active]]
  BY DEF Ends, Finish
<1>. QED
  BY <1>1 DEF ErasureInv, WorkersFenced, Fenced, Typed, TypeOK, WorkersHaveJobs

\* The fence holds in every reachable state.
LEMMA ErasureInvariant == Spec => []ErasureInv
<1>1. Init => ErasureInv
  BY DEF Init, ErasureInv, TargetsLocked, WorkersFenced, Fenced, Idle
<1>2. DeletionInv /\ ErasureInv /\ [Next]_vars => ErasureInv'
  BY FencedStep, InvIsOwned
<1>. QED
  BY <1>1, <1>2, DeletionInvariant, PTL DEF Spec

\* The erasure of what acceptance listed is complete when the job disappears, however
\* many targets failed, invocations died and leases ran out under a working claim.
THEOREM CompletedStaysErased == Spec => CompletedIsErased
<1>1. Spec => []ErasureInv
  BY ErasureInvariant
<1>2. DeletionInv /\ ErasureInv /\ [Next]_vars
        => \A j \in Job : phase[j] = "cleanup" => Complete(j)
  BY CompleteStep, InvIsOwned
<1>3. DeletionInv /\ ErasureInv /\ [Next]_vars
        => [\A j \in Job : phase[j] = "cleanup" =>
              /\ \A t \in todo[j] \ todo'[j] : Emptied(t)'
              /\ \A p \in Locked(j), e \in 1..MaxEpoch :
                   <<p, e>> \notin rooms => <<p, e>> \notin rooms'
              /\ phase'[j] # "cleanup" => phase'[j] = "gone" /\ todo[j] = {}]_vars
  BY <1>2 DEF Complete
<1>. QED
  BY <1>1, <1>3, DeletionInvariant, PTL DEF Spec, CompletedIsErased

------------------------------------------------------------------------------
(* The deletion of whole groups.                                            *)

\* A group that is being erased had pages.
ErasingNotEmpty == \A j \in Job : phase[j] = "cleanup" => Locked(j) # {}

\* Groups of jobs that are kept are the same.
LEMMA GroupsKept ==
  ASSUME JobsKept
  PROVE  Groups("rows")' = Groups("rows") /\ Groups("cleanup")' = Groups("cleanup")
<1>1. \A j \in Job : phase[j] \in {"rows", "cleanup"} => Locked(j)' = Locked(j)
  BY DEF JobsKept, Locked
<1>2. \A j \in Job, ph \in {"rows", "cleanup"} : phase'[j] = ph <=> phase[j] = ph
  BY DEF JobsKept
<1>. QED
  BY <1>1, <1>2 DEF Groups

\* What a route writes is what the promise allows.
LEMMA WritePromised ==
  ASSUME Typed, Owned, NEW r \in requests, Write(r), JobsKept
  PROVE  [Promise!Next]_(Promise!vars)
<1>. USE DEF Typed, TypeOK, Promise!Exists, Promise!Doomed, Promise!Place, Promise!vars
<1>1. Groups("rows")' = Groups("rows") /\ Groups("cleanup")' = Groups("cleanup")
  BY GroupsKept
<1>2. r \in Request /\ r.page \in Page
  BY DEF Request
<1>3. \A j \in Job : phase[j] = "rows" => Frozen(j)
  BY DEF Owned
<1>4. CASE CommitCreate(r)
  <2>1. /\ r.page \notin live /\ r.to \in {Top} \cup live /\ live' = live \cup {r.page}
        /\ parent' = [parent EXCEPT ![r.page] = r.to]
        /\ stamp' = [stamp EXCEPT ![r.page] = Active]
        /\ r.to \notin UNION Groups("rows") /\ r.page \notin UNION Groups("cleanup")
    BY <1>4 DEF CommitCreate, MayInsert, LockedIn, Groups
  <2>2. Home' = [x \in live \cup {r.page} |-> IF x = r.page THEN r.to ELSE Home[x]]
    BY <1>2, <2>1 DEF Home
  <2>3. Trash' = Trash
    BY <1>2, <2>1 DEF Trash
  <2>4. DOMAIN Home = live
    BY DEF Home
  <2>5. r.page \in Page \ (DOMAIN Home \cup UNION Groups("cleanup"))
    BY <1>2, <2>1, <2>4
  <2>6. r.to \in {Top} \cup (DOMAIN Home \ UNION Groups("rows"))
    BY <2>1, <2>4
  <2>7. Promise!Create
    <3>1. \E p \in Page \ (DOMAIN Home \cup UNION Groups("cleanup")),
             q \in {Top} \cup (DOMAIN Home \ UNION Groups("rows")) :
            Home' = [x \in DOMAIN Home \cup {p} |-> IF x = p THEN q ELSE Home[x]]
      <4>. WITNESS r.page \in Page \ (DOMAIN Home \cup UNION Groups("cleanup")),
                   r.to \in {Top} \cup (DOMAIN Home \ UNION Groups("rows"))
      <4>. QED
        BY <2>2, <2>4
    <3>. QED
      BY <1>1, <2>3, <3>1 DEF Promise!Create
  <2>. QED
    BY <2>7 DEF Promise!Next
<1>5. CASE CommitMove(r)
  <2>1. /\ r.page \in live /\ stamp[r.page] = Active /\ r.to \in {Top} \cup live
        /\ UNCHANGED <<live, stamp>> /\ parent' = [parent EXCEPT ![r.page] = r.to]
        /\ parent[r.page] # r.to => r.to \notin UNION Groups("rows")
    BY <1>5 DEF CommitMove, MayMove, IsActive, LockedIn, Groups
  <2>2. Trash' = Trash /\ r.page \notin Trash
    BY <2>1 DEF Trash
  <2>3. r.page \notin UNION Groups("rows")
    BY <1>3, <2>1 DEF Groups, Frozen, Locked
  <2>4. Home' = [Home EXCEPT ![r.page] = r.to] /\ DOMAIN Home = live
    BY <1>2, <2>1 DEF Home
  <2>5. CASE parent[r.page] = r.to
    <3>1. Home' = Home
      BY <1>2, <2>1, <2>5 DEF Home
    <3>. QED
      BY <1>1, <2>2, <3>1
  <2>6. CASE parent[r.page] # r.to
    BY <1>1, <2>1, <2>2, <2>3, <2>4, <2>6 DEF Promise!Next, Promise!Move
  <2>. QED
    BY <2>5, <2>6
<1>6. CASE CommitArchive(r)
  <2>1. UNCHANGED <<live, parent>> /\ \A p \in Page : stamp[p] # Active => stamp'[p] = stamp[p]
    BY <1>6 DEF CommitArchive
  <2>2. Home' = Home /\ DOMAIN Home = live
    BY <2>1 DEF Home
  <2>3. Trash \subseteq Trash' /\ Trash' \subseteq live
    BY <2>1 DEF Trash
  <2>. QED
    BY <1>1, <2>2, <2>3 DEF Promise!Next, Promise!Archive
<1>7. CASE CommitRestore(r)
  <2>1. /\ UNCHANGED <<live, parent>>
        /\ \A p \in Page : stamp'[p] # Active => stamp'[p] = stamp[p]
        /\ \A p \in Page \ Subtree(r.page) : stamp'[p] = stamp[p]
    BY <1>7 DEF CommitRestore
  <2>2. Home' = Home
    BY <2>1 DEF Home
  <2>3. Trash' \subseteq Trash
    BY <2>1 DEF Trash
  <2>4. ASSUME NEW j \in Job, phase[j] = "rows", NEW p \in Locked(j) PROVE p \in Trash'
    <3>1. p \in live /\ p \in Page /\ stamp[p] = lock[j][p] /\ stamp[p] # Active
      BY <1>3, <2>4 DEF Frozen, Locked
    <3>2. p \notin Subtree(r.page)
      BY <1>7, <2>4, <3>1 DEF CommitRestore, MayRestore
    <3>. QED
      BY <2>1, <3>1, <3>2 DEF Trash
  <2>5. UNION Groups("rows") \subseteq Trash'
    BY <2>4 DEF Groups
  <2>. QED
    BY <1>1, <2>2, <2>3, <2>5 DEF Promise!Next, Promise!Restore
<1>8. CASE UNCHANGED tree
  BY <1>1, <1>8 DEF tree, Home, Trash
<1>. QED
  BY <1>4, <1>5, <1>6, <1>7, <1>8 DEF Write

\* Acceptance takes a whole group from the trash.
LEMMA AcceptPromised ==
  ASSUME Typed, Owned, NEW j \in Job, Activate(j)
  PROVE  Promise!Accept
<1>1. /\ phase[j] = "staging" /\ phase' = [phase EXCEPT ![j] = "rows"]
      /\ UNCHANGED <<live, parent, stamp, lock>>
      /\ LocksHold(j) /\ SoleOwner(j)
  BY DEF Activate, tree
<1>2. Home' = Home /\ Trash' = Trash
  BY <1>1 DEF Home, Trash
<1>3. \A k \in Job : Locked(k)' = Locked(k)
  BY <1>1 DEF Locked
<1>4. \A k \in Job : /\ phase'[k] = "rows" <=> phase[k] = "rows" \/ k = j
                     /\ phase'[k] = "cleanup" <=> phase[k] = "cleanup"
  BY <1>1 DEF Typed, TypeOK
<1>5. Groups("rows")' = Groups("rows") \cup {Locked(j)} /\ Groups("cleanup")' = Groups("cleanup")
  BY <1>3, <1>4 DEF Groups
<1>6. Locked(j) # {} /\ Locked(j) \subseteq Trash
  BY <1>1 DEF Owned, RootLocked, LocksHold, Locked, Trash
<1>7. Locked(j) \cap UNION Groups("rows") = {}
  BY <1>1 DEF SoleOwner, Groups
<1>. QED
  BY <1>2, <1>5, <1>6, <1>7 DEF Promise!Accept, Promise!Doomed

\* The rows of one group go, and no page loses its parent.
LEMMA RemovePromised ==
  ASSUME Typed, Owned, NEW w \in Worker, RemoveRows(w)
  PROVE  Promise!Remove
<1>. DEFINE j == worker[w].job
            S == Locked(j)
<1>1. j \in Job /\ phase[j] = "rows" /\ Frozen(j) /\ live' = live \ S
  BY RemovedIsLocked
<1>2. /\ phase' = [phase EXCEPT ![j] = "cleanup"] /\ lock' = lock
      /\ \A p \in Page \ S : parent'[p] = parent[p] /\ stamp'[p] = stamp[p]
  BY <1>1 DEF RemoveRows, Frozen
<1>3. \A k \in Job : Locked(k)' = Locked(k)
  BY <1>2 DEF Locked
<1>4. \A k \in Job : /\ phase'[k] = "rows" <=> phase[k] = "rows" /\ k # j
                     /\ phase'[k] = "cleanup" <=> phase[k] = "cleanup" \/ k = j
  BY <1>1, <1>2 DEF Typed, TypeOK
<1>5. \A k \in Job : phase[k] = "rows" /\ k # j => Locked(k) # S
  BY <1>1 DEF Owned, OneOwner, Frozen
<1>6. Groups("rows")' = Groups("rows") \ {S}
  BY <1>1, <1>3, <1>4, <1>5 DEF Groups
<1>7. Groups("cleanup")' = Groups("cleanup") \cup {S} /\ S \in Groups("rows")
  BY <1>1, <1>3, <1>4 DEF Groups
<1>. HIDE DEF j
<1>8. DOMAIN Home = live /\ Home' = [p \in live \ S |-> Home[p]]
  BY <1>1, <1>2 DEF Home, Typed, TypeOK
<1>9. Trash' = Trash \ S
  BY <1>1, <1>2 DEF Trash, Typed, TypeOK
<1>10. \A p \in live \ S : Home[p] \notin S
  BY <1>1 DEF Frozen, Children, Home
<1>. QED
  BY <1>6, <1>7, <1>8, <1>9, <1>10 DEF Promise!Remove, Promise!Exists

\* A job that has ended frees its ids, and those of no other.
LEMMA FinishPromised ==
  ASSUME Typed, Owned, ErasureInv, ErasingNotEmpty, NEW w \in Worker, Ends(w)
  PROVE  Promise!Finish
<1>. DEFINE j == worker[w].job
<1>1. /\ j \in Job /\ phase[j] = "cleanup" /\ phase' = [phase EXCEPT ![j] = "gone"]
      /\ \A k \in Job \ {j} : lock'[k] = lock[k]
      /\ UNCHANGED tree
  BY EndsCleanup
<1>. HIDE DEF j
<1>2. Home' = Home /\ Trash' = Trash
  BY <1>1 DEF Home, Trash, tree
<1>3. \A k \in Job \ {j} : Locked(k)' = Locked(k)
  BY <1>1 DEF Locked
<1>4. \A k \in Job : /\ phase'[k] = "rows" <=> phase[k] = "rows"
                     /\ phase'[k] = "cleanup" <=> phase[k] = "cleanup" /\ k # j
  BY <1>1 DEF Typed, TypeOK
<1>5. \A k \in Job : phase[k] = "cleanup" /\ k # j => Locked(k) # Locked(j)
  BY <1>1 DEF Owned, OneOwner, ErasingNotEmpty
<1>6. Groups("rows")' = Groups("rows")
  BY <1>1, <1>3, <1>4 DEF Groups
<1>7. Groups("cleanup")' = Groups("cleanup") \ {Locked(j)} /\ Locked(j) \in Groups("cleanup")
  BY <1>1, <1>3, <1>4, <1>5 DEF Groups
<1>. QED
  BY <1>2, <1>6, <1>7 DEF Promise!Finish

LEMMA ErasingNotEmptyStep ==
  ASSUME Typed, Owned, ErasureInv, ErasingNotEmpty, [Next]_vars
  PROVE  ErasingNotEmpty'
<1>1. ASSUME NEW j \in Job, Activate(j) PROVE ErasingNotEmpty'
  BY <1>1 DEF Activate, ErasingNotEmpty, Locked, Typed, TypeOK
<1>2. ASSUME NEW w \in Worker, RemoveRows(w) PROVE ErasingNotEmpty'
  <2>1. Frozen(worker[w].job)
    BY <1>2, RemovedIsLocked
  <2>2. phase' = [phase EXCEPT ![worker[w].job] = "cleanup"] /\ lock' = lock
    BY <1>2 DEF RemoveRows
  <2>. QED
    BY <2>1, <2>2 DEF ErasingNotEmpty, Frozen, Locked, Typed, TypeOK
<1>3. ASSUME NEW w \in Worker, Ends(w) PROVE ErasingNotEmpty'
  BY <1>3, EndsCleanup DEF ErasingNotEmpty, Locked, Typed, TypeOK
<1>4. CASE JobsKept
  BY <1>4 DEF JobsKept, ErasingNotEmpty, Locked
<1>. QED
  BY <1>1, <1>2, <1>3, <1>4, JobSteps

\* Every step of the routes, the acceptance and the invocations is a step of the
\* promise or changes nothing that it speaks of.
LEMMA PromisedStep ==
  ASSUME Typed, Owned, ErasureInv, ErasingNotEmpty, [Next]_vars
  PROVE  [Promise!Next]_(Promise!vars)
<1>1. CASE UNCHANGED <<live, parent, stamp>> /\ JobsKept
  BY <1>1, GroupsKept DEF Promise!vars, Home, Trash
<1>2. CASE (\E r \in requests : Write(r)) /\ JobsKept
  BY <1>2, WritePromised
<1>3. ASSUME NEW j \in Job, Activate(j) PROVE Promise!Next
  BY <1>3, AcceptPromised DEF Promise!Next
<1>4. ASSUME NEW w \in Worker, RemoveRows(w) \/ Ends(w) PROVE Promise!Next
  BY <1>4, RemovePromised, FinishPromised DEF Promise!Next
<1>. QED
  BY <1>1, <1>2, <1>3, <1>4, JobSteps

\* The routes, the staged jobs and their invocations implement the promise that pages
\* are deleted in whole groups that nothing has touched since they were accepted.
THEOREM DeletionIsWhole == Spec => DeletesWhole
<1>1. Init => Promise!Init /\ ErasingNotEmpty
  BY DEF Init, Promise!Init, Promise!Exists, Home, Trash, Groups, ErasingNotEmpty
<1>2. DeletionInv /\ ErasureInv /\ ErasingNotEmpty /\ [Next]_vars => ErasingNotEmpty'
  BY ErasingNotEmptyStep, InvIsOwned
<1>3. DeletionInv /\ ErasureInv /\ ErasingNotEmpty /\ [Next]_vars
        => [Promise!Next]_(Promise!vars)
  BY PromisedStep, InvIsOwned
<1>. QED
  BY <1>1, <1>2, <1>3, DeletionInvariant, ErasureInvariant, PTL
     DEF Spec, DeletesWhole, Promise!Spec
==============================================================================
