----------------------- MODULE ParallelArtifactProofs -----------------------
(***************************************************************************)
(* No accepted implementation of a parallel dispatch is lost: for every      *)
(* contract and any number of mishaps, it is on its branch, named by a ref,  *)
(* or part of what was integrated, until the run has no use for it.  And a   *)
(* run of the fabric delivers what DeliveryTable promises.                   *)
(***************************************************************************)
EXTENDS ParallelDispatchProofs

-----------------------------------------------------------------------------
(* The inductive invariant, on top of the one of ParallelDispatchProofs *)

Waiting == {"absent", "pending", "reserved"}
Busy == {"sweep", "mark", "look", "make", "adopt"}

\* The run may still use what was accepted.
Alive == stage \in {"run", "completed"} /\ validation # "fail" /\ review # "fail"

InCandidate(t) == candidate # None /\ t \in candidate
\* The implementation needs its branch no longer.
Promised(u) ==
  \/ ref[u] = task[u].attempt
  \/ InCandidate(Tree(u)) \/ Tree(u) \in target
  \/ Fabric /\ sources[u] \notin {0, task[u].attempt}

\* Only the fabric has waves to advance.
TransitionFabric == transition # None => Fabric

\* A unit that has not started has no worker, no outcome and no artifact.
Untouched(u) == child[u] = "none" /\ making[u] = "none" /\ pending[u] = None /\ task[u].artifact = "none"
Unstarted == \A u \in Units : task[u].phase \in Waiting => Untouched(u)

\* An acceptance runs in the worker's session and ends as the artifact is recorded, which
\* is on its branch by then; an outcome waits as completed for an accepted artifact only.
Makers ==
  \A u \in Units :
    /\ making[u] # "none" => child[u] = "working" /\ task[u].artifact # "accepted"
    /\ making[u] = "record" => OnBranch(Tree(u))
    /\ pending[u] = "completed" => task[u].artifact = "accepted"

\* A demotion cleans up after accepted siblings that have a source; past its first phase
\* the child it replaces is gone, and only then does a recovery take it up.
DemotionSound ==
  demotion # None =>
    /\ \A v \in demotion.clean : task[v].artifact = "accepted" /\ sources[v] # 0
    /\ demotion.phase # "stopping" => child[demotion.unit] = "released"
    /\ rec \in Busy => demotion.phase # "stopping"

\* The hidden candidate, or then the target, holds whatever is integrated.
CandidateHolds == Alive /\ Fabric => \A u \in Integrated : InCandidate(Tree(u)) \/ Tree(u) \in target

\* While a demotion sweeps, its siblings' sources are kept by refs.
SweepSafe == Alive /\ rec = "sweep" /\ demotion # None => \A v \in demotion.clean : ref[v] = sources[v]

\* A worktree is released only when its artifact is kept elsewhere.
ReleasedSafe ==
  Alive => \A u \in Units : child[u] \in {"kept", "released"} /\ task[u].artifact # "none" => Promised(u)

Custody ==
  /\ TransitionFabric /\ Unstarted /\ Makers /\ DemotionSound
  /\ CandidateHolds /\ SweepSafe /\ ReleasedSafe /\ ArtifactsKept

-----------------------------------------------------------------------------
(* What a transaction makes of the tasks *)

\* Attempts and artifacts stay, and no task goes back to wait for its start.
Onward(old, new) ==
  \A u \in Units :
    /\ new[u].attempt = old[u].attempt /\ new[u].artifact = old[u].artifact
    /\ new[u].phase \in Waiting => old[u].phase \in Waiting

\* Two such steps are one.
LEMMA OnwardTwice ==
  ASSUME NEW x, NEW y, NEW z, Onward(x, y), Onward(y, z)
  PROVE  Onward(x, z)
BY DEF Onward

\* suppressDescendants touches neither.
LEMMA SuppressOnward ==
  ASSUME NEW ts \in [Units -> Tasks], NEW failed
  PROVE  Onward(ts, Suppress(ts, failed))
<1>1. ASSUME NEW u \in Units
      PROVE  /\ Suppress(ts, failed)[u].attempt = ts[u].attempt
             /\ Suppress(ts, failed)[u].artifact = ts[u].artifact
             /\ Suppress(ts, failed)[u].phase \in Waiting => ts[u].phase \in Waiting
  BY DEF Suppress, Tasks, Waiting
<1> QED
  BY <1>1 DEF Onward

\* Nor does the settlement of outcomes.
LEMMA SettledOnward ==
  ASSUME NEW ts \in [Units -> Tasks], NEW outcomes \in [Units -> Outcomes \cup {None}]
  PROVE  Onward(ts, Settled(ts, outcomes))
<1> DEFINE settling == {u \in Units : ts[u].phase = "running" /\ outcomes[u] # None}
           failed == {u \in settling : outcomes[u] # "completed"}
           mid == [u \in Units |-> IF u \in settling
                     THEN [ts[u] EXCEPT !.outcome = outcomes[u], !.phase = IF u \in failed THEN "failed" ELSE "completed"]
                     ELSE ts[u]]
<1>1. ASSUME NEW u \in settling, NEW p \in {"failed", "completed"}
      PROVE  [ts[u] EXCEPT !.outcome = outcomes[u], !.phase = p] \in Tasks
  BY <1>1 DEF Tasks, Phases, Open
<1>2. mid \in [Units -> Tasks]
  <2>1. ASSUME NEW u \in settling
        PROVE  [ts[u] EXCEPT !.outcome = outcomes[u], !.phase = IF u \in failed THEN "failed" ELSE "completed"] \in Tasks
    BY <1>1, <2>1
  <2> QED
    BY <2>1
<1>3. Onward(ts, mid)
  <2>1. ASSUME NEW u \in Units
        PROVE  /\ mid[u].attempt = ts[u].attempt /\ mid[u].artifact = ts[u].artifact
               /\ mid[u].phase \in Waiting => ts[u].phase \in Waiting
    BY DEF Tasks, Waiting
  <2> QED
    BY <2>1 DEF Onward
<1>4. Settled(ts, outcomes) = Suppress(mid, failed)
  BY DEF Settled
<1> HIDE DEF mid, failed, settling
<1> QED
  BY <1>2, <1>3, <1>4, SuppressOnward, OnwardTwice

\* reserveReady only reserves.
LEMMA ReservationsOnward ==
  ASSUME NEW ts \in [Units -> Tasks], NEW act, NEW new \in Reservations(ts, act)
  PROVE  Onward(ts, new)
<1>1. CASE cancelled
  BY <1>1 DEF Reservations, Onward
<1>2. CASE ~cancelled
  <2>1. PICK S \in SUBSET Startable(ts, act) :
          new = [u \in Units |-> IF u \in S THEN [ts[u] EXCEPT !.phase = "reserved"] ELSE ts[u]]
    BY <1>2 DEF Reservations
  <2>2. \A u \in S : u \in Units /\ ts[u].phase = "pending"
    BY DEF Startable
  <2>3. ASSUME NEW u \in Units
        PROVE  /\ new[u].attempt = ts[u].attempt /\ new[u].artifact = ts[u].artifact
               /\ new[u].phase \in Waiting => ts[u].phase \in Waiting
    BY <2>1, <2>2 DEF Tasks, Waiting
  <2> QED
    BY <2>3 DEF Onward
<1> QED
  BY <1>1, <1>2

-----------------------------------------------------------------------------
(* What a step makes of one unit *)

\* Its attempt goes on, and its artifact is what its acceptance under way makes it.
Continues(u) ==
  /\ task'[u].attempt = task[u].attempt
  /\ task'[u].phase \in Waiting => task[u].phase \in Waiting
  /\ \/ task'[u].artifact = task[u].artifact
     \/ making[u] = "claim" /\ task'[u].artifact = "claimed"
     \/ making[u] = "record" /\ making'[u] = "none" /\ task'[u].artifact = "accepted"

\* Or an attempt begins: the first one, or the second after a demotion.
Begins(u) ==
  /\ Untouched(u)'
  /\ task[u].phase \in Waiting \/ (demotion # None /\ demotion.unit = u /\ demotion' = None)

\* Outcomes, a reconciliation and a cancellation only move tasks on.
LEMMA ArchivesOnward ==
  ASSUME TypeOK, Archives
  PROVE  Onward(task, task')
<1>0. task \in [Units -> Tasks] /\ pending \in [Units -> Outcomes \cup {None}]
  BY TypeParts DEF TypeTask, TypeWorkers
<1>1. ASSUME UNCHANGED task PROVE Onward(task, task')
  BY <1>1 DEF Onward
<1>2. ASSUME NEW u \in Units, NEW outcome \in Outcomes, Report(u, outcome)
      PROVE  Onward(task, task')
  <2> DEFINE outcomes == [pending EXCEPT ![u] = Effective(u, outcome)]
             ts == Settled(task, outcomes)
  <2>1. outcomes \in [Units -> Outcomes \cup {None}]
    BY <1>0, <1>2, EffectiveTyped
  <2>2. UNCHANGED task \/ task' \in Reservations(ts, active)
    BY <1>2 DEF Report
  <2> HIDE DEF outcomes
  <2>3. ts \in [Units -> Tasks] /\ Onward(task, ts)
    BY <1>0, <2>1, SettledSteady, SettledOnward
  <2> HIDE DEF ts
  <2> QED
    BY <1>1, <2>2, <2>3, ReservationsOnward, OnwardTwice
<1>3. ASSUME NEW gone \in SUBSET Lapsed, NEW seen \in BOOLEAN, Reconcile(gone, seen)
      PROVE  Onward(task, task')
  <2> DEFINE waiting == Settled(task, pending)
             lost == {u \in Units : waiting[u].phase \in {"pending", "reserved"} /\
                        (seen => Reconciled[Tree(u)] \notin ReadyStates)}
             mid == [u \in Units |-> IF u \in gone \cup lost THEN [waiting[u] EXCEPT !.phase = "abandoned", !.outcome = None]
                                     ELSE waiting[u]]
             ts == Suppress(mid, gone \cup lost)
  <2>1. waiting \in [Units -> Tasks] /\ Onward(task, waiting)
    BY <1>0, SettledSteady, SettledOnward
  <2>2. UNCHANGED task \/ task' \in Reservations(ts, active)
    BY <1>3 DEF Reconcile
  <2> HIDE DEF lost, waiting
  <2>3. ASSUME NEW u \in Units
        PROVE  /\ [waiting[u] EXCEPT !.phase = "abandoned", !.outcome = None] \in Tasks
               /\ [waiting[u] EXCEPT !.phase = "abandoned", !.outcome = None].attempt = waiting[u].attempt
               /\ [waiting[u] EXCEPT !.phase = "abandoned", !.outcome = None].artifact = waiting[u].artifact
               /\ [waiting[u] EXCEPT !.phase = "abandoned", !.outcome = None].phase \notin Waiting
    BY <2>1 DEF Tasks, Phases, Open, Waiting
  <2>4. mid \in [Units -> Tasks] /\ Onward(waiting, mid)
    BY <2>1, <2>3 DEF Onward
  <2> HIDE DEF mid
  <2>5. ts \in [Units -> Tasks] /\ Onward(mid, ts)
    BY <2>4, SuppressSteady, SuppressOnward
  <2> HIDE DEF ts
  <2>6. Onward(task, ts)
    BY <2>1, <2>4, <2>5, OnwardTwice
  <2> QED
    BY <1>1, <2>2, <2>5, <2>6, ReservationsOnward, OnwardTwice
<1>4. ASSUME Cancel PROVE Onward(task, task')
  BY <1>0, <1>4 DEF Cancel, Onward, Tasks, Waiting
<1> QED
  BY <1>2, <1>3, <1>4 DEF Archives

\* So do the two transactions of a takeover.
LEMMA TakeoverOnward ==
  ASSUME TypeOK, FinishTakeover \/ \E u \in Units : PlanTakeover(u)
  PROVE  Onward(task, task')
<1>0. task \in [Units -> Tasks]
  BY TypeParts DEF TypeTask
<1>1. CASE FinishTakeover
  BY <1>0, <1>1 DEF FinishTakeover, Onward, Tasks, Waiting
<1>2. ASSUME NEW u \in Units, PlanTakeover(u) PROVE Onward(task, task')
  <2> DEFINE outcomes == [v \in Units |-> IF v # u /\ pending[v] = "completed" THEN "completed" ELSE None]
  <2>1. outcomes \in [Units -> Outcomes \cup {None}]
    BY DEF Outcomes
  <2>2. task' = Settled(task, outcomes)
    BY <1>2 DEF PlanTakeover
  <2> HIDE DEF outcomes
  <2> QED
    BY <1>0, <2>1, <2>2, SettledOnward
<1> QED
  BY <1>1, <1>2

\* A call is bound, or an acceptance claims or records its artifact.
LEMMA StartsContinue ==
  ASSUME TypeOK, NEW v \in Units, Bind(v) \/ ClaimArtifact(v) \/ RecordArtifact(v), NEW u \in Units
  PROVE  Continues(u)
<1>0. task \in [Units -> Tasks] /\ making \in [Units -> {"none", "claim", "move", "record"}]
  BY TypeParts DEF TypeTask, TypeWorkers
<1>1. CASE Bind(v)
  BY <1>0, <1>1 DEF Bind, Continues, Tasks, Waiting
<1>2. CASE ClaimArtifact(v)
  BY <1>0, <1>2 DEF ClaimArtifact, Continues, Tasks, Waiting
<1>3. CASE RecordArtifact(v)
  BY <1>0, <1>3 DEF RecordArtifact, Making, Continues, Tasks, Waiting
<1> QED
  BY <1>1, <1>2, <1>3

\* When a run is prepared, none of its units has started.
LEMMA InspectBegins ==
  ASSUME TypeOK, Unprepared, Recovering, Unstarted, Inspect, NEW u \in Units
  PROVE  Begins(u)
<1> DEFINE ts == [v \in Units |-> IF <<v, 1>> \in NewTrees THEN Fresh(1, head) ELSE Absent]
<1>1. task[u].phase \in Waiting /\ Untouched(u)
  BY DEF Inspect, Recovering, Unprepared, Unstarted, Waiting
<1>2. UNCHANGED <<child, making, pending>>
  BY DEF Inspect, workers
<1>3. task'[u].artifact = "none"
  <2>1. ts \in [Units -> Tasks]
    <3>1. head \in SUBSET Trees /\ 1 \in Attempts
      BY TypeParts DEF TypePlan, Attempts
    <3> QED
      BY <3>1, FreshTyped
  <2>2. \A v \in Units : ts[v].artifact = "none"
    BY DEF Absent, Fresh
  <2>3. task' \in Reservations(ts, active) \/ UNCHANGED task
    BY DEF Inspect
  <2> HIDE DEF ts
  <2> QED
    BY <1>1, <2>1, <2>2, <2>3, ReservationsOnward DEF Onward, Untouched
<1> QED
  BY <1>1, <1>2, <1>3 DEF Begins, Untouched

\* A replacement begins the second attempt of its unit.
LEMMA ReplacementBegins ==
  ASSUME TypeOK, Makers, DemotionSound, AdoptReplacement, NEW u \in Units
  PROVE  \/ Continues(u) /\ UNCHANGED <<child[u], making[u], pending[u]>>
         \/ Begins(u)
<1> DEFINE ts == [task EXCEPT ![demotion.unit] = Fresh(2, head)]
<1>0. /\ task \in [Units -> Tasks]
      /\ child \in [Units -> {"none", "working", "ended", "kept", "released"}]
      /\ pending \in [Units -> Outcomes \cup {None}]
  BY TypeParts DEF TypeTask, TypeWorkers
<1>1. UNCHANGED making
  BY DEF AdoptReplacement
<1>2. CASE UNCHANGED <<task, child, pending>>
  BY <1>1, <1>2 DEF Continues
<1>3. CASE /\ task' \in Reservations(ts, active) /\ demotion' = None
           /\ child' = [child EXCEPT ![demotion.unit] = "none"]
           /\ pending' = [pending EXCEPT ![demotion.unit] = None]
  <2>1. demotion # None /\ rec \in Busy
    BY DEF AdoptReplacement, Busy
  <2>2. demotion.unit \in Units
    BY <2>1 DEF TypeOK, Demotions
  <2>3. child[demotion.unit] = "released"
    BY <2>1 DEF DemotionSound
  <2>4. making[demotion.unit] = "none"
    BY <2>2, <2>3 DEF Makers
  <2>5. Fresh(2, head) \in Tasks /\ Fresh(2, head).artifact = "none"
    <3>1. head \in SUBSET Trees /\ 2 \in Attempts
      BY TypeParts DEF TypePlan, Attempts
    <3> QED
      BY <3>1, FreshTyped DEF Fresh
  <2>6. ts \in [Units -> Tasks] /\ ts[demotion.unit].artifact = "none"
        /\ \A v \in Units \ {demotion.unit} : ts[v] = task[v]
    BY <1>0, <2>2, <2>5
  <2> HIDE DEF ts
  <2>7. Onward(ts, task')
    BY <1>3, <2>6, ReservationsOnward
  <2>8. CASE u = demotion.unit
    BY <1>0, <1>1, <1>3, <2>1, <2>2, <2>4, <2>6, <2>7, <2>8 DEF Onward, Begins, Untouched
  <2>9. CASE u # demotion.unit
    BY <1>0, <1>1, <1>3, <2>6, <2>7, <2>9 DEF Onward, Continues
  <2> QED
    BY <2>8, <2>9
<1> QED
  BY <1>2, <1>3 DEF AdoptReplacement, ReplacementBase

\* A wave begins the first attempts of its units, which were in no wave before.
LEMMA WaveBegins ==
  ASSUME TypeOK, Recovering, WavesReady, TasksGrounded, TransitionFabric, Unstarted, AdoptWave, NEW u \in Units
  PROVE  Continues(u) \/ Begins(u)
<1> DEFINE ts == [v \in Units |-> IF v \in transition.next THEN Fresh(1, head) ELSE task[v]]
<1>1. UNCHANGED <<child, making, pending>>
  BY DEF AdoptWave, workers
<1>2. CASE UNCHANGED task
  BY <1>2 DEF Continues
<1>3. CASE task' \in Reservations(ts, transition.next)
  <2>1. transition # None /\ transition.next \in SUBSET Units
    BY WaveFacts
  <2>2. \A v \in transition.next : task[v].phase = "absent"
    BY <2>1 DEF TransitionFabric, WavesReady, TasksGrounded
  <2>3. Fresh(1, head) \in Tasks /\ Fresh(1, head).artifact = "none"
    <3>1. head \in SUBSET Trees /\ 1 \in Attempts
      BY TypeParts DEF TypePlan, Attempts
    <3> QED
      BY <3>1, FreshTyped DEF Fresh
  <2>4. ts \in [Units -> Tasks]
    BY <2>3, TypeParts DEF TypeTask
  <2>5. (\A v \in transition.next : ts[v].artifact = "none") /\ \A v \in Units \ transition.next : ts[v] = task[v]
    BY <2>1, <2>3
  <2> HIDE DEF ts
  <2>6. Onward(ts, task')
    BY <1>3, <2>4, ReservationsOnward
  <2>7. CASE u \in transition.next
    <3>1. task[u].phase \in Waiting /\ Untouched(u)
      BY <2>2, <2>7 DEF Unstarted, Waiting
    <3> QED
      BY <1>1, <2>5, <2>6, <2>7, <3>1 DEF Onward, Begins, Untouched
  <2>8. CASE u \notin transition.next
    BY <2>5, <2>6, <2>8 DEF Onward, Continues
  <2> QED
    BY <2>7, <2>8
<1> QED
  BY <1>2, <1>3 DEF AdoptWave

\* Every step continues an attempt of a unit or begins one.
LEMMA UnitStep ==
  ASSUME IInv, TransitionFabric, Unstarted, Makers, DemotionSound, [Next]_vars, NEW u \in Units
  PROVE  Continues(u) \/ Begins(u)
<1>0. TypeOK /\ Unprepared /\ Recovering /\ WavesReady /\ TasksGrounded
  BY DEF IInv, Shape
<1>1. ASSUME Onward(task, task') PROVE Continues(u)
  BY <1>1 DEF Onward, Continues
<1>2. ASSUME UNCHANGED task PROVE Continues(u)
  BY <1>2 DEF Continues
<1>3. CASE Quiet \/ Verdicts
  BY <1>2, <1>3, QuietFacts, VerdictFacts DEF core
<1>4. CASE Prepare \/ MarkCreating \/ Integrate \/ AdvanceWave \/ Crash
  BY <1>2, <1>4 DEF Prepare, MarkCreating, Integrate, AdvanceWave, Crash, durable
<1>5. CASE Inspect
  BY <1>0, <1>5, InspectBegins
<1>6. CASE AdoptReplacement
  BY <1>0, <1>6, ReplacementBegins
<1>7. CASE AdoptWave
  BY <1>0, <1>7, WaveBegins
<1>8. CASE Starts
  BY <1>0, <1>8, StartsContinue DEF Starts
<1>9. CASE FinishTakeover \/ \E v \in Units : PlanTakeover(v)
  BY <1>0, <1>1, <1>9, TakeoverOnward
<1>10. CASE \E v \in Units : DemoteFailed(v)
  BY <1>2, <1>10 DEF DemoteFailed, durable
<1>11. CASE Archives
  BY <1>0, <1>1, <1>11, ArchivesOnward
<1> QED
  BY <1>3, <1>4, <1>5, <1>6, <1>7, <1>8, <1>9, <1>10, <1>11, Cases

-----------------------------------------------------------------------------
(* Who writes what *)

\* Only its own steps, a recovery and a crash change what a unit's worker and its acceptance do.
LEMMA HandsStep ==
  ASSUME TypeOK, [Next]_vars, NEW u \in Units
  PROVE  \/ UNCHANGED <<child[u], making[u]>>
         \/ Bind(u) \/ Produce(u) \/ ClaimArtifact(u) \/ MoveArtifact(u) \/ RecordArtifact(u)
         \/ SessionEnds(u) \/ KeepArtifact(u) \/ ReleaseTree(u)
         \/ AdoptReplacement \/ Crash
<1>0. /\ child \in [Units -> {"none", "working", "ended", "kept", "released"}]
      /\ making \in [Units -> {"none", "claim", "move", "record"}]
  BY TypeParts DEF TypeWorkers
<1>1. ASSUME UNCHANGED <<child, making>> PROVE UNCHANGED <<child[u], making[u]>>
  BY <1>1
<1>2. CASE \/ ResumePreparation \/ Create \/ RecoverDemotion \/ RecoverTransition \/ Sweep \/ Swept \/ LookAtTrees
           \/ MakeTrees
  BY <1>2 DEF ResumePreparation, Create, RecoverDemotion, RecoverTransition, Sweep, Swept, LookAtTrees, MakeTrees, workers
<1>3. CASE Prepare \/ Inspect \/ MarkCreating \/ AdoptWave \/ Integrate \/ AdvanceWave \/ UNCHANGED vars
  BY <1>3 DEF Prepare, Inspect, MarkCreating, AdoptWave, Integrate, AdvanceWave, vars, workers
<1>4. CASE Verdicts
  BY <1>4 DEF Verdicts, ClaimValidation, SettleValidation, ReplayFailure, ClaimReview, DropCandidate, ArchiveFailed,
              MoveTarget, DropPromoted, RecordPromotion, workers
<1>5. CASE Archives \/ FinishTakeover
  BY <1>5 DEF Archives, Report, Reconcile, Cancel, FinishTakeover, workers
<1>6. ASSUME NEW v \in Units, PlanTakeover(v) \/ DemoteFailed(v) \/ Edits(v) \/ CleanSuppressed(v)
      PROVE  UNCHANGED <<child[u], making[u]>>
  BY <1>6 DEF PlanTakeover, DemoteFailed, Edits, CleanSuppressed, workers
<1>7. ASSUME NEW v \in Units \ {u},
             Bind(v) \/ Produce(v) \/ ClaimArtifact(v) \/ MoveArtifact(v) \/ RecordArtifact(v) \/ SessionEnds(v)
      PROVE  UNCHANGED <<child[u], making[u]>>
  BY <1>0, <1>7 DEF Bind, Produce, ClaimArtifact, MoveArtifact, RecordArtifact, SessionEnds, Making, workers
<1>8. ASSUME NEW v \in Units \ {u}, KeepArtifact(v) \/ ReleaseTree(v)
      PROVE  UNCHANGED <<child[u], making[u]>>
  BY <1>0, <1>8 DEF KeepArtifact, ReleaseTree, workers
<1> QED
  BY <1>2, <1>3, <1>4, <1>5, <1>6, <1>7, <1>8, Cases DEF Quiet, Starts

\* An outcome begins to wait as the call's report makes it.
LEMMA PendingStep ==
  ASSUME TypeOK, [Next]_vars, NEW u \in Units
  PROVE  \/ pending'[u] \in {pending[u], None}
         \/ /\ task[u].phase = "running" /\ UNCHANGED task
            /\ pending'[u] = "completed" => task[u].artifact = "accepted"
<1>0. pending \in [Units -> Outcomes \cup {None}]
  BY TypeParts DEF TypeWorkers
<1>1. CASE Quiet
  BY <1>1 DEF Quiet, ResumePreparation, Create, RecoverDemotion, RecoverTransition, Sweep, Swept, LookAtTrees, MakeTrees,
              Edits, Produce, MoveArtifact, SessionEnds, KeepArtifact, ReleaseTree, CleanSuppressed, vars, workers
<1>2. CASE Prepare \/ Inspect \/ MarkCreating \/ AdoptWave \/ Integrate \/ AdvanceWave
  BY <1>2 DEF Prepare, Inspect, MarkCreating, AdoptWave, Integrate, AdvanceWave, workers
<1>3. CASE AdoptReplacement
  BY <1>0, <1>3 DEF AdoptReplacement
<1>4. CASE Verdicts
  BY <1>4 DEF Verdicts, ClaimValidation, SettleValidation, ReplayFailure, ClaimReview, DropCandidate, ArchiveFailed,
              MoveTarget, DropPromoted, RecordPromotion, workers
<1>5. CASE Starts \/ FinishTakeover \/ Cancel \/ Crash
  BY <1>5 DEF Starts, Bind, ClaimArtifact, RecordArtifact, FinishTakeover, Cancel, Crash, workers
<1>6. ASSUME NEW v \in Units, PlanTakeover(v) \/ DemoteFailed(v)
      PROVE  pending'[u] \in {pending[u], None}
  BY <1>6 DEF PlanTakeover, DemoteFailed, workers
<1>7. CASE \E gone \in SUBSET Lapsed, seen \in BOOLEAN : Reconcile(gone, seen)
  BY <1>7 DEF Reconcile
<1>8. ASSUME NEW v \in Units, NEW outcome \in Outcomes, Report(v, outcome)
      PROVE  \/ pending'[u] \in {pending[u], None}
             \/ /\ task[u].phase = "running" /\ UNCHANGED task
                /\ pending'[u] = "completed" => task[u].artifact = "accepted"
  <2>1. CASE pending' = [w \in Units |-> None]
    BY <2>1
  <2>2. CASE pending' = [pending EXCEPT ![v] = Effective(v, outcome)] /\ UNCHANGED task
    <3>1. CASE u # v
      BY <1>0, <2>2, <3>1
    <3>2. CASE u = v
      BY <1>0, <1>8, <2>2, <3>2 DEF Report, Effective
    <3> QED
      BY <3>1, <3>2
  <2> QED
    BY <1>8, <2>1, <2>2 DEF Report
<1> QED
  BY <1>1, <1>2, <1>3, <1>4, <1>5, <1>6, <1>7, <1>8, Cases DEF Archives

\* A run keeps its route.
LEMMA RouteStays == [Next]_vars => UNCHANGED route
<1> SUFFICES ASSUME [Next]_vars PROVE UNCHANGED route
  OBVIOUS
<1>1. CASE Quiet \/ Verdicts
  BY <1>1, QuietFacts, VerdictFacts DEF core, plan
<1>2. CASE Prepare \/ Inspect \/ MarkCreating \/ AdoptReplacement \/ AdoptWave
  BY <1>2 DEF Prepare, Inspect, MarkCreating, AdoptReplacement, AdoptWave, plan
<1>3. CASE Integrate \/ AdvanceWave \/ FinishTakeover \/ Crash
  BY <1>3 DEF Integrate, AdvanceWave, FinishTakeover, Crash, plan
<1>4. CASE Starts \/ Archives
  BY <1>4 DEF Starts, Bind, ClaimArtifact, RecordArtifact, Archives, Report, Reconcile, Cancel, plan
<1>5. CASE \E u \in Units : PlanTakeover(u) \/ DemoteFailed(u)
  BY <1>5 DEF PlanTakeover, DemoteFailed
<1> QED
  BY <1>1, <1>2, <1>3, <1>4, <1>5, Cases

\* A run is alive after a step only if it was before, or is just prepared.
LEMMA AliveStep ==
  ASSUME IInv, [Next]_vars, Alive'
  PROVE  Alive \/ Inspect
<1>0. TypeOK /\ Recovering /\ OperationSound
  BY DEF IInv, Shape
<1>1. CASE Quiet
  BY <1>1, QuietFacts DEF core, verdict, Alive
<1>2. CASE Prepare
  BY <1>2 DEF Prepare, Alive
<1>3. CASE MarkCreating \/ Integrate \/ AdvanceWave \/ Crash
  BY <1>3 DEF MarkCreating, Integrate, AdvanceWave, Crash, durable, verdict, Alive
<1>4. CASE AdoptReplacement
  BY <1>0, <1>4, ReplacementFacts DEF verdict, Alive
<1>5. CASE AdoptWave
  BY <1>0, <1>5, WaveFacts DEF verdict, Alive
<1>6. CASE Starts
  BY <1>0, <1>6, StartFacts DEF verdict, Alive
<1>7. CASE \E u \in Units : PlanTakeover(u)
  BY <1>0, <1>7, TakeoverFacts DEF verdict, Alive
<1>8. CASE \E u \in Units : DemoteFailed(u)
  BY <1>0, <1>8, DemoteFacts DEF verdict, Alive
<1>9. CASE Archives
  BY <1>0, <1>9, ArchiveFacts DEF verdict, Alive
<1>10. CASE FinishTakeover
  BY <1>0, <1>10, FinishFacts DEF verdict, Alive
<1>11. CASE ClaimValidation \/ SettleValidation \/ ReplayFailure \/ \E decision \in {"pass", "fail"} : ClaimReview(decision)
  BY <1>0, <1>11 DEF ClaimValidation, SettleValidation, ReplayFailure, ClaimReview, OperationSound, durable, verdict, Alive
<1>12. CASE DropCandidate \/ ArchiveFailed \/ MoveTarget \/ DropPromoted \/ RecordPromotion
  BY <1>0, <1>12 DEF DropCandidate, ArchiveFailed, MoveTarget, DropPromoted, RecordPromotion, OperationSound, durable,
                     verdict, Alive
<1> QED
  BY <1>1, <1>2, <1>3, <1>4, <1>5, <1>6, <1>7, <1>8, <1>9, <1>10, <1>11, <1>12, Cases DEF Verdicts

\* The sources and the refs are written by few.
LEMMA RefsFrame ==
  ASSUME [Next]_vars
  PROVE  \/ UNCHANGED <<ref, sources, candidate, target>>
         \/ Inspect \/ RecoverDemotion \/ Integrate \/ DropCandidate \/ MoveTarget \/ DropPromoted
         \/ \E u \in Units : KeepArtifact(u) \/ PlanTakeover(u) \/ DemoteFailed(u)
<1>1. CASE Quiet
  BY <1>1 DEF Quiet, ResumePreparation, Create, RecoverTransition, Sweep, Swept, LookAtTrees, MakeTrees,
              Edits, Produce, MoveArtifact, SessionEnds, ReleaseTree, CleanSuppressed, vars, plan, refs
<1>2. CASE Prepare \/ MarkCreating \/ AdoptReplacement \/ AdoptWave \/ AdvanceWave \/ FinishTakeover \/ Crash
  BY <1>2 DEF Prepare, MarkCreating, AdoptReplacement, AdoptWave, AdvanceWave, FinishTakeover, Crash, plan, refs
<1>3. CASE Starts \/ Archives
  BY <1>3 DEF Starts, Bind, ClaimArtifact, RecordArtifact, Archives, Report, Reconcile, Cancel, plan, refs
<1>4. CASE ClaimValidation \/ SettleValidation \/ ReplayFailure \/ \E decision \in {"pass", "fail"} : ClaimReview(decision)
  BY <1>4 DEF ClaimValidation, SettleValidation, ReplayFailure, ClaimReview, plan, refs
<1>5. CASE ArchiveFailed \/ RecordPromotion
  BY <1>5 DEF ArchiveFailed, RecordPromotion, plan, refs
<1> QED
  BY <1>1, <1>2, <1>3, <1>4, <1>5, Cases DEF Verdicts

-----------------------------------------------------------------------------
(* What keeps an implementation *)

\* A source is named once.
LEMMA SourceStays ==
  ASSUME TypeOK, [Next]_vars, NEW u \in Units, sources[u] # 0
  PROVE  sources'[u] = sources[u]
<1>0. sources \in [Units -> 0 .. 2]
  BY TypeParts DEF TypeRefs
<1>1. CASE Inspect \/ RecoverDemotion \/ Integrate \/ DropCandidate \/ MoveTarget \/ DropPromoted
  BY <1>1 DEF Inspect, RecoverDemotion, Integrate, DropCandidate, MoveTarget, DropPromoted, plan
<1>2. ASSUME NEW v \in Units, KeepArtifact(v) PROVE sources'[u] = sources[u]
  BY <1>0, <1>2 DEF KeepArtifact
<1>3. ASSUME NEW v \in Units, PlanTakeover(v) \/ DemoteFailed(v) PROVE sources'[u] = sources[u]
  BY <1>3 DEF PlanTakeover, DemoteFailed, SourcesKept
<1> QED
  BY <1>1, <1>2, <1>3, RefsFrame

\* Every implementation of a unit of the last candidate is part of it.
LEMMA FinalHolds ==
  ASSUME HeadExact, Final, NEW u \in Units
  PROVE  Tree(u) \in head
BY DEF HeadExact, Final, CandidateReady, Integrated, Implementations

\* A ref stays until the target holds what it names.
LEMMA RefStays ==
  ASSUME IInv, [Next]_vars, Alive', ~Inspect, NEW u \in Units, ref[u] = task[u].attempt
  PROVE  ref'[u] = task[u].attempt \/ Tree(u) \in target'
<1>0. TypeOK /\ HeadExact /\ OperationSound
  BY DEF IInv, Shape
<1>1. ref \in [Units -> 0 .. 2] /\ task[u].attempt \in {1, 2}
  BY <1>0, TypeParts DEF TypeRefs, TypeTask, Tasks, Attempts
<1>2. CASE RecoverDemotion
  BY <1>1, <1>2 DEF RecoverDemotion, KeepSources
<1>3. CASE Integrate \/ MoveTarget
  BY <1>3 DEF Integrate, MoveTarget
<1>4. CASE DropCandidate
  BY <1>0, <1>4 DEF DropCandidate, OperationSound, durable, verdict, Alive
<1>5. CASE DropPromoted
  BY <1>0, <1>5, FinalHolds DEF DropPromoted, OperationSound
<1>6. ASSUME NEW v \in Units, KeepArtifact(v) PROVE ref'[u] = task[u].attempt
  BY <1>1, <1>6 DEF KeepArtifact, RefKept
<1>7. ASSUME NEW v \in Units, PlanTakeover(v) \/ DemoteFailed(v) PROVE ref'[u] = task[u].attempt
  BY <1>7 DEF PlanTakeover, DemoteFailed, refs
<1> QED
  BY <1>2, <1>3, <1>4, <1>5, <1>6, <1>7, RefsFrame

\* What the candidate or the target holds stays in one of them.
LEMMA HoldStays ==
  ASSUME IInv, [Next]_vars, Alive', ~Inspect, NEW t, InCandidate(t) \/ t \in target
  PROVE  InCandidate(t)' \/ t \in target'
<1>0. TypeOK /\ TypeOK' /\ HeadExact /\ OperationSound /\ TargetFinal
  BY IInvStep DEF IInv, Shape
<1>1. CASE UNCHANGED <<candidate, target>>
  BY <1>1 DEF InCandidate
<1>2. CASE Integrate
  <2>1. integ' = head \cup Implementations(active) /\ candidate \in {head, integ'} /\ candidate' = integ' /\ UNCHANGED target
    BY <1>2 DEF Integrate
  <2>2. integ' \in SUBSET Trees
    <3>1. head \in SUBSET Trees /\ active \in SUBSET Units /\ task \in [Units -> Tasks]
      BY <1>0, TypeParts DEF TypePlan, TypeTask
    <3>2. ASSUME NEW u \in Units PROVE Tree(u) \in Trees
      <4>1. task[u].attempt \in Attempts
        BY <3>1 DEF Tasks
      <4> QED
        BY <4>1 DEF Tree, Trees
    <3>3. Implementations(active) \in SUBSET Trees
      BY <3>1, <3>2 DEF Implementations
    <3> QED
      BY <2>1, <3>1, <3>3
  <2>3. candidate' # None
    BY <2>1, <2>2, NoneAssumption
  <2> QED
    BY <2>1, <2>3 DEF InCandidate
<1>3. CASE DropCandidate
  BY <1>0, <1>3 DEF DropCandidate, OperationSound, durable, verdict, Alive
<1>4. CASE MoveTarget
  BY <1>4 DEF MoveTarget, InCandidate
<1>5. CASE DropPromoted
  BY <1>0, <1>5 DEF DropPromoted, DropRefs, OperationSound, InCandidate
<1>6. CASE RecoverDemotion \/ \E v \in Units : KeepArtifact(v) \/ PlanTakeover(v) \/ DemoteFailed(v)
  BY <1>1, <1>6 DEF RecoverDemotion, KeepArtifact, PlanTakeover, DemoteFailed, refs
<1> QED
  BY <1>1, <1>2, <1>3, <1>4, <1>5, <1>6, RefsFrame

\* So an implementation that needs its branch no longer never needs it again.
LEMMA PromisedStays ==
  ASSUME IInv, [Next]_vars, Alive', ~Inspect, NEW u \in Units, Promised(u), task'[u].attempt = task[u].attempt
  PROVE  Promised(u)'
<1>1. Tree(u)' = Tree(u)
  BY DEF Tree
<1>2. CASE ref[u] = task[u].attempt
  BY <1>1, <1>2, RefStays DEF Promised
<1>3. CASE InCandidate(Tree(u)) \/ Tree(u) \in target
  <2>1. PICK t : t = Tree(u)
    OBVIOUS
  <2>2. InCandidate(t) \/ t \in target
    BY <1>3, <2>1
  <2>3. InCandidate(t)' \/ t \in target'
    BY <2>2, HoldStays
  <2> QED
    BY <1>1, <2>1, <2>3 DEF Promised, InCandidate
<1>4. CASE Fabric /\ sources[u] \notin {0, task[u].attempt}
  <2>1. TypeOK /\ TypeOK'
    BY IInvStep DEF IInv
  <2>2. sources'[u] = sources[u]
    BY <1>4, <2>1, SourceStays
  <2>3. Fabric'
    BY <1>4, RouteStays DEF Fabric
  <2> QED
    BY <1>4, <2>2, <2>3 DEF Promised
<1> QED
  BY <1>2, <1>3, <1>4 DEF Promised

-----------------------------------------------------------------------------
(* What takes a branch away *)

\* The steps that touch the worktrees.
LEMMA TreeFrame ==
  ASSUME [Next]_vars
  PROVE  \/ UNCHANGED tree
         \/ Create \/ Sweep \/ Swept \/ LookAtTrees \/ MakeTrees \/ Crash
         \/ \E v \in Units : Edits(v) \/ Produce(v) \/ MoveArtifact(v) \/ ReleaseTree(v) \/ CleanSuppressed(v)
         \/ \E gone \in SUBSET Lapsed, seen \in BOOLEAN : Reconcile(gone, seen)
<1>1. CASE Quiet
  BY <1>1 DEF Quiet, ResumePreparation, RecoverDemotion, RecoverTransition, SessionEnds, KeepArtifact, vars
<1>2. CASE Prepare \/ Inspect \/ MarkCreating \/ AdoptReplacement \/ AdoptWave \/ Integrate \/ AdvanceWave \/ FinishTakeover
  BY <1>2 DEF Prepare, Inspect, MarkCreating, AdoptReplacement, AdoptWave, Integrate, AdvanceWave, FinishTakeover
<1>3. CASE Starts \/ Archives
  BY <1>3 DEF Starts, Bind, ClaimArtifact, RecordArtifact, Archives, Report, Cancel
<1>4. CASE Verdicts
  BY <1>4 DEF Verdicts, ClaimValidation, SettleValidation, ReplayFailure, ClaimReview, DropCandidate, ArchiveFailed,
              MoveTarget, DropPromoted, RecordPromotion
<1>5. CASE \E v \in Units : PlanTakeover(v) \/ DemoteFailed(v)
  BY <1>5 DEF PlanTakeover, DemoteFailed
<1> QED
  BY <1>1, <1>2, <1>3, <1>4, <1>5, Cases

\* Who may remove the worktree of a unit's current attempt, and its branch with it.
Removed(u) ==
  \/ rec = "sweep" /\ (Tree(u) \in OldTrees \/ (demotion # None /\ demotion.unit = u))
  \/ child[u] = "kept"
  \/ child[u] = "none" /\ task[u].artifact = "none"

\* An accepted commit leaves its branch in no other way.
LEMMA BranchStep ==
  ASSUME TypeOK, [Next]_vars, NEW u \in Units, NEW t, t = Tree(u), OnBranch(t)
  PROVE  OnBranch(t)' \/ Removed(u)
<1>0. tree \in [Trees -> TreeStates] /\ t \in Trees
  <2>1. task[u].attempt \in Attempts
    BY TypeParts DEF TypeTask, Tasks
  <2> QED
    BY <2>1, TypeParts DEF TypeTree, Tree, Trees
<1>1. tree[t] \in {"accepted", "orphaned"}
  BY DEF OnBranch
<1>2. ASSUME NEW s, CleanupFails(s) PROVE OnBranch(t)'
  BY <1>0, <1>1, <1>2 DEF CleanupFails, OnBranch
<1>3. ASSUME NEW s, RemovalCut(s) \/ Remove({s}), s # t PROVE OnBranch(t)'
  BY <1>0, <1>1, <1>3 DEF RemovalCut, Remove, OnBranch
<1>4. ASSUME NEW new, CreateMany(new) \/ CreateManyFails(new) PROVE OnBranch(t)'
  BY <1>0, <1>1, <1>4 DEF CreateMany, CreateManyFails, Managed, OnBranch
<1>5. ASSUME UNCHANGED tree PROVE OnBranch(t)'
  BY <1>1, <1>5 DEF OnBranch
<1>6. ASSUME tree' = Reconciled PROVE OnBranch(t)'
  BY <1>0, <1>1, <1>6 DEF Reconciled, OnBranch
<1>7. CASE Create \/ MakeTrees
  BY <1>4, <1>5, <1>7 DEF Create, MakeTrees, CreateTrees
<1>8. CASE Sweep
  <2>1. PICK s \in OldTrees : Remove({s}) \/ CleanupFails(s)
    BY <1>8 DEF Sweep
  <2>2. rec = "sweep"
    BY <1>8 DEF Sweep
  <2> QED
    BY <1>2, <1>3, <2>1, <2>2 DEF Removed
<1>9. CASE Swept
  <2> DEFINE s == <<demotion.unit, 1>>
  <2>1. UNCHANGED tree \/ (demotion # None /\ (Remove({s}) \/ CleanupFails(s)))
    BY <1>9 DEF Swept
  <2>2. rec = "sweep"
    BY <1>9 DEF Swept
  <2>3. s = t => demotion.unit = u
    BY DEF Tree
  <2> HIDE DEF s
  <2> QED
    BY <1>2, <1>3, <1>5, <2>1, <2>2, <2>3 DEF Removed
<1>10. CASE LookAtTrees \/ \E gone \in SUBSET Lapsed, seen \in BOOLEAN : Reconcile(gone, seen)
  BY <1>5, <1>6, <1>10 DEF LookAtTrees, Reconcile
<1>11. ASSUME NEW v \in Units, Edits(v) \/ Produce(v) \/ MoveArtifact(v) PROVE OnBranch(t)'
  BY <1>0, <1>1, <1>11 DEF Edits, Edit, Produce, Commit, MoveArtifact, AcceptCommit, OnBranch
<1>12. ASSUME NEW v \in Units, ReleaseTree(v) PROVE OnBranch(t)' \/ Removed(u)
  <2>1. Remove({Tree(v)}) \/ CleanupFails(Tree(v)) \/ UNCHANGED tree
    BY <1>12 DEF ReleaseTree
  <2>2. child[v] = "kept"
    BY <1>12 DEF ReleaseTree
  <2>3. Tree(v) = t => v = u
    BY DEF Tree
  <2> QED
    BY <1>2, <1>3, <1>5, <2>1, <2>2, <2>3 DEF Removed
<1>13. ASSUME NEW v \in Units, CleanSuppressed(v) PROVE OnBranch(t)' \/ Removed(u)
  <2>1. Remove({Tree(v)}) /\ child[v] = "none" /\ task[v].artifact = "none"
    BY <1>13 DEF CleanSuppressed
  <2>2. Tree(v) = t => v = u
    BY DEF Tree
  <2> QED
    BY <1>3, <2>1, <2>2 DEF Removed
<1>14. CASE Crash
  <2>1. CASE UNCHANGED tree
    BY <1>5, <2>1
  <2>2. CASE (\A s \in NewTrees : ~Managed(s)) /\ CreationCut(NewTrees)
    BY <1>0, <1>1, <2>2 DEF Managed, CreationCut, OnBranch
  <2>3. ASSUME NEW s \in OldTrees, rec = "sweep", RemovalCut(s) PROVE OnBranch(t)' \/ Removed(u)
    BY <1>3, <2>3 DEF Removed
  <2>4. ASSUME NEW v \in Units, child[v] = "kept", RemovalCut(Tree(v)) PROVE OnBranch(t)' \/ Removed(u)
    <3>1. Tree(v) = t => v = u
      BY DEF Tree
    <3> QED
      BY <1>3, <2>4, <3>1 DEF Removed
  <2> QED
    BY <1>14, <2>1, <2>2, <2>3, <2>4 DEF Crash
<1> QED
  BY <1>5, <1>7, <1>8, <1>9, <1>10, <1>11, <1>12, <1>13, <1>14, TreeFrame

\* By then its acceptance is over, and an accepted implementation needs it no longer.
LEMMA RemovedSafe ==
  ASSUME IInv, Custody, NEW u \in Units, Removed(u)
  PROVE  making[u] = "none" /\ (Alive /\ task[u].artifact = "accepted" => Promised(u))
<1>0. TypeOK /\ Recovering /\ HeadExact /\ DemotionActive
  BY DEF IInv, Shape
<1>1. Makers /\ DemotionSound /\ CandidateHolds /\ SweepSafe /\ ReleasedSafe
  BY DEF Custody
<1>2. ASSUME child[u] \in {"kept", "released"}
      PROVE  making[u] = "none" /\ (Alive /\ task[u].artifact = "accepted" => Promised(u))
  BY <1>1, <1>2 DEF Makers, ReleasedSafe
<1>3. CASE child[u] = "none" /\ task[u].artifact = "none"
  BY <1>1, <1>3 DEF Makers
<1>4. CASE rec = "sweep" /\ demotion # None /\ demotion.unit = u
  BY <1>1, <1>2, <1>4 DEF DemotionSound, Busy
<1>5. CASE rec = "sweep" /\ demotion # None /\ Tree(u) \in OldTrees
  <2>1. u \in demotion.clean
    <3>1. Tree(u) \in Implementations(demotion.clean)
      BY <1>5 DEF OldTrees
    <3> QED
      BY <3>1, ImplementationsOf DEF Tree
  <2>2. task[u].artifact = "accepted" /\ sources[u] # 0 /\ Fabric
    BY <1>0, <1>1, <1>5, <2>1 DEF DemotionSound, DemotionActive
  <2>3. Alive => ref[u] = sources[u]
    BY <1>1, <1>5, <2>1 DEF SweepSafe
  <2> QED
    BY <1>1, <2>2, <2>3 DEF Makers, Promised
<1>6. CASE rec = "sweep" /\ demotion = None /\ Tree(u) \in OldTrees
  <2>1. u \in active
    <3>1. Tree(u) \in Implementations(active)
      BY <1>6 DEF OldTrees
    <3> QED
      BY <3>1, ImplementationsOf DEF Tree
  <2>2. u \in Integrated /\ Fabric
    BY <1>0, <1>6, <2>1 DEF Recovering, Integrated, Custody, TransitionFabric
  <2>3. task[u].artifact = "accepted"
    BY <1>0, <2>2 DEF HeadExact, Accepted
  <2> QED
    BY <1>1, <2>2, <2>3 DEF Makers, CandidateHolds, Promised
<1> QED
  BY <1>2, <1>3, <1>4, <1>5, <1>6 DEF Removed

-----------------------------------------------------------------------------
(* The invariant is kept *)

\* The parts of the invariant a step of one unit depends on.
LEMMA Custodial ==
  ASSUME IInv, Custody, [Next]_vars
  PROVE  /\ TypeOK /\ TypeOK' /\ IInv'
         /\ \A u \in Units : Continues(u) \/ Begins(u)
BY IInvStep, UnitStep DEF IInv, Custody

\* Only the fabric integrates, and only what is integrated advances a wave.
LEMMA TransitionFabricStep ==
  ASSUME IInv, TransitionFabric, [Next]_vars
  PROVE  TransitionFabric'
<1>0. TypeOK /\ Recovering /\ IntegrationWhole
  BY DEF IInv, Shape
<1>1. ASSUME transition' # None => transition # None PROVE TransitionFabric'
  BY <1>1, RouteStays DEF TransitionFabric, Fabric
<1>2. CASE AdvanceWave
  BY <1>0, <1>2, RouteStays DEF AdvanceWave, IntegrationWhole, TransitionFabric, Fabric
<1>3. CASE MarkCreating
  BY <1>0, <1>1, <1>3, MarkFacts
<1>4. CASE Quiet \/ Verdicts
  BY <1>1, <1>4, QuietFacts, VerdictFacts DEF core, plan
<1>5. CASE Prepare \/ Inspect \/ AdoptReplacement \/ AdoptWave \/ Integrate \/ FinishTakeover \/ Crash
  BY <1>1, <1>5 DEF Prepare, Inspect, AdoptReplacement, AdoptWave, Integrate, FinishTakeover, Crash, plan
<1>6. CASE Starts \/ Archives
  BY <1>0, <1>1, <1>6, StartFacts, ArchiveFacts DEF plan
<1>7. CASE \E u \in Units : PlanTakeover(u) \/ DemoteFailed(u)
  BY <1>1, <1>7 DEF PlanTakeover, DemoteFailed
<1> QED
  BY <1>2, <1>3, <1>4, <1>5, <1>6, <1>7, Cases

\* What waits for its start is left alone.
LEMMA UnstartedStep ==
  ASSUME IInv, Custody, [Next]_vars
  PROVE  Unstarted'
<1> SUFFICES ASSUME NEW u \in Units, task'[u].phase \in Waiting PROVE Untouched(u)'
  BY DEF Unstarted
<1>1. CASE Begins(u)
  BY <1>1 DEF Begins
<1>2. CASE Continues(u) /\ ~Begins(u)
  <2>1. TypeOK /\ Makers
    BY Custodial DEF Custody
  <2>2. task[u].phase \in Waiting /\ Untouched(u)
    BY <1>2 DEF Continues, Custody, Unstarted
  <2>3. task'[u].artifact = "none"
    BY <1>2, <2>2 DEF Continues, Untouched
  <2>4. pending'[u] = None
    BY <2>1, <2>2, PendingStep DEF Untouched, Waiting
  <2>5. UNCHANGED <<child[u], making[u]>>
    <3>1. CASE Bind(u)
      BY <2>1, <3>1 DEF Bind, TypeOK, Tasks, Waiting
    <3>2. CASE Produce(u) \/ ClaimArtifact(u) \/ MoveArtifact(u) \/ RecordArtifact(u) \/ SessionEnds(u)
      BY <2>2, <3>2 DEF Produce, ClaimArtifact, MoveArtifact, RecordArtifact, SessionEnds, Untouched
    <3>3. CASE KeepArtifact(u) \/ ReleaseTree(u)
      BY <2>2, <3>3 DEF KeepArtifact, ReleaseTree, Untouched
    <3>4. CASE AdoptReplacement
      BY <1>2, <2>1, <3>4, ReplacementBegins DEF Custody
    <3>5. CASE Crash
      BY <2>2, <3>5 DEF Crash, Untouched
    <3> QED
      BY <2>1, <3>1, <3>2, <3>3, <3>4, <3>5, HandsStep
  <2> QED
    BY <2>2, <2>3, <2>4, <2>5 DEF Untouched
<1> QED
  BY <1>1, <1>2, Custodial

\* An acceptance stays within its session.
LEMMA MakersStep ==
  ASSUME IInv, Custody, [Next]_vars
  PROVE  Makers'
<1> SUFFICES ASSUME NEW u \in Units
             PROVE  /\ making'[u] # "none" => child'[u] = "working" /\ task'[u].artifact # "accepted"
                    /\ making'[u] = "record" => OnBranch(Tree(u))'
                    /\ pending'[u] = "completed" => task'[u].artifact = "accepted"
  BY DEF Makers
<1>0. TypeOK /\ Makers /\ Unstarted
  BY Custodial DEF Custody
<1>00. /\ making[u] # "none" => child[u] = "working" /\ task[u].artifact # "accepted"
       /\ making[u] = "record" => OnBranch(Tree(u))
       /\ pending[u] = "completed" => task[u].artifact = "accepted"
  BY <1>0 DEF Makers
<1>t. /\ task \in [Units -> Tasks] /\ tree \in [Trees -> TreeStates]
      /\ child \in [Units -> {"none", "working", "ended", "kept", "released"}]
      /\ making \in [Units -> {"none", "claim", "move", "record"}]
  BY <1>0, TypeParts DEF TypeTask, TypeTree, TypeWorkers
<1>1. CASE Begins(u)
  BY <1>1, NoneAssumption DEF Begins, Untouched
<1>2. CASE Continues(u) /\ ~Begins(u)
  <2>1. making'[u] # "none" => child'[u] = "working" /\ task'[u].artifact # "accepted"
    <3>1. CASE UNCHANGED <<child[u], making[u]>>
      BY <1>00, <1>2, <3>1 DEF Continues
    <3>2. CASE Bind(u)
      BY <1>0, <1>t, <3>2 DEF Bind, Unstarted, Untouched, Waiting
    <3>3. CASE Produce(u)
      BY <1>t, <3>3 DEF Produce, durable
    <3>4. CASE ClaimArtifact(u)
      BY <1>00, <1>t, <3>4 DEF ClaimArtifact, Making, Tasks
    <3>5. CASE MoveArtifact(u)
      BY <1>00, <1>t, <3>5 DEF MoveArtifact, Making, durable
    <3>6. CASE RecordArtifact(u)
      BY <1>t, <3>6 DEF RecordArtifact, Making
    <3>7. CASE SessionEnds(u) \/ KeepArtifact(u) \/ ReleaseTree(u)
      BY <1>00, <1>t, <3>7 DEF SessionEnds, KeepArtifact, ReleaseTree
    <3>8. CASE AdoptReplacement
      BY <1>0, <1>2, <3>1, <3>8, ReplacementBegins DEF Custody
    <3>9. CASE Crash
      BY <3>9 DEF Crash
    <3> QED
      BY <1>0, <3>1, <3>2, <3>3, <3>4, <3>5, <3>6, <3>7, <3>8, <3>9, HandsStep
  <2>2. making'[u] = "record" => OnBranch(Tree(u))'
    <3> SUFFICES ASSUME making'[u] = "record" PROVE OnBranch(Tree(u))'
      OBVIOUS
    <3>1. PICK t : t = Tree(u)
      OBVIOUS
    <3>2. Tree(u)' = t
      BY <1>2, <3>1 DEF Continues, Tree
    <3>3. CASE making[u] = "record"
      <4>1. OnBranch(t)' \/ Removed(u)
        BY <1>0, <1>00, <3>1, <3>3, BranchStep
      <4>2. ~Removed(u)
        BY <3>3, RemovedSafe
      <4> QED
        BY <3>2, <4>1, <4>2 DEF OnBranch
    <3>4. CASE MoveArtifact(u) /\ making[u] # "record"
      <4>1. AcceptCommit(t)
        BY <1>t, <3>1, <3>4 DEF MoveArtifact, Making
      <4>2. t \in Trees
        BY <1>t, <3>1 DEF Tree, Trees, Tasks
      <4>3. tree'[t] = "accepted"
        BY <1>t, <4>1, <4>2 DEF AcceptCommit
      <4> QED
        BY <3>2, <4>3 DEF OnBranch
    <3>5. CASE ~MoveArtifact(u) /\ making[u] # "record"
      <4>1. CASE UNCHANGED <<child[u], making[u]>>
        BY <3>5, <4>1
      <4>2. CASE Bind(u) \/ SessionEnds(u) \/ KeepArtifact(u) \/ ReleaseTree(u)
        BY <3>5, <4>2 DEF Bind, SessionEnds, KeepArtifact, ReleaseTree, workers
      <4>3. CASE Produce(u) \/ ClaimArtifact(u) \/ RecordArtifact(u)
        BY <1>t, <4>3 DEF Produce, ClaimArtifact, RecordArtifact, Making
      <4>4. CASE AdoptReplacement
        BY <3>5, <4>4 DEF AdoptReplacement
      <4>5. CASE Crash
        BY <4>5 DEF Crash
      <4> QED
        BY <1>0, <3>5, <4>1, <4>2, <4>3, <4>4, <4>5, HandsStep
    <3> QED
      BY <3>3, <3>4, <3>5
  <2>3. pending'[u] = "completed" => task'[u].artifact = "accepted"
    <3>1. CASE pending'[u] \in {pending[u], None}
      BY <1>00, <1>2, <3>1, NoneAssumption DEF Continues
    <3>2. CASE UNCHANGED task /\ (pending'[u] = "completed" => task[u].artifact = "accepted")
      BY <3>2
    <3> QED
      BY <1>0, <3>1, <3>2, PendingStep
  <2> QED
    BY <2>1, <2>2, <2>3
<1> QED
  BY <1>1, <1>2, Custodial

\* An accepted artifact stays the unit's, unless the unit starts its second attempt.
LEMMA AcceptedStays ==
  ASSUME IInv, Custody, [Next]_vars, NEW u \in Units, task[u].artifact = "accepted",
         ~(demotion # None /\ demotion.unit = u /\ demotion' = None)
  PROVE  Continues(u) /\ task'[u].artifact = "accepted" /\ task'[u].attempt = task[u].attempt
<1>1. ~Begins(u)
  BY DEF Begins, Custody, Unstarted, Untouched
<1>2. making[u] = "none"
  BY DEF Custody, Makers
<1> QED
  BY <1>1, <1>2, Custodial DEF Continues

\* A recovery of the wave begins in two ways.
LEMMA BusyStep ==
  ASSUME [Next]_vars, rec' \in Busy
  PROVE  rec \in Busy \/ RecoverDemotion \/ RecoverTransition
<1>1. CASE Quiet
  BY <1>1 DEF Quiet, ResumePreparation, Create, CreateTrees, Sweep, Swept, LookAtTrees, MakeTrees, Edits, Produce,
              MoveArtifact, SessionEnds, KeepArtifact, ReleaseTree, CleanSuppressed, vars, process, Busy
<1>2. CASE Prepare \/ Inspect \/ MarkCreating \/ AdoptReplacement \/ AdoptWave \/ Crash
  BY <1>2 DEF Prepare, Inspect, MarkCreating, AdoptReplacement, AdoptWave, Crash, Busy
<1>3. CASE Integrate \/ AdvanceWave \/ FinishTakeover \/ Verdicts
  BY <1>3, VerdictFacts DEF Integrate, AdvanceWave, FinishTakeover, process
<1>4. CASE Starts \/ Archives
  BY <1>4 DEF Starts, Bind, ClaimArtifact, RecordArtifact, Archives, Report, Reconcile, Cancel, process
<1>5. CASE \E u \in Units : PlanTakeover(u) \/ DemoteFailed(u)
  BY <1>5 DEF PlanTakeover, DemoteFailed, process
<1> QED
  BY <1>1, <1>2, <1>3, <1>4, <1>5, Cases

\* The steps that write the demotion.
LEMMA DemotionFrame ==
  ASSUME [Next]_vars
  PROVE  \/ UNCHANGED demotion
         \/ MarkCreating \/ AdoptReplacement \/ FinishTakeover
         \/ \E u \in Units : PlanTakeover(u) \/ DemoteFailed(u)
<1>1. CASE Quiet \/ Verdicts
  BY <1>1, QuietFacts, VerdictFacts DEF core, plan
<1>2. CASE Prepare \/ Inspect \/ AdoptWave \/ Integrate \/ AdvanceWave \/ Crash
  BY <1>2 DEF Prepare, Inspect, AdoptWave, Integrate, AdvanceWave, Crash, plan
<1>3. CASE Starts \/ Archives
  BY <1>3 DEF Starts, Bind, ClaimArtifact, RecordArtifact, Archives, Report, Reconcile, Cancel, plan
<1> QED
  BY <1>1, <1>2, <1>3, Cases

\* A child that was released stays released while its unit is replaced.
LEMMA ReleasedStays ==
  ASSUME IInv, Custody, [Next]_vars, NEW u \in Units, child[u] = "released", demotion # None, UNCHANGED demotion
  PROVE  child'[u] = "released"
<1>0. TypeOK /\ Makers
  BY Custodial DEF Custody
<1>1. making[u] = "none"
  BY <1>0 DEF Makers
<1>2. ~(Bind(u) \/ Produce(u) \/ ClaimArtifact(u) \/ MoveArtifact(u) \/ RecordArtifact(u))
  BY <1>1 DEF Bind, Produce, ClaimArtifact, MoveArtifact, RecordArtifact
<1>3. ~(SessionEnds(u) \/ KeepArtifact(u) \/ ReleaseTree(u))
  BY DEF SessionEnds, KeepArtifact, ReleaseTree
<1>4. AdoptReplacement => UNCHANGED child
  BY DEF AdoptReplacement
<1>5. Crash => child'[u] = "released"
  BY DEF Crash
<1> QED
  BY <1>0, <1>2, <1>3, <1>4, <1>5, HandsStep

\* The siblings a takeover settles are accepted, and get their sources.
LEMMA TakeoverClean ==
  ASSUME IInv, Custody, NEW u \in Units, PlanTakeover(u), NEW v \in demotion'.clean
  PROVE  v \in Units /\ task'[v].artifact = "accepted" /\ sources'[v] # 0
<1> DEFINE outcomes == [w \in Units |-> IF w # u /\ pending[w] = "completed" THEN "completed" ELSE None]
           settling == {w \in Units : task[w].phase = "running" /\ outcomes[w] # None}
           failed == {w \in settling : outcomes[w] # "completed"}
<1>0. TypeOK /\ TasksGrounded /\ HeadExact /\ Makers
  BY DEF IInv, Shape, Custody
<1>t. task \in [Units -> Tasks]
  BY <1>0, TypeParts DEF TypeTask
<1>1. demotion' = [unit |-> u, phase |-> "stopping", clean |-> settling]
  BY DEF PlanTakeover
<1>2. v \in Units /\ task[v].phase = "running" /\ pending[v] = "completed" /\ outcomes[v] = "completed"
  BY <1>1
<1>3. Fabric /\ transition = None /\ sources' = SourcesKept(task') /\ task' = Settled(task, outcomes)
  BY DEF PlanTakeover
<1>4. task'[v].artifact = "accepted" /\ task'[v].attempt = task[v].attempt
  BY <1>0, <1>2, TakeoverOnward DEF Onward, Makers
<1>5. v \in active
  <2>1. v \in active \cup done
    BY <1>0, <1>2, <1>3 DEF TasksGrounded
  <2>2. v \notin done
    BY <1>0, <1>2, <1>3 DEF HeadExact, Integrated, Accepted
  <2> QED
    BY <2>1, <2>2
<1>6. task'[v].phase = "completed"
  <2> DEFINE mid == [w \in Units |-> IF w \in settling
                       THEN [task[w] EXCEPT !.outcome = outcomes[w], !.phase = IF w \in failed THEN "failed" ELSE "completed"]
                       ELSE task[w]]
  <2>1. task' = Suppress(mid, failed)
    BY <1>3 DEF Settled
  <2>2. v \in settling /\ v \notin failed
    BY <1>2, NoneAssumption
  <2>3. mid[v].phase = "completed"
    BY <1>t, <1>2, <2>2 DEF Tasks
  <2> HIDE DEF mid, failed, settling, outcomes
  <2> QED
    BY <1>2, <2>1, <2>3 DEF Suppress
<1>7. task[v].attempt # 0
  BY <1>t, <1>2 DEF Tasks, Attempts
<1> HIDE DEF outcomes, settling, failed
<1> QED
  BY <1>2, <1>3, <1>4, <1>5, <1>6, <1>7 DEF SourcesKept

\* A demotion goes on with what it was planned for.
LEMMA DemotionSoundStep ==
  ASSUME IInv, Custody, [Next]_vars
  PROVE  DemotionSound'
<1> SUFFICES ASSUME demotion' # None
             PROVE  /\ \A v \in demotion'.clean : task'[v].artifact = "accepted" /\ sources'[v] # 0
                    /\ demotion'.phase # "stopping" => child'[demotion'.unit] = "released"
                    /\ rec' \in Busy => demotion'.phase # "stopping"
  BY DEF DemotionSound
<1>0. TypeOK /\ Recovering /\ DemotionSound
  BY DEF IInv, Shape, Custody
<1>t. demotion # None => demotion.unit \in Units /\ demotion.clean \in SUBSET Units
  BY <1>0 DEF TypeOK, Demotions
<1>1. CASE UNCHANGED demotion
  <2>1. ASSUME NEW v \in demotion.clean PROVE task'[v].artifact = "accepted" /\ sources'[v] # 0
    BY <1>0, <1>t, <1>1, <2>1, AcceptedStays, SourceStays DEF DemotionSound
  <2>2. demotion.phase # "stopping" => child'[demotion.unit] = "released"
    BY <1>0, <1>t, <1>1, ReleasedStays DEF DemotionSound
  <2>3. rec' \in Busy => demotion.phase # "stopping"
    BY <1>0, <1>1, BusyStep DEF RecoverDemotion, RecoverTransition, DemotionSound
  <2> QED
    BY <1>1, <2>1, <2>2, <2>3
<1>2. CASE MarkCreating /\ ~UNCHANGED demotion
  <2>1. demotion # None /\ demotion' = [demotion EXCEPT !.phase = "creating"] /\ rec \in Busy
    BY <1>2 DEF MarkCreating, Busy
  <2>2. demotion'.unit = demotion.unit /\ demotion'.clean = demotion.clean /\ demotion'.phase = "creating"
    BY <1>0, <2>1 DEF TypeOK, Demotions
  <2>3. UNCHANGED <<task, sources, child>>
    BY <1>2 DEF MarkCreating, durable, workers
  <2> QED
    BY <1>0, <2>1, <2>2, <2>3 DEF DemotionSound
<1>3. CASE AdoptReplacement
  BY <1>1, <1>3 DEF AdoptReplacement
<1>4. CASE FinishTakeover
  <2>1. demotion # None /\ demotion' = [demotion EXCEPT !.phase = "cleanup"] /\ child[demotion.unit] = "released"
    BY <1>4 DEF FinishTakeover
  <2>2. demotion'.unit = demotion.unit /\ demotion'.clean = demotion.clean /\ demotion'.phase = "cleanup"
    BY <1>0, <2>1 DEF TypeOK, Demotions
  <2>3. UNCHANGED <<sources, child>>
    BY <1>4 DEF FinishTakeover, workers
  <2>4. \A v \in Units : task'[v].artifact = task[v].artifact
    BY <1>0, <1>4, TakeoverOnward DEF Onward
  <2> QED
    BY <1>0, <1>t, <2>1, <2>2, <2>3, <2>4 DEF DemotionSound
<1>5. ASSUME NEW u \in Units, PlanTakeover(u)
      PROVE  DemotionSound'
  <2>1. demotion'.phase = "stopping"
    BY <1>5 DEF PlanTakeover
  <2>2. rec' \notin Busy
    BY <1>0, <1>5 DEF PlanTakeover, process, Recovering, Busy
  <2> QED
    BY <1>5, <2>1, <2>2, TakeoverClean DEF DemotionSound
<1>6. ASSUME NEW u \in Units, DemoteFailed(u)
      PROVE  DemotionSound'
  <2>1. /\ demotion' = [unit |-> u, phase |-> "cleanup", clean |-> {v \in active : Accepted(v)}]
        /\ child'[u] = "released" /\ sources' = SourcesKept(task) /\ UNCHANGED task
    BY <1>6 DEF DemoteFailed, durable, workers
  <2>2. active \in SUBSET Units /\ task \in [Units -> Tasks]
    BY <1>0, TypeParts DEF TypePlan, TypeTask
  <2>3. ASSUME NEW v \in active, Accepted(v) PROVE sources'[v] # 0
    BY <2>1, <2>2, <2>3 DEF SourcesKept, Accepted, Tasks, Attempts
  <2> QED
    BY <2>1, <2>2, <2>3 DEF DemotionSound, Accepted
<1> QED
  BY <1>1, <1>2, <1>3, <1>4, <1>5, <1>6, DemotionFrame DEF DemotionSound

\* Only the end of an integration adds to what is integrated, and the candidate holds it.
LEMMA IntegratedStep ==
  ASSUME TypeOK, Unprepared, Recovering, [Next]_vars
  PROVE  \/ UNCHANGED Integrated
         \/ /\ UNCHANGED <<candidate, target, task>> /\ transition = None
            /\ candidate = head \cup Implementations(active) /\ candidate # None
            /\ Integrated' = done \cup active
<1>1. CASE UNCHANGED <<done, active, transition>>
  BY <1>1 DEF Integrated
<1>2. CASE Quiet \/ Verdicts
  BY <1>1, <1>2, QuietFacts, VerdictFacts DEF core, plan
<1>3. CASE Prepare
  BY <1>3 DEF Prepare, Unprepared, Integrated
<1>4. CASE MarkCreating
  BY <1>4, MarkFacts DEF Integrated
<1>5. CASE Inspect \/ AdoptReplacement \/ Integrate \/ FinishTakeover \/ Crash
  BY <1>1, <1>5 DEF Inspect, AdoptReplacement, Integrate, FinishTakeover, Crash, plan
<1>6. CASE Starts \/ Archives
  BY <1>1, <1>6, StartFacts, ArchiveFacts DEF plan
<1>7. CASE \E u \in Units : PlanTakeover(u) \/ DemoteFailed(u)
  BY <1>1, <1>7 DEF PlanTakeover, DemoteFailed
<1>8. CASE AdoptWave
  <2>1. \/ UNCHANGED <<done, active, transition>>
        \/ transition # None /\ done' = done \cup active /\ transition' = None
    BY <1>8, WaveFacts
  <2> QED
    BY <1>1, <2>1 DEF Integrated
<1>9. CASE AdvanceWave
  <2>1. CASE UNCHANGED <<head, transition>>
    BY <1>1, <1>9, <2>1 DEF AdvanceWave
  <2>2. CASE ~UNCHANGED <<head, transition>>
    <3>1. /\ UNCHANGED <<candidate, target, task, done, active>> /\ transition = None /\ integ # None
          /\ candidate = integ /\ integ = head \cup Implementations(active)
      BY <1>9, <2>2 DEF AdvanceWave, durable, refs
    <3>2. transition' # None
      BY <1>9, <2>2, AdvanceFacts
    <3> QED
      BY <3>1, <3>2 DEF Integrated
  <2> QED
    BY <2>1, <2>2
<1> QED
  BY <1>2, <1>3, <1>4, <1>5, <1>6, <1>7, <1>8, <1>9, Cases

\* A wave's implementations are in the candidate before they count as integrated.
LEMMA CandidateHoldsStep ==
  ASSUME IInv, Custody, [Next]_vars
  PROVE  CandidateHolds'
<1> SUFFICES ASSUME Alive', Fabric', NEW u \in Integrated'
             PROVE  InCandidate(Tree(u))' \/ Tree(u)' \in target'
  BY DEF CandidateHolds, InCandidate
<1>0. TypeOK /\ TypeOK' /\ Unprepared /\ Recovering /\ HeadExact /\ WavesReady /\ DemotionActive /\ Fabric
  BY Custodial, RouteStays DEF IInv, Shape, Fabric
<1>1. CASE Inspect
  <2>1. stage = "preparing" /\ UNCHANGED <<done, transition>>
    BY <1>0, <1>1 DEF Inspect, Recovering, plan
  <2> QED
    BY <1>0, <2>1 DEF Unprepared, Integrated
<1>2. CASE ~Inspect /\ UNCHANGED Integrated
  <2>1. u \in Integrated /\ u \in Units /\ Accepted(u) /\ (InCandidate(Tree(u)) \/ Tree(u) \in target)
    <3>1. Alive
      BY <1>2, AliveStep
    <3>2. u \in Integrated /\ Integrated \in SUBSET Units
      BY <1>0, <1>2 DEF Integrated, TypeOK
    <3> QED
      BY <1>0, <3>1, <3>2 DEF Custody, CandidateHolds, HeadExact
  <2>2. ~(demotion # None /\ demotion.unit = u)
    BY <1>0, <2>1 DEF DemotionActive, WavesReady, Integrated
  <2>3. task'[u].attempt = task[u].attempt
    BY <2>1, <2>2, AcceptedStays DEF Accepted
  <2>4. PICK t : t = Tree(u)
    OBVIOUS
  <2>5. InCandidate(t)' \/ t \in target'
    BY <1>2, <2>1, <2>4, HoldStays
  <2> QED
    BY <2>3, <2>4, <2>5 DEF InCandidate, Tree
<1>3. CASE ~Inspect /\ ~UNCHANGED Integrated
  <2>1. /\ UNCHANGED <<candidate, target, task>> /\ transition = None
        /\ candidate = head \cup Implementations(active) /\ candidate # None
        /\ u \in done \cup active
    BY <1>0, <1>3, IntegratedStep
  <2>2. Tree(u) \in candidate
    BY <1>0, <2>1 DEF HeadExact, Integrated, Implementations
  <2> QED
    BY <2>1, <2>2 DEF InCandidate, Tree
<1> QED
  BY <1>1, <1>2, <1>3

\* The refs a demotion makes before its sweep are there until it is over.
LEMMA SweepSafeStep ==
  ASSUME IInv, Custody, [Next]_vars
  PROVE  SweepSafe'
<1> SUFFICES ASSUME Alive', rec' = "sweep", demotion' # None, NEW v \in demotion'.clean
             PROVE  ref'[v] = sources'[v]
  BY DEF SweepSafe
<1>0. TypeOK /\ Recovering /\ OperationSound /\ DemotionActive /\ DemotionSound
  BY DEF IInv, Shape, Custody
<1>t. ref \in [Units -> 0 .. 2] /\ sources \in [Units -> 0 .. 2]
  BY <1>0, TypeParts DEF TypeRefs
<1>1. CASE RecoverDemotion
  <2>1. KeepSources /\ UNCHANGED <<sources, demotion>>
    BY <1>1 DEF RecoverDemotion, plan
  <2>2. v \in Units /\ sources[v] # 0
    BY <1>0, <2>1 DEF DemotionSound, TypeOK, Demotions
  <2> QED
    BY <2>1, <2>2 DEF KeepSources
<1>2. CASE ~RecoverDemotion
  <2>1. ~Inspect
    BY DEF Inspect
  <2>2. rec = "sweep"
    <3>1. CASE Quiet
      BY <1>0, <1>2, <3>1 DEF Quiet, ResumePreparation, Create, CreateTrees, RecoverTransition, Sweep, Swept, LookAtTrees,
                  MakeTrees, Edits, Produce, MoveArtifact, SessionEnds, KeepArtifact, ReleaseTree, CleanSuppressed, vars,
                  process, plan
    <3>2. CASE Prepare \/ MarkCreating \/ AdoptReplacement \/ AdoptWave \/ Crash
      BY <3>2 DEF Prepare, MarkCreating, AdoptReplacement, AdoptWave, Crash
    <3>3. CASE Integrate \/ AdvanceWave \/ FinishTakeover \/ Verdicts
      BY <3>3, VerdictFacts DEF Integrate, AdvanceWave, FinishTakeover, process
    <3>4. CASE Starts \/ Archives
      BY <3>4 DEF Starts, Bind, ClaimArtifact, RecordArtifact, Archives, Report, Reconcile, Cancel, process
    <3>5. CASE \E u \in Units : PlanTakeover(u) \/ DemoteFailed(u)
      BY <3>5 DEF PlanTakeover, DemoteFailed, process
    <3> QED
      BY <2>1, <3>1, <3>2, <3>3, <3>4, <3>5, Cases
  <2>3. UNCHANGED demotion
    <3>1. ~MarkCreating /\ ~AdoptReplacement
      BY <2>2 DEF MarkCreating, AdoptReplacement
    <3>2. ~FinishTakeover
      BY <1>0, <2>2 DEF FinishTakeover, DemotionSound, Busy
    <3>3. \A u \in Units : ~PlanTakeover(u) /\ ~DemoteFailed(u)
      BY <1>0, <2>2 DEF PlanTakeover, DemoteFailed, Recovering
    <3> QED
      BY <3>1, <3>2, <3>3, DemotionFrame
  <2>4. v \in Units /\ sources[v] # 0 /\ ref[v] = sources[v] /\ sources'[v] = sources[v]
    <3>1. v \in Units /\ sources[v] # 0
      BY <1>0, <2>3 DEF DemotionSound, TypeOK, Demotions
    <3>2. Alive
      BY <2>1, AliveStep
    <3> QED
      BY <1>0, <2>2, <2>3, <3>1, <3>2, SourceStays DEF Custody, SweepSafe
  <2>5. ref'[v] = ref[v]
    <3>1. CASE Integrate \/ MoveTarget \/ \E u \in Units : PlanTakeover(u) \/ DemoteFailed(u)
      BY <3>1 DEF Integrate, MoveTarget, PlanTakeover, DemoteFailed, refs
    <3>2. CASE DropCandidate
      BY <1>0, <3>2 DEF DropCandidate, OperationSound, durable, verdict, Alive
    <3>3. CASE DropPromoted
      BY <1>0, <2>3, <3>3 DEF DropPromoted, OperationSound, Final, CandidateReady
    <3>4. ASSUME NEW u \in Units, KeepArtifact(u) PROVE ref'[v] = ref[v]
      BY <1>t, <2>4, <3>4 DEF KeepArtifact
    <3> QED
      BY <1>2, <2>1, <3>1, <3>2, <3>3, <3>4, RefsFrame
  <2> QED
    BY <2>4, <2>5
<1> QED
  BY <1>1, <1>2

\* A worktree is let go of once a ref names its artifact; from then on the worker makes none.
LEMMA ReleasedSafeStep ==
  ASSUME IInv, Custody, [Next]_vars
  PROVE  ReleasedSafe'
<1> SUFFICES ASSUME Alive', NEW u \in Units, child'[u] \in {"kept", "released"}, task'[u].artifact # "none"
             PROVE  Promised(u)'
  BY DEF ReleasedSafe
<1>0. TypeOK /\ Unprepared /\ Recovering /\ Makers /\ Unstarted /\ ReleasedSafe
  BY DEF IInv, Shape, Custody
<1>t. /\ task \in [Units -> Tasks] /\ ref \in [Units -> 0 .. 2]
      /\ child \in [Units -> {"none", "working", "ended", "kept", "released"}]
  BY <1>0, TypeParts DEF TypeTask, TypeRefs, TypeWorkers
<1>1. Continues(u) /\ ~Inspect
  <2>1. ~Begins(u)
    BY DEF Begins, Untouched
  <2> QED
    BY <1>0, <2>1, Custodial, InspectBegins
<1>2. CASE child[u] \in {"kept", "released"}
  <2>1. making[u] = "none"
    BY <1>0, <1>2 DEF Makers
  <2>2. task[u].artifact # "none" /\ task'[u].attempt = task[u].attempt
    BY <1>1, <2>1 DEF Continues
  <2>3. Promised(u)
    BY <1>0, <1>1, <1>2, <2>2, AliveStep DEF ReleasedSafe
  <2> QED
    BY <1>1, <2>2, <2>3, PromisedStays
<1>3. CASE child[u] \notin {"kept", "released"}
  <2>1. ~UNCHANGED <<child[u], making[u]>>
    BY <1>3
  <2>2. ~(Bind(u) \/ SessionEnds(u) \/ ReleaseTree(u))
    BY <1>t, <1>3 DEF Bind, SessionEnds, ReleaseTree
  <2>3. ~(Produce(u) \/ ClaimArtifact(u) \/ MoveArtifact(u) \/ RecordArtifact(u))
    BY <1>3 DEF Produce, ClaimArtifact, MoveArtifact, RecordArtifact
  <2>4. ~AdoptReplacement
    BY <1>0, <1>1, <1>3, ReplacementBegins DEF Custody, Begins, Untouched
  <2>5. ~Crash
    BY <1>t, <1>3 DEF Crash
  <2>6. KeepArtifact(u)
    BY <1>0, <2>1, <2>2, <2>3, <2>4, <2>5, HandsStep
  <2>7. ref' = (IF RefKept(u) = 0 THEN ref ELSE [ref EXCEPT ![u] = RefKept(u)]) /\ UNCHANGED task
    BY <1>t, <1>3, <2>6 DEF KeepArtifact, durable
  <2>8. RefKept(u) = task[u].attempt /\ task[u].attempt # 0
    BY <1>t, <2>7 DEF RefKept, Tasks, Attempts
  <2>9. ref'[u] = task'[u].attempt
    BY <1>t, <2>7, <2>8
  <2> QED
    BY <2>9 DEF Promised
<1> QED
  BY <1>2, <1>3

\* An implementation is on its branch when it is accepted, and leaves it only for a promise.
LEMMA ArtifactsKeptStep ==
  ASSUME IInv, Custody, [Next]_vars
  PROVE  ArtifactsKept'
<1> SUFFICES ASSUME Alive', NEW u \in Units, task'[u].artifact = "accepted"
             PROVE  OnBranch(Tree(u))' \/ Promised(u)'
  BY DEF ArtifactsKept, Alive, Promised, InCandidate
<1>0. TypeOK /\ Unprepared /\ Recovering /\ Makers /\ Unstarted /\ ArtifactsKept
  BY DEF IInv, Shape, Custody
<1>1. Continues(u) /\ ~Inspect
  <2>1. ~Begins(u)
    BY DEF Begins, Untouched
  <2> QED
    BY <1>0, <2>1, Custodial, InspectBegins
<1>2. task'[u].attempt = task[u].attempt /\ Alive
  BY <1>1, AliveStep DEF Continues
<1>3. ASSUME Promised(u) PROVE Promised(u)'
  BY <1>1, <1>2, <1>3, PromisedStays
<1>4. ASSUME OnBranch(Tree(u)) PROVE OnBranch(Tree(u))' \/ Removed(u)
  <2>1. PICK t : t = Tree(u)
    OBVIOUS
  <2>2. OnBranch(t)' \/ Removed(u)
    BY <1>0, <1>4, <2>1, BranchStep
  <2> QED
    BY <1>2, <2>1, <2>2 DEF OnBranch, Tree
<1>5. CASE task[u].artifact = "accepted"
  <2>1. OnBranch(Tree(u)) \/ Promised(u)
    BY <1>0, <1>2, <1>5 DEF ArtifactsKept, Alive, Promised, InCandidate
  <2>2. Removed(u) => Promised(u)
    BY <1>2, <1>5, RemovedSafe
  <2> QED
    BY <1>3, <1>4, <2>1, <2>2
<1>6. CASE making[u] = "record"
  <2>1. OnBranch(Tree(u)) /\ ~Removed(u)
    BY <1>0, <1>6, RemovedSafe DEF Makers
  <2> QED
    BY <1>4, <2>1
<1> QED
  BY <1>1, <1>5, <1>6 DEF Continues

-----------------------------------------------------------------------------
(* The theorem *)

\* A run starts without an artifact, a demotion or a child.
LEMMA CustodyInit == Init => Custody
<1> SUFFICES ASSUME Init PROVE Custody
  OBVIOUS
<1>1. TransitionFabric /\ DemotionSound /\ SweepSafe /\ CandidateHolds
  BY DEF Init, TransitionFabric, DemotionSound, SweepSafe, CandidateHolds, Alive
<1>2. Unstarted /\ Makers
  BY NoneAssumption DEF Init, Unstarted, Untouched, Makers, Absent
<1>3. ReleasedSafe /\ ArtifactsKept
  BY DEF Init, ReleasedSafe, ArtifactsKept, Alive
<1> QED
  BY <1>1, <1>2, <1>3 DEF Custody

\* Every step keeps both invariants.
LEMMA CustodyStep == IInv /\ Custody /\ [Next]_vars => (IInv /\ Custody)'
<1> SUFFICES ASSUME IInv, Custody, [Next]_vars PROVE (IInv /\ Custody)'
  OBVIOUS
<1>1. IInv' /\ TransitionFabric'
  BY Custodial, TransitionFabricStep DEF Custody
<1>2. Unstarted' /\ Makers' /\ DemotionSound'
  BY UnstartedStep, MakersStep, DemotionSoundStep
<1>3. CandidateHolds' /\ SweepSafe'
  BY CandidateHoldsStep, SweepSafeStep
<1>4. ReleasedSafe' /\ ArtifactsKept'
  BY ReleasedSafeStep, ArtifactsKeptStep
<1> QED
  BY <1>1, <1>2, <1>3, <1>4 DEF Custody

\* No crash, refused command, takeover or order of the recovery's steps loses an accepted
\* implementation the run may still use: cleanup() only ever takes a branch whose commit a
\* private ref, the candidate or the target holds (releaseChildWorktree, recoverFabricDemotion,
\* recoverFabricTransition).
THEOREM ArtifactsAreKept == Spec => []ArtifactsKept
<1>1. Init => IInv /\ Custody
  BY InitIInv, CustodyInit
<1>2. Custody => ArtifactsKept
  BY DEF Custody
<1> QED
  BY <1>1, <1>2, CustodyStep, PTL DEF Spec
-----------------------------------------------------------------------------
(* The promise of a run: DeliveryTable *)

Ends == {"completed", "failed", "cancelled"}
\* A serial run hands its artifacts over and delivers nothing itself.
Status == IF Fabric /\ stage \in Ends THEN stage ELSE "open"
Delivery == INSTANCE DeliveryTable WITH integrated <- head, status <- Status

\* An archived run stays as it is, archived as cancelled if and only if it was; a
\* cancellation comes before any decision of the review.
LEMMA EndStep ==
  ASSUME IInv, [Next]_vars
  PROVE  /\ stage \in Ends => UNCHANGED stage
         /\ stage \notin Ends /\ stage' \in Ends => ((stage' = "cancelled") <=> cancelled')
         /\ UNCHANGED cancelled
            \/ (~cancelled /\ cancelled' /\ stage = "run" /\ review = "pending" /\ UNCHANGED <<head, target>>)
<1>0. TypeOK /\ Unprepared /\ Recovering /\ cancelled \in BOOLEAN
  BY DEF IInv, Shape, TypeOK
<1>1. ASSUME NEW ts, NEW act, NEW dn, NEW can \in BOOLEAN, NEW promoted,
             stage' = StageAfter(ts, act, dn, can, promoted), stage' \in Ends
      PROVE  (stage' = "cancelled") <=> can
  BY <1>1 DEF StageAfter, Ends
<1>2. CASE UNCHANGED <<stage, cancelled>>
  BY <1>2
<1>3. CASE Quiet
  BY <1>2, <1>3, QuietFacts DEF core
<1>4. CASE Prepare
  BY <1>4 DEF Prepare, Ends
<1>5. CASE Inspect
  <2>1. stage = "preparing" /\ ~cancelled /\ UNCHANGED cancelled
    BY <1>0, <1>5 DEF Inspect, Recovering, Unprepared
  <2>2. UNCHANGED stage \/ stage' \in {"run", "failed"}
    BY <1>5 DEF Inspect
  <2> QED
    BY <2>1, <2>2 DEF Ends
<1>6. CASE AdoptWave
  <2>1. UNCHANGED cancelled
    BY <1>6 DEF AdoptWave
  <2>2. \/ UNCHANGED stage
        \/ stage = "run" /\ \E ts : stage' = StageAfter(ts, transition.next, Completed, cancelled, FALSE)
    BY <1>6 DEF AdoptWave
  <2>3. stage \notin Ends /\ stage' \in Ends => ((stage' = "cancelled") <=> cancelled)
    BY <1>0, <1>1, <2>2
  <2> QED
    BY <2>1, <2>2, <2>3 DEF Ends
<1>7. CASE Archives
  <2>1. stage = "run" /\ UNCHANGED <<head, target>>
    BY <1>0, <1>7, ArchiveFacts DEF plan, refs
  <2>2. cancelled' \in BOOLEAN /\ (UNCHANGED cancelled \/ (~cancelled /\ cancelled'))
    BY <1>0, <1>7 DEF Archives, Report, Reconcile, Cancel
  <2>3. UNCHANGED cancelled \/ review = "pending"
    BY <1>0, <1>7, ArchiveFacts
  <2>4. UNCHANGED stage \/ \E ts : stage' = StageAfter(ts, active, done, cancelled', FALSE)
    BY <1>0, <1>7, ArchiveFacts DEF Archived
  <2>5. stage \notin Ends /\ stage' \in Ends => ((stage' = "cancelled") <=> cancelled')
    BY <1>1, <2>2, <2>4
  <2> QED
    BY <2>1, <2>2, <2>3, <2>5 DEF Ends
<1>8. CASE ArchiveFailed \/ RecordPromotion
  <2>1. UNCHANGED cancelled
    BY <1>8 DEF ArchiveFailed, RecordPromotion
  <2>2. \/ UNCHANGED stage
        \/ stage = "run" /\ \E promoted : stage' = StageAfter(task, active, done, cancelled, promoted)
    BY <1>8 DEF ArchiveFailed, RecordPromotion
  <2>3. stage \notin Ends /\ stage' \in Ends => ((stage' = "cancelled") <=> cancelled)
    BY <1>0, <1>1, <2>2
  <2> QED
    BY <2>1, <2>2, <2>3 DEF Ends
<1>9. CASE Verdicts /\ ~ArchiveFailed /\ ~RecordPromotion
  BY <1>2, <1>9 DEF Verdicts, ClaimValidation, SettleValidation, ReplayFailure, ClaimReview, DropCandidate, MoveTarget,
       DropPromoted, durable
<1>10. CASE MarkCreating \/ AdoptReplacement \/ Integrate \/ FinishTakeover \/ Crash
  BY <1>2, <1>10 DEF MarkCreating, AdoptReplacement, Integrate, FinishTakeover, Crash, durable
<1>11. CASE Starts
  BY <1>0, <1>2, <1>11, StartFacts
<1>12. CASE \E u \in Units : PlanTakeover(u) \/ DemoteFailed(u)
  BY <1>0, <1>2, <1>12, TakeoverFacts, DemoteFacts DEF durable
<1>13. CASE AdvanceWave
  BY <1>0, <1>2, <1>13, AdvanceFacts DEF durable
<1> QED
  BY <1>3, <1>4, <1>5, <1>6, <1>7, <1>8, <1>9, <1>10, <1>11, <1>12, <1>13, Cases

\* The candidate of record moves with a wave, and the target with the promotion.
LEMMA HeadFrame ==
  ASSUME TypeOK, Recovering, [Next]_vars
  PROVE  UNCHANGED <<head, target>> \/ AdvanceWave \/ MoveTarget
<1>1. CASE Quiet
  BY <1>1, QuietFacts DEF core
<1>2. CASE Starts \/ Archives
  BY <1>2, StartFacts, ArchiveFacts DEF plan, refs
<1>3. CASE Prepare \/ Inspect \/ MarkCreating \/ AdoptReplacement \/ AdoptWave \/ FinishTakeover \/ Integrate \/ Crash
  BY <1>3 DEF Prepare, Inspect, MarkCreating, AdoptReplacement, AdoptWave, FinishTakeover, Integrate, Crash, plan, refs
<1>4. CASE \E u \in Units : PlanTakeover(u) \/ DemoteFailed(u)
  BY <1>4, TakeoverFacts, DemoteFacts DEF refs
<1>5. CASE Verdicts /\ ~MoveTarget
  BY <1>5, VerdictFacts DEF Verdicts, ClaimValidation, SettleValidation, ReplayFailure, ClaimReview, DropCandidate,
       ArchiveFailed, DropPromoted, RecordPromotion, refs, plan
<1> QED
  BY <1>1, <1>2, <1>3, <1>4, <1>5, Cases

\* The units of their implementations.
LEMMA UnitsOfTrees ==
  ASSUME NEW us \in SUBSET Units
  PROVE  Delivery!UnitsOf(Implementations(us)) = us
<1>1. ASSUME NEW u \in us PROVE u \in Delivery!UnitsOf(Implementations(us))
  <2>1. Tree(u) \in Implementations(us) /\ Tree(u)[1] = u
    BY DEF Implementations, Tree
  <2> QED
    BY <2>1 DEF Delivery!UnitsOf
<1>2. ASSUME NEW u \in Delivery!UnitsOf(Implementations(us)) PROVE u \in us
  BY DEF Delivery!UnitsOf, Implementations, Tree
<1> QED
  BY <1>1, <1>2

\* A wave is integrated.
LEMMA DeliversWave ==
  ASSUME IInv, IInv', AdvanceWave
  PROVE  UNCHANGED Delivery!delivery \/ \E wave \in SUBSET (Units \X Attempts) : Delivery!Integrate(wave)
<1>0. TypeOK /\ HeadExact /\ WavesReady /\ TargetFinal /\ IntegrationWhole
  BY DEF IInv, Shape
<1>1. CASE UNCHANGED head
  BY <1>0, <1>1, AdvanceFacts DEF durable, refs, Delivery!delivery, Status, Fabric
<1>2. CASE head' # head
  <2>1. /\ transition = None /\ active # {} /\ head' = head \cup Implementations(active)
        /\ integ # None /\ stage = "run" /\ ~cancelled /\ UNCHANGED <<target, cancelled, stage, route>>
    BY <1>0, <1>2, AdvanceFacts DEF AdvanceWave, durable, refs
  <2>2. Fabric /\ head = Implementations(done)
    BY <1>0, <2>1 DEF IntegrationWhole, HeadExact, Integrated
  <2>3. target = {}
    BY <1>0, <2>1 DEF TargetFinal, Final, CandidateReady
  <2>4. done \in SUBSET Units /\ active \in SUBSET Units /\ task \in [Units -> Tasks]
    BY <1>0 DEF TypeOK
  <2>5. Delivery!UnitsOf(head) = done
    BY <2>2, <2>4, UnitsOfTrees
  <2>6. Implementations(active) # {} /\ Implementations(active) \in SUBSET (Units \X Attempts)
    <3>1. \A u \in active : Tree(u) \in Units \X Attempts
      BY <2>4 DEF Tree, Tasks
    <3> QED
      BY <2>1, <3>1 DEF Implementations
  <2>7. \A s, t \in Implementations(active) : s[1] = t[1] => s = t
    BY DEF Implementations, Tree
  <2>8. \A t \in Implementations(active) : t[1] \notin done /\ Deps[t[1]] \subseteq done
    BY <1>0, <2>2 DEF WavesReady, Implementations, Tree
  <2>9. Status = "open" /\ UNCHANGED Status
    BY <2>1 DEF Status, Ends, Fabric
  <2>10. Delivery!Integrate(Implementations(active))
    BY <2>1, <2>3, <2>5, <2>6, <2>7, <2>8, <2>9 DEF Delivery!Integrate
  <2> QED
    BY <2>6, <2>10
<1> QED
  BY <1>1, <1>2

\* The promotion delivers.
LEMMA DeliversAll ==
  ASSUME IInv, MoveTarget
  PROVE  UNCHANGED Delivery!delivery \/ Delivery!Deliver
<1>0. HeadExact /\ OperationSound
  BY DEF IInv, Shape
<1>1. UNCHANGED <<head, cancelled, stage, route>>
  BY DEF MoveTarget, durable, plan
<1>2. UNCHANGED Status
  BY <1>1 DEF Status, Fabric
<1>3. CASE UNCHANGED target
  BY <1>1, <1>2, <1>3 DEF Delivery!delivery
<1>4. CASE target' # target
  <2>1. Final /\ stage = "run" /\ ~cancelled /\ target = {} /\ target' = head
    BY <1>0, <1>4 DEF MoveTarget, OperationSound
  <2>2. head = Implementations(Units)
    BY <1>0, <2>1 DEF Final, CandidateReady, HeadExact, Integrated
  <2>3. Delivery!Whole
    BY <2>2, UnitsOfTrees DEF Delivery!Whole
  <2>4. Status = "open"
    BY <2>1 DEF Status, Ends
  <2> QED
    BY <1>1, <1>2, <2>1, <2>3, <2>4 DEF Delivery!Deliver
<1> QED
  BY <1>3, <1>4

\* Everything else cancels the run, ends it, or is not seen.
LEMMA DeliversNothing ==
  ASSUME IInv, IInv', [Next]_vars, UNCHANGED <<head, target>>
  PROVE  UNCHANGED Delivery!delivery \/ Delivery!Cancel \/ \E s \in Ends : Delivery!End(s)
<1>0. TargetFinal /\ TargetFinal' /\ HeadExact' /\ cancelled \in BOOLEAN /\ cancelled' \in BOOLEAN
  BY DEF IInv, Shape, TypeOK
<1>1. UNCHANGED route
  BY RouteStays
<1>2. CASE ~UNCHANGED cancelled
  <2>1. ~cancelled /\ cancelled' = TRUE /\ stage = "run" /\ review = "pending"
    BY <1>0, <1>2, EndStep
  <2>2. target = {}
    BY <1>0, <2>1 DEF TargetFinal
  <2>3. Status = "open" /\ Status' \in {"open", "cancelled"}
    BY <2>1, EndStep DEF Status, Ends
  <2> QED
    BY <2>1, <2>2, <2>3 DEF Delivery!Cancel
<1>3. CASE UNCHANGED <<cancelled, Status>>
  BY <1>3 DEF Delivery!delivery
<1>4. CASE UNCHANGED cancelled /\ ~UNCHANGED Status
  <2>1. Fabric /\ stage \notin Ends /\ stage' \in Ends /\ ((stage' = "cancelled") <=> cancelled)
    BY <1>1, <1>4, EndStep DEF Status, Fabric
  <2>2. Status = "open" /\ Status' = stage'
    BY <1>1, <2>1 DEF Status, Fabric
  <2>3. CASE stage' = "completed"
    <3>1. target' = head' /\ head' = Implementations(Units)'
      BY <1>0, <1>1, <2>1, <2>3 DEF TargetFinal, Final, CandidateReady, HeadExact, Integrated, Fabric
    <3>2. Delivery!UnitsOf(head') = Units
      <4>1. ASSUME NEW u \in Units PROVE u \in Delivery!UnitsOf(head')
        <5>1. Tree(u)' \in head' /\ Tree(u)'[1] = u
          BY <3>1 DEF Implementations, Tree
        <5> QED
          BY <5>1 DEF Delivery!UnitsOf
      <4>2. ASSUME NEW u \in Delivery!UnitsOf(head') PROVE u \in Units
        BY <3>1 DEF Delivery!UnitsOf, Implementations, Tree
      <4> QED
        BY <4>1, <4>2
    <3>3. Delivery!Whole /\ target = head
      BY <3>1, <3>2 DEF Delivery!Whole
    <3>4. Delivery!End(stage')
      BY <1>4, <2>1, <2>2, <2>3, <3>3 DEF Delivery!End
    <3> QED
      BY <2>1, <3>4
  <2>4. CASE stage' # "completed"
    <3>1. target = {}
      BY <1>0, <2>1, <2>4 DEF TargetFinal, Ends
    <3>2. Delivery!End(stage')
      BY <1>4, <2>1, <2>2, <2>4, <3>1 DEF Delivery!End
    <3> QED
      BY <2>1, <3>2
  <2> QED
    BY <2>3, <2>4
<1> QED
  BY <1>2, <1>3, <1>4

\* A fabric run integrates, delivers, is cancelled and ends as DeliveryTable promises: through
\* demotions, takeovers, crashes and repeated calls no unit is integrated twice or before what
\* it depends on, the target gets everything or nothing, and a cancellation that was accepted
\* is the last word (advanceFabricWave, acceptFabricCandidate, cancel, archiveIfTerminal).
THEOREM RunDelivers == Spec => Delivery!Spec
<1>1. ASSUME Init PROVE Delivery!Init
  BY <1>1 DEF Init, Delivery!Init, Status, Ends
<1>2. ASSUME IInv, [Next]_vars PROVE [Delivery!Next]_(Delivery!delivery)
  <2>1. IInv' /\ TypeOK /\ Recovering
    BY <1>2, IInvStep DEF IInv, Shape
  <2>2. UNCHANGED <<head, target>> \/ AdvanceWave \/ MoveTarget
    BY <1>2, <2>1, HeadFrame
  <2> QED
    BY <1>2, <2>1, <2>2, DeliversWave, DeliversAll, DeliversNothing DEF Delivery!Next, Ends
<1> QED
  BY <1>1, <1>2, Invariant, PTL DEF Spec, Delivery!Spec
=============================================================================
