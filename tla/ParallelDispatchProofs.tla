----------------------- MODULE ParallelDispatchProofs -----------------------
(***************************************************************************)
(* Safety of a parallel dispatch for every contract, with any number of      *)
(* mishaps: typing, the bases units are started on, and what is promoted.    *)
(***************************************************************************)
EXTENDS ParallelDispatch, TLAPS

-----------------------------------------------------------------------------
(* The inductive invariant *)

\* The units whose implementations the candidate of record holds.
Integrated == IF transition = None THEN done ELSE done \cup active

\* Before the run is there, nothing of it is.
Unprepared ==
  stage \in {"none", "preparing"} =>
    /\ \A u \in Units : task[u].phase = "absent"
    /\ done = {} /\ head = {} /\ transition = None /\ demotion = None /\ integ = None
    /\ op = "idle" /\ validation = "pending" /\ review = "pending" /\ ~cancelled

\* The holder of the prepare lease works on what it found.
Recovering ==
  /\ rec \in {"inspect", "reinspect", "create"} => stage = "preparing"
  /\ rec \in {"sweep", "mark", "look", "make", "adopt"} => demotion # None \/ transition # None

\* The candidate of record is what the integrated units' current attempts accepted.
HeadExact ==
  Fabric => head = Implementations(Integrated) /\ \A u \in Integrated : Accepted(u)

\* A wave's dependencies are integrated, and no unit is in two waves.
WavesReady ==
  Fabric =>
    /\ \A u \in active : u \notin done /\ Deps[u] \subseteq done
    /\ transition # None =>
         \A u \in transition.next : u \notin done \cup active /\ Deps[u] \subseteq done \cup active

\* A task's base holds its dependencies and nothing the candidate of record lacks.
TasksGrounded ==
  Fabric => \A u \in Units : task[u].phase # "absent" =>
    /\ u \in active \cup done /\ task[u].base \subseteq head
    /\ \A d \in Deps[u] : Tree(d) \in task[u].base

\* A demotion concerns the active wave, and never one that is integrated.
DemotionActive ==
  demotion # None =>
    Fabric /\ transition = None /\ integ = None /\ demotion.unit \in active /\ task[demotion.unit].phase # "absent"
IntegrationWhole ==
  integ # None => Fabric /\ transition = None /\ \A u \in active : Accepted(u)

\* A cancelled run stays there for the tasks that are open, or a unit that is about to be.
CancelledOpen ==
  cancelled /\ stage = "run" => demotion # None \/ \E u \in Units : task[u].phase \in Open

\* The last candidate.
Final == Fabric /\ CandidateReady

\* The holder of the operation lease acts on a verdict that stands.
OperationSound ==
  /\ op = "validating" => validation = "running"
  /\ op \in {"dropping", "failing"} => validation = "fail" \/ review = "fail"
  /\ op \in {"promoting", "dropping refs", "recording"} =>
       Final /\ validation = "pass" /\ review = "pass" /\ stage = "run" /\ ~cancelled
  /\ op \in {"dropping refs", "recording"} => target = head

\* What the target holds, and how a run that is completed ended.
TargetFinal ==
  /\ target # {} =>
       /\ target = head /\ Final /\ validation = "pass" /\ review = "pass"
       /\ stage \in {"run", "completed"} /\ ~cancelled
  /\ Fabric /\ stage = "completed" => target = head /\ Final

Shape ==
  /\ Unprepared /\ Recovering /\ HeadExact /\ WavesReady /\ TasksGrounded
  /\ DemotionActive /\ IntegrationWhole /\ CancelledOpen /\ OperationSound /\ TargetFinal
IInv == TypeOK /\ Shape

-----------------------------------------------------------------------------
(* What a transaction makes of the tasks *)

\* Nothing is said of what a completed task has done, and nothing is made of an absent one.
Steady(old, new) ==
  \A u \in Units :
    /\ new[u].attempt = old[u].attempt /\ new[u].base = old[u].base
    /\ (new[u].phase = "absent") <=> (old[u].phase = "absent")
    /\ old[u].phase = "completed" => new[u].phase = "completed" /\ new[u].artifact = old[u].artifact

\* suppressDescendants changes only tasks that have not started.
LEMMA SuppressSteady ==
  ASSUME NEW ts \in [Units -> Tasks], NEW failed
  PROVE  Suppress(ts, failed) \in [Units -> Tasks] /\ Steady(ts, Suppress(ts, failed))
<1>1. ASSUME NEW u \in Units
      PROVE  [ts[u] EXCEPT !.phase = "suppressed", !.outcome = None] \in Tasks
  BY DEF Tasks, Phases, Open
<1>2. Suppress(ts, failed) \in [Units -> Tasks]
  BY <1>1 DEF Suppress
<1>3. ASSUME NEW u \in Units
      PROVE  /\ Suppress(ts, failed)[u].attempt = ts[u].attempt
             /\ Suppress(ts, failed)[u].base = ts[u].base
             /\ (Suppress(ts, failed)[u].phase = "absent") <=> (ts[u].phase = "absent")
             /\ ts[u].phase = "completed" => Suppress(ts, failed)[u] = ts[u]
  BY <1>1 DEF Suppress, Tasks
<1> QED
  BY <1>2, <1>3 DEF Steady

\* So does the settlement of outcomes, but for running tasks.
LEMMA SettledSteady ==
  ASSUME NEW ts \in [Units -> Tasks], NEW outcomes \in [Units -> Outcomes \cup {None}]
  PROVE  Settled(ts, outcomes) \in [Units -> Tasks] /\ Steady(ts, Settled(ts, outcomes))
<1> DEFINE settling == {u \in Units : ts[u].phase = "running" /\ outcomes[u] # None}
           failed == {u \in settling : outcomes[u] # "completed"}
           mid == [u \in Units |-> IF u \in settling
                     THEN [ts[u] EXCEPT !.outcome = outcomes[u], !.phase = IF u \in failed THEN "failed" ELSE "completed"]
                     ELSE ts[u]]
<1>1. ASSUME NEW u \in settling, NEW p \in {"failed", "completed"}
      PROVE  [ts[u] EXCEPT !.outcome = outcomes[u], !.phase = p] \in Tasks
  BY <1>1 DEF Tasks, Phases, Open
<1>2. mid \in [Units -> Tasks]
  <2>1. ASSUME NEW u \in settling
        PROVE  [ts[u] EXCEPT !.outcome = outcomes[u], !.phase = IF u \in failed THEN "failed" ELSE "completed"] \in Tasks
    BY <1>1, <2>1
  <2> QED
    BY <2>1
<1>3. Steady(ts, mid)
  <2>1. ASSUME NEW u \in Units
        PROVE  /\ mid[u].attempt = ts[u].attempt /\ mid[u].base = ts[u].base
               /\ (mid[u].phase = "absent") <=> (ts[u].phase = "absent")
               /\ ts[u].phase = "completed" => mid[u] = ts[u]
    BY DEF Tasks
  <2> QED
    BY <2>1 DEF Steady
<1>4. Settled(ts, outcomes) = Suppress(mid, failed)
  BY DEF Settled
<1> HIDE DEF mid, failed, settling
<1>5. Suppress(mid, failed) \in [Units -> Tasks] /\ Steady(mid, Suppress(mid, failed))
  BY <1>2, SuppressSteady
<1> QED
  BY <1>3, <1>4, <1>5 DEF Steady

\* reserveReady takes pending tasks only.
LEMMA ReservationsSteady ==
  ASSUME NEW ts \in [Units -> Tasks], NEW act, NEW new \in Reservations(ts, act)
  PROVE  new \in [Units -> Tasks] /\ Steady(ts, new)
<1>1. CASE cancelled
  BY <1>1 DEF Reservations, Steady
<1>2. CASE ~cancelled
  <2>1. PICK S \in SUBSET Startable(ts, act) :
          new = [u \in Units |-> IF u \in S THEN [ts[u] EXCEPT !.phase = "reserved"] ELSE ts[u]]
    BY <1>2 DEF Reservations
  <2>2. \A u \in S : u \in Units /\ ts[u].phase = "pending"
    BY DEF Startable
  <2>3. ASSUME NEW u \in Units PROVE [ts[u] EXCEPT !.phase = "reserved"] \in Tasks
    BY DEF Tasks, Phases, Open
  <2>4. new \in [Units -> Tasks]
    BY <2>1, <2>3
  <2>5. ASSUME NEW u \in Units
        PROVE  /\ new[u].attempt = ts[u].attempt /\ new[u].base = ts[u].base
               /\ (new[u].phase = "absent") <=> (ts[u].phase = "absent")
               /\ ts[u].phase = "completed" => new[u] = ts[u]
    BY <2>1, <2>2 DEF Tasks
  <2> QED
    BY <2>4, <2>5 DEF Steady
<1> QED
  BY <1>1, <1>2

\* The tasks of a run change steadily step after step.
LEMMA SteadyTwice ==
  ASSUME NEW x, NEW y, NEW z, Steady(x, y), Steady(y, z)
  PROVE  Steady(x, z)
BY DEF Steady

\* archiveIfTerminal archives no fabric run as completed unless it was promoted.
LEMMA StageRange ==
  ASSUME NEW ts, NEW act, NEW dn, NEW can \in BOOLEAN, NEW promoted \in BOOLEAN
  PROVE  /\ StageAfter(ts, act, dn, can, promoted) \in {"run", "completed", "failed", "cancelled"}
         /\ Fabric /\ ~promoted => StageAfter(ts, act, dn, can, promoted) # "completed"
BY DEF StageAfter, Unfinished

-----------------------------------------------------------------------------
(* Typing *)

TypeRest ==
  /\ validation \in {"pending", "running", "pass", "fail"} /\ review \in {"pending", "pass", "fail"}
  /\ rec \in {"idle", "inspect", "reinspect", "create", "sweep", "mark", "look", "make", "adopt"}
  /\ op \in {"idle", "validating", "dropping", "failing", "promoting", "dropping refs", "recording"}
TypeStage == stage \in {"none", "preparing", "run", "completed", "failed", "cancelled"}
TypeFlags == route \in Routes /\ attempted \in BOOLEAN /\ cancelled \in BOOLEAN
TypeMishaps == mishaps \in 0 .. MaxMishaps
TypeTask == task \in [Units -> Tasks]
TypeTree == tree \in [Trees -> TreeStates]
TypePlan ==
  /\ active \in SUBSET Units /\ done \in SUBSET Units /\ head \in SUBSET Trees
  /\ transition \in {None} \cup Transitions /\ demotion \in {None} \cup Demotions
TypeRefs ==
  /\ sources \in [Units -> 0 .. 2] /\ ref \in [Units -> 0 .. 2]
  /\ candidate \in {None} \cup SUBSET Trees /\ target \in SUBSET Trees /\ integ \in {None} \cup SUBSET Trees
TypeWorkers ==
  /\ pending \in [Units -> Outcomes \cup {None}]
  /\ child \in [Units -> {"none", "working", "ended", "kept", "released"}]
  /\ making \in [Units -> {"none", "claim", "move", "record"}]

\* The type invariant, one part for each kind of variable.
LEMMA TypeParts ==
  TypeOK <=> /\ TypeRest /\ TypeStage /\ TypeFlags /\ TypeMishaps /\ TypeTask /\ TypeTree
             /\ TypePlan /\ TypeRefs /\ TypeWorkers
BY DEF TypeOK, TypeRest, TypeStage, TypeFlags, TypeMishaps, TypeTask, TypeTree, TypePlan, TypeRefs, TypeWorkers

\* The operations on the worktrees leave each in a state of theirs.
LEMMA TreesTyped ==
  ASSUME TypeTree
  PROVE  /\ \A new : CreateMany(new) \/ CreateManyFails(new) \/ Remove(new) \/ CreationCut(new) => TypeTree'
         /\ \A t : CleanupFails(t) \/ AcceptCommit(t) \/ Edit(t) \/ Commit(t) \/ RemovalCut(t) => TypeTree'
         /\ tree' = Reconciled \/ UNCHANGED tree => TypeTree'
BY DEF TypeTree, TreeStates, ReadyStates, StuckStates, CreateMany, CreateManyFails, Remove, CreationCut,
       CleanupFails, AcceptCommit, Edit, Commit, RemovalCut, Reconciled

\* A unit's task when its wave begins, or again with its second attempt.
LEMMA FreshTyped ==
  /\ \A n \in Attempts, base \in SUBSET Trees : Fresh(n, base) \in Tasks
  /\ Absent \in Tasks
BY DEF Fresh, Absent, Tasks, Phases, Open, Attempts

\* A call's outcome is one of the outcomes.
LEMMA EffectiveTyped == \A u \in Units, outcome \in Outcomes : Effective(u, outcome) \in Outcomes
BY DEF Effective, Outcomes

\* Every step leaves the worktrees typed.
LEMMA TypeTreeStep == TypeTree /\ [Next]_vars => TypeTree'
<1> SUFFICES ASSUME TypeTree, [Next]_vars PROVE TypeTree'
  OBVIOUS
<1>1. ASSUME Prepare PROVE TypeTree'
  BY <1>1 DEF Prepare, TypeTree, durable, plan, verdict, refs, process, workers
<1>2. ASSUME ResumePreparation PROVE TypeTree'
  BY <1>2 DEF ResumePreparation, TypeTree, durable, plan, verdict, refs, process, workers
<1>3. ASSUME Inspect PROVE TypeTree'
  BY <1>3 DEF Inspect, TypeTree, durable, plan, verdict, refs, process, workers
<1>4. ASSUME Create PROVE TypeTree'
  BY <1>4, TreesTyped DEF Create, TypeTree, CreateTrees, durable, plan, verdict, refs, process, workers
<1>5. ASSUME RecoverDemotion PROVE TypeTree'
  BY <1>5 DEF RecoverDemotion, TypeTree, durable, plan, verdict, refs, process, workers
<1>6. ASSUME RecoverTransition PROVE TypeTree'
  BY <1>6 DEF RecoverTransition, TypeTree, durable, plan, verdict, refs, process, workers
<1>7. ASSUME Sweep PROVE TypeTree'
  BY <1>7, TreesTyped DEF Sweep, TypeTree, CreateTrees, durable, plan, verdict, refs, process, workers
<1>8. ASSUME Swept PROVE TypeTree'
  BY <1>8, TreesTyped DEF Swept, TypeTree, CreateTrees, durable, plan, verdict, refs, process, workers
<1>9. ASSUME MarkCreating PROVE TypeTree'
  BY <1>9 DEF MarkCreating, TypeTree, durable, plan, verdict, refs, process, workers
<1>10. ASSUME LookAtTrees PROVE TypeTree'
  BY <1>10, TreesTyped DEF LookAtTrees, TypeTree, CreateTrees, durable, plan, verdict, refs, process, workers
<1>11. ASSUME MakeTrees PROVE TypeTree'
  BY <1>11, TreesTyped DEF MakeTrees, TypeTree, CreateTrees, durable, plan, verdict, refs, process, workers
<1>12. ASSUME AdoptReplacement PROVE TypeTree'
  BY <1>12 DEF AdoptReplacement, TypeTree, durable, plan, verdict, refs, process, workers
<1>13. ASSUME AdoptWave PROVE TypeTree'
  BY <1>13 DEF AdoptWave, TypeTree, durable, plan, verdict, refs, process, workers
<1>14. ASSUME NEW u \in Units, Bind(u) PROVE TypeTree'
  BY <1>14 DEF Bind, TypeTree, durable, plan, verdict, refs, process, workers
<1>15. ASSUME NEW u \in Units, Edits(u) PROVE TypeTree'
  BY <1>15, TreesTyped DEF Edits, TypeTree, CreateTrees, durable, plan, verdict, refs, process, workers
<1>16. ASSUME NEW u \in Units, Produce(u) PROVE TypeTree'
  BY <1>16, TreesTyped DEF Produce, TypeTree, CreateTrees, durable, plan, verdict, refs, process, workers
<1>17. ASSUME NEW u \in Units, ClaimArtifact(u) PROVE TypeTree'
  BY <1>17 DEF ClaimArtifact, TypeTree, durable, plan, verdict, refs, process, workers
<1>18. ASSUME NEW u \in Units, MoveArtifact(u) PROVE TypeTree'
  BY <1>18, TreesTyped DEF MoveArtifact, TypeTree, CreateTrees, durable, plan, verdict, refs, process, workers
<1>19. ASSUME NEW u \in Units, RecordArtifact(u) PROVE TypeTree'
  BY <1>19 DEF RecordArtifact, TypeTree, durable, plan, verdict, refs, process, workers
<1>20. ASSUME NEW u \in Units, SessionEnds(u) PROVE TypeTree'
  BY <1>20 DEF SessionEnds, TypeTree, durable, plan, verdict, refs, process, workers
<1>21. ASSUME NEW u \in Units, NEW outcome \in Outcomes, Report(u, outcome) PROVE TypeTree'
  BY <1>21 DEF Report, TypeTree, durable, plan, verdict, refs, process, workers
<1>22. ASSUME NEW u \in Units, KeepArtifact(u) PROVE TypeTree'
  BY <1>22 DEF KeepArtifact, TypeTree, durable, plan, verdict, refs, process, workers
<1>23. ASSUME NEW u \in Units, ReleaseTree(u) PROVE TypeTree'
  BY <1>23, TreesTyped DEF ReleaseTree, TypeTree, CreateTrees, durable, plan, verdict, refs, process, workers
<1>24. ASSUME NEW u \in Units, CleanSuppressed(u) PROVE TypeTree'
  BY <1>24, TreesTyped DEF CleanSuppressed, TypeTree, CreateTrees, durable, plan, verdict, refs, process, workers
<1>25. ASSUME NEW u \in Units, PlanTakeover(u) PROVE TypeTree'
  BY <1>25 DEF PlanTakeover, TypeTree, durable, plan, verdict, refs, process, workers
<1>26. ASSUME NEW u \in Units, DemoteFailed(u) PROVE TypeTree'
  BY <1>26 DEF DemoteFailed, TypeTree, durable, plan, verdict, refs, process, workers
<1>27. ASSUME NEW gone \in SUBSET Lapsed, NEW seen \in BOOLEAN, Reconcile(gone, seen) PROVE TypeTree'
  BY <1>27, TreesTyped DEF Reconcile, TypeTree, CreateTrees, durable, plan, verdict, refs, process, workers
<1>28. ASSUME FinishTakeover PROVE TypeTree'
  BY <1>28 DEF FinishTakeover, TypeTree, durable, plan, verdict, refs, process, workers
<1>29. ASSUME Integrate PROVE TypeTree'
  BY <1>29 DEF Integrate, TypeTree, durable, plan, verdict, refs, process, workers
<1>30. ASSUME AdvanceWave PROVE TypeTree'
  BY <1>30 DEF AdvanceWave, TypeTree, durable, plan, verdict, refs, process, workers
<1>31. ASSUME ClaimValidation PROVE TypeTree'
  BY <1>31 DEF ClaimValidation, TypeTree, durable, plan, verdict, refs, process, workers
<1>32. ASSUME SettleValidation PROVE TypeTree'
  BY <1>32 DEF SettleValidation, TypeTree, durable, plan, verdict, refs, process, workers
<1>33. ASSUME ReplayFailure PROVE TypeTree'
  BY <1>33 DEF ReplayFailure, TypeTree, durable, plan, verdict, refs, process, workers
<1>34. ASSUME NEW decision \in {"pass", "fail"}, ClaimReview(decision) PROVE TypeTree'
  BY <1>34 DEF ClaimReview, TypeTree, durable, plan, verdict, refs, process, workers
<1>35. ASSUME DropCandidate PROVE TypeTree'
  BY <1>35 DEF DropCandidate, TypeTree, durable, plan, verdict, refs, process, workers
<1>36. ASSUME ArchiveFailed PROVE TypeTree'
  BY <1>36 DEF ArchiveFailed, TypeTree, durable, plan, verdict, refs, process, workers
<1>37. ASSUME MoveTarget PROVE TypeTree'
  BY <1>37 DEF MoveTarget, TypeTree, durable, plan, verdict, refs, process, workers
<1>38. ASSUME DropPromoted PROVE TypeTree'
  BY <1>38 DEF DropPromoted, TypeTree, durable, plan, verdict, refs, process, workers
<1>39. ASSUME RecordPromotion PROVE TypeTree'
  BY <1>39 DEF RecordPromotion, TypeTree, durable, plan, verdict, refs, process, workers
<1>40. ASSUME Cancel PROVE TypeTree'
  BY <1>40 DEF Cancel, TypeTree, durable, plan, verdict, refs, process, workers
<1>41. ASSUME Crash PROVE TypeTree'
  BY <1>41, TreesTyped DEF Crash, TypeTree, CreateTrees, durable, plan, verdict, refs, process, workers
<1>42. ASSUME UNCHANGED vars PROVE TypeTree'
  BY <1>42 DEF vars, durable, plan, verdict, refs, process, workers, TypeTree
<1> HIDE DEF TypeTree
<1> QED
  BY <1>1, <1>2, <1>3, <1>4, <1>5, <1>6, <1>7, <1>8, <1>9, <1>10, <1>11, <1>12, <1>13, <1>14, <1>15, <1>16, <1>17, <1>18, <1>19, <1>20, <1>21, <1>22, <1>23, <1>24, <1>25, <1>26, <1>27, <1>28, <1>29, <1>30, <1>31, <1>32, <1>33, <1>34, <1>35, <1>36, <1>37, <1>38, <1>39, <1>40, <1>41, <1>42 DEF Next, Recovery, Work, Operations, Outcomes

\* Every step leaves the verdicts and the lease holders typed.
LEMMA TypeRestStep == TypeRest /\ [Next]_vars => TypeRest'
<1> SUFFICES ASSUME TypeRest, [Next]_vars PROVE TypeRest'
  OBVIOUS
<1>1. ASSUME Prepare PROVE TypeRest'
  BY <1>1 DEF Prepare, TypeRest, Mishap, CreateTrees, durable, plan, verdict, refs, process, workers
<1>2. ASSUME ResumePreparation PROVE TypeRest'
  BY <1>2 DEF ResumePreparation, TypeRest, Mishap, CreateTrees, durable, plan, verdict, refs, process, workers
<1>3. ASSUME Inspect PROVE TypeRest'
  BY <1>3 DEF Inspect, TypeRest, Mishap, CreateTrees, durable, plan, verdict, refs, process, workers
<1>4. ASSUME Create PROVE TypeRest'
  BY <1>4 DEF Create, TypeRest, Mishap, CreateTrees, durable, plan, verdict, refs, process, workers
<1>5. ASSUME RecoverDemotion PROVE TypeRest'
  BY <1>5 DEF RecoverDemotion, TypeRest, Mishap, CreateTrees, durable, plan, verdict, refs, process, workers
<1>6. ASSUME RecoverTransition PROVE TypeRest'
  BY <1>6 DEF RecoverTransition, TypeRest, Mishap, CreateTrees, durable, plan, verdict, refs, process, workers
<1>7. ASSUME Sweep PROVE TypeRest'
  BY <1>7 DEF Sweep, TypeRest, Mishap, CreateTrees, durable, plan, verdict, refs, process, workers
<1>8. ASSUME Swept PROVE TypeRest'
  BY <1>8 DEF Swept, TypeRest, Mishap, CreateTrees, durable, plan, verdict, refs, process, workers
<1>9. ASSUME MarkCreating PROVE TypeRest'
  BY <1>9 DEF MarkCreating, TypeRest, Mishap, CreateTrees, durable, plan, verdict, refs, process, workers
<1>10. ASSUME LookAtTrees PROVE TypeRest'
  BY <1>10 DEF LookAtTrees, TypeRest, Mishap, CreateTrees, durable, plan, verdict, refs, process, workers
<1>11. ASSUME MakeTrees PROVE TypeRest'
  BY <1>11 DEF MakeTrees, TypeRest, Mishap, CreateTrees, durable, plan, verdict, refs, process, workers
<1>12. ASSUME AdoptReplacement PROVE TypeRest'
  BY <1>12 DEF AdoptReplacement, TypeRest, Mishap, CreateTrees, durable, plan, verdict, refs, process, workers
<1>13. ASSUME AdoptWave PROVE TypeRest'
  BY <1>13 DEF AdoptWave, TypeRest, Mishap, CreateTrees, durable, plan, verdict, refs, process, workers
<1>14. ASSUME NEW u \in Units, Bind(u) PROVE TypeRest'
  BY <1>14 DEF Bind, TypeRest, Mishap, CreateTrees, durable, plan, verdict, refs, process, workers
<1>15. ASSUME NEW u \in Units, Edits(u) PROVE TypeRest'
  BY <1>15 DEF Edits, TypeRest, Mishap, CreateTrees, durable, plan, verdict, refs, process, workers
<1>16. ASSUME NEW u \in Units, Produce(u) PROVE TypeRest'
  BY <1>16 DEF Produce, TypeRest, Mishap, CreateTrees, durable, plan, verdict, refs, process, workers
<1>17. ASSUME NEW u \in Units, ClaimArtifact(u) PROVE TypeRest'
  BY <1>17 DEF ClaimArtifact, TypeRest, Mishap, CreateTrees, durable, plan, verdict, refs, process, workers
<1>18. ASSUME NEW u \in Units, MoveArtifact(u) PROVE TypeRest'
  BY <1>18 DEF MoveArtifact, TypeRest, Mishap, CreateTrees, durable, plan, verdict, refs, process, workers
<1>19. ASSUME NEW u \in Units, RecordArtifact(u) PROVE TypeRest'
  BY <1>19 DEF RecordArtifact, TypeRest, Mishap, CreateTrees, durable, plan, verdict, refs, process, workers
<1>20. ASSUME NEW u \in Units, SessionEnds(u) PROVE TypeRest'
  BY <1>20 DEF SessionEnds, TypeRest, Mishap, CreateTrees, durable, plan, verdict, refs, process, workers
<1>21. ASSUME NEW u \in Units, NEW outcome \in Outcomes, Report(u, outcome) PROVE TypeRest'
  BY <1>21 DEF Report, TypeRest, Mishap, CreateTrees, durable, plan, verdict, refs, process, workers
<1>22. ASSUME NEW u \in Units, KeepArtifact(u) PROVE TypeRest'
  BY <1>22 DEF KeepArtifact, TypeRest, Mishap, CreateTrees, durable, plan, verdict, refs, process, workers
<1>23. ASSUME NEW u \in Units, ReleaseTree(u) PROVE TypeRest'
  BY <1>23 DEF ReleaseTree, TypeRest, Mishap, CreateTrees, durable, plan, verdict, refs, process, workers
<1>24. ASSUME NEW u \in Units, CleanSuppressed(u) PROVE TypeRest'
  BY <1>24 DEF CleanSuppressed, TypeRest, Mishap, CreateTrees, durable, plan, verdict, refs, process, workers
<1>25. ASSUME NEW u \in Units, PlanTakeover(u) PROVE TypeRest'
  BY <1>25 DEF PlanTakeover, TypeRest, Mishap, CreateTrees, durable, plan, verdict, refs, process, workers
<1>26. ASSUME NEW u \in Units, DemoteFailed(u) PROVE TypeRest'
  BY <1>26 DEF DemoteFailed, TypeRest, Mishap, CreateTrees, durable, plan, verdict, refs, process, workers
<1>27. ASSUME NEW gone \in SUBSET Lapsed, NEW seen \in BOOLEAN, Reconcile(gone, seen) PROVE TypeRest'
  BY <1>27 DEF Reconcile, TypeRest, Mishap, CreateTrees, durable, plan, verdict, refs, process, workers
<1>28. ASSUME FinishTakeover PROVE TypeRest'
  BY <1>28 DEF FinishTakeover, TypeRest, Mishap, CreateTrees, durable, plan, verdict, refs, process, workers
<1>29. ASSUME Integrate PROVE TypeRest'
  BY <1>29 DEF Integrate, TypeRest, Mishap, CreateTrees, durable, plan, verdict, refs, process, workers
<1>30. ASSUME AdvanceWave PROVE TypeRest'
  BY <1>30 DEF AdvanceWave, TypeRest, Mishap, CreateTrees, durable, plan, verdict, refs, process, workers
<1>31. ASSUME ClaimValidation PROVE TypeRest'
  BY <1>31 DEF ClaimValidation, TypeRest, Mishap, CreateTrees, durable, plan, verdict, refs, process, workers
<1>32. ASSUME SettleValidation PROVE TypeRest'
  BY <1>32 DEF SettleValidation, TypeRest, Mishap, CreateTrees, durable, plan, verdict, refs, process, workers
<1>33. ASSUME ReplayFailure PROVE TypeRest'
  BY <1>33 DEF ReplayFailure, TypeRest, Mishap, CreateTrees, durable, plan, verdict, refs, process, workers
<1>34. ASSUME NEW decision \in {"pass", "fail"}, ClaimReview(decision) PROVE TypeRest'
  BY <1>34 DEF ClaimReview, TypeRest, Mishap, CreateTrees, durable, plan, verdict, refs, process, workers
<1>35. ASSUME DropCandidate PROVE TypeRest'
  BY <1>35 DEF DropCandidate, TypeRest, Mishap, CreateTrees, durable, plan, verdict, refs, process, workers
<1>36. ASSUME ArchiveFailed PROVE TypeRest'
  BY <1>36 DEF ArchiveFailed, TypeRest, Mishap, CreateTrees, durable, plan, verdict, refs, process, workers
<1>37. ASSUME MoveTarget PROVE TypeRest'
  BY <1>37 DEF MoveTarget, TypeRest, Mishap, CreateTrees, durable, plan, verdict, refs, process, workers
<1>38. ASSUME DropPromoted PROVE TypeRest'
  BY <1>38 DEF DropPromoted, TypeRest, Mishap, CreateTrees, durable, plan, verdict, refs, process, workers
<1>39. ASSUME RecordPromotion PROVE TypeRest'
  BY <1>39 DEF RecordPromotion, TypeRest, Mishap, CreateTrees, durable, plan, verdict, refs, process, workers
<1>40. ASSUME Cancel PROVE TypeRest'
  BY <1>40 DEF Cancel, TypeRest, Mishap, CreateTrees, durable, plan, verdict, refs, process, workers
<1>41. ASSUME Crash PROVE TypeRest'
  BY <1>41 DEF Crash, TypeRest, Mishap, CreateTrees, durable, plan, verdict, refs, process, workers
<1>42. ASSUME UNCHANGED vars PROVE TypeRest'
  BY <1>42 DEF vars, durable, plan, verdict, refs, process, workers, TypeRest
<1> HIDE DEF TypeRest
<1> QED
  BY <1>1, <1>2, <1>3, <1>4, <1>5, <1>6, <1>7, <1>8, <1>9, <1>10, <1>11, <1>12, <1>13, <1>14, <1>15, <1>16, <1>17, <1>18, <1>19, <1>20, <1>21, <1>22, <1>23, <1>24, <1>25, <1>26, <1>27, <1>28, <1>29, <1>30, <1>31, <1>32, <1>33, <1>34, <1>35, <1>36, <1>37, <1>38, <1>39, <1>40, <1>41, <1>42 DEF Next, Recovery, Work, Operations, Outcomes

\* Every step leaves the flags typed.
LEMMA TypeFlagsStep == TypeFlags /\ [Next]_vars => TypeFlags'
<1> SUFFICES ASSUME TypeFlags, [Next]_vars PROVE TypeFlags'
  OBVIOUS
<1>1. ASSUME Prepare PROVE TypeFlags'
  BY <1>1 DEF Prepare, TypeFlags, durable, plan, verdict, refs, process, workers
<1>2. ASSUME ResumePreparation PROVE TypeFlags'
  BY <1>2 DEF ResumePreparation, TypeFlags, durable, plan, verdict, refs, process, workers
<1>3. ASSUME Inspect PROVE TypeFlags'
  BY <1>3 DEF Inspect, TypeFlags, durable, plan, verdict, refs, process, workers
<1>4. ASSUME Create PROVE TypeFlags'
  BY <1>4 DEF Create, TypeFlags, durable, plan, verdict, refs, process, workers
<1>5. ASSUME RecoverDemotion PROVE TypeFlags'
  BY <1>5 DEF RecoverDemotion, TypeFlags, durable, plan, verdict, refs, process, workers
<1>6. ASSUME RecoverTransition PROVE TypeFlags'
  BY <1>6 DEF RecoverTransition, TypeFlags, durable, plan, verdict, refs, process, workers
<1>7. ASSUME Sweep PROVE TypeFlags'
  BY <1>7 DEF Sweep, TypeFlags, durable, plan, verdict, refs, process, workers
<1>8. ASSUME Swept PROVE TypeFlags'
  BY <1>8 DEF Swept, TypeFlags, durable, plan, verdict, refs, process, workers
<1>9. ASSUME MarkCreating PROVE TypeFlags'
  BY <1>9 DEF MarkCreating, TypeFlags, durable, plan, verdict, refs, process, workers
<1>10. ASSUME LookAtTrees PROVE TypeFlags'
  BY <1>10 DEF LookAtTrees, TypeFlags, durable, plan, verdict, refs, process, workers
<1>11. ASSUME MakeTrees PROVE TypeFlags'
  BY <1>11 DEF MakeTrees, TypeFlags, durable, plan, verdict, refs, process, workers
<1>12. ASSUME AdoptReplacement PROVE TypeFlags'
  BY <1>12 DEF AdoptReplacement, TypeFlags, durable, plan, verdict, refs, process, workers
<1>13. ASSUME AdoptWave PROVE TypeFlags'
  BY <1>13 DEF AdoptWave, TypeFlags, durable, plan, verdict, refs, process, workers
<1>14. ASSUME NEW u \in Units, Bind(u) PROVE TypeFlags'
  BY <1>14 DEF Bind, TypeFlags, durable, plan, verdict, refs, process, workers
<1>15. ASSUME NEW u \in Units, Edits(u) PROVE TypeFlags'
  BY <1>15 DEF Edits, TypeFlags, durable, plan, verdict, refs, process, workers
<1>16. ASSUME NEW u \in Units, Produce(u) PROVE TypeFlags'
  BY <1>16 DEF Produce, TypeFlags, durable, plan, verdict, refs, process, workers
<1>17. ASSUME NEW u \in Units, ClaimArtifact(u) PROVE TypeFlags'
  BY <1>17 DEF ClaimArtifact, TypeFlags, durable, plan, verdict, refs, process, workers
<1>18. ASSUME NEW u \in Units, MoveArtifact(u) PROVE TypeFlags'
  BY <1>18 DEF MoveArtifact, TypeFlags, durable, plan, verdict, refs, process, workers
<1>19. ASSUME NEW u \in Units, RecordArtifact(u) PROVE TypeFlags'
  BY <1>19 DEF RecordArtifact, TypeFlags, durable, plan, verdict, refs, process, workers
<1>20. ASSUME NEW u \in Units, SessionEnds(u) PROVE TypeFlags'
  BY <1>20 DEF SessionEnds, TypeFlags, durable, plan, verdict, refs, process, workers
<1>21. ASSUME NEW u \in Units, NEW outcome \in Outcomes, Report(u, outcome) PROVE TypeFlags'
  BY <1>21 DEF Report, TypeFlags, durable, plan, verdict, refs, process, workers
<1>22. ASSUME NEW u \in Units, KeepArtifact(u) PROVE TypeFlags'
  BY <1>22 DEF KeepArtifact, TypeFlags, durable, plan, verdict, refs, process, workers
<1>23. ASSUME NEW u \in Units, ReleaseTree(u) PROVE TypeFlags'
  BY <1>23 DEF ReleaseTree, TypeFlags, durable, plan, verdict, refs, process, workers
<1>24. ASSUME NEW u \in Units, CleanSuppressed(u) PROVE TypeFlags'
  BY <1>24 DEF CleanSuppressed, TypeFlags, durable, plan, verdict, refs, process, workers
<1>25. ASSUME NEW u \in Units, PlanTakeover(u) PROVE TypeFlags'
  BY <1>25 DEF PlanTakeover, TypeFlags, durable, plan, verdict, refs, process, workers
<1>26. ASSUME NEW u \in Units, DemoteFailed(u) PROVE TypeFlags'
  BY <1>26 DEF DemoteFailed, TypeFlags, durable, plan, verdict, refs, process, workers
<1>27. ASSUME NEW gone \in SUBSET Lapsed, NEW seen \in BOOLEAN, Reconcile(gone, seen) PROVE TypeFlags'
  BY <1>27 DEF Reconcile, TypeFlags, durable, plan, verdict, refs, process, workers
<1>28. ASSUME FinishTakeover PROVE TypeFlags'
  BY <1>28 DEF FinishTakeover, TypeFlags, durable, plan, verdict, refs, process, workers
<1>29. ASSUME Integrate PROVE TypeFlags'
  BY <1>29 DEF Integrate, TypeFlags, durable, plan, verdict, refs, process, workers
<1>30. ASSUME AdvanceWave PROVE TypeFlags'
  BY <1>30 DEF AdvanceWave, TypeFlags, durable, plan, verdict, refs, process, workers
<1>31. ASSUME ClaimValidation PROVE TypeFlags'
  BY <1>31 DEF ClaimValidation, TypeFlags, durable, plan, verdict, refs, process, workers
<1>32. ASSUME SettleValidation PROVE TypeFlags'
  BY <1>32 DEF SettleValidation, TypeFlags, durable, plan, verdict, refs, process, workers
<1>33. ASSUME ReplayFailure PROVE TypeFlags'
  BY <1>33 DEF ReplayFailure, TypeFlags, durable, plan, verdict, refs, process, workers
<1>34. ASSUME NEW decision \in {"pass", "fail"}, ClaimReview(decision) PROVE TypeFlags'
  BY <1>34 DEF ClaimReview, TypeFlags, durable, plan, verdict, refs, process, workers
<1>35. ASSUME DropCandidate PROVE TypeFlags'
  BY <1>35 DEF DropCandidate, TypeFlags, durable, plan, verdict, refs, process, workers
<1>36. ASSUME ArchiveFailed PROVE TypeFlags'
  BY <1>36 DEF ArchiveFailed, TypeFlags, durable, plan, verdict, refs, process, workers
<1>37. ASSUME MoveTarget PROVE TypeFlags'
  BY <1>37 DEF MoveTarget, TypeFlags, durable, plan, verdict, refs, process, workers
<1>38. ASSUME DropPromoted PROVE TypeFlags'
  BY <1>38 DEF DropPromoted, TypeFlags, durable, plan, verdict, refs, process, workers
<1>39. ASSUME RecordPromotion PROVE TypeFlags'
  BY <1>39 DEF RecordPromotion, TypeFlags, durable, plan, verdict, refs, process, workers
<1>40. ASSUME Cancel PROVE TypeFlags'
  BY <1>40 DEF Cancel, TypeFlags, durable, plan, verdict, refs, process, workers
<1>41. ASSUME Crash PROVE TypeFlags'
  BY <1>41 DEF Crash, TypeFlags, durable, plan, verdict, refs, process, workers
<1>42. ASSUME UNCHANGED vars PROVE TypeFlags'
  BY <1>42 DEF vars, durable, plan, verdict, refs, process, workers, TypeFlags
<1> HIDE DEF TypeFlags
<1> QED
  BY <1>1, <1>2, <1>3, <1>4, <1>5, <1>6, <1>7, <1>8, <1>9, <1>10, <1>11, <1>12, <1>13, <1>14, <1>15, <1>16, <1>17, <1>18, <1>19, <1>20, <1>21, <1>22, <1>23, <1>24, <1>25, <1>26, <1>27, <1>28, <1>29, <1>30, <1>31, <1>32, <1>33, <1>34, <1>35, <1>36, <1>37, <1>38, <1>39, <1>40, <1>41, <1>42 DEF Next, Recovery, Work, Operations, Outcomes

\* No step exceeds the bound on mishaps.
LEMMA TypeMishapsStep == TypeMishaps /\ [Next]_vars => TypeMishaps'
<1> SUFFICES ASSUME TypeMishaps, [Next]_vars PROVE TypeMishaps'
  OBVIOUS
<1>1. ASSUME Prepare PROVE TypeMishaps'
  BY <1>1, DispatchAssumption DEF Prepare, TypeMishaps, Mishap, CreateTrees, durable, plan, verdict, refs, process, workers
<1>2. ASSUME ResumePreparation PROVE TypeMishaps'
  BY <1>2, DispatchAssumption DEF ResumePreparation, TypeMishaps, Mishap, CreateTrees, durable, plan, verdict, refs, process, workers
<1>3. ASSUME Inspect PROVE TypeMishaps'
  BY <1>3, DispatchAssumption DEF Inspect, TypeMishaps, Mishap, CreateTrees, durable, plan, verdict, refs, process, workers
<1>4. ASSUME Create PROVE TypeMishaps'
  BY <1>4, DispatchAssumption DEF Create, TypeMishaps, Mishap, CreateTrees, durable, plan, verdict, refs, process, workers
<1>5. ASSUME RecoverDemotion PROVE TypeMishaps'
  BY <1>5, DispatchAssumption DEF RecoverDemotion, TypeMishaps, Mishap, CreateTrees, durable, plan, verdict, refs, process, workers
<1>6. ASSUME RecoverTransition PROVE TypeMishaps'
  BY <1>6, DispatchAssumption DEF RecoverTransition, TypeMishaps, Mishap, CreateTrees, durable, plan, verdict, refs, process, workers
<1>7. ASSUME Sweep PROVE TypeMishaps'
  BY <1>7, DispatchAssumption DEF Sweep, TypeMishaps, Mishap, CreateTrees, durable, plan, verdict, refs, process, workers
<1>8. ASSUME Swept PROVE TypeMishaps'
  BY <1>8, DispatchAssumption DEF Swept, TypeMishaps, Mishap, CreateTrees, durable, plan, verdict, refs, process, workers
<1>9. ASSUME MarkCreating PROVE TypeMishaps'
  BY <1>9, DispatchAssumption DEF MarkCreating, TypeMishaps, Mishap, CreateTrees, durable, plan, verdict, refs, process, workers
<1>10. ASSUME LookAtTrees PROVE TypeMishaps'
  BY <1>10, DispatchAssumption DEF LookAtTrees, TypeMishaps, Mishap, CreateTrees, durable, plan, verdict, refs, process, workers
<1>11. ASSUME MakeTrees PROVE TypeMishaps'
  BY <1>11, DispatchAssumption DEF MakeTrees, TypeMishaps, Mishap, CreateTrees, durable, plan, verdict, refs, process, workers
<1>12. ASSUME AdoptReplacement PROVE TypeMishaps'
  BY <1>12, DispatchAssumption DEF AdoptReplacement, TypeMishaps, Mishap, CreateTrees, durable, plan, verdict, refs, process, workers
<1>13. ASSUME AdoptWave PROVE TypeMishaps'
  BY <1>13, DispatchAssumption DEF AdoptWave, TypeMishaps, Mishap, CreateTrees, durable, plan, verdict, refs, process, workers
<1>14. ASSUME NEW u \in Units, Bind(u) PROVE TypeMishaps'
  BY <1>14, DispatchAssumption DEF Bind, TypeMishaps, Mishap, CreateTrees, durable, plan, verdict, refs, process, workers
<1>15. ASSUME NEW u \in Units, Edits(u) PROVE TypeMishaps'
  BY <1>15, DispatchAssumption DEF Edits, TypeMishaps, Mishap, CreateTrees, durable, plan, verdict, refs, process, workers
<1>16. ASSUME NEW u \in Units, Produce(u) PROVE TypeMishaps'
  BY <1>16, DispatchAssumption DEF Produce, TypeMishaps, Mishap, CreateTrees, durable, plan, verdict, refs, process, workers
<1>17. ASSUME NEW u \in Units, ClaimArtifact(u) PROVE TypeMishaps'
  BY <1>17, DispatchAssumption DEF ClaimArtifact, TypeMishaps, Mishap, CreateTrees, durable, plan, verdict, refs, process, workers
<1>18. ASSUME NEW u \in Units, MoveArtifact(u) PROVE TypeMishaps'
  BY <1>18, DispatchAssumption DEF MoveArtifact, TypeMishaps, Mishap, CreateTrees, durable, plan, verdict, refs, process, workers
<1>19. ASSUME NEW u \in Units, RecordArtifact(u) PROVE TypeMishaps'
  BY <1>19, DispatchAssumption DEF RecordArtifact, TypeMishaps, Mishap, CreateTrees, durable, plan, verdict, refs, process, workers
<1>20. ASSUME NEW u \in Units, SessionEnds(u) PROVE TypeMishaps'
  BY <1>20, DispatchAssumption DEF SessionEnds, TypeMishaps, Mishap, CreateTrees, durable, plan, verdict, refs, process, workers
<1>21. ASSUME NEW u \in Units, NEW outcome \in Outcomes, Report(u, outcome) PROVE TypeMishaps'
  BY <1>21, DispatchAssumption DEF Report, TypeMishaps, Mishap, CreateTrees, durable, plan, verdict, refs, process, workers
<1>22. ASSUME NEW u \in Units, KeepArtifact(u) PROVE TypeMishaps'
  BY <1>22, DispatchAssumption DEF KeepArtifact, TypeMishaps, Mishap, CreateTrees, durable, plan, verdict, refs, process, workers
<1>23. ASSUME NEW u \in Units, ReleaseTree(u) PROVE TypeMishaps'
  BY <1>23, DispatchAssumption DEF ReleaseTree, TypeMishaps, Mishap, CreateTrees, durable, plan, verdict, refs, process, workers
<1>24. ASSUME NEW u \in Units, CleanSuppressed(u) PROVE TypeMishaps'
  BY <1>24, DispatchAssumption DEF CleanSuppressed, TypeMishaps, Mishap, CreateTrees, durable, plan, verdict, refs, process, workers
<1>25. ASSUME NEW u \in Units, PlanTakeover(u) PROVE TypeMishaps'
  BY <1>25, DispatchAssumption DEF PlanTakeover, TypeMishaps, Mishap, CreateTrees, durable, plan, verdict, refs, process, workers
<1>26. ASSUME NEW u \in Units, DemoteFailed(u) PROVE TypeMishaps'
  BY <1>26, DispatchAssumption DEF DemoteFailed, TypeMishaps, Mishap, CreateTrees, durable, plan, verdict, refs, process, workers
<1>27. ASSUME NEW gone \in SUBSET Lapsed, NEW seen \in BOOLEAN, Reconcile(gone, seen) PROVE TypeMishaps'
  <2>1. UNCHANGED mishaps \/ Mishap
    BY <1>27 DEF Reconcile
  <2> QED
    BY <2>1, DispatchAssumption DEF Mishap, TypeMishaps
<1>28. ASSUME FinishTakeover PROVE TypeMishaps'
  BY <1>28, DispatchAssumption DEF FinishTakeover, TypeMishaps, Mishap, CreateTrees, durable, plan, verdict, refs, process, workers
<1>29. ASSUME Integrate PROVE TypeMishaps'
  BY <1>29, DispatchAssumption DEF Integrate, TypeMishaps, Mishap, CreateTrees, durable, plan, verdict, refs, process, workers
<1>30. ASSUME AdvanceWave PROVE TypeMishaps'
  BY <1>30, DispatchAssumption DEF AdvanceWave, TypeMishaps, Mishap, CreateTrees, durable, plan, verdict, refs, process, workers
<1>31. ASSUME ClaimValidation PROVE TypeMishaps'
  BY <1>31, DispatchAssumption DEF ClaimValidation, TypeMishaps, Mishap, CreateTrees, durable, plan, verdict, refs, process, workers
<1>32. ASSUME SettleValidation PROVE TypeMishaps'
  BY <1>32, DispatchAssumption DEF SettleValidation, TypeMishaps, Mishap, CreateTrees, durable, plan, verdict, refs, process, workers
<1>33. ASSUME ReplayFailure PROVE TypeMishaps'
  BY <1>33, DispatchAssumption DEF ReplayFailure, TypeMishaps, Mishap, CreateTrees, durable, plan, verdict, refs, process, workers
<1>34. ASSUME NEW decision \in {"pass", "fail"}, ClaimReview(decision) PROVE TypeMishaps'
  BY <1>34, DispatchAssumption DEF ClaimReview, TypeMishaps, Mishap, CreateTrees, durable, plan, verdict, refs, process, workers
<1>35. ASSUME DropCandidate PROVE TypeMishaps'
  BY <1>35, DispatchAssumption DEF DropCandidate, TypeMishaps, Mishap, CreateTrees, durable, plan, verdict, refs, process, workers
<1>36. ASSUME ArchiveFailed PROVE TypeMishaps'
  BY <1>36, DispatchAssumption DEF ArchiveFailed, TypeMishaps, Mishap, CreateTrees, durable, plan, verdict, refs, process, workers
<1>37. ASSUME MoveTarget PROVE TypeMishaps'
  <2>1. UNCHANGED mishaps \/ Mishap
    BY <1>37 DEF MoveTarget
  <2> QED
    BY <2>1, DispatchAssumption DEF Mishap, TypeMishaps
<1>38. ASSUME DropPromoted PROVE TypeMishaps'
  BY <1>38, DispatchAssumption DEF DropPromoted, TypeMishaps, Mishap, CreateTrees, durable, plan, verdict, refs, process, workers
<1>39. ASSUME RecordPromotion PROVE TypeMishaps'
  BY <1>39, DispatchAssumption DEF RecordPromotion, TypeMishaps, Mishap, CreateTrees, durable, plan, verdict, refs, process, workers
<1>40. ASSUME Cancel PROVE TypeMishaps'
  BY <1>40, DispatchAssumption DEF Cancel, TypeMishaps, Mishap, CreateTrees, durable, plan, verdict, refs, process, workers
<1>41. ASSUME Crash PROVE TypeMishaps'
  BY <1>41, DispatchAssumption DEF Crash, TypeMishaps, Mishap, CreateTrees, durable, plan, verdict, refs, process, workers
<1>42. ASSUME UNCHANGED vars PROVE TypeMishaps'
  BY <1>42 DEF vars, durable, plan, verdict, refs, process, workers, TypeMishaps
<1> HIDE DEF TypeMishaps
<1> QED
  BY <1>1, <1>2, <1>3, <1>4, <1>5, <1>6, <1>7, <1>8, <1>9, <1>10, <1>11, <1>12, <1>13, <1>14, <1>15, <1>16, <1>17, <1>18, <1>19, <1>20, <1>21, <1>22, <1>23, <1>24, <1>25, <1>26, <1>27, <1>28, <1>29, <1>30, <1>31, <1>32, <1>33, <1>34, <1>35, <1>36, <1>37, <1>38, <1>39, <1>40, <1>41, <1>42 DEF Next, Recovery, Work, Operations, Outcomes

\* Every step leaves the stage typed.
LEMMA TypeStageStep == TypeStage /\ TypeFlags /\ [Next]_vars => TypeStage'
<1> SUFFICES ASSUME TypeStage, TypeFlags, [Next]_vars PROVE TypeStage'
  OBVIOUS
<1>1. ASSUME Prepare PROVE TypeStage'
  BY <1>1, StageRange DEF Prepare, TypeStage, TypeFlags, durable, plan, verdict, refs, process, workers
<1>2. ASSUME ResumePreparation PROVE TypeStage'
  BY <1>2 DEF ResumePreparation, TypeStage, durable, plan, verdict, refs, process, workers
<1>3. ASSUME Inspect PROVE TypeStage'
  BY <1>3, StageRange DEF Inspect, TypeStage, TypeFlags, durable, plan, verdict, refs, process, workers
<1>4. ASSUME Create PROVE TypeStage'
  BY <1>4 DEF Create, TypeStage, durable, plan, verdict, refs, process, workers, CreateTrees
<1>5. ASSUME RecoverDemotion PROVE TypeStage'
  BY <1>5 DEF RecoverDemotion, TypeStage, durable, plan, verdict, refs, process, workers
<1>6. ASSUME RecoverTransition PROVE TypeStage'
  BY <1>6 DEF RecoverTransition, TypeStage, durable, plan, verdict, refs, process, workers
<1>7. ASSUME Sweep PROVE TypeStage'
  BY <1>7 DEF Sweep, TypeStage, durable, plan, verdict, refs, process, workers
<1>8. ASSUME Swept PROVE TypeStage'
  BY <1>8 DEF Swept, TypeStage, durable, plan, verdict, refs, process, workers
<1>9. ASSUME MarkCreating PROVE TypeStage'
  BY <1>9 DEF MarkCreating, TypeStage, durable, plan, verdict, refs, process, workers
<1>10. ASSUME LookAtTrees PROVE TypeStage'
  BY <1>10 DEF LookAtTrees, TypeStage, durable, plan, verdict, refs, process, workers
<1>11. ASSUME MakeTrees PROVE TypeStage'
  BY <1>11 DEF MakeTrees, TypeStage, durable, plan, verdict, refs, process, workers, CreateTrees
<1>12. ASSUME AdoptReplacement PROVE TypeStage'
  BY <1>12 DEF AdoptReplacement, TypeStage, durable, plan, verdict, refs, process, workers
<1>13. ASSUME AdoptWave PROVE TypeStage'
  <2>1. UNCHANGED stage \/ \E ts : stage' = StageAfter(ts, transition.next, Completed, cancelled, FALSE)
    BY <1>13 DEF AdoptWave
  <2> QED
    BY <2>1, StageRange DEF TypeStage, TypeFlags
<1>14. ASSUME NEW u \in Units, Bind(u) PROVE TypeStage'
  BY <1>14 DEF Bind, TypeStage, durable, plan, verdict, refs, process, workers
<1>15. ASSUME NEW u \in Units, Edits(u) PROVE TypeStage'
  BY <1>15 DEF Edits, TypeStage, durable, plan, verdict, refs, process, workers
<1>16. ASSUME NEW u \in Units, Produce(u) PROVE TypeStage'
  BY <1>16 DEF Produce, TypeStage, durable, plan, verdict, refs, process, workers
<1>17. ASSUME NEW u \in Units, ClaimArtifact(u) PROVE TypeStage'
  BY <1>17 DEF ClaimArtifact, TypeStage, durable, plan, verdict, refs, process, workers
<1>18. ASSUME NEW u \in Units, MoveArtifact(u) PROVE TypeStage'
  BY <1>18 DEF MoveArtifact, TypeStage, durable, plan, verdict, refs, process, workers
<1>19. ASSUME NEW u \in Units, RecordArtifact(u) PROVE TypeStage'
  BY <1>19 DEF RecordArtifact, TypeStage, durable, plan, verdict, refs, process, workers
<1>20. ASSUME NEW u \in Units, SessionEnds(u) PROVE TypeStage'
  BY <1>20 DEF SessionEnds, TypeStage, durable, plan, verdict, refs, process, workers
<1>21. ASSUME NEW u \in Units, NEW outcome \in Outcomes, Report(u, outcome) PROVE TypeStage'
  <2>1. UNCHANGED stage \/ \E ts : stage' = StageAfter(ts, active, done, cancelled, FALSE)
    BY <1>21 DEF Report
  <2> QED
    BY <2>1, StageRange DEF TypeStage, TypeFlags
<1>22. ASSUME NEW u \in Units, KeepArtifact(u) PROVE TypeStage'
  BY <1>22 DEF KeepArtifact, TypeStage, durable, plan, verdict, refs, process, workers
<1>23. ASSUME NEW u \in Units, ReleaseTree(u) PROVE TypeStage'
  BY <1>23 DEF ReleaseTree, TypeStage, durable, plan, verdict, refs, process, workers
<1>24. ASSUME NEW u \in Units, CleanSuppressed(u) PROVE TypeStage'
  BY <1>24 DEF CleanSuppressed, TypeStage, durable, plan, verdict, refs, process, workers
<1>25. ASSUME NEW u \in Units, PlanTakeover(u) PROVE TypeStage'
  BY <1>25 DEF PlanTakeover, TypeStage, durable, plan, verdict, refs, process, workers
<1>26. ASSUME NEW u \in Units, DemoteFailed(u) PROVE TypeStage'
  BY <1>26 DEF DemoteFailed, TypeStage, durable, plan, verdict, refs, process, workers
<1>27. ASSUME NEW gone \in SUBSET Lapsed, NEW seen \in BOOLEAN, Reconcile(gone, seen) PROVE TypeStage'
  <2>1. UNCHANGED stage \/ \E ts : stage' = StageAfter(ts, active, done, cancelled, FALSE)
    BY <1>27 DEF Reconcile
  <2> QED
    BY <2>1, StageRange DEF TypeStage, TypeFlags
<1>28. ASSUME FinishTakeover PROVE TypeStage'
  BY <1>28 DEF FinishTakeover, TypeStage, durable, plan, verdict, refs, process, workers
<1>29. ASSUME Integrate PROVE TypeStage'
  BY <1>29 DEF Integrate, TypeStage, durable, plan, verdict, refs, process, workers
<1>30. ASSUME AdvanceWave PROVE TypeStage'
  BY <1>30 DEF AdvanceWave, TypeStage, durable, plan, verdict, refs, process, workers
<1>31. ASSUME ClaimValidation PROVE TypeStage'
  BY <1>31 DEF ClaimValidation, TypeStage, durable, plan, verdict, refs, process, workers
<1>32. ASSUME SettleValidation PROVE TypeStage'
  BY <1>32 DEF SettleValidation, TypeStage, durable, plan, verdict, refs, process, workers
<1>33. ASSUME ReplayFailure PROVE TypeStage'
  BY <1>33 DEF ReplayFailure, TypeStage, durable, plan, verdict, refs, process, workers
<1>34. ASSUME NEW decision \in {"pass", "fail"}, ClaimReview(decision) PROVE TypeStage'
  BY <1>34 DEF ClaimReview, TypeStage, durable, plan, verdict, refs, process, workers
<1>35. ASSUME DropCandidate PROVE TypeStage'
  BY <1>35 DEF DropCandidate, TypeStage, durable, plan, verdict, refs, process, workers
<1>36. ASSUME ArchiveFailed PROVE TypeStage'
  BY <1>36, StageRange DEF ArchiveFailed, TypeStage, TypeFlags, durable, plan, verdict, refs, process, workers
<1>37. ASSUME MoveTarget PROVE TypeStage'
  BY <1>37 DEF MoveTarget, TypeStage, durable, plan, verdict, refs, process, workers
<1>38. ASSUME DropPromoted PROVE TypeStage'
  BY <1>38 DEF DropPromoted, TypeStage, durable, plan, verdict, refs, process, workers
<1>39. ASSUME RecordPromotion PROVE TypeStage'
  BY <1>39, StageRange DEF RecordPromotion, TypeStage, TypeFlags, durable, plan, verdict, refs, process, workers
<1>40. ASSUME Cancel PROVE TypeStage'
  BY <1>40, StageRange DEF Cancel, TypeStage, TypeFlags, durable, plan, verdict, refs, process, workers
<1>41. ASSUME Crash PROVE TypeStage'
  BY <1>41 DEF Crash, TypeStage, durable, plan, verdict, refs, process, workers
<1>42. ASSUME UNCHANGED vars PROVE TypeStage'
  BY <1>42 DEF vars, durable, plan, verdict, refs, process, workers, TypeStage
<1> HIDE DEF TypeStage
<1> QED
  BY <1>1, <1>2, <1>3, <1>4, <1>5, <1>6, <1>7, <1>8, <1>9, <1>10, <1>11, <1>12, <1>13, <1>14, <1>15, <1>16, <1>17, <1>18, <1>19, <1>20, <1>21, <1>22, <1>23, <1>24, <1>25, <1>26, <1>27, <1>28, <1>29, <1>30, <1>31, <1>32, <1>33, <1>34, <1>35, <1>36, <1>37, <1>38, <1>39, <1>40, <1>41, <1>42 DEF Next, Recovery, Work, Operations, Outcomes

\* Every step leaves the tasks typed.
LEMMA TypeTaskStep == TypeTask /\ TypePlan /\ TypeWorkers /\ Recovering /\ [Next]_vars => TypeTask'
<1> SUFFICES ASSUME TypeTask, TypePlan, TypeWorkers, Recovering, [Next]_vars PROVE TypeTask'
  OBVIOUS
<1>1. ASSUME Prepare PROVE TypeTask'
  BY <1>1 DEF Prepare, TypeTask, durable, plan, verdict, refs, process, workers
<1>2. ASSUME ResumePreparation PROVE TypeTask'
  BY <1>2 DEF ResumePreparation, TypeTask, durable, plan, verdict, refs, process, workers
<1>3. ASSUME Inspect PROVE TypeTask'
  <2> DEFINE ts == [u \in Units |-> IF <<u, 1>> \in NewTrees THEN Fresh(1, head) ELSE Absent]
  <2>1. ts \in [Units -> Tasks]
    BY FreshTyped DEF TypePlan, Attempts
  <2>2. task' \in Reservations(ts, active) \/ UNCHANGED task
    BY <1>3 DEF Inspect
  <2> HIDE DEF ts
  <2> QED
    BY <2>1, <2>2, ReservationsSteady DEF TypeTask
<1>4. ASSUME Create PROVE TypeTask'
  BY <1>4 DEF Create, TypeTask, durable, plan, verdict, refs, process, workers, CreateTrees
<1>5. ASSUME RecoverDemotion PROVE TypeTask'
  BY <1>5 DEF RecoverDemotion, TypeTask, durable, plan, verdict, refs, process, workers
<1>6. ASSUME RecoverTransition PROVE TypeTask'
  BY <1>6 DEF RecoverTransition, TypeTask, durable, plan, verdict, refs, process, workers
<1>7. ASSUME Sweep PROVE TypeTask'
  BY <1>7 DEF Sweep, TypeTask, durable, plan, verdict, refs, process, workers
<1>8. ASSUME Swept PROVE TypeTask'
  BY <1>8 DEF Swept, TypeTask, durable, plan, verdict, refs, process, workers
<1>9. ASSUME MarkCreating PROVE TypeTask'
  BY <1>9 DEF MarkCreating, TypeTask, durable, plan, verdict, refs, process, workers
<1>10. ASSUME LookAtTrees PROVE TypeTask'
  BY <1>10 DEF LookAtTrees, TypeTask, durable, plan, verdict, refs, process, workers
<1>11. ASSUME MakeTrees PROVE TypeTask'
  BY <1>11 DEF MakeTrees, TypeTask, durable, plan, verdict, refs, process, workers, CreateTrees
<1>12. ASSUME AdoptReplacement PROVE TypeTask'
  <2> DEFINE ts == [task EXCEPT ![demotion.unit] = Fresh(2, ReplacementBase)]
  <2>1. ts \in [Units -> Tasks]
    <3>1. Fresh(2, ReplacementBase) \in Tasks
      BY FreshTyped DEF TypePlan, Attempts, ReplacementBase
    <3> QED
      BY <3>1 DEF TypeTask
  <2>2. task' \in Reservations(ts, active) \/ UNCHANGED task
    BY <1>12 DEF AdoptReplacement
  <2> HIDE DEF ts
  <2> QED
    BY <2>1, <2>2, ReservationsSteady DEF TypeTask
<1>13. ASSUME AdoptWave PROVE TypeTask'
  <2> DEFINE ts == [u \in Units |-> IF u \in transition.next THEN Fresh(1, head) ELSE task[u]]
  <2>1. ts \in [Units -> Tasks]
    BY FreshTyped DEF TypePlan, TypeTask, Attempts
  <2>2. task' \in Reservations(ts, transition.next) \/ UNCHANGED task
    BY <1>13 DEF AdoptWave
  <2> HIDE DEF ts
  <2> QED
    BY <2>1, <2>2, ReservationsSteady DEF TypeTask
<1>14. ASSUME NEW u \in Units, Bind(u) PROVE TypeTask'
  BY <1>14, SettledSteady, SuppressSteady, ReservationsSteady DEF Bind, TypeTask, Tasks, Phases, Outcomes, Open, durable, plan, verdict, refs, process, workers
<1>15. ASSUME NEW u \in Units, Edits(u) PROVE TypeTask'
  BY <1>15 DEF Edits, TypeTask, durable, plan, verdict, refs, process, workers
<1>16. ASSUME NEW u \in Units, Produce(u) PROVE TypeTask'
  BY <1>16 DEF Produce, TypeTask, durable, plan, verdict, refs, process, workers
<1>17. ASSUME NEW u \in Units, ClaimArtifact(u) PROVE TypeTask'
  BY <1>17, SettledSteady, SuppressSteady, ReservationsSteady DEF ClaimArtifact, TypeTask, Tasks, Phases, Outcomes, Open, durable, plan, verdict, refs, process, workers
<1>18. ASSUME NEW u \in Units, MoveArtifact(u) PROVE TypeTask'
  BY <1>18 DEF MoveArtifact, TypeTask, durable, plan, verdict, refs, process, workers
<1>19. ASSUME NEW u \in Units, RecordArtifact(u) PROVE TypeTask'
  BY <1>19, SettledSteady, SuppressSteady, ReservationsSteady DEF RecordArtifact, TypeTask, Tasks, Phases, Outcomes, Open, durable, plan, verdict, refs, process, workers
<1>20. ASSUME NEW u \in Units, SessionEnds(u) PROVE TypeTask'
  BY <1>20 DEF SessionEnds, TypeTask, durable, plan, verdict, refs, process, workers
<1>21. ASSUME NEW u \in Units, NEW outcome \in Outcomes, Report(u, outcome) PROVE TypeTask'
  <2> DEFINE outcomes == [pending EXCEPT ![u] = Effective(u, outcome)]
             ts == Settled(task, outcomes)
  <2>1. outcomes \in [Units -> Outcomes \cup {None}]
    BY <1>21, EffectiveTyped DEF TypeWorkers
  <2>2. task' \in Reservations(ts, active) \/ UNCHANGED task
    BY <1>21 DEF Report
  <2> HIDE DEF outcomes
  <2>3. ts \in [Units -> Tasks]
    BY <2>1, SettledSteady DEF TypeTask
  <2> HIDE DEF ts
  <2> QED
    BY <2>2, <2>3, ReservationsSteady DEF TypeTask
<1>22. ASSUME NEW u \in Units, KeepArtifact(u) PROVE TypeTask'
  BY <1>22 DEF KeepArtifact, TypeTask, durable, plan, verdict, refs, process, workers
<1>23. ASSUME NEW u \in Units, ReleaseTree(u) PROVE TypeTask'
  BY <1>23 DEF ReleaseTree, TypeTask, durable, plan, verdict, refs, process, workers
<1>24. ASSUME NEW u \in Units, CleanSuppressed(u) PROVE TypeTask'
  BY <1>24 DEF CleanSuppressed, TypeTask, durable, plan, verdict, refs, process, workers
<1>25. ASSUME NEW u \in Units, PlanTakeover(u) PROVE TypeTask'
  BY <1>25, SettledSteady, SuppressSteady, ReservationsSteady DEF PlanTakeover, TypeTask, Tasks, Phases, Outcomes, Open, durable, plan, verdict, refs, process, workers
<1>26. ASSUME NEW u \in Units, DemoteFailed(u) PROVE TypeTask'
  BY <1>26 DEF DemoteFailed, TypeTask, durable, plan, verdict, refs, process, workers
<1>27. ASSUME NEW gone \in SUBSET Lapsed, NEW seen \in BOOLEAN, Reconcile(gone, seen) PROVE TypeTask'
  <2> DEFINE waiting == Settled(task, pending)
             lost == {u \in Units : waiting[u].phase \in {"pending", "reserved"} /\
                        (seen => Reconciled[Tree(u)] \notin ReadyStates)}
             mid == [u \in Units |-> IF u \in gone \cup lost THEN [waiting[u] EXCEPT !.phase = "abandoned", !.outcome = None]
                                     ELSE waiting[u]]
             ts == Suppress(mid, gone \cup lost)
  <2>1. waiting \in [Units -> Tasks]
    BY SettledSteady DEF TypeTask, TypeWorkers
  <2>2. task' \in Reservations(ts, active) \/ UNCHANGED task
    BY <1>27 DEF Reconcile
  <2> HIDE DEF lost, waiting
  <2>3. ASSUME NEW u \in Units PROVE [waiting[u] EXCEPT !.phase = "abandoned", !.outcome = None] \in Tasks
    BY <2>1 DEF Tasks, Phases, Open
  <2>4. mid \in [Units -> Tasks]
    BY <2>1, <2>3
  <2> HIDE DEF mid
  <2>5. ts \in [Units -> Tasks]
    BY <2>4, SuppressSteady
  <2> HIDE DEF ts
  <2> QED
    BY <2>2, <2>5, ReservationsSteady DEF TypeTask
<1>28. ASSUME FinishTakeover PROVE TypeTask'
  <2>1. PICK outcome \in {"failed", "cancelled"} :
          task' = [task EXCEPT ![demotion.unit].phase = "failed", ![demotion.unit].outcome = outcome]
    BY <1>28 DEF FinishTakeover
  <2>2. ASSUME NEW u \in Units PROVE [task[u] EXCEPT !.phase = "failed", !.outcome = outcome] \in Tasks
    BY DEF TypeTask, Tasks, Phases, Outcomes
  <2>3. task' = [task EXCEPT ![demotion.unit] = [task[demotion.unit] EXCEPT !.phase = "failed", !.outcome = outcome]]
    BY <2>1 DEF TypeTask, Tasks
  <2> QED
    BY <2>2, <2>3 DEF TypeTask
<1>29. ASSUME Integrate PROVE TypeTask'
  BY <1>29 DEF Integrate, TypeTask, durable, plan, verdict, refs, process, workers
<1>30. ASSUME AdvanceWave PROVE TypeTask'
  BY <1>30 DEF AdvanceWave, TypeTask, durable, plan, verdict, refs, process, workers
<1>31. ASSUME ClaimValidation PROVE TypeTask'
  BY <1>31 DEF ClaimValidation, TypeTask, durable, plan, verdict, refs, process, workers
<1>32. ASSUME SettleValidation PROVE TypeTask'
  BY <1>32 DEF SettleValidation, TypeTask, durable, plan, verdict, refs, process, workers
<1>33. ASSUME ReplayFailure PROVE TypeTask'
  BY <1>33 DEF ReplayFailure, TypeTask, durable, plan, verdict, refs, process, workers
<1>34. ASSUME NEW decision \in {"pass", "fail"}, ClaimReview(decision) PROVE TypeTask'
  BY <1>34 DEF ClaimReview, TypeTask, durable, plan, verdict, refs, process, workers
<1>35. ASSUME DropCandidate PROVE TypeTask'
  BY <1>35 DEF DropCandidate, TypeTask, durable, plan, verdict, refs, process, workers
<1>36. ASSUME ArchiveFailed PROVE TypeTask'
  BY <1>36 DEF ArchiveFailed, TypeTask, durable, plan, verdict, refs, process, workers
<1>37. ASSUME MoveTarget PROVE TypeTask'
  BY <1>37 DEF MoveTarget, TypeTask, durable, plan, verdict, refs, process, workers
<1>38. ASSUME DropPromoted PROVE TypeTask'
  BY <1>38 DEF DropPromoted, TypeTask, durable, plan, verdict, refs, process, workers
<1>39. ASSUME RecordPromotion PROVE TypeTask'
  BY <1>39 DEF RecordPromotion, TypeTask, durable, plan, verdict, refs, process, workers
<1>40. ASSUME Cancel PROVE TypeTask'
  <2>1. ASSUME NEW u \in Units PROVE [task[u] EXCEPT !.phase = "suppressed", !.outcome = "cancelled"] \in Tasks
    BY DEF TypeTask, Tasks, Phases, Outcomes
  <2>2. task' = [u \in Units |-> IF task[u].phase \in {"pending", "reserved"}
                   THEN [task[u] EXCEPT !.phase = "suppressed", !.outcome = "cancelled"] ELSE task[u]]
    BY <1>40 DEF Cancel
  <2> QED
    BY <2>1, <2>2 DEF TypeTask
<1>41. ASSUME Crash PROVE TypeTask'
  BY <1>41 DEF Crash, TypeTask, durable, plan, verdict, refs, process, workers
<1>42. ASSUME UNCHANGED vars PROVE TypeTask'
  BY <1>42 DEF vars, durable, plan, verdict, refs, process, workers, TypeTask
<1> HIDE DEF TypeTask
<1> QED
  BY <1>1, <1>2, <1>3, <1>4, <1>5, <1>6, <1>7, <1>8, <1>9, <1>10, <1>11, <1>12, <1>13, <1>14, <1>15, <1>16, <1>17, <1>18, <1>19, <1>20, <1>21, <1>22, <1>23, <1>24, <1>25, <1>26, <1>27, <1>28, <1>29, <1>30, <1>31, <1>32, <1>33, <1>34, <1>35, <1>36, <1>37, <1>38, <1>39, <1>40, <1>41, <1>42 DEF Next, Recovery, Work, Operations, Outcomes

\* Every step leaves the plan typed.
LEMMA TypePlanStep == TypePlan /\ TypeRefs /\ TypeTask /\ Recovering /\ [Next]_vars => TypePlan'
<1> SUFFICES ASSUME TypePlan, TypeRefs, TypeTask, Recovering, [Next]_vars PROVE TypePlan'
  OBVIOUS
<1>1. ASSUME Prepare PROVE TypePlan'
  BY <1>1 DEF Prepare, TypePlan, Transitions, Demotions, NextWaves, ReadyUnits, durable, plan, verdict, refs, process, workers
<1>2. ASSUME ResumePreparation PROVE TypePlan'
  BY <1>2 DEF ResumePreparation, TypePlan, durable, plan, verdict, refs, process, workers
<1>3. ASSUME Inspect PROVE TypePlan'
  BY <1>3 DEF Inspect, TypePlan, durable, plan, verdict, refs, process, workers
<1>4. ASSUME Create PROVE TypePlan'
  BY <1>4 DEF Create, TypePlan, durable, plan, verdict, refs, process, workers, CreateTrees
<1>5. ASSUME RecoverDemotion PROVE TypePlan'
  BY <1>5 DEF RecoverDemotion, TypePlan, durable, plan, verdict, refs, process, workers
<1>6. ASSUME RecoverTransition PROVE TypePlan'
  BY <1>6 DEF RecoverTransition, TypePlan, durable, plan, verdict, refs, process, workers
<1>7. ASSUME Sweep PROVE TypePlan'
  BY <1>7 DEF Sweep, TypePlan, durable, plan, verdict, refs, process, workers
<1>8. ASSUME Swept PROVE TypePlan'
  BY <1>8 DEF Swept, TypePlan, durable, plan, verdict, refs, process, workers
<1>9. ASSUME MarkCreating PROVE TypePlan'
  <2>1. CASE UNCHANGED <<demotion, transition>>
    BY <1>9, <2>1 DEF MarkCreating, TypePlan
  <2>2. CASE demotion # None /\ demotion' = [demotion EXCEPT !.phase = "creating"] /\ UNCHANGED transition
    BY <1>9, <2>2 DEF MarkCreating, TypePlan, Demotions
  <2>3. CASE /\ demotion = None /\ UNCHANGED demotion
             /\ transition' = [transition EXCEPT !.phase = "creating"]
    <3>1. transition \in Transitions
      BY <1>9, <2>3 DEF MarkCreating, Recovering, TypePlan
    <3> QED
      BY <1>9, <2>3, <3>1 DEF MarkCreating, TypePlan, Transitions
  <2> QED
    BY <1>9, <2>1, <2>2, <2>3 DEF MarkCreating
<1>10. ASSUME LookAtTrees PROVE TypePlan'
  BY <1>10 DEF LookAtTrees, TypePlan, durable, plan, verdict, refs, process, workers
<1>11. ASSUME MakeTrees PROVE TypePlan'
  BY <1>11 DEF MakeTrees, TypePlan, durable, plan, verdict, refs, process, workers, CreateTrees
<1>12. ASSUME AdoptReplacement PROVE TypePlan'
  BY <1>12 DEF AdoptReplacement, TypePlan, Transitions, Demotions, NextWaves, ReadyUnits, durable, plan, verdict, refs, process, workers
<1>13. ASSUME AdoptWave PROVE TypePlan'
  <2>1. transition \in Transitions
    BY <1>13 DEF AdoptWave, Recovering, TypePlan
  <2>2. transition.next \in SUBSET Units
    BY <2>1 DEF Transitions
  <2> QED
    BY <1>13, <2>2 DEF AdoptWave, TypePlan, Completed
<1>14. ASSUME NEW u \in Units, Bind(u) PROVE TypePlan'
  BY <1>14 DEF Bind, TypePlan, durable, plan, verdict, refs, process, workers
<1>15. ASSUME NEW u \in Units, Edits(u) PROVE TypePlan'
  BY <1>15 DEF Edits, TypePlan, durable, plan, verdict, refs, process, workers
<1>16. ASSUME NEW u \in Units, Produce(u) PROVE TypePlan'
  BY <1>16 DEF Produce, TypePlan, durable, plan, verdict, refs, process, workers
<1>17. ASSUME NEW u \in Units, ClaimArtifact(u) PROVE TypePlan'
  BY <1>17 DEF ClaimArtifact, TypePlan, durable, plan, verdict, refs, process, workers
<1>18. ASSUME NEW u \in Units, MoveArtifact(u) PROVE TypePlan'
  BY <1>18 DEF MoveArtifact, TypePlan, durable, plan, verdict, refs, process, workers
<1>19. ASSUME NEW u \in Units, RecordArtifact(u) PROVE TypePlan'
  BY <1>19 DEF RecordArtifact, TypePlan, durable, plan, verdict, refs, process, workers
<1>20. ASSUME NEW u \in Units, SessionEnds(u) PROVE TypePlan'
  BY <1>20 DEF SessionEnds, TypePlan, durable, plan, verdict, refs, process, workers
<1>21. ASSUME NEW u \in Units, NEW outcome \in Outcomes, Report(u, outcome) PROVE TypePlan'
  BY <1>21 DEF Report, TypePlan, durable, plan, verdict, refs, process, workers
<1>22. ASSUME NEW u \in Units, KeepArtifact(u) PROVE TypePlan'
  BY <1>22 DEF KeepArtifact, TypePlan, durable, plan, verdict, refs, process, workers
<1>23. ASSUME NEW u \in Units, ReleaseTree(u) PROVE TypePlan'
  BY <1>23 DEF ReleaseTree, TypePlan, durable, plan, verdict, refs, process, workers
<1>24. ASSUME NEW u \in Units, CleanSuppressed(u) PROVE TypePlan'
  BY <1>24 DEF CleanSuppressed, TypePlan, durable, plan, verdict, refs, process, workers
<1>25. ASSUME NEW u \in Units, PlanTakeover(u) PROVE TypePlan'
  BY <1>25 DEF PlanTakeover, TypePlan, Transitions, Demotions, NextWaves, ReadyUnits, durable, plan, verdict, refs, process, workers
<1>26. ASSUME NEW u \in Units, DemoteFailed(u) PROVE TypePlan'
  BY <1>26 DEF DemoteFailed, TypePlan, Transitions, Demotions, NextWaves, ReadyUnits, durable, plan, verdict, refs, process, workers
<1>27. ASSUME NEW gone \in SUBSET Lapsed, NEW seen \in BOOLEAN, Reconcile(gone, seen) PROVE TypePlan'
  BY <1>27 DEF Reconcile, TypePlan, durable, plan, verdict, refs, process, workers
<1>28. ASSUME FinishTakeover PROVE TypePlan'
  BY <1>28 DEF FinishTakeover, TypePlan, Transitions, Demotions, NextWaves, ReadyUnits, durable, plan, verdict, refs, process, workers
<1>29. ASSUME Integrate PROVE TypePlan'
  BY <1>29 DEF Integrate, TypePlan, durable, plan, verdict, refs, process, workers
<1>30. ASSUME AdvanceWave PROVE TypePlan'
  <2>1. integ \in SUBSET Trees
    BY <1>30 DEF AdvanceWave, TypeRefs
  <2>2. \A next \in NextWaves(Advanced) : [phase |-> "cleanup", next |-> next] \in Transitions
    BY DEF NextWaves, ReadyUnits, Transitions
  <2> QED
    BY <1>30, <2>1, <2>2 DEF AdvanceWave, TypePlan
<1>31. ASSUME ClaimValidation PROVE TypePlan'
  BY <1>31 DEF ClaimValidation, TypePlan, durable, plan, verdict, refs, process, workers
<1>32. ASSUME SettleValidation PROVE TypePlan'
  BY <1>32 DEF SettleValidation, TypePlan, durable, plan, verdict, refs, process, workers
<1>33. ASSUME ReplayFailure PROVE TypePlan'
  BY <1>33 DEF ReplayFailure, TypePlan, durable, plan, verdict, refs, process, workers
<1>34. ASSUME NEW decision \in {"pass", "fail"}, ClaimReview(decision) PROVE TypePlan'
  BY <1>34 DEF ClaimReview, TypePlan, durable, plan, verdict, refs, process, workers
<1>35. ASSUME DropCandidate PROVE TypePlan'
  BY <1>35 DEF DropCandidate, TypePlan, durable, plan, verdict, refs, process, workers
<1>36. ASSUME ArchiveFailed PROVE TypePlan'
  BY <1>36 DEF ArchiveFailed, TypePlan, durable, plan, verdict, refs, process, workers
<1>37. ASSUME MoveTarget PROVE TypePlan'
  BY <1>37 DEF MoveTarget, TypePlan, durable, plan, verdict, refs, process, workers
<1>38. ASSUME DropPromoted PROVE TypePlan'
  BY <1>38 DEF DropPromoted, TypePlan, durable, plan, verdict, refs, process, workers
<1>39. ASSUME RecordPromotion PROVE TypePlan'
  BY <1>39 DEF RecordPromotion, TypePlan, durable, plan, verdict, refs, process, workers
<1>40. ASSUME Cancel PROVE TypePlan'
  BY <1>40 DEF Cancel, TypePlan, durable, plan, verdict, refs, process, workers
<1>41. ASSUME Crash PROVE TypePlan'
  BY <1>41 DEF Crash, TypePlan, durable, plan, verdict, refs, process, workers
<1>42. ASSUME UNCHANGED vars PROVE TypePlan'
  BY <1>42 DEF vars, durable, plan, verdict, refs, process, workers, TypePlan
<1> HIDE DEF TypePlan
<1> QED
  BY <1>1, <1>2, <1>3, <1>4, <1>5, <1>6, <1>7, <1>8, <1>9, <1>10, <1>11, <1>12, <1>13, <1>14, <1>15, <1>16, <1>17, <1>18, <1>19, <1>20, <1>21, <1>22, <1>23, <1>24, <1>25, <1>26, <1>27, <1>28, <1>29, <1>30, <1>31, <1>32, <1>33, <1>34, <1>35, <1>36, <1>37, <1>38, <1>39, <1>40, <1>41, <1>42 DEF Next, Recovery, Work, Operations, Outcomes

\* Every step leaves the refs typed.
LEMMA TypeRefsStep == TypeRefs /\ TypePlan /\ TypeTask /\ [Next]_vars => TypeRefs'
<1> SUFFICES ASSUME TypeRefs, TypePlan, TypeTask, [Next]_vars PROVE TypeRefs'
  OBVIOUS
<1>1. ASSUME Prepare PROVE TypeRefs'
  BY <1>1 DEF Prepare, TypeRefs, durable, plan, verdict, refs, process, workers
<1>2. ASSUME ResumePreparation PROVE TypeRefs'
  BY <1>2 DEF ResumePreparation, TypeRefs, durable, plan, verdict, refs, process, workers
<1>3. ASSUME Inspect PROVE TypeRefs'
  BY <1>3 DEF Inspect, TypeRefs, TypePlan, plan
<1>4. ASSUME Create PROVE TypeRefs'
  BY <1>4 DEF Create, TypeRefs, durable, plan, verdict, refs, process, workers, CreateTrees
<1>5. ASSUME RecoverDemotion PROVE TypeRefs'
  BY <1>5 DEF RecoverDemotion, KeepSources, TypeRefs, durable, plan, process
<1>6. ASSUME RecoverTransition PROVE TypeRefs'
  BY <1>6 DEF RecoverTransition, TypeRefs, durable, plan, verdict, refs, process, workers
<1>7. ASSUME Sweep PROVE TypeRefs'
  BY <1>7 DEF Sweep, TypeRefs, durable, plan, verdict, refs, process, workers
<1>8. ASSUME Swept PROVE TypeRefs'
  BY <1>8 DEF Swept, TypeRefs, durable, plan, verdict, refs, process, workers
<1>9. ASSUME MarkCreating PROVE TypeRefs'
  BY <1>9 DEF MarkCreating, TypeRefs, durable, plan, verdict, refs, process, workers
<1>10. ASSUME LookAtTrees PROVE TypeRefs'
  BY <1>10 DEF LookAtTrees, TypeRefs, durable, plan, verdict, refs, process, workers
<1>11. ASSUME MakeTrees PROVE TypeRefs'
  BY <1>11 DEF MakeTrees, TypeRefs, durable, plan, verdict, refs, process, workers, CreateTrees
<1>12. ASSUME AdoptReplacement PROVE TypeRefs'
  BY <1>12 DEF AdoptReplacement, TypeRefs, durable, plan, verdict, refs, process, workers
<1>13. ASSUME AdoptWave PROVE TypeRefs'
  BY <1>13 DEF AdoptWave, TypeRefs, durable, plan, verdict, refs, process, workers
<1>14. ASSUME NEW u \in Units, Bind(u) PROVE TypeRefs'
  BY <1>14 DEF Bind, TypeRefs, durable, plan, verdict, refs, process, workers
<1>15. ASSUME NEW u \in Units, Edits(u) PROVE TypeRefs'
  BY <1>15 DEF Edits, TypeRefs, durable, plan, verdict, refs, process, workers
<1>16. ASSUME NEW u \in Units, Produce(u) PROVE TypeRefs'
  BY <1>16 DEF Produce, TypeRefs, durable, plan, verdict, refs, process, workers
<1>17. ASSUME NEW u \in Units, ClaimArtifact(u) PROVE TypeRefs'
  BY <1>17 DEF ClaimArtifact, TypeRefs, durable, plan, verdict, refs, process, workers
<1>18. ASSUME NEW u \in Units, MoveArtifact(u) PROVE TypeRefs'
  BY <1>18 DEF MoveArtifact, TypeRefs, durable, plan, verdict, refs, process, workers
<1>19. ASSUME NEW u \in Units, RecordArtifact(u) PROVE TypeRefs'
  BY <1>19 DEF RecordArtifact, TypeRefs, durable, plan, verdict, refs, process, workers
<1>20. ASSUME NEW u \in Units, SessionEnds(u) PROVE TypeRefs'
  BY <1>20 DEF SessionEnds, TypeRefs, durable, plan, verdict, refs, process, workers
<1>21. ASSUME NEW u \in Units, NEW outcome \in Outcomes, Report(u, outcome) PROVE TypeRefs'
  BY <1>21 DEF Report, TypeRefs, durable, plan, verdict, refs, process, workers
<1>22. ASSUME NEW u \in Units, KeepArtifact(u) PROVE TypeRefs'
  <2>1. RefKept(u) \in 0 .. 2
    BY DEF RefKept, TypeTask, Tasks, Attempts
  <2> QED
    BY <1>22, <2>1 DEF KeepArtifact, TypeRefs, process
<1>23. ASSUME NEW u \in Units, ReleaseTree(u) PROVE TypeRefs'
  BY <1>23 DEF ReleaseTree, TypeRefs, durable, plan, verdict, refs, process, workers
<1>24. ASSUME NEW u \in Units, CleanSuppressed(u) PROVE TypeRefs'
  BY <1>24 DEF CleanSuppressed, TypeRefs, durable, plan, verdict, refs, process, workers
<1>25. ASSUME NEW u \in Units, PlanTakeover(u) PROVE TypeRefs'
  <2> DEFINE outcomes == [v \in Units |-> IF v # u /\ pending[v] = "completed" THEN "completed" ELSE None]
             ts == Settled(task, outcomes)
  <2>1. outcomes \in [Units -> Outcomes \cup {None}]
    BY DEF Outcomes
  <2>2. sources' = SourcesKept(ts) /\ UNCHANGED <<refs, integ>>
    BY <1>25 DEF PlanTakeover, process
  <2> HIDE DEF outcomes
  <2>3. ts \in [Units -> Tasks]
    BY <2>1, SettledSteady DEF TypeTask
  <2> HIDE DEF ts
  <2>4. SourcesKept(ts) \in [Units -> 0 .. 2]
    BY <2>3 DEF SourcesKept, TypeRefs, Tasks, Attempts
  <2> QED
    BY <2>2, <2>4 DEF TypeRefs, refs
<1>26. ASSUME NEW u \in Units, DemoteFailed(u) PROVE TypeRefs'
  <2>1. SourcesKept(task) \in [Units -> 0 .. 2]
    BY DEF SourcesKept, TypeRefs, TypeTask, Tasks, Attempts
  <2> QED
    BY <1>26, <2>1 DEF DemoteFailed, TypeRefs, refs, process
<1>27. ASSUME NEW gone \in SUBSET Lapsed, NEW seen \in BOOLEAN, Reconcile(gone, seen) PROVE TypeRefs'
  BY <1>27 DEF Reconcile, TypeRefs, durable, plan, verdict, refs, process, workers
<1>28. ASSUME FinishTakeover PROVE TypeRefs'
  BY <1>28 DEF FinishTakeover, TypeRefs, durable, plan, verdict, refs, process, workers
<1>29. ASSUME Integrate PROVE TypeRefs'
  <2>1. \A v \in Units : Tree(v) \in Trees
    BY DEF Tree, TypeTask, Tasks, Trees
  <2>2. head \cup Implementations(active) \in SUBSET Trees
    BY <2>1 DEF Implementations, TypePlan
  <2> QED
    BY <1>29, <2>2 DEF Integrate, TypeRefs, plan
<1>30. ASSUME AdvanceWave PROVE TypeRefs'
  BY <1>30 DEF AdvanceWave, TypeRefs, Tasks, Attempts, Trees, durable, plan, verdict, refs, process, workers
<1>31. ASSUME ClaimValidation PROVE TypeRefs'
  BY <1>31 DEF ClaimValidation, TypeRefs, durable, plan, verdict, refs, process, workers
<1>32. ASSUME SettleValidation PROVE TypeRefs'
  BY <1>32 DEF SettleValidation, TypeRefs, durable, plan, verdict, refs, process, workers
<1>33. ASSUME ReplayFailure PROVE TypeRefs'
  BY <1>33 DEF ReplayFailure, TypeRefs, durable, plan, verdict, refs, process, workers
<1>34. ASSUME NEW decision \in {"pass", "fail"}, ClaimReview(decision) PROVE TypeRefs'
  BY <1>34 DEF ClaimReview, TypeRefs, durable, plan, verdict, refs, process, workers
<1>35. ASSUME DropCandidate PROVE TypeRefs'
  BY <1>35 DEF DropCandidate, DropRefs, TypeRefs, plan
<1>36. ASSUME ArchiveFailed PROVE TypeRefs'
  BY <1>36 DEF ArchiveFailed, TypeRefs, durable, plan, verdict, refs, process, workers
<1>37. ASSUME MoveTarget PROVE TypeRefs'
  BY <1>37 DEF MoveTarget, TypeRefs, TypePlan, plan
<1>38. ASSUME DropPromoted PROVE TypeRefs'
  <2>1. candidate' \in {None, candidate} /\ UNCHANGED <<sources, target, integ>>
    BY <1>38 DEF DropPromoted, DropRefs, plan
  <2>2. ref' = [v \in Units |-> IF ref[v] = sources[v] THEN 0 ELSE ref[v]]
    BY <1>38 DEF DropPromoted, DropRefs
  <2>3. ref' \in [Units -> 0 .. 2]
    BY <2>2 DEF TypeRefs
  <2> QED
    BY <2>1, <2>3 DEF TypeRefs
<1>39. ASSUME RecordPromotion PROVE TypeRefs'
  BY <1>39 DEF RecordPromotion, TypeRefs, durable, plan, verdict, refs, process, workers
<1>40. ASSUME Cancel PROVE TypeRefs'
  BY <1>40 DEF Cancel, TypeRefs, durable, plan, verdict, refs, process, workers
<1>41. ASSUME Crash PROVE TypeRefs'
  BY <1>41 DEF Crash, TypeRefs, Tasks, Attempts, Trees, durable, plan, verdict, refs, process, workers
<1>42. ASSUME UNCHANGED vars PROVE TypeRefs'
  BY <1>42 DEF vars, durable, plan, verdict, refs, process, workers, TypeRefs
<1> HIDE DEF TypeRefs
<1> QED
  BY <1>1, <1>2, <1>3, <1>4, <1>5, <1>6, <1>7, <1>8, <1>9, <1>10, <1>11, <1>12, <1>13, <1>14, <1>15, <1>16, <1>17, <1>18, <1>19, <1>20, <1>21, <1>22, <1>23, <1>24, <1>25, <1>26, <1>27, <1>28, <1>29, <1>30, <1>31, <1>32, <1>33, <1>34, <1>35, <1>36, <1>37, <1>38, <1>39, <1>40, <1>41, <1>42 DEF Next, Recovery, Work, Operations, Outcomes

\* Every step leaves the workers typed.
LEMMA TypeWorkersStep == TypeWorkers /\ [Next]_vars => TypeWorkers'
<1> SUFFICES ASSUME TypeWorkers, [Next]_vars PROVE TypeWorkers'
  OBVIOUS
<1>1. ASSUME Prepare PROVE TypeWorkers'
  BY <1>1 DEF Prepare, TypeWorkers, durable, plan, verdict, refs, process, workers
<1>2. ASSUME ResumePreparation PROVE TypeWorkers'
  BY <1>2 DEF ResumePreparation, TypeWorkers, durable, plan, verdict, refs, process, workers
<1>3. ASSUME Inspect PROVE TypeWorkers'
  BY <1>3 DEF Inspect, TypeWorkers, durable, plan, verdict, refs, process, workers
<1>4. ASSUME Create PROVE TypeWorkers'
  BY <1>4 DEF Create, TypeWorkers, durable, plan, verdict, refs, process, workers, CreateTrees
<1>5. ASSUME RecoverDemotion PROVE TypeWorkers'
  BY <1>5 DEF RecoverDemotion, TypeWorkers, durable, plan, verdict, refs, process, workers
<1>6. ASSUME RecoverTransition PROVE TypeWorkers'
  BY <1>6 DEF RecoverTransition, TypeWorkers, durable, plan, verdict, refs, process, workers
<1>7. ASSUME Sweep PROVE TypeWorkers'
  BY <1>7 DEF Sweep, TypeWorkers, durable, plan, verdict, refs, process, workers
<1>8. ASSUME Swept PROVE TypeWorkers'
  BY <1>8 DEF Swept, TypeWorkers, durable, plan, verdict, refs, process, workers
<1>9. ASSUME MarkCreating PROVE TypeWorkers'
  BY <1>9 DEF MarkCreating, TypeWorkers, durable, plan, verdict, refs, process, workers
<1>10. ASSUME LookAtTrees PROVE TypeWorkers'
  BY <1>10 DEF LookAtTrees, TypeWorkers, durable, plan, verdict, refs, process, workers
<1>11. ASSUME MakeTrees PROVE TypeWorkers'
  BY <1>11 DEF MakeTrees, TypeWorkers, durable, plan, verdict, refs, process, workers, CreateTrees
<1>12. ASSUME AdoptReplacement PROVE TypeWorkers'
  BY <1>12 DEF AdoptReplacement, TypeWorkers, Making, durable, plan, verdict, refs, process, workers
<1>13. ASSUME AdoptWave PROVE TypeWorkers'
  BY <1>13 DEF AdoptWave, TypeWorkers, durable, plan, verdict, refs, process, workers
<1>14. ASSUME NEW u \in Units, Bind(u) PROVE TypeWorkers'
  BY <1>14 DEF Bind, TypeWorkers, Making, durable, plan, verdict, refs, process, workers
<1>15. ASSUME NEW u \in Units, Edits(u) PROVE TypeWorkers'
  BY <1>15 DEF Edits, TypeWorkers, durable, plan, verdict, refs, process, workers
<1>16. ASSUME NEW u \in Units, Produce(u) PROVE TypeWorkers'
  BY <1>16 DEF Produce, TypeWorkers, Making, durable, plan, verdict, refs, process, workers
<1>17. ASSUME NEW u \in Units, ClaimArtifact(u) PROVE TypeWorkers'
  BY <1>17 DEF ClaimArtifact, TypeWorkers, Making, durable, plan, verdict, refs, process, workers
<1>18. ASSUME NEW u \in Units, MoveArtifact(u) PROVE TypeWorkers'
  BY <1>18 DEF MoveArtifact, TypeWorkers, Making, durable, plan, verdict, refs, process, workers
<1>19. ASSUME NEW u \in Units, RecordArtifact(u) PROVE TypeWorkers'
  BY <1>19 DEF RecordArtifact, TypeWorkers, Making, durable, plan, verdict, refs, process, workers
<1>20. ASSUME NEW u \in Units, SessionEnds(u) PROVE TypeWorkers'
  BY <1>20 DEF SessionEnds, TypeWorkers, Making, durable, plan, verdict, refs, process, workers
<1>21. ASSUME NEW u \in Units, NEW outcome \in Outcomes, Report(u, outcome) PROVE TypeWorkers'
  <2>1. Effective(u, outcome) \in Outcomes
    BY <1>21, EffectiveTyped
  <2>2. pending' = [pending EXCEPT ![u] = Effective(u, outcome)] \/ pending' = [v \in Units |-> None]
    BY <1>21 DEF Report
  <2> QED
    BY <1>21, <2>1, <2>2 DEF Report, TypeWorkers
<1>22. ASSUME NEW u \in Units, KeepArtifact(u) PROVE TypeWorkers'
  BY <1>22 DEF KeepArtifact, TypeWorkers, Making, durable, plan, verdict, refs, process, workers
<1>23. ASSUME NEW u \in Units, ReleaseTree(u) PROVE TypeWorkers'
  BY <1>23 DEF ReleaseTree, TypeWorkers, Making, durable, plan, verdict, refs, process, workers
<1>24. ASSUME NEW u \in Units, CleanSuppressed(u) PROVE TypeWorkers'
  BY <1>24 DEF CleanSuppressed, TypeWorkers, durable, plan, verdict, refs, process, workers
<1>25. ASSUME NEW u \in Units, PlanTakeover(u) PROVE TypeWorkers'
  BY <1>25 DEF PlanTakeover, TypeWorkers, Making, durable, plan, verdict, refs, process, workers
<1>26. ASSUME NEW u \in Units, DemoteFailed(u) PROVE TypeWorkers'
  BY <1>26 DEF DemoteFailed, TypeWorkers, durable, plan, verdict, refs, process, workers
<1>27. ASSUME NEW gone \in SUBSET Lapsed, NEW seen \in BOOLEAN, Reconcile(gone, seen) PROVE TypeWorkers'
  BY <1>27 DEF Reconcile, TypeWorkers, Making, durable, plan, verdict, refs, process, workers
<1>28. ASSUME FinishTakeover PROVE TypeWorkers'
  BY <1>28 DEF FinishTakeover, TypeWorkers, durable, plan, verdict, refs, process, workers
<1>29. ASSUME Integrate PROVE TypeWorkers'
  BY <1>29 DEF Integrate, TypeWorkers, durable, plan, verdict, refs, process, workers
<1>30. ASSUME AdvanceWave PROVE TypeWorkers'
  BY <1>30 DEF AdvanceWave, TypeWorkers, durable, plan, verdict, refs, process, workers
<1>31. ASSUME ClaimValidation PROVE TypeWorkers'
  BY <1>31 DEF ClaimValidation, TypeWorkers, durable, plan, verdict, refs, process, workers
<1>32. ASSUME SettleValidation PROVE TypeWorkers'
  BY <1>32 DEF SettleValidation, TypeWorkers, durable, plan, verdict, refs, process, workers
<1>33. ASSUME ReplayFailure PROVE TypeWorkers'
  BY <1>33 DEF ReplayFailure, TypeWorkers, durable, plan, verdict, refs, process, workers
<1>34. ASSUME NEW decision \in {"pass", "fail"}, ClaimReview(decision) PROVE TypeWorkers'
  BY <1>34 DEF ClaimReview, TypeWorkers, durable, plan, verdict, refs, process, workers
<1>35. ASSUME DropCandidate PROVE TypeWorkers'
  BY <1>35 DEF DropCandidate, TypeWorkers, durable, plan, verdict, refs, process, workers
<1>36. ASSUME ArchiveFailed PROVE TypeWorkers'
  BY <1>36 DEF ArchiveFailed, TypeWorkers, durable, plan, verdict, refs, process, workers
<1>37. ASSUME MoveTarget PROVE TypeWorkers'
  BY <1>37 DEF MoveTarget, TypeWorkers, durable, plan, verdict, refs, process, workers
<1>38. ASSUME DropPromoted PROVE TypeWorkers'
  BY <1>38 DEF DropPromoted, TypeWorkers, durable, plan, verdict, refs, process, workers
<1>39. ASSUME RecordPromotion PROVE TypeWorkers'
  BY <1>39 DEF RecordPromotion, TypeWorkers, durable, plan, verdict, refs, process, workers
<1>40. ASSUME Cancel PROVE TypeWorkers'
  BY <1>40 DEF Cancel, TypeWorkers, durable, plan, verdict, refs, process, workers
<1>41. ASSUME Crash PROVE TypeWorkers'
  BY <1>41 DEF Crash, TypeWorkers, Making, durable, plan, verdict, refs, process, workers
<1>42. ASSUME UNCHANGED vars PROVE TypeWorkers'
  BY <1>42 DEF vars, durable, plan, verdict, refs, process, workers, TypeWorkers
<1> HIDE DEF TypeWorkers
<1> QED
  BY <1>1, <1>2, <1>3, <1>4, <1>5, <1>6, <1>7, <1>8, <1>9, <1>10, <1>11, <1>12, <1>13, <1>14, <1>15, <1>16, <1>17, <1>18, <1>19, <1>20, <1>21, <1>22, <1>23, <1>24, <1>25, <1>26, <1>27, <1>28, <1>29, <1>30, <1>31, <1>32, <1>33, <1>34, <1>35, <1>36, <1>37, <1>38, <1>39, <1>40, <1>41, <1>42 DEF Next, Recovery, Work, Operations, Outcomes

\* Every step leaves every variable typed.
LEMMA TypeStep == TypeOK /\ Recovering /\ [Next]_vars => TypeOK'
<1> SUFFICES ASSUME TypeOK, Recovering, [Next]_vars PROVE TypeOK'
  OBVIOUS
<1> USE TypeParts
<1>1. TypeTree' /\ TypeRest' /\ TypeFlags'
  BY TypeTreeStep, TypeRestStep, TypeFlagsStep
<1>2. TypeMishaps' /\ TypeStage'
  BY TypeMishapsStep, TypeStageStep
<1>3. TypeTask' /\ TypePlan'
  BY TypeTaskStep, TypePlanStep
<1>4. TypeRefs' /\ TypeWorkers'
  BY TypeRefsStep, TypeWorkersStep
<1> QED
  BY <1>1, <1>2, <1>3, <1>4
     DEF TypeOK, TypeRest, TypeStage, TypeFlags, TypeMishaps, TypeTask, TypeTree, TypePlan, TypeRefs, TypeWorkers

-----------------------------------------------------------------------------
(* Steps on the tasks *)

\* Bindings and artifacts change one task, which goes on running or starts to.
Starts == \E u \in Units : Bind(u) \/ ClaimArtifact(u) \/ RecordArtifact(u)
LEMMA StartFacts ==
  ASSUME TypeOK, Starts
  PROVE  /\ Steady(task, task')
         /\ \A u \in Units : task[u].phase \in Open => task'[u].phase \in Open
         /\ UNCHANGED <<stage, cancelled, plan, verdict, refs, process>>
<1>1. task \in [Units -> Tasks]
  BY DEF TypeOK
<1>2. PICK u \in Units : Bind(u) \/ ClaimArtifact(u) \/ RecordArtifact(u)
  BY DEF Starts
<1>3. CASE Bind(u)
  BY <1>1, <1>3 DEF Bind, Steady, Tasks, Open
<1>4. CASE ClaimArtifact(u)
  BY <1>1, <1>4 DEF ClaimArtifact, Steady, Tasks, Open
<1>5. CASE RecordArtifact(u)
  BY <1>1, <1>5 DEF RecordArtifact, Steady, Tasks, Open
<1> QED
  BY <1>2, <1>3, <1>4, <1>5

\* A takeover settles siblings; its own unit goes on running.
LEMMA TakeoverFacts ==
  ASSUME TypeOK, NEW u \in Units, PlanTakeover(u)
  PROVE  /\ Steady(task, task') /\ task[u].phase = "running" /\ Fabric /\ ~cancelled
         /\ transition = None /\ demotion = None /\ stage = "run"
         /\ demotion' # None /\ demotion'.unit = u
         /\ UNCHANGED <<stage, cancelled, route, active, done, head, transition, verdict, refs, process>>
<1> DEFINE outcomes == [v \in Units |-> IF v # u /\ pending[v] = "completed" THEN "completed" ELSE None]
           settled == {v \in Units : task[v].phase = "running" /\ outcomes[v] # None}
<1>1. outcomes \in [Units -> Outcomes \cup {None}]
  BY DEF Outcomes
<1>2. task' = Settled(task, outcomes)
  BY DEF PlanTakeover
<1>3. settled \in SUBSET Units /\ demotion' = [unit |-> u, phase |-> "stopping", clean |-> settled]
  BY DEF PlanTakeover
<1> HIDE DEF outcomes, settled
<1>4. demotion' \in Demotions /\ demotion'.unit = u
  BY <1>3 DEF Demotions
<1>5. Steady(task, task')
  BY <1>1, <1>2, TypeParts, SettledSteady DEF TypeTask
<1> QED
  BY <1>4, <1>5, NoneAssumption DEF PlanTakeover, Straggling, process

\* A demotion is planned for a failed unit of a wave that has settled.
LEMMA DemoteFacts ==
  ASSUME TypeOK, NEW u \in Units, DemoteFailed(u)
  PROVE  /\ u \in active /\ task[u].phase = "failed" /\ Fabric /\ ~cancelled
         /\ transition = None /\ demotion = None /\ stage = "run"
         /\ demotion' # None /\ demotion'.unit = u
         /\ UNCHANGED <<durable, route, active, done, head, transition, verdict, refs, process>>
<1>1. {v \in active : Accepted(v)} \in SUBSET Units
  BY DEF TypeOK
<1>2. demotion' \in Demotions /\ demotion'.unit = u
  BY <1>1 DEF DemoteFailed, Demotions
<1> QED
  BY <1>2, NoneAssumption DEF DemoteFailed

\* Outcomes, a reconciliation or a cancellation are applied, and the run is archived if that ends it.
Archives ==
  \/ \E u \in Units, outcome \in Outcomes : Report(u, outcome)
  \/ \E gone \in SUBSET Lapsed, seen \in BOOLEAN : Reconcile(gone, seen)
  \/ Cancel
Archived(ts) ==
  /\ Steady(task, ts) /\ Steady(ts, task') /\ (cancelled' => task' = ts)
  /\ stage' = StageAfter(ts, active, done, cancelled', FALSE)
LEMMA ArchiveFacts ==
  ASSUME TypeOK, Archives
  PROVE  /\ UNCHANGED <<stage, task, cancelled>> \/ \E ts : Archived(ts)
         /\ UNCHANGED cancelled \/ (review = "pending" /\ op = "idle")
         /\ stage = "run" /\ UNCHANGED <<plan, verdict, refs, process>>
<1>0. task \in [Units -> Tasks] /\ pending \in [Units -> Outcomes \cup {None}]
  BY TypeParts DEF TypeTask, TypeWorkers
<1>1. ASSUME NEW ts, task' \in Reservations(ts, active), UNCHANGED cancelled PROVE cancelled' => task' = ts
  BY <1>1 DEF Reservations
<1>2. ASSUME NEW u \in Units, NEW outcome \in Outcomes, Report(u, outcome)
      PROVE  UNCHANGED <<stage, task>> \/ \E ts : Archived(ts)
  <2> DEFINE outcomes == [pending EXCEPT ![u] = Effective(u, outcome)]
             ts == Settled(task, outcomes)
  <2>1. outcomes \in [Units -> Outcomes \cup {None}]
    BY <1>0, <1>2, EffectiveTyped
  <2>2. \/ UNCHANGED <<stage, task>>
        \/ /\ task' \in Reservations(ts, active) /\ UNCHANGED cancelled
           /\ stage' = StageAfter(ts, active, done, cancelled, FALSE)
    BY <1>2 DEF Report
  <2> HIDE DEF outcomes
  <2>3. ts \in [Units -> Tasks] /\ Steady(task, ts)
    BY <1>0, <2>1, SettledSteady
  <2> HIDE DEF ts
  <2>4. CASE /\ task' \in Reservations(ts, active) /\ UNCHANGED cancelled
             /\ stage' = StageAfter(ts, active, done, cancelled, FALSE)
    <3>1. Steady(ts, task') /\ (cancelled' => task' = ts)
      BY <1>1, <2>3, <2>4, ReservationsSteady
    <3>2. Archived(ts)
      BY <2>3, <2>4, <3>1 DEF Archived
    <3> QED
      BY <3>2
  <2> QED
    BY <2>2, <2>4
<1>3. ASSUME NEW gone \in SUBSET Lapsed, NEW seen \in BOOLEAN, Reconcile(gone, seen)
      PROVE  UNCHANGED <<stage, task>> \/ \E ts : Archived(ts)
  <2> DEFINE waiting == Settled(task, pending)
             lost == {u \in Units : waiting[u].phase \in {"pending", "reserved"} /\
                        (seen => Reconciled[Tree(u)] \notin ReadyStates)}
             mid == [u \in Units |-> IF u \in gone \cup lost THEN [waiting[u] EXCEPT !.phase = "abandoned", !.outcome = None]
                                     ELSE waiting[u]]
             ts == Suppress(mid, gone \cup lost)
  <2>1. waiting \in [Units -> Tasks] /\ Steady(task, waiting)
    BY <1>0, SettledSteady
  <2>2. \/ UNCHANGED <<stage, task>>
        \/ /\ task' \in Reservations(ts, active) /\ UNCHANGED cancelled
           /\ stage' = StageAfter(ts, active, done, cancelled, FALSE)
    BY <1>3 DEF Reconcile
  <2>3. \A u \in lost : waiting[u].phase \in {"pending", "reserved"}
    OBVIOUS
  <2>4. \A u \in gone : u \in Units /\ task[u].phase = "running"
    BY DEF Lapsed
  <2> HIDE DEF lost, waiting
  <2>5. ASSUME NEW u \in Units PROVE [waiting[u] EXCEPT !.phase = "abandoned", !.outcome = None] \in Tasks
    BY <2>1 DEF Tasks, Phases, Open
  <2>6. mid \in [Units -> Tasks]
    BY <2>1, <2>5
  <2>7. Steady(task, mid)
    <3> SUFFICES ASSUME NEW u \in Units
                 PROVE  /\ mid[u].attempt = task[u].attempt /\ mid[u].base = task[u].base
                        /\ (mid[u].phase = "absent") <=> (task[u].phase = "absent")
                        /\ task[u].phase = "completed" => mid[u].phase = "completed" /\ mid[u].artifact = task[u].artifact
      BY DEF Steady
    <3>1. CASE u \in gone \cup lost
      BY <2>1, <2>3, <2>4, <3>1 DEF Steady, Tasks
    <3>2. CASE u \notin gone \cup lost
      BY <2>1, <3>2 DEF Steady
    <3> QED
      BY <3>1, <3>2
  <2> HIDE DEF mid
  <2>8. ts \in [Units -> Tasks] /\ Steady(mid, ts)
    BY <2>6, SuppressSteady
  <2> HIDE DEF ts
  <2>9. CASE /\ task' \in Reservations(ts, active) /\ UNCHANGED cancelled
             /\ stage' = StageAfter(ts, active, done, cancelled, FALSE)
    <3>1. Steady(ts, task') /\ (cancelled' => task' = ts)
      BY <1>1, <2>8, <2>9, ReservationsSteady
    <3>2. Steady(task, ts)
      BY <2>7, <2>8, SteadyTwice
    <3>3. Archived(ts)
      BY <2>9, <3>1, <3>2 DEF Archived
    <3> QED
      BY <3>3
  <2> QED
    BY <2>2, <2>9
<1>4. ASSUME Cancel PROVE Archived(task')
  BY <1>0, <1>4 DEF Cancel, Archived, Steady, Tasks
<1>5. UNCHANGED cancelled \/ (review = "pending" /\ op = "idle")
  BY DEF Archives, Report, Reconcile, Cancel, DecisionClaimed
<1>6. stage = "run" /\ UNCHANGED <<plan, verdict, refs, process>>
  BY DEF Archives, Report, Reconcile, Cancel
<1>7. Cancel \/ UNCHANGED cancelled
  BY DEF Archives, Report, Reconcile
<1> QED
  BY <1>2, <1>3, <1>4, <1>5, <1>6, <1>7 DEF Archives

\* What the invariant says of the tasks survives a steady step.
LEMMA SteadyKeeps ==
  ASSUME TypeOK, Steady(task, task'), UNCHANGED <<route, active, done, head, transition>>
  PROVE  /\ HeadExact => HeadExact'
         /\ TasksGrounded => TasksGrounded'
         /\ IntegrationWhole /\ integ' \in {integ, None} => IntegrationWhole'
<1>1. \A u \in Units : Tree(u)' = Tree(u)
  BY DEF Tree, Steady
<1>2. \A u \in Units : Accepted(u) => Accepted(u)'
  BY DEF Accepted, Steady
<1>3. Integrated \in SUBSET Units /\ active \in SUBSET Units /\ Integrated' = Integrated
  BY DEF Integrated, TypeOK
<1>4. ASSUME HeadExact PROVE HeadExact'
  <2>1. Implementations(Integrated)' = Implementations(Integrated)
    BY <1>1, <1>3 DEF Implementations
  <2> QED
    BY <1>2, <1>3, <1>4, <2>1 DEF HeadExact, Fabric
<1>5. ASSUME TasksGrounded PROVE TasksGrounded'
  <2> SUFFICES ASSUME Fabric', NEW u \in Units, task'[u].phase # "absent"
               PROVE  /\ u \in active' \cup done' /\ task'[u].base \subseteq head'
                      /\ \A d \in Deps[u] : Tree(d)' \in task'[u].base
    BY DEF TasksGrounded
  <2>1. task[u].phase # "absent" /\ task'[u].base = task[u].base
    BY DEF Steady
  <2>2. Deps[u] \subseteq Units
    BY ContractAssumption
  <2> QED
    BY <1>1, <1>5, <2>1, <2>2 DEF TasksGrounded, Fabric
<1>6. ASSUME IntegrationWhole, integ' \in {integ, None} PROVE IntegrationWhole'
  BY <1>2, <1>3, <1>6 DEF IntegrationWhole, Fabric
<1> QED
  BY <1>4, <1>5, <1>6

\* A recovery marks what it found.
LEMMA MarkFacts ==
  ASSUME TypeOK, Recovering, MarkCreating
  PROVE  /\ (demotion' = None) <=> (demotion = None)
         /\ (transition' = None) <=> (transition = None)
         /\ demotion # None => demotion'.unit = demotion.unit
         /\ transition # None => transition'.next = transition.next
         /\ UNCHANGED <<durable, route, active, done, head, verdict, refs, op, integ>>
<1>1. CASE UNCHANGED <<demotion, transition>>
  BY <1>1 DEF MarkCreating
<1>2. CASE demotion # None /\ demotion' = [demotion EXCEPT !.phase = "creating"] /\ UNCHANGED transition
  <2>1. demotion' \in Demotions /\ demotion'.unit = demotion.unit
    BY <1>2 DEF TypeOK, Demotions
  <2> QED
    BY <1>2, <2>1, NoneAssumption DEF MarkCreating
<1>3. CASE demotion = None /\ UNCHANGED demotion /\ transition' = [transition EXCEPT !.phase = "creating"]
  <2>1. transition \in Transitions
    BY <1>3 DEF MarkCreating, Recovering, TypeOK
  <2>2. transition' \in Transitions /\ transition'.next = transition.next
    BY <1>3, <2>1 DEF Transitions
  <2> QED
    BY <1>3, <2>1, <2>2, NoneAssumption DEF MarkCreating
<1> QED
  BY <1>1, <1>2, <1>3 DEF MarkCreating

\* The takeover's last transaction fails its unit and nothing else.
LEMMA FinishFacts ==
  ASSUME TypeOK, FinishTakeover
  PROVE  /\ demotion # None /\ demotion' # None /\ demotion'.unit = demotion.unit /\ demotion.unit \in Units
         /\ \A u \in Units : task'[u].attempt = task[u].attempt /\ task'[u].base = task[u].base
         /\ \A u \in Units \ {demotion.unit} : task'[u] = task[u]
         /\ task[demotion.unit].attempt = 1 /\ task'[demotion.unit].phase = "failed"
         /\ UNCHANGED <<stage, cancelled, route, active, done, head, transition, verdict, refs, process>>
<1>1. demotion \in Demotions /\ demotion' = [demotion EXCEPT !.phase = "cleanup"]
  BY DEF FinishTakeover, TypeOK
<1>2. demotion' \in Demotions /\ demotion'.unit = demotion.unit /\ demotion.unit \in Units
  BY <1>1 DEF Demotions
<1>3. PICK outcome \in {"failed", "cancelled"} :
        task' = [task EXCEPT ![demotion.unit].phase = "failed", ![demotion.unit].outcome = outcome]
  BY DEF FinishTakeover
<1>4. task \in [Units -> Tasks]
  BY DEF TypeOK
<1>5. \A u \in Units : task'[u].attempt = task[u].attempt /\ task'[u].base = task[u].base
  BY <1>3, <1>4 DEF Tasks
<1>6. \A u \in Units \ {demotion.unit} : task'[u] = task[u]
  BY <1>3, <1>4
<1>7. task'[demotion.unit].phase = "failed"
  BY <1>2, <1>3, <1>4 DEF Tasks
<1> QED
  BY <1>2, <1>5, <1>6, <1>7, NoneAssumption DEF FinishTakeover

\* A transition is planned to a wave the scheduler may choose, by whoever has just integrated one.
LEMMA AdvanceFacts ==
  ASSUME TypeOK, AdvanceWave
  PROVE  /\ integ # None /\ integ' = None
         /\ UNCHANGED <<durable, route, active, done, demotion, verdict, refs, rec, op>>
         /\ \/ UNCHANGED <<head, transition>>
            \/ /\ transition = None /\ active # {} /\ head' = head \cup Implementations(active)
               /\ \A u \in active : Accepted(u)
               /\ transition' # None /\ transition'.next \in NextWaves(done \cup active)
<1>1. \A next \in NextWaves(Advanced) : [phase |-> "cleanup", next |-> next] \in Transitions
  BY DEF NextWaves, ReadyUnits, Transitions
<1> QED
  BY <1>1, NoneAssumption DEF AdvanceWave, Advanced

\* What follows the preparation of a run, a wave or a replacement.
LEMMA InspectFacts ==
  ASSUME TypeOK, Inspect
  PROVE  \/ UNCHANGED task
         \/ \A u \in Units : task'[u].phase # "absent" =>
              <<u, 1>> \in NewTrees /\ task'[u].base = head /\ task'[u].attempt = 1
<1> DEFINE ts == [u \in Units |-> IF <<u, 1>> \in NewTrees THEN Fresh(1, head) ELSE Absent]
<1>1. ts \in [Units -> Tasks]
  <2>1. head \in SUBSET Trees /\ 1 \in Attempts
    BY TypeParts DEF TypePlan, Attempts
  <2> QED
    BY <2>1, FreshTyped
<1>2. \A u \in Units : ts[u].phase # "absent" => <<u, 1>> \in NewTrees /\ ts[u].base = head /\ ts[u].attempt = 1
  BY DEF Absent, Fresh
<1>3. task' \in Reservations(ts, active) \/ UNCHANGED task
  BY DEF Inspect
<1> HIDE DEF ts
<1> QED
  BY <1>1, <1>2, <1>3, ReservationsSteady DEF Steady

\* A replacement of a failed unit starts on the candidate of record; nothing else changes.
LEMMA ReplacementFacts ==
  ASSUME TypeOK, AdoptReplacement
  PROVE  /\ demotion # None \/ UNCHANGED demotion
         /\ UNCHANGED <<stage, cancelled, route, active, done, head, transition, verdict, refs, op, integ>> /\ rec' = "idle"
         /\ \/ UNCHANGED <<task, demotion>>
            \/ /\ demotion # None /\ demotion' = None /\ demotion.unit \in Units
               /\ task[demotion.unit].phase = "failed"
               /\ task'[demotion.unit].phase \in Open
               /\ task'[demotion.unit].base = head
               /\ \A u \in Units \ {demotion.unit} :
                    /\ task'[u].attempt = task[u].attempt /\ task'[u].base = task[u].base
                    /\ (task'[u].phase = "absent") <=> (task[u].phase = "absent")
                    /\ Accepted(u) => Accepted(u)'
<1> DEFINE ts == [task EXCEPT ![demotion.unit] = Fresh(2, head)]
<1>1. CASE UNCHANGED <<task, demotion>>
  BY <1>1 DEF AdoptReplacement
<1>2. CASE demotion # None /\ demotion' = None /\ task[demotion.unit].phase = "failed" /\ task' \in Reservations(ts, active)
  <2>1. demotion.unit \in Units
    BY <1>2 DEF TypeOK, Demotions
  <2>2. Fresh(2, head) \in Tasks /\ Fresh(2, head).base = head /\ Fresh(2, head).phase = "pending"
    <3>1. head \in SUBSET Trees /\ 2 \in Attempts
      BY TypeParts DEF TypePlan, Attempts
    <3>2. Fresh(2, head) \in Tasks
      BY <3>1, FreshTyped
    <3> QED
      BY <3>2 DEF Fresh
  <2>3. task \in [Units -> Tasks] /\ ts \in [Units -> Tasks]
    BY <2>2 DEF TypeOK
  <2>4. \A u \in Units \ {demotion.unit} : ts[u] = task[u]
    BY <2>3
  <2>5. ts[demotion.unit].phase = "pending" /\ ts[demotion.unit].base = head
    BY <2>1, <2>2, <2>3
  <2> HIDE DEF ts
  <2>6. Steady(ts, task')
    BY <1>2, <2>3, ReservationsSteady
  <2>7. task'[demotion.unit].phase \in Open
    <3>1. CASE task' = ts
      BY <2>5, <3>1 DEF Open
    <3>2. ASSUME NEW new \in SUBSET Startable(ts, active),
                 task' = [u \in Units |-> IF u \in new THEN [ts[u] EXCEPT !.phase = "reserved"] ELSE ts[u]]
          PROVE  task'[demotion.unit].phase \in Open
      BY <2>1, <2>3, <2>5, <3>2 DEF Open, Tasks
    <3> QED
      BY <1>2, <3>1, <3>2 DEF Reservations
  <2>8. task'[demotion.unit].base = head
    BY <2>1, <2>5, <2>6 DEF Steady
  <2>9. \A u \in Units \ {demotion.unit} :
          /\ task'[u].attempt = task[u].attempt /\ task'[u].base = task[u].base
          /\ (task'[u].phase = "absent") <=> (task[u].phase = "absent")
          /\ Accepted(u) => Accepted(u)'
    BY <2>4, <2>6 DEF Steady, Accepted
  <2> QED
    BY <1>2, <2>1, <2>7, <2>8, <2>9 DEF AdoptReplacement
<1> QED
  BY <1>1, <1>2 DEF AdoptReplacement, ReplacementBase

\* A wave is adopted as it was planned, on the candidate of record.
LEMMA WaveFacts ==
  ASSUME TypeOK, Recovering, AdoptWave
  PROVE  /\ demotion = None /\ transition # None /\ transition.next \in SUBSET Units /\ rec' = "idle"
         /\ UNCHANGED <<cancelled, route, head, demotion, verdict, refs, op, integ>>
         /\ \/ UNCHANGED <<stage, task, done, active, transition>> /\ stage # "run"
            \/ /\ stage = "run" /\ done' = done \cup active /\ active' = transition.next /\ transition' = None
               /\ \A u \in transition.next :
                    task'[u].attempt = 1 /\ task'[u].base = head /\ task'[u].phase # "absent"
               /\ \A u \in Units \ transition.next :
                    /\ task'[u].attempt = task[u].attempt /\ task'[u].base = task[u].base
                    /\ (task'[u].phase = "absent") <=> (task[u].phase = "absent")
                    /\ Accepted(u) => Accepted(u)'
               /\ stage' \in {"run", "completed", "failed", "cancelled"}
               /\ Fabric => stage' # "completed"
<1> DEFINE ts == [u \in Units |-> IF u \in transition.next THEN Fresh(1, head) ELSE task[u]]
<1>1. transition \in Transitions /\ demotion = None
  BY DEF AdoptWave, Recovering, TypeOK
<1>2. transition # None /\ transition.next \in SUBSET Units
  BY <1>1, NoneAssumption DEF Transitions
<1>3. ts \in [Units -> Tasks]
  <2>1. head \in SUBSET Trees /\ 1 \in Attempts /\ task \in [Units -> Tasks]
    BY TypeParts DEF TypePlan, TypeTask, Attempts
  <2> QED
    BY <2>1, FreshTyped
<1>4. \A u \in transition.next : ts[u].attempt = 1 /\ ts[u].base = head /\ ts[u].phase # "absent"
  BY <1>2 DEF Fresh
<1>5. \A u \in Units \ transition.next : ts[u] = task[u]
  BY <1>3
<1>6. CASE UNCHANGED <<stage, task, done, active, transition>> /\ stage # "run"
  BY <1>1, <1>2, <1>6 DEF AdoptWave
<1>7. CASE /\ stage = "run" /\ task' \in Reservations(ts, transition.next)
           /\ stage' = StageAfter(ts, transition.next, Completed, cancelled, FALSE)
           /\ done' = Completed /\ active' = transition.next /\ transition' = None
  <2> HIDE DEF ts
  <2>1. Steady(ts, task')
    BY <1>3, <1>7, ReservationsSteady
  <2>2. cancelled \in BOOLEAN
    BY DEF TypeOK
  <2>3. stage' \in {"run", "completed", "failed", "cancelled"} /\ (Fabric => stage' # "completed")
    BY <1>7, <2>2, StageRange
  <2>4. \A u \in transition.next : task'[u].attempt = 1 /\ task'[u].base = head /\ task'[u].phase # "absent"
    BY <1>2, <1>4, <2>1 DEF Steady
  <2>5. \A u \in Units \ transition.next :
          /\ task'[u].attempt = task[u].attempt /\ task'[u].base = task[u].base
          /\ (task'[u].phase = "absent") <=> (task[u].phase = "absent")
          /\ Accepted(u) => Accepted(u)'
    BY <1>5, <2>1 DEF Steady, Accepted
  <2> QED
    BY <1>1, <1>2, <1>7, <2>3, <2>4, <2>5 DEF AdoptWave, Completed
<1> QED
  BY <1>6, <1>7 DEF AdoptWave

\* A unit whose implementation is among those of some units is one of them.
LEMMA ImplementationsOf ==
  ASSUME NEW us, NEW u, NEW n, <<u, n>> \in Implementations(us)
  PROVE  u \in us /\ n = task[u].attempt
BY DEF Implementations, Tree

-----------------------------------------------------------------------------
(* The invariant is kept *)

\* Every other step leaves the plan and the tasks alone.
Quiet ==
  \/ ResumePreparation \/ Create \/ RecoverDemotion \/ RecoverTransition \/ Sweep \/ Swept \/ LookAtTrees \/ MakeTrees
  \/ \E u \in Units :
       \/ Edits(u) \/ Produce(u) \/ MoveArtifact(u) \/ SessionEnds(u) \/ KeepArtifact(u) \/ ReleaseTree(u)
       \/ CleanSuppressed(u)
  \/ UNCHANGED vars
core == <<stage, cancelled, task, route, active, done, head, transition, demotion, verdict, target, integ>>
\* (The variables such a step may write are not among these.)
LEMMA QuietFacts ==
  ASSUME Quiet
  PROVE  UNCHANGED core /\ UNCHANGED op /\ (Recovering => Recovering')
<1> USE DEF core, Recovering, durable, plan, verdict, refs, process
<1>1. CASE ResumePreparation
  BY <1>1 DEF ResumePreparation
<1>2. CASE Create
  BY <1>2 DEF Create, CreateTrees
<1>3. CASE RecoverDemotion
  BY <1>3 DEF RecoverDemotion
<1>4. CASE RecoverTransition
  BY <1>4 DEF RecoverTransition
<1>5. CASE Sweep
  BY <1>5 DEF Sweep
<1>6. CASE Swept
  BY <1>6 DEF Swept
<1>7. CASE LookAtTrees
  BY <1>7 DEF LookAtTrees
<1>8. CASE MakeTrees
  BY <1>8 DEF MakeTrees, CreateTrees
<1>9. CASE \E u \in Units : Edits(u) \/ Produce(u) \/ MoveArtifact(u) \/ SessionEnds(u)
  BY <1>9 DEF Edits, Produce, MoveArtifact, SessionEnds
<1>10. CASE \E u \in Units : KeepArtifact(u) \/ ReleaseTree(u) \/ CleanSuppressed(u)
  BY <1>10 DEF KeepArtifact, ReleaseTree, CleanSuppressed
<1>11. CASE UNCHANGED vars
  BY <1>11 DEF vars
<1> HIDE DEF core, Recovering
<1> QED
  BY <1>1, <1>2, <1>3, <1>4, <1>5, <1>6, <1>7, <1>8, <1>9, <1>10, <1>11 DEF Quiet

\* Nothing is taken from a completed task by what an archive applies.
LEMMA ArchiveSteady ==
  ASSUME TypeOK, Archives
  PROVE  Steady(task, task')
<1>1. CASE UNCHANGED task
  BY <1>1 DEF Steady
<1>2. ASSUME NEW ts, Archived(ts) PROVE Steady(task, task')
  BY <1>2, SteadyTwice DEF Archived
<1> QED
  BY <1>1, <1>2, ArchiveFacts

\* The holder of the operation lease leaves the plan and the tasks alone.
Verdicts ==
  \/ ClaimValidation \/ SettleValidation \/ ReplayFailure \/ (\E decision \in {"pass", "fail"} : ClaimReview(decision))
  \/ DropCandidate \/ ArchiveFailed \/ MoveTarget \/ DropPromoted \/ RecordPromotion
\* (The variables of a run it does not write.)
LEMMA VerdictFacts ==
  ASSUME Verdicts
  PROVE  UNCHANGED <<cancelled, task, plan, rec, integ>>
BY DEF Verdicts, ClaimValidation, SettleValidation, ReplayFailure, ClaimReview, DropCandidate, ArchiveFailed, MoveTarget,
       DropPromoted, RecordPromotion, durable, process

\* The kinds of step of a run.
LEMMA Cases ==
  ASSUME [Next]_vars
  PROVE  \/ Quiet \/ Prepare \/ Inspect \/ MarkCreating \/ AdoptReplacement \/ AdoptWave \/ Starts
         \/ (\E u \in Units : PlanTakeover(u) \/ DemoteFailed(u)) \/ Archives
         \/ FinishTakeover \/ Integrate \/ AdvanceWave \/ Verdicts \/ Crash
BY DEF Next, Recovery, Work, Operations, Quiet, Starts, Archives, Verdicts, Outcomes

-----------------------------------------------------------------------------
(* The invariant is kept *)

\* Nothing of a run is there before it is prepared.
LEMMA UnpreparedStep ==
  ASSUME TypeOK, Unprepared, [Next]_vars
  PROVE  Unprepared'
<1> USE DEF Unprepared, plan, verdict
<1>1. CASE Quiet
  BY <1>1, QuietFacts DEF core
<1>2. CASE Prepare \/ Inspect
  BY <1>2 DEF Prepare, Inspect
<1>3. CASE MarkCreating \/ AdoptReplacement \/ AdoptWave
  <2>1. StageAfter([u \in Units |-> IF u \in transition.next THEN Fresh(1, head) ELSE task[u]], transition.next,
                   Completed, cancelled, FALSE) \notin {"none", "preparing"}
    BY StageRange DEF TypeOK
  <2> QED
    BY <1>3, <2>1 DEF MarkCreating, AdoptReplacement, AdoptWave, durable
<1>4. CASE Starts
  BY <1>4, StartFacts DEF process, Starts, Bind, ClaimArtifact, RecordArtifact
<1>5. CASE \E u \in Units : PlanTakeover(u) \/ DemoteFailed(u)
  BY <1>5, TakeoverFacts, DemoteFacts DEF durable
<1>6. CASE Archives
  <2>1. ASSUME NEW ts, Archived(ts) PROVE stage' \notin {"none", "preparing"}
    <3>1. cancelled' \in BOOLEAN
      BY <1>6, TypeOK DEF Archives, Report, Reconcile, Cancel, TypeOK
    <3> QED
      BY <2>1, <3>1, StageRange DEF Archived
  <2> QED
    BY <1>6, <2>1, ArchiveFacts
<1>7. CASE FinishTakeover \/ Integrate \/ AdvanceWave
  BY <1>7 DEF FinishTakeover, Integrate, AdvanceWave, durable, process
<1>8. CASE Verdicts
  <2>1. \A promoted \in BOOLEAN : StageAfter(task, active, done, cancelled, promoted) \notin {"none", "preparing"}
    BY StageRange DEF TypeOK
  <2> QED
    BY <1>8, <2>1, VerdictFacts
       DEF Verdicts, ClaimValidation, SettleValidation, ReplayFailure, ClaimReview, DropCandidate, ArchiveFailed,
           MoveTarget, DropPromoted, RecordPromotion, durable
<1>9. CASE Crash
  BY <1>9 DEF Crash, durable
<1> HIDE DEF Unprepared
<1> QED
  BY <1>1, <1>2, <1>3, <1>4, <1>5, <1>6, <1>7, <1>8, <1>9, Cases

\* A recovery has something to recover.
LEMMA RecoveringStep ==
  ASSUME TypeOK, Unprepared, Recovering, [Next]_vars
  PROVE  Recovering'
<1>1. CASE Quiet
  BY <1>1, QuietFacts
<1> USE DEF Recovering, plan, process
<1>2. CASE Prepare \/ Inspect
  BY <1>2 DEF Prepare, Inspect, Unprepared
<1>3. CASE MarkCreating
  BY <1>3, MarkFacts DEF MarkCreating, durable
<1>4. CASE AdoptReplacement \/ AdoptWave
  BY <1>4 DEF AdoptReplacement, AdoptWave
<1>5. CASE Starts
  BY <1>5, StartFacts
<1>6. CASE \E u \in Units : PlanTakeover(u) \/ DemoteFailed(u)
  BY <1>6, TakeoverFacts, DemoteFacts DEF durable
<1>7. CASE Archives
  BY <1>7, ArchiveFacts
<1>8. CASE FinishTakeover
  BY <1>8, FinishFacts
<1>9. CASE Integrate
  BY <1>9 DEF Integrate, durable
<1>10. CASE AdvanceWave
  BY <1>10, AdvanceFacts DEF durable
<1>11. CASE Verdicts
  BY <1>11, VerdictFacts
     DEF Verdicts, ClaimValidation, SettleValidation, ReplayFailure, ClaimReview, DropCandidate, ArchiveFailed,
         MoveTarget, DropPromoted, RecordPromotion, durable
<1>12. CASE Crash
  BY <1>12 DEF Crash
<1> HIDE DEF Recovering
<1> QED
  BY <1>1, <1>2, <1>3, <1>4, <1>5, <1>6, <1>7, <1>8, <1>9, <1>10, <1>11, <1>12, Cases

\* The candidate of record stays exact.
LEMMA HeadExactStep ==
  ASSUME TypeOK, Unprepared, Recovering, HeadExact, WavesReady, DemotionActive, [Next]_vars
  PROVE  HeadExact'
<1>0. done \in SUBSET Units /\ active \in SUBSET Units
  BY DEF TypeOK
<1>1. CASE Quiet
  BY <1>1, QuietFacts DEF core, HeadExact, Integrated, Fabric, Accepted, Implementations, Tree
<1>2. CASE Prepare \/ Inspect
  <2>1. done' = {} /\ head' = {} /\ transition' = None
    BY <1>2 DEF Prepare, Inspect, Unprepared, Recovering, plan
  <2> QED
    BY <2>1 DEF HeadExact, Integrated, Implementations
<1>3. CASE MarkCreating
  BY <1>3, MarkFacts DEF durable, HeadExact, Integrated, Fabric, Accepted, Implementations, Tree
<1>4. CASE AdoptReplacement
  <2>1. CASE UNCHANGED task
    BY <1>4, <2>1, ReplacementFacts DEF HeadExact, Integrated, Fabric, Accepted, Implementations, Tree
  <2>2. CASE /\ demotion # None /\ demotion.unit \in Units /\ task[demotion.unit].phase = "failed"
             /\ \A u \in Units \ {demotion.unit} : task'[u].attempt = task[u].attempt /\ (Accepted(u) => Accepted(u)')
    <3> SUFFICES ASSUME Fabric PROVE head' = Implementations(Integrated)' /\ \A u \in Integrated' : Accepted(u)'
      BY <1>4, ReplacementFacts DEF HeadExact, Fabric
    <3>1. Integrated' = Integrated /\ Integrated \in SUBSET Units
      BY <1>0, <1>4, ReplacementFacts DEF Integrated
    <3>2. demotion.unit \notin Integrated
      BY <2>2 DEF HeadExact, Accepted
    <3>3. Implementations(Integrated)' = Implementations(Integrated)
      BY <2>2, <3>1, <3>2 DEF Implementations, Tree
    <3> QED
      BY <1>4, <2>2, <3>1, <3>2, <3>3, ReplacementFacts DEF HeadExact
  <2> QED
    BY <1>4, <2>1, <2>2, ReplacementFacts
<1>5. CASE AdoptWave
  <2>1. CASE UNCHANGED <<task, done, active, transition>>
    BY <1>5, <2>1, WaveFacts DEF HeadExact, Integrated, Fabric, Accepted, Implementations, Tree
  <2>2. CASE /\ done' = done \cup active /\ transition' = None
             /\ \A u \in Units \ transition.next : task'[u].attempt = task[u].attempt /\ (Accepted(u) => Accepted(u)')
    <3> SUFFICES ASSUME Fabric PROVE head' = Implementations(Integrated)' /\ \A u \in Integrated' : Accepted(u)'
      BY <1>5, WaveFacts DEF HeadExact, Fabric
    <3>1. Integrated' = Integrated /\ Integrated = done \cup active /\ Integrated \in SUBSET Units
      BY <1>0, <1>5, <2>2, WaveFacts DEF Integrated
    <3>2. Integrated \cap transition.next = {}
      BY <1>5, <3>1, WaveFacts DEF WavesReady
    <3>3. Implementations(Integrated)' = Implementations(Integrated)
      BY <2>2, <3>1, <3>2 DEF Implementations, Tree
    <3> QED
      BY <1>5, <2>2, <3>1, <3>2, <3>3, WaveFacts DEF HeadExact
  <2> QED
    BY <1>5, <2>1, <2>2, WaveFacts
<1>6. CASE Starts
  BY <1>6, StartFacts, SteadyKeeps DEF plan
<1>7. ASSUME NEW u \in Units, PlanTakeover(u) PROVE HeadExact'
  BY <1>7, TakeoverFacts, SteadyKeeps
<1>8. ASSUME NEW u \in Units, DemoteFailed(u) PROVE HeadExact'
  BY <1>8, DemoteFacts DEF durable, HeadExact, Integrated, Fabric, Accepted, Implementations, Tree
<1>9. CASE Archives
  <2>1. Steady(task, task')
    BY <1>9, ArchiveSteady
  <2> QED
    BY <1>9, <2>1, ArchiveFacts, SteadyKeeps DEF plan
<1>10. CASE FinishTakeover
  <2> SUFFICES ASSUME Fabric PROVE head' = Implementations(Integrated)' /\ \A u \in Integrated' : Accepted(u)'
    BY <1>10, FinishFacts DEF HeadExact, Fabric
  <2>1. Integrated' = Integrated /\ Integrated = done
    BY <1>10, FinishFacts DEF Integrated, DemotionActive
  <2>2. demotion.unit \notin done
    BY <1>10, FinishFacts DEF WavesReady, DemotionActive
  <2>3. Implementations(Integrated)' = Implementations(Integrated)
    BY <1>0, <1>10, <2>1, FinishFacts DEF Implementations, Tree
  <2> QED
    BY <1>0, <1>10, <2>1, <2>2, <2>3, FinishFacts DEF HeadExact, Accepted
<1>11. CASE Integrate
  BY <1>11 DEF Integrate, durable, plan, HeadExact, Integrated, Fabric, Accepted, Implementations, Tree
<1>12. CASE AdvanceWave
  <2>1. CASE UNCHANGED <<head, transition>>
    BY <1>12, <2>1, AdvanceFacts DEF durable, HeadExact, Integrated, Fabric, Accepted, Implementations, Tree
  <2>2. CASE /\ transition = None /\ head' = head \cup Implementations(active) /\ transition' # None
             /\ \A u \in active : Accepted(u)
    <3>1. Integrated = done /\ Integrated' = done \cup active
      BY <1>12, <2>2, AdvanceFacts DEF Integrated
    <3>2. Implementations(Integrated)' = Implementations(done) \cup Implementations(active)
      BY <1>12, <3>1, AdvanceFacts DEF durable, Implementations, Tree
    <3> QED
      BY <1>12, <2>2, <3>1, <3>2, AdvanceFacts DEF durable, HeadExact, Fabric, Accepted
  <2> QED
    BY <1>12, <2>1, <2>2, AdvanceFacts
<1>13. CASE Verdicts
  BY <1>13, VerdictFacts DEF plan, HeadExact, Integrated, Fabric, Accepted, Implementations, Tree
<1>14. CASE Crash
  BY <1>14 DEF Crash, durable, plan, HeadExact, Integrated, Fabric, Accepted, Implementations, Tree
<1> QED
  BY <1>1, <1>2, <1>3, <1>4, <1>5, <1>6, <1>7, <1>8, <1>9, <1>10, <1>11, <1>12, <1>13, <1>14, Cases

\* Waves stay apart, and after their dependencies.
LEMMA WavesReadyStep ==
  ASSUME TypeOK, Unprepared, Recovering, WavesReady, [Next]_vars
  PROVE  WavesReady'
<1>1. CASE Quiet
  BY <1>1, QuietFacts DEF core, WavesReady, Fabric
<1>2. CASE Prepare
  <2>1. \A wave \in NextWaves({}) : \A u \in wave : Deps[u] \subseteq {}
    BY DEF NextWaves, ReadyUnits
  <2>2. done = {} /\ transition = None /\ UNCHANGED <<route, done, transition>>
    BY <1>2 DEF Prepare, Unprepared
  <2>3. Fabric => active' \in NextWaves({})
    BY <1>2 DEF Prepare
  <2> QED
    BY <2>1, <2>2, <2>3 DEF WavesReady, Fabric
<1>3. CASE Inspect
  BY <1>3 DEF Inspect, plan, WavesReady, Fabric
<1>4. CASE MarkCreating
  BY <1>4, MarkFacts DEF WavesReady, Fabric
<1>5. CASE AdoptReplacement
  BY <1>5, ReplacementFacts DEF WavesReady, Fabric
<1>6. CASE AdoptWave
  BY <1>6, WaveFacts DEF WavesReady, Fabric
<1>7. CASE Starts
  BY <1>7, StartFacts DEF plan, WavesReady, Fabric
<1>8. ASSUME NEW u \in Units, PlanTakeover(u) PROVE WavesReady'
  BY <1>8, TakeoverFacts DEF WavesReady, Fabric
<1>9. ASSUME NEW u \in Units, DemoteFailed(u) PROVE WavesReady'
  BY <1>9, DemoteFacts DEF WavesReady, Fabric
<1>10. CASE Archives
  BY <1>10, ArchiveFacts DEF plan, WavesReady, Fabric
<1>11. CASE FinishTakeover
  BY <1>11, FinishFacts DEF WavesReady, Fabric
<1>12. CASE Integrate
  BY <1>12 DEF Integrate, plan, WavesReady, Fabric
<1>13. CASE AdvanceWave
  <2>1. \A wave \in NextWaves(done \cup active) : \A u \in wave : u \notin done \cup active /\ Deps[u] \subseteq done \cup active
    BY DEF NextWaves, ReadyUnits
  <2> QED
    BY <1>13, <2>1, AdvanceFacts DEF WavesReady, Fabric
<1>14. CASE Verdicts
  BY <1>14, VerdictFacts DEF plan, WavesReady, Fabric
<1>15. CASE Crash
  BY <1>15 DEF Crash, plan, WavesReady, Fabric
<1> QED
  BY <1>1, <1>2, <1>3, <1>4, <1>5, <1>6, <1>7, <1>8, <1>9, <1>10, <1>11, <1>12, <1>13, <1>14, <1>15, Cases

\* Tasks stay grounded on the candidate of record.
LEMMA TasksGroundedStep ==
  ASSUME TypeOK, Unprepared, Recovering, HeadExact, WavesReady, TasksGrounded, DemotionActive, [Next]_vars
  PROVE  TasksGrounded'
<1>0. done \in SUBSET Units /\ active \in SUBSET Units /\ Deps \in [Units -> SUBSET Units]
  BY ContractAssumption DEF TypeOK
<1>1. CASE Quiet
  BY <1>1, QuietFacts DEF core, TasksGrounded, Fabric, Tree
<1>2. CASE Prepare
  BY <1>2 DEF Prepare, Unprepared, TasksGrounded
<1>3. CASE Inspect
  <2>1. stage = "preparing" /\ UNCHANGED <<route, active, done, head>>
    BY <1>3 DEF Inspect, Recovering, plan
  <2>2. CASE UNCHANGED task
    BY <2>1, <2>2 DEF TasksGrounded, Unprepared, Fabric
  <2>3. CASE \A u \in Units : task'[u].phase # "absent" =>
               <<u, 1>> \in NewTrees /\ task'[u].base = head /\ task'[u].attempt = 1
    <3> SUFFICES ASSUME Fabric, NEW u \in Units, task'[u].phase # "absent"
                 PROVE  u \in active /\ task'[u].base \subseteq head /\ Deps[u] = {}
      BY <2>1 DEF TasksGrounded, Fabric
    <3>1. u \in active
      BY <2>1, <2>3 DEF NewTrees
    <3>2. Deps[u] = {}
      BY <2>1, <3>1 DEF Unprepared, WavesReady
    <3> QED
      BY <2>3, <3>1, <3>2
  <2> QED
    BY <1>3, <2>2, <2>3, InspectFacts
<1>4. CASE MarkCreating
  BY <1>4, MarkFacts DEF durable, TasksGrounded, Fabric, Tree
<1>5. CASE AdoptReplacement
  <2>1. CASE UNCHANGED task
    BY <1>5, <2>1, ReplacementFacts DEF TasksGrounded, Fabric, Tree
  <2>2. CASE /\ demotion # None /\ task[demotion.unit].phase = "failed" /\ task'[demotion.unit].base = head
             /\ \A u \in Units \ {demotion.unit} :
                  /\ task'[u].attempt = task[u].attempt /\ task'[u].base = task[u].base
                  /\ (task'[u].phase = "absent") <=> (task[u].phase = "absent")
    <3> SUFFICES ASSUME Fabric, NEW u \in Units, task'[u].phase # "absent"
                 PROVE  /\ u \in active \cup done /\ task'[u].base \subseteq head
                        /\ \A d \in Deps[u] : <<d, task'[d].attempt>> \in task'[u].base
      BY <1>5, ReplacementFacts DEF TasksGrounded, Fabric, Tree
    <3>1. transition = None /\ demotion.unit \in active /\ Integrated = done
      BY <2>2 DEF DemotionActive, Integrated
    <3>2. demotion.unit \notin done /\ head = Implementations(done)
      BY <2>2, <3>1 DEF HeadExact, Accepted
    <3>3. CASE u = demotion.unit
      <4>1. Deps[u] \subseteq done
        BY <3>1, <3>3 DEF WavesReady
      <4>2. \A d \in Deps[u] : <<d, task'[d].attempt>> \in head
        BY <1>0, <2>2, <3>2, <3>3, <4>1 DEF Implementations, Tree
      <4> QED
        BY <2>2, <3>1, <3>3, <4>2
    <3>4. CASE u # demotion.unit
      <4>1. task[u].phase # "absent" /\ task'[u].base = task[u].base
        BY <2>2, <3>4
      <4>2. /\ u \in active \cup done /\ task[u].base \subseteq head
            /\ \A d \in Deps[u] : <<d, task[d].attempt>> \in task[u].base
        BY <4>1 DEF TasksGrounded, Tree
      <4>3. \A d \in Deps[u] : d \in done
        BY <3>2, <4>2, ImplementationsOf
      <4>4. \A d \in Deps[u] : task'[d].attempt = task[d].attempt
        BY <1>0, <2>2, <3>2, <4>3
      <4> QED
        BY <4>1, <4>2, <4>4
    <3> QED
      BY <3>3, <3>4
  <2> QED
    BY <1>5, <2>1, <2>2, ReplacementFacts
<1>6. CASE AdoptWave
  <2>1. CASE UNCHANGED <<task, done, active>>
    BY <1>6, <2>1, WaveFacts DEF TasksGrounded, Fabric, Tree
  <2>2. CASE /\ done' = done \cup active /\ active' = transition.next
             /\ \A u \in transition.next : task'[u].attempt = 1 /\ task'[u].base = head /\ task'[u].phase # "absent"
             /\ \A u \in Units \ transition.next :
                  /\ task'[u].attempt = task[u].attempt /\ task'[u].base = task[u].base
                  /\ (task'[u].phase = "absent") <=> (task[u].phase = "absent")
    <3> SUFFICES ASSUME Fabric, NEW u \in Units, task'[u].phase # "absent"
                 PROVE  /\ u \in active' \cup done' /\ task'[u].base \subseteq head
                        /\ \A d \in Deps[u] : <<d, task'[d].attempt>> \in task'[u].base
      BY <1>6, WaveFacts DEF TasksGrounded, Fabric, Tree
    <3>1. /\ Integrated = done \cup active /\ head = Implementations(done \cup active)
          /\ (done \cup active) \cap transition.next = {}
      BY <1>6, WaveFacts DEF Integrated, HeadExact, WavesReady
    <3>2. \A d \in done \cup active : task'[d].attempt = task[d].attempt
      BY <1>0, <2>2, <3>1
    <3>3. CASE u \in transition.next
      <4>1. Deps[u] \subseteq done \cup active
        BY <1>6, <3>3, WaveFacts DEF WavesReady
      <4>2. \A d \in Deps[u] : <<d, task'[d].attempt>> \in head
        BY <3>1, <3>2, <4>1 DEF Implementations, Tree
      <4> QED
        BY <2>2, <3>3, <4>2
    <3>4. CASE u \notin transition.next
      <4>1. task[u].phase # "absent" /\ task'[u].base = task[u].base
        BY <2>2, <3>4
      <4>2. /\ u \in active \cup done /\ task[u].base \subseteq head
            /\ \A d \in Deps[u] : <<d, task[d].attempt>> \in task[u].base
        BY <4>1 DEF TasksGrounded, Tree
      <4>3. \A d \in Deps[u] : d \in done \cup active
        BY <3>1, <4>2, ImplementationsOf
      <4> QED
        BY <2>2, <3>2, <4>1, <4>2, <4>3
    <3> QED
      BY <3>3, <3>4
  <2> QED
    BY <1>6, <2>1, <2>2, WaveFacts
<1>7. CASE Starts
  BY <1>7, StartFacts, SteadyKeeps DEF plan
<1>8. ASSUME NEW u \in Units, PlanTakeover(u) PROVE TasksGrounded'
  BY <1>8, TakeoverFacts, SteadyKeeps
<1>9. ASSUME NEW u \in Units, DemoteFailed(u) PROVE TasksGrounded'
  BY <1>9, DemoteFacts DEF durable, TasksGrounded, Fabric, Tree
<1>10. CASE Archives
  BY <1>10, ArchiveSteady, ArchiveFacts, SteadyKeeps DEF plan
<1>11. CASE FinishTakeover
  <2>1. demotion.unit \in active
    BY <1>11, FinishFacts DEF DemotionActive
  <2>2. \A u \in Units : task'[u].phase # "absent" => task[u].phase # "absent" \/ u = demotion.unit
    BY <1>11, FinishFacts
  <2>3. task[demotion.unit].phase # "absent"
    BY <1>11, FinishFacts DEF DemotionActive
  <2> QED
    BY <1>0, <1>11, <2>1, <2>2, <2>3, FinishFacts DEF TasksGrounded, Fabric, Tree
<1>12. CASE Integrate
  BY <1>12 DEF Integrate, durable, plan, TasksGrounded, Fabric, Tree
<1>13. CASE AdvanceWave
  BY <1>13, AdvanceFacts DEF durable, TasksGrounded, Fabric, Tree
<1>14. CASE Verdicts
  BY <1>14, VerdictFacts DEF plan, TasksGrounded, Fabric, Tree
<1>15. CASE Crash
  BY <1>15 DEF Crash, durable, plan, TasksGrounded, Fabric, Tree
<1> QED
  BY <1>1, <1>2, <1>3, <1>4, <1>5, <1>6, <1>7, <1>8, <1>9, <1>10, <1>11, <1>12, <1>13, <1>14, <1>15, Cases

\* A demotion stays with its wave.
LEMMA DemotionActiveStep ==
  ASSUME TypeOK, Unprepared, Recovering, HeadExact, TasksGrounded, DemotionActive, IntegrationWhole, [Next]_vars
  PROVE  DemotionActive'
<1>0. active \in SUBSET Units
  BY DEF TypeOK
<1>1. CASE Quiet
  BY <1>1, QuietFacts DEF core, DemotionActive, Fabric
<1>2. CASE Prepare \/ Inspect
  BY <1>2 DEF Prepare, Inspect, Unprepared, Recovering, DemotionActive, plan
<1>3. CASE MarkCreating
  BY <1>3, MarkFacts DEF durable, DemotionActive, Fabric
<1>4. CASE AdoptReplacement
  BY <1>4, ReplacementFacts DEF DemotionActive, Fabric
<1>5. CASE AdoptWave
  BY <1>5, WaveFacts DEF DemotionActive
<1>6. CASE Starts
  <2>1. demotion # None => demotion.unit \in Units /\ task'[demotion.unit].phase # "absent"
    BY <1>0, <1>6, StartFacts DEF DemotionActive, Steady
  <2> QED
    BY <1>6, <2>1, StartFacts DEF plan, process, DemotionActive, Fabric
<1>7. ASSUME NEW u \in Units, PlanTakeover(u) PROVE DemotionActive'
  <2>1. Fabric /\ transition = None /\ task[u].phase = "running" /\ Integrated = done
    BY <1>7, TakeoverFacts DEF Integrated
  <2>2. u \in active
    BY <2>1 DEF TasksGrounded, HeadExact, Accepted
  <2>3. integ = None
    BY <2>1, <2>2 DEF IntegrationWhole, Accepted
  <2>4. task'[u].phase # "absent"
    BY <1>7, <2>1, TakeoverFacts DEF Steady
  <2> QED
    BY <1>7, <2>1, <2>2, <2>3, <2>4, TakeoverFacts DEF DemotionActive, Fabric, process
<1>8. ASSUME NEW u \in Units, DemoteFailed(u) PROVE DemotionActive'
  <2>1. integ = None
    BY <1>8, DemoteFacts DEF IntegrationWhole, Accepted
  <2> QED
    BY <1>8, <2>1, DemoteFacts DEF DemotionActive, Fabric, durable, process
<1>9. CASE Archives
  <2>1. demotion # None => demotion.unit \in Units /\ task'[demotion.unit].phase # "absent"
    BY <1>0, <1>9, ArchiveSteady DEF DemotionActive, Steady
  <2> QED
    BY <1>9, <2>1, ArchiveFacts DEF plan, process, DemotionActive, Fabric
<1>10. CASE FinishTakeover
  BY <1>10, FinishFacts DEF process, DemotionActive, Fabric
<1>11. CASE Integrate
  BY <1>11 DEF Integrate, plan, DemotionActive
<1>12. CASE AdvanceWave
  BY <1>12, AdvanceFacts DEF DemotionActive
<1>13. CASE Verdicts
  BY <1>13, VerdictFacts DEF plan, DemotionActive, Fabric
<1>14. CASE Crash
  BY <1>14 DEF Crash, durable, plan, DemotionActive, Fabric
<1> QED
  BY <1>1, <1>2, <1>3, <1>4, <1>5, <1>6, <1>7, <1>8, <1>9, <1>10, <1>11, <1>12, <1>13, <1>14, Cases

\* A wave whose implementations a candidate was built from stays accepted.
LEMMA IntegrationWholeStep ==
  ASSUME TypeOK, Unprepared, Recovering, DemotionActive, IntegrationWhole, [Next]_vars
  PROVE  IntegrationWhole'
<1>1. CASE Quiet
  BY <1>1, QuietFacts DEF core, IntegrationWhole, Fabric, Accepted
<1>2. CASE Prepare \/ Inspect
  BY <1>2 DEF Prepare, Inspect, Unprepared, Recovering, IntegrationWhole, plan
<1>3. CASE MarkCreating
  BY <1>3, MarkFacts DEF durable, IntegrationWhole, Fabric, Accepted
<1>4. CASE AdoptReplacement
  BY <1>4, ReplacementFacts DEF IntegrationWhole, DemotionActive, Fabric, Accepted
<1>5. CASE AdoptWave
  BY <1>5, WaveFacts DEF IntegrationWhole
<1>6. CASE Starts
  BY <1>6, StartFacts, SteadyKeeps DEF plan, process
<1>7. ASSUME NEW u \in Units, PlanTakeover(u) PROVE IntegrationWhole'
  BY <1>7, TakeoverFacts, SteadyKeeps DEF process
<1>8. ASSUME NEW u \in Units, DemoteFailed(u) PROVE IntegrationWhole'
  BY <1>8, DemoteFacts DEF durable, process, IntegrationWhole, Fabric, Accepted
<1>9. CASE Archives
  BY <1>9, ArchiveFacts, ArchiveSteady, SteadyKeeps DEF plan, process
<1>10. CASE FinishTakeover
  BY <1>10, FinishFacts DEF process, DemotionActive, IntegrationWhole
<1>11. CASE Integrate
  BY <1>11 DEF Integrate, plan, durable, IntegrationWhole, Fabric, Accepted
<1>12. CASE AdvanceWave
  BY <1>12, AdvanceFacts DEF IntegrationWhole
<1>13. CASE Verdicts
  BY <1>13, VerdictFacts DEF plan, IntegrationWhole, Fabric, Accepted
<1>14. CASE Crash
  BY <1>14 DEF Crash, IntegrationWhole
<1> QED
  BY <1>1, <1>2, <1>3, <1>4, <1>5, <1>6, <1>7, <1>8, <1>9, <1>10, <1>11, <1>12, <1>13, <1>14, Cases

\* A cancelled run is archived when its last open task is.
LEMMA CancelledOpenStep ==
  ASSUME TypeOK, Unprepared, Recovering, CancelledOpen, [Next]_vars
  PROVE  CancelledOpen'
<1>1. CASE Quiet
  BY <1>1, QuietFacts DEF core, CancelledOpen
<1>2. CASE Prepare \/ Inspect
  BY <1>2 DEF Prepare, Inspect, Unprepared, Recovering, CancelledOpen
<1>3. CASE MarkCreating
  BY <1>3, MarkFacts DEF durable, CancelledOpen
<1>4. CASE AdoptReplacement
  <2>1. CASE UNCHANGED <<task, demotion>>
    BY <1>4, <2>1, ReplacementFacts DEF CancelledOpen
  <2>2. CASE demotion.unit \in Units /\ task'[demotion.unit].phase \in Open
    BY <2>2 DEF CancelledOpen
  <2> QED
    BY <1>4, <2>1, <2>2, ReplacementFacts
<1>5. CASE AdoptWave
  <2> DEFINE ts == [u \in Units |-> IF u \in transition.next THEN Fresh(1, head) ELSE task[u]]
  <2> SUFFICES ASSUME cancelled', stage' = "run" PROVE \E u \in Units : task'[u].phase \in Open
    BY DEF CancelledOpen
  <2>1. task' \in Reservations(ts, transition.next) /\ stage' = StageAfter(ts, transition.next, Completed, cancelled, FALSE)
    BY <1>5 DEF AdoptWave
  <2>2. cancelled
    BY <1>5 DEF AdoptWave
  <2> HIDE DEF ts
  <2>3. task' = ts
    BY <2>1, <2>2 DEF Reservations
  <2> QED
    BY <2>1, <2>2, <2>3 DEF StageAfter, Unfinished
<1>6. CASE Starts
  BY <1>6, StartFacts DEF plan, CancelledOpen
<1>7. CASE \E u \in Units : PlanTakeover(u) \/ DemoteFailed(u)
  BY <1>7, TakeoverFacts, DemoteFacts DEF CancelledOpen
<1>8. CASE Archives
  <2>1. ASSUME NEW ts, Archived(ts), cancelled', stage' = "run" PROVE \E u \in Units : task'[u].phase \in Open
    BY <2>1 DEF Archived, StageAfter, Unfinished
  <2>2. CASE UNCHANGED <<stage, task, cancelled>>
    BY <1>8, <2>2, ArchiveFacts DEF plan, CancelledOpen
  <2> QED
    BY <1>8, <2>1, <2>2, ArchiveFacts DEF CancelledOpen
<1>9. CASE FinishTakeover
  BY <1>9, FinishFacts DEF CancelledOpen
<1>10. CASE Integrate
  BY <1>10 DEF Integrate, durable, plan, CancelledOpen
<1>11. CASE AdvanceWave
  BY <1>11, AdvanceFacts DEF durable, CancelledOpen
<1>12. CASE Verdicts
  <2>1. stage' = "run" => stage = "run"
    BY <1>12 DEF Verdicts, ClaimValidation, SettleValidation, ReplayFailure, ClaimReview, DropCandidate, ArchiveFailed,
                 MoveTarget, DropPromoted, RecordPromotion, durable
  <2> QED
    BY <1>12, <2>1, VerdictFacts DEF plan, CancelledOpen
<1>13. CASE Crash
  BY <1>13 DEF Crash, durable, plan, CancelledOpen
<1> QED
  BY <1>1, <1>2, <1>3, <1>4, <1>5, <1>6, <1>7, <1>8, <1>9, <1>10, <1>11, <1>12, <1>13, Cases

-----------------------------------------------------------------------------
(* The last candidate *)

\* Every unit of the last candidate is completed, with an accepted implementation.
LEMMA FinalCompleted ==
  ASSUME HeadExact, Final
  PROVE  \A u \in Units : task[u].phase = "completed" /\ Accepted(u)
BY DEF Final, CandidateReady, HeadExact, Integrated, Accepted

\* Until it is promoted its run is not archived, and then as completed.
LEMMA FinalStage ==
  ASSUME HeadExact, Final, validation = "pass", review = "pass"
  PROVE  /\ \A ts : Steady(task, ts) => StageAfter(ts, active, done, FALSE, FALSE) = "run"
         /\ StageAfter(task, active, done, FALSE, TRUE) = "completed"
<1>1. \A u \in Units : task[u].phase = "completed"
  BY FinalCompleted
<1>2. Fabric /\ active = {} /\ done = Units
  BY DEF Final, CandidateReady
<1>3. ASSUME NEW ts, Steady(task, ts) PROVE StageAfter(ts, active, done, FALSE, FALSE) = "run"
  <2>1. \A u \in Units : ts[u].phase = "completed"
    BY <1>1, <1>3 DEF Steady
  <2>2. Unfinished(ts, active, done, FALSE, FALSE)
    BY <1>2, <2>1 DEF Unfinished
  <2> QED
    BY <2>2 DEF StageAfter
<1>4. ~Unfinished(task, active, done, FALSE, TRUE)
  BY <1>1, <1>2 DEF Unfinished, Open
<1> QED
  BY <1>1, <1>3, <1>4 DEF StageAfter

\* Nothing is taken over, demoted or integrated in it.
LEMMA FinalSettled ==
  ASSUME TypeOK, HeadExact, TasksGrounded, Final
  PROVE  ~FinishTakeover /\ ~Integrate /\ \A u \in Units : ~PlanTakeover(u) /\ ~DemoteFailed(u)
<1>1. active = {} /\ done = Units /\ demotion = None
  BY DEF Final, CandidateReady
<1>2. ASSUME NEW u \in Units PROVE ~PlanTakeover(u)
  BY FinalCompleted, TakeoverFacts
<1>3. ASSUME NEW u \in Units PROVE ~DemoteFailed(u)
  BY <1>1, DemoteFacts
<1> QED
  BY <1>1, <1>2, <1>3 DEF FinishTakeover, Integrate

\* The archives leave the last candidate's run open while its promotion is under way.
LEMMA FinalArchives ==
  ASSUME TypeOK, HeadExact, Final, validation = "pass", review = "pass", ~cancelled, Archives
  PROVE  stage' = "run" /\ ~cancelled'
<1>1. UNCHANGED cancelled /\ stage = "run"
  BY ArchiveFacts
<1>2. ASSUME NEW ts, Archived(ts) PROVE stage' = "run"
  <2>1. cancelled' = FALSE
    BY <1>1 DEF TypeOK
  <2> QED
    BY <1>2, <2>1, FinalStage DEF Archived
<1> QED
  BY <1>1, <1>2, ArchiveFacts

\* A step that leaves the verdict, the run and the last candidate alone.
LEMMA OperationKept ==
  ASSUME OperationSound, UNCHANGED <<op, validation, review, target, stage, cancelled>>, Final => Final' /\ UNCHANGED head
  PROVE  OperationSound'
BY DEF OperationSound

\* A verdict stands until its holder has acted on it.
LEMMA OperationSoundStep ==
  ASSUME TypeOK, Unprepared, Recovering, HeadExact, TasksGrounded, CancelledOpen, OperationSound, [Next]_vars
  PROVE  OperationSound'
<1>1. CASE Quiet
  BY <1>1, QuietFacts, OperationKept DEF core, verdict, Final, Fabric, CandidateReady
<1>2. CASE Prepare \/ Inspect
  BY <1>2 DEF Prepare, Inspect, Unprepared, Recovering, OperationSound
<1>3. CASE MarkCreating
  BY <1>3, MarkFacts, OperationKept DEF durable, verdict, refs, Final, Fabric, CandidateReady
<1>4. CASE AdoptReplacement
  BY <1>4, ReplacementFacts, OperationKept DEF verdict, refs, Final, Fabric, CandidateReady
<1>5. CASE AdoptWave
  BY <1>5, WaveFacts DEF verdict, refs, OperationSound, Final, CandidateReady
<1>6. CASE Starts
  BY <1>6, StartFacts, OperationKept DEF plan, verdict, refs, process, Final, Fabric, CandidateReady
<1>7. ASSUME NEW u \in Units, PlanTakeover(u) PROVE OperationSound'
  BY <1>7, TakeoverFacts, FinalSettled DEF verdict, process, OperationSound
<1>8. ASSUME NEW u \in Units, DemoteFailed(u) PROVE OperationSound'
  BY <1>8, DemoteFacts, FinalSettled DEF verdict, process, OperationSound
<1>9. CASE Archives
  <2>1. UNCHANGED <<plan, verdict, refs, process>>
    BY <1>9, ArchiveFacts
  <2>2. op \in {"promoting", "dropping refs", "recording"} => stage' = "run" /\ ~cancelled'
    BY <1>9, FinalArchives DEF OperationSound
  <2> QED
    BY <2>1, <2>2 DEF plan, verdict, refs, process, OperationSound, Final, Fabric, CandidateReady
<1>10. CASE FinishTakeover
  BY <1>10, FinishFacts, FinalSettled DEF verdict, process, OperationSound
<1>11. CASE Integrate
  BY <1>11, FinalSettled DEF Integrate, verdict, OperationSound
<1>12. CASE AdvanceWave
  BY <1>12, AdvanceFacts, OperationKept DEF durable, verdict, refs, Final, Fabric, CandidateReady
<1>13. CASE Verdicts
  <2>1. CASE ClaimValidation \/ SettleValidation \/ ReplayFailure
    BY <2>1 DEF ClaimValidation, SettleValidation, ReplayFailure, OperationSound, verdict
  <2>2. ASSUME NEW decision \in {"pass", "fail"}, ClaimReview(decision) PROVE OperationSound'
    <3>1. Final /\ stage = "run" /\ validation = "pass" /\ review' = decision
          /\ UNCHANGED <<durable, plan, validation>>
          /\ op' = IF decision = "pass" THEN "promoting" ELSE "dropping"
      BY <2>2 DEF ClaimReview, Reviewable, Final
    <3>2. ~cancelled
      BY <3>1, FinalCompleted DEF CancelledOpen, Final, CandidateReady, Open
    <3> QED
      BY <3>1, <3>2 DEF durable, plan, OperationSound, Final, Fabric, CandidateReady
  <2>3. CASE DropCandidate \/ ArchiveFailed \/ RecordPromotion
    BY <2>3 DEF DropCandidate, ArchiveFailed, RecordPromotion, verdict, OperationSound
  <2>4. CASE MoveTarget
    BY <2>4 DEF MoveTarget, durable, plan, OperationSound, Final, Fabric, CandidateReady
  <2>5. CASE DropPromoted
    BY <2>5 DEF DropPromoted, durable, plan, verdict, OperationSound, Final, Fabric, CandidateReady
  <2> QED
    BY <1>13, <2>1, <2>2, <2>3, <2>4, <2>5 DEF Verdicts
<1>14. CASE Crash
  BY <1>14 DEF Crash, OperationSound
<1> QED
  BY <1>1, <1>2, <1>3, <1>4, <1>5, <1>6, <1>7, <1>8, <1>9, <1>10, <1>11, <1>12, <1>13, <1>14, Cases

\* The target moves to the last candidate only, and that run ends completed.
LEMMA TargetFinalStep ==
  ASSUME TypeOK, Unprepared, Recovering, HeadExact, TasksGrounded, CancelledOpen, OperationSound, TargetFinal, [Next]_vars
  PROVE  TargetFinal'
<1>1. CASE Quiet
  BY <1>1, QuietFacts DEF core, verdict, TargetFinal, Final, Fabric, CandidateReady
<1>2. CASE Prepare \/ Inspect
  <2>1. target = {} /\ UNCHANGED target
    BY <1>2 DEF Prepare, Inspect, Recovering, TargetFinal, refs
  <2>2. stage' # "completed"
    BY <1>2 DEF Prepare, Inspect, Recovering
  <2> QED
    BY <2>1, <2>2 DEF TargetFinal
<1>3. CASE MarkCreating
  BY <1>3, MarkFacts DEF durable, verdict, refs, TargetFinal, Final, Fabric, CandidateReady
<1>4. CASE AdoptReplacement
  BY <1>4, ReplacementFacts DEF verdict, refs, TargetFinal, Final, Fabric, CandidateReady
<1>5. CASE AdoptWave
  BY <1>5, WaveFacts DEF verdict, refs, TargetFinal, Final, Fabric, CandidateReady
<1>6. CASE Starts
  BY <1>6, StartFacts DEF plan, verdict, refs, TargetFinal, Final, Fabric, CandidateReady
<1>7. ASSUME NEW u \in Units, PlanTakeover(u) PROVE TargetFinal'
  BY <1>7, TakeoverFacts, FinalSettled DEF refs, TargetFinal
<1>8. ASSUME NEW u \in Units, DemoteFailed(u) PROVE TargetFinal'
  BY <1>8, DemoteFacts, FinalSettled DEF durable, refs, TargetFinal
<1>9. CASE Archives
  <2>1. UNCHANGED <<plan, verdict, refs>> /\ stage = "run"
    BY <1>9, ArchiveFacts
  <2>2. target # {} => stage' = "run" /\ ~cancelled'
    BY <1>9, FinalArchives DEF TargetFinal
  <2>3. Fabric => stage' # "completed"
    <3>1. ASSUME NEW ts, Archived(ts), Fabric PROVE stage' # "completed"
      <4>1. cancelled' \in BOOLEAN
        BY <1>9 DEF Archives, Report, Reconcile, Cancel, TypeOK
      <4> QED
        BY <3>1, <4>1, StageRange DEF Archived
    <3> QED
      BY <1>9, <2>1, <3>1, ArchiveFacts
  <2> QED
    BY <2>1, <2>2, <2>3 DEF plan, verdict, refs, TargetFinal, Final, Fabric, CandidateReady
<1>10. CASE FinishTakeover
  BY <1>10, FinishFacts, FinalSettled DEF refs, TargetFinal, Fabric
<1>11. CASE Integrate
  BY <1>11, FinalSettled DEF Integrate, durable, TargetFinal
<1>12. CASE AdvanceWave
  BY <1>12, AdvanceFacts DEF durable, verdict, refs, TargetFinal, Final, Fabric, CandidateReady
<1>13. CASE Verdicts
  <2>1. UNCHANGED <<cancelled, plan>>
    BY <1>13, VerdictFacts
  <2>2. (Final' <=> Final) /\ head' = head /\ (Fabric' <=> Fabric)
    BY <2>1 DEF plan, Final, Fabric, CandidateReady
  <2>3. CASE ClaimValidation \/ SettleValidation
    BY <2>1, <2>2, <2>3 DEF ClaimValidation, SettleValidation, durable, refs, OperationSound, TargetFinal
  <2>4. CASE ReplayFailure \/ DropCandidate \/ DropPromoted
    BY <2>1, <2>2, <2>4 DEF ReplayFailure, DropCandidate, DropPromoted, durable, verdict, refs, TargetFinal
  <2>5. CASE \E decision \in {"pass", "fail"} : ClaimReview(decision)
    BY <2>1, <2>2, <2>5 DEF ClaimReview, durable, refs, TargetFinal
  <2>6. CASE ArchiveFailed
    <3>1. target = {} /\ UNCHANGED target
      BY <2>6 DEF ArchiveFailed, refs, OperationSound, TargetFinal
    <3>2. Fabric => StageAfter(task, active, done, cancelled, FALSE) # "completed"
      BY StageRange DEF TypeOK
    <3> QED
      BY <2>2, <2>6, <3>1, <3>2 DEF ArchiveFailed, TargetFinal
  <2>7. CASE MoveTarget
    <3>1. Final /\ validation = "pass" /\ review = "pass" /\ stage = "run" /\ ~cancelled
      BY <2>7 DEF MoveTarget, OperationSound
    <3>2. validation' = "pass" /\ stage' = "run"
      BY <2>7, <3>1 DEF MoveTarget, durable
    <3>4. Final' /\ ~cancelled'
      BY <2>1, <2>2, <3>1
    <3>3. target' # {} => target' = head' /\ review' = "pass"
      BY <2>2, <2>7, <3>1 DEF MoveTarget, TargetFinal
    <3> QED
      BY <3>2, <3>3, <3>4 DEF TargetFinal
  <2>8. CASE RecordPromotion
    <3>1. Final /\ validation = "pass" /\ review = "pass" /\ stage = "run" /\ ~cancelled /\ target = head
      BY <2>8 DEF RecordPromotion, OperationSound
    <3>2. cancelled = FALSE
      BY <3>1 DEF TypeOK
    <3>3. stage' = "completed"
      BY <2>8, <3>1, <3>2, FinalStage DEF RecordPromotion
    <3>4. UNCHANGED <<target, validation, review, cancelled>>
      BY <2>8 DEF RecordPromotion, verdict, refs
    <3>5. Final' /\ target' = head'
      BY <2>2, <3>1, <3>4
    <3> QED
      BY <3>1, <3>3, <3>4, <3>5 DEF TargetFinal
  <2> QED
    BY <1>13, <2>3, <2>4, <2>5, <2>6, <2>7, <2>8 DEF Verdicts
<1>14. CASE Crash
  BY <1>14 DEF Crash, durable, plan, verdict, refs, TargetFinal, Final, Fabric, CandidateReady
<1> QED
  BY <1>1, <1>2, <1>3, <1>4, <1>5, <1>6, <1>7, <1>8, <1>9, <1>10, <1>11, <1>12, <1>13, <1>14, Cases

-----------------------------------------------------------------------------
(* The theorems *)

\* The run starts in the inductive invariant.
LEMMA InitIInv == Init => IInv
<1> SUFFICES ASSUME Init PROVE IInv
  OBVIOUS
<1>1. TypeOK
  <2>1. TypeRest /\ TypeStage
    BY DEF Init, TypeRest, TypeStage
  <2>5. TypeFlags
    BY DEF Init, TypeFlags
  <2>6. TypePlan
    BY DEF Init, TypePlan
  <2>7. TypeRefs
    BY DEF Init, TypeRefs
  <2>2. TypeTask
    BY FreshTyped DEF Init, TypeTask
  <2>3. TypeTree /\ TypeWorkers
    BY DEF Init, TypeTree, TypeWorkers, TreesInit, TreeStates
  <2>4. TypeMishaps
    BY DispatchAssumption DEF Init, TypeMishaps
  <2> QED
    BY <2>1, <2>2, <2>3, <2>4, <2>5, <2>6, <2>7, TypeParts
<1>2. Unprepared /\ Recovering
  BY DEF Init, Unprepared, Recovering, Absent
<1>3. HeadExact /\ WavesReady /\ TasksGrounded
  BY DEF Init, HeadExact, Integrated, Implementations, WavesReady, TasksGrounded, Absent
<1>4. DemotionActive /\ IntegrationWhole /\ CancelledOpen
  BY DEF Init, DemotionActive, IntegrationWhole, CancelledOpen
<1>5. OperationSound /\ TargetFinal
  BY DEF Init, OperationSound, TargetFinal
<1> QED
  BY <1>1, <1>2, <1>3, <1>4, <1>5 DEF IInv, Shape

\* Every step keeps it.
LEMMA IInvStep == IInv /\ [Next]_vars => IInv'
<1> SUFFICES ASSUME IInv, [Next]_vars PROVE IInv'
  OBVIOUS
<1>1. TypeOK /\ Unprepared /\ Recovering /\ HeadExact /\ WavesReady /\ TasksGrounded
      /\ DemotionActive /\ IntegrationWhole /\ CancelledOpen /\ OperationSound /\ TargetFinal
  BY DEF IInv, Shape
<1>2. TypeOK' /\ Unprepared' /\ Recovering'
  BY <1>1, TypeStep, UnpreparedStep, RecoveringStep
<1>3. HeadExact' /\ WavesReady' /\ TasksGrounded'
  BY <1>1, HeadExactStep, WavesReadyStep, TasksGroundedStep
<1>4. DemotionActive' /\ IntegrationWhole' /\ CancelledOpen'
  BY <1>1, DemotionActiveStep, IntegrationWholeStep, CancelledOpenStep
<1>5. OperationSound' /\ TargetFinal'
  BY <1>1, OperationSoundStep, TargetFinalStep
<1> QED
  BY <1>2, <1>3, <1>4, <1>5 DEF IInv, Shape

\* So it holds throughout.
LEMMA Invariant == Spec => []IInv
<1> QED
  BY InitIInv, IInvStep, PTL DEF Spec

\* Whatever is crashed, refused or repeated, every variable keeps its declared range.
THEOREM TypeCorrect == Spec => []TypeOK
<1>1. IInv => TypeOK
  BY DEF IInv
<1> QED
  BY <1>1, Invariant, PTL

\* Every unit is started on the implementations its dependencies ended with, and on no
\* implementation of an attempt that was taken over (applyFabricOutcome, recoverFabricDemotion
\* and recoverFabricTransition together).
THEOREM BasesAreCurrent == Spec => []BasesCurrent
<1>1. ASSUME IInv PROVE BasesCurrent
  <2> SUFFICES ASSUME Fabric, NEW u \in Units, task[u].phase \in {"reserved", "running", "completed"}
               PROVE  /\ \A d \in Deps[u] : Tree(d) \in task[u].base
                      /\ \A d \in Units, a \in Attempts :
                           <<d, a>> \in task[u].base => Accepted(d) /\ a = task[d].attempt
    BY DEF BasesCurrent
  <2>1. task[u].base \subseteq head /\ \A d \in Deps[u] : Tree(d) \in task[u].base
    BY <1>1 DEF IInv, Shape, TasksGrounded
  <2>2. head = Implementations(Integrated) /\ \A d \in Integrated : Accepted(d)
    BY <1>1 DEF IInv, Shape, HeadExact
  <2>3. ASSUME NEW d \in Units, NEW a \in Attempts, <<d, a>> \in task[u].base
        PROVE  Accepted(d) /\ a = task[d].attempt
    BY <2>1, <2>2, <2>3, ImplementationsOf
  <2> QED
    BY <2>1, <2>3
<1> QED
  BY <1>1, Invariant, PTL

\* The target branch receives the accepted implementation of every unit or nothing, after a
\* passed validation and review; a run that moved it ends completed (acceptFabricCandidate).
THEOREM PromotionIsWhole == Spec => []PromotionWhole
<1>1. ASSUME IInv PROVE PromotionWhole
  <2>1. HeadExact /\ TargetFinal
    BY <1>1 DEF IInv, Shape
  <2>2. Final => head = Implementations(Units) /\ \A u \in Units : Accepted(u)
    BY <2>1 DEF Final, CandidateReady, HeadExact, Integrated
  <2> QED
    BY <2>1, <2>2 DEF TargetFinal, PromotionWhole
<1> QED
  BY <1>1, Invariant, PTL
=============================================================================
