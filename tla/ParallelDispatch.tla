-------------------------- MODULE ParallelDispatch --------------------------
(***************************************************************************)
(* The coordinator of parallel dispatches (src/core/worktree-parallel-       *)
(* dispatch.ts): one run from its preparation to its archive, on either      *)
(* route, with its worktrees, its hidden refs and its workers.  Each         *)
(* transaction of the durable state is one step; between transactions other  *)
(* operations run.  The prepare lease admits one recovery (rec), the         *)
(* operation lease one cancellation, validation or review (op); everything   *)
(* else needs neither.                                                      *)
(*                                                                         *)
(* Abstractions.  A commit is the set of implementations it contains, an     *)
(* implementation the unit and the attempt that made it.  Identities agree,  *)
(* the primary checkout stays clean at the authority commit (this set is     *)
(* empty), only the run moves its refs, "skip" is a passed review, and the   *)
(* decision to take a straggler over is any decision.  The execution plan's  *)
(* ledger is RunFlight's.  External: the workers and what they report.       *)
(***************************************************************************)
EXTENDS LunaFabricScheduler

CONSTANTS
  Routes,        \* routes a run may be prepared for
  MaxWorkers,    \* max_workers of a serial contract
  MaxMishaps,    \* bound: crashes of the process, and commands of git or the host that fail
  None           \* null

ASSUME DispatchAssumption ==
  /\ Routes \subseteq {"sol-serial", "luna-fabric"}
  /\ MaxWorkers \in Nat \ {0}
  /\ MaxMishaps \in Nat

Transitions == [phase : {"cleanup", "creating"}, next : SUBSET Units]
Demotions == [unit : Units, phase : {"stopping", "cleanup", "creating"}, clean : SUBSET Units]

VARIABLES
  \* durable: the state file
  stage,       \* state.run: none, preparing, run, or the terminal reason of its archive
  route,       \* run.route
  attempted,   \* preparation.create_attempted
  cancelled,   \* run.cancelled
  task,        \* run.tasks; phase "absent" before the unit's wave
  active,      \* fabric.scheduler.active
  done,        \* fabric.scheduler.completed
  head,        \* fabric.candidate_head, the base of the scheduler
  transition,  \* fabric.transition: its phase and the next wave
  demotion,    \* fabric.demotion_transition: its unit, its phase and the worktrees to clean
  sources,     \* fabric.source_refs: the attempt whose commit each unit's ref names, 0 without one
  validation,  \* fabric.validation.status
  review,      \* fabric.review.status
  \* durable: git and the worktree inventory
  candidate,   \* the hidden candidate ref; None when it is absent
  target,      \* the target branch
  ref,         \* the private ref of each unit's artifact: an attempt, 0 when it is absent
  tree,        \* the worktrees
  \* of the process
  rec,         \* where the holder of the prepare lease is
  op,          \* where the holder of the operation lease is
  integ,       \* the candidate a wave integration has built; None
  pending,     \* pendingFabricOutcomes: outcomes that wait for the wave barrier
  child,       \* each unit's worker: none, working, ended, kept (its ref is), released
  making,      \* where its artifact acceptance is: none, claim, move, record
  mishaps      \* crashes and failures so far

INSTANCE WorktreeLifecycle

\* null is none of the values it stands in for.
ASSUME NoneAssumption ==
  /\ None \notin Transitions /\ None \notin Demotions
  /\ None \notin {"completed", "failed", "cancelled"}
  /\ \A S \in SUBSET Trees : None # S

plan == <<route, active, done, head, transition, demotion, sources>>
verdict == <<validation, review>>
refs == <<candidate, target, ref>>
process == <<rec, op, integ>>
workers == <<pending, child, making>>
durable == <<stage, attempted, cancelled, task>>
vars == <<durable, plan, verdict, refs, tree, process, workers, mishaps>>

Open == {"pending", "reserved", "running"}
Fabric == route = "luna-fabric"
Tree(u) == <<u, task[u].attempt>>
Absent == [phase |-> "absent", attempt |-> 1, outcome |-> None, artifact |-> "none", base |-> {}]
Fresh(attempt, base) ==
  [phase |-> "pending", attempt |-> attempt, outcome |-> None, artifact |-> "none", base |-> base]
Accepted(u) == task[u].phase = "completed" /\ task[u].artifact = "accepted"
Implementations(us) == {Tree(u) : u \in us}

Init ==
  /\ stage = "none" /\ route \in Routes /\ attempted = FALSE /\ cancelled = FALSE
  /\ task = [u \in Units |-> Absent]
  /\ active = {} /\ done = {} /\ head = {} /\ transition = None /\ demotion = None
  /\ sources = [u \in Units |-> 0] /\ validation = "pending" /\ review = "pending"
  /\ candidate = None /\ target = {} /\ ref = [u \in Units |-> 0] /\ TreesInit
  /\ rec = "idle" /\ op = "idle" /\ integ = None
  /\ pending = [u \in Units |-> None] /\ child = [u \in Units |-> "none"] /\ making = [u \in Units |-> "none"]
  /\ mishaps = 0

\* The process dies, or a command of git or of the host fails.
Mishap == mishaps < MaxMishaps /\ mishaps' = mishaps + 1

-----------------------------------------------------------------------------
(* What a transaction makes of the tasks *)

\* The units a unit depends on, directly or not.
Ancestors[u \in Units] == Deps[u] \cup UNION {Ancestors[d] : d \in Deps[u]}

\* suppressDescendants: nothing that depends on a failed or abandoned unit starts any more.
Suppress(ts, failed) ==
  [u \in Units |-> IF ts[u].phase \in {"pending", "reserved"} /\ Ancestors[u] \cap failed # {}
                   THEN [ts[u] EXCEPT !.phase = "suppressed", !.outcome = None] ELSE ts[u]]

Startable(ts, act) ==
  {u \in Units : ts[u].phase = "pending" /\
    IF Fabric THEN u \in act ELSE \A d \in Deps[u] : ts[d].phase = "completed"}
Slots(ts, act) ==
  (IF Fabric THEN Cardinality(act) ELSE MaxWorkers)
    - Cardinality({u \in Units : ts[u].phase \in {"reserved", "running"}})
\* reserveReady: as many startable tasks as there are free slots; any of them, for the
\* order of the tasks is any order.
Reservations(ts, act) ==
  IF cancelled THEN {ts}
  ELSE {[u \in Units |-> IF u \in new THEN [ts[u] EXCEPT !.phase = "reserved"] ELSE ts[u]] :
         new \in {S \in SUBSET Startable(ts, act) :
                    /\ Cardinality(S) <= Slots(ts, act) \/ S = {}
                    /\ S = Startable(ts, act) \/ Cardinality(S) >= Slots(ts, act)}}

\* Variant: a fabric run is over when its tasks are, as a serial one.
UnfinishedTasks(ts, act, dn, can, promoted) == \E u \in Units : ts[u].phase \in Open
\* archiveIfTerminal: what keeps the run open.
Unfinished(ts, act, dn, can, promoted) ==
  \/ \E u \in Units : ts[u].phase \in Open
  \/ /\ ~can /\ Fabric
     /\ \/ \E u \in act : ts[u].phase = "failed" /\ ts[u].attempt = 1
        \/ /\ \A u \in Units : ts[u].phase \in {"absent", "completed"}
           /\ dn # Units \/ (~promoted /\ validation # "fail" /\ review # "fail")
StageAfter(ts, act, dn, can, promoted) ==
  IF Unfinished(ts, act, dn, can, promoted) THEN "run"
  ELSE IF can THEN "cancelled"
  ELSE IF (\A u \in Units : ts[u].phase \in {"absent", "completed"}) /\ validation # "fail" /\ review # "fail"
       THEN "completed" ELSE "failed"

-----------------------------------------------------------------------------
(* Preparation and recovery, under the prepare lease *)

\* The worktrees the recovery under way is to make, and those it removes first.
NewTrees ==
  IF stage = "preparing" THEN (IF Fabric THEN active ELSE Units) \X {1}
  ELSE IF demotion # None THEN {<<demotion.unit, 2>>} ELSE transition.next \X {1}
OldTrees == IF demotion # None THEN Implementations(demotion.clean) ELSE Implementations(active)

\* createMany / createManyAtBase of the planned worktrees; one that is there already, or an
\* inventory full of what earlier runs left, refuses the request.
CreateTrees(next, refused) ==
  \/ CreateMany(NewTrees) /\ rec' = next /\ UNCHANGED mishaps
  \/ CreateManyFails(NewTrees) /\ rec' = refused /\ Mishap
  \/ (\E t \in NewTrees : Managed(t)) /\ rec' = refused /\ UNCHANGED <<tree, mishaps>>
  \/ rec' = refused /\ UNCHANGED tree /\ Mishap

\* prepareRun: the intent is durable before anything is created.
Prepare ==
  /\ rec = "idle" /\ stage = "none"
  /\ stage' = "preparing" /\ rec' = "inspect"
  /\ active' \in IF Fabric THEN NextWaves({}) ELSE {{}}
  /\ UNCHANGED <<attempted, cancelled, task, route, done, head, transition, demotion, sources, verdict, refs, tree,
                 op, integ, workers, mishaps>>

ResumePreparation ==
  /\ rec = "idle" /\ stage = "preparing" /\ rec' = "inspect"
  /\ UNCHANGED <<durable, plan, verdict, refs, tree, op, integ, workers, mishaps>>

\* recoverPreparation: the worktrees are all there, or all absent and never tried, or the preparation has failed.
Inspect ==
  /\ rec \in {"inspect", "reinspect"}
  /\ candidate' = IF Fabric THEN head ELSE None
  /\ \/ /\ \A t \in NewTrees : tree[t] \in ReadyStates
        /\ stage' = "run" /\ rec' = "idle"
        /\ task' \in Reservations([u \in Units |-> IF <<u, 1>> \in NewTrees THEN Fresh(1, head) ELSE Absent], active)
        /\ UNCHANGED attempted
     \/ /\ \A t \in NewTrees : ~Managed(t)
        /\ rec = "inspect" /\ ~attempted
        /\ attempted' = TRUE /\ rec' = "create" /\ UNCHANGED <<stage, task>>
     \/ /\ \E t \in NewTrees : tree[t] \notin ReadyStates
        /\ rec = "reinspect" \/ attempted \/ \E t \in NewTrees : Managed(t)
        /\ stage' = "failed" /\ rec' = "idle" /\ UNCHANGED <<attempted, task>>
  /\ UNCHANGED <<cancelled, plan, verdict, target, ref, tree, op, integ, workers, mishaps>>

Create ==
  /\ rec = "create" /\ CreateTrees("reinspect", "reinspect")
  /\ UNCHANGED <<durable, plan, verdict, refs, op, integ, workers>>

\* Variant: the siblings' worktrees are removed before their source refs are there.
KeepSourcesLater == UNCHANGED ref
KeepSources == ref' = [u \in Units |-> IF sources[u] # 0 THEN sources[u] ELSE ref[u]]

\* recoverFabricDemotion, from its cleanup phase on: the siblings' commits get refs of their own first.
RecoverDemotion ==
  /\ rec = "idle" /\ stage = "run" /\ demotion # None /\ demotion.phase # "stopping"
  /\ \A u \in Units : sources[u] = 0 \/ ref[u] \in {0, sources[u]}
  /\ KeepSources /\ rec' = "sweep"
  /\ UNCHANGED <<durable, plan, verdict, candidate, target, tree, op, integ, workers, mishaps>>

\* recoverFabricTransition: the candidate holds the wave.
RecoverTransition ==
  /\ rec = "idle" /\ stage = "run" /\ transition # None /\ demotion = None
  /\ candidate = head /\ rec' = "sweep"
  /\ UNCHANGED <<durable, plan, verdict, refs, tree, op, integ, workers, mishaps>>

\* One worktree is cleaned; a refusal ends the recovery, to be tried again.
Sweep ==
  /\ rec = "sweep"
  /\ \E t \in OldTrees :
       \/ Removable(t) /\ Remove({t}) /\ UNCHANGED <<rec, mishaps>>
       \/ Removable(t) /\ CleanupFails(t) /\ rec' = "idle" /\ Mishap
       \/ ~Removable(t) /\ CleanupFails(t) /\ rec' = "idle" /\ UNCHANGED mishaps
  /\ UNCHANGED <<durable, plan, verdict, refs, op, integ, workers>>

\* The worktree of the failed attempt goes too, if it can.
Swept ==
  /\ rec = "sweep" /\ \A t \in OldTrees : ~Managed(t)
  /\ rec' = "mark"
  /\ LET t == <<demotion.unit, 1>> IN
       IF demotion = None \/ tree[t] = "none" THEN UNCHANGED tree
       ELSE IF Removable(t) THEN Remove({t}) ELSE CleanupFails(t)
  /\ UNCHANGED <<durable, plan, verdict, refs, op, integ, workers, mishaps>>

\* The phase is durable before anything is created; a run archived meanwhile ends the recovery.
MarkCreating ==
  /\ rec = "mark"
  /\ \/ stage # "run" /\ rec' = "idle" /\ UNCHANGED <<demotion, transition>>
     \/ /\ stage = "run" /\ demotion # None
        /\ demotion' = [demotion EXCEPT !.phase = "creating"] /\ rec' = "look" /\ UNCHANGED transition
     \/ /\ stage = "run" /\ demotion = None
        /\ transition' = [transition EXCEPT !.phase = "creating"] /\ UNCHANGED demotion
        /\ rec' = IF transition.next = {} THEN "adopt" ELSE "look"
  /\ UNCHANGED <<durable, route, active, done, head, sources, verdict, refs, tree, op, integ, workers, mishaps>>

\* lifecycle.reconcile()
LookAtTrees ==
  /\ rec = "look" /\ tree' = Reconciled /\ rec' = "make"
  /\ UNCHANGED <<durable, plan, verdict, refs, op, integ, workers, mishaps>>

\* Worktrees that are all there are adopted; some but not all end the recovery.
MakeTrees ==
  /\ rec = "make"
  /\ IF \A t \in NewTrees : tree[t] \in ReadyStates THEN rec' = "adopt" /\ UNCHANGED <<tree, mishaps>>
     ELSE CreateTrees("adopt", "idle")
  /\ UNCHANGED <<durable, plan, verdict, refs, op, integ, workers>>

ReplacementBase == head

\* The unit is started again, by Sol, in its new worktree.
AdoptReplacement ==
  /\ rec = "adopt" /\ demotion # None /\ rec' = "idle"
  /\ LET u == demotion.unit IN
       \/ /\ stage = "run" /\ task[u].phase = "failed"
          /\ task' \in Reservations([task EXCEPT ![u] = Fresh(2, ReplacementBase)], active)
          /\ demotion' = None
          /\ child' = [child EXCEPT ![u] = "none"] /\ pending' = [pending EXCEPT ![u] = None]
       \/ /\ stage # "run" \/ task[u].phase # "failed"
          /\ UNCHANGED <<task, demotion, child, pending>>
  /\ UNCHANGED <<stage, attempted, cancelled, route, active, done, head, transition, sources, verdict, refs, tree,
                 op, integ, making, mishaps>>

Completed == done \cup active

\* The next wave, or the end of the last one.
AdoptWave ==
  /\ rec = "adopt" /\ demotion = None /\ rec' = "idle"
  /\ \/ /\ stage = "run"
        /\ LET ts == [u \in Units |-> IF u \in transition.next THEN Fresh(1, head) ELSE task[u]] IN
             /\ task' \in Reservations(ts, transition.next)
             /\ stage' = StageAfter(ts, transition.next, Completed, cancelled, FALSE)
        /\ done' = Completed /\ active' = transition.next /\ transition' = None
     \/ stage # "run" /\ UNCHANGED <<stage, task, done, active, transition>>
  /\ UNCHANGED <<attempted, cancelled, route, head, demotion, sources, verdict, refs, tree, op, integ, workers, mishaps>>

-----------------------------------------------------------------------------
(* Workers *)

\* bindDispatch: the Task call takes a reserved task; never while the fabric is being recovered.
Bind(u) ==
  /\ stage = "run" /\ task[u].phase = "reserved" /\ ~cancelled
  /\ transition = None /\ demotion = None
  /\ task' = [task EXCEPT ![u].phase = "running"]
  /\ child' = [child EXCEPT ![u] = "working"]
  /\ UNCHANGED <<stage, attempted, cancelled, plan, verdict, refs, tree, process, pending, making, mishaps>>

Edits(u) ==
  /\ child[u] = "working" /\ making[u] = "none" /\ Edit(Tree(u))
  /\ UNCHANGED <<durable, plan, verdict, refs, process, workers, mishaps>>

\* The artifact producer commits; a commit it finds there is taken up again.
Produce(u) ==
  /\ child[u] = "working" /\ making[u] = "none" /\ task[u].artifact # "accepted"
  /\ Commit(Tree(u)) \/ (tree[Tree(u)] \in {"committed", "accepted"} /\ UNCHANGED tree)
  /\ making' = [making EXCEPT ![u] = IF Fabric \/ task[u].artifact = "claimed" THEN "move" ELSE "claim"]
  /\ UNCHANGED <<durable, plan, verdict, refs, process, pending, child, mishaps>>

\* acceptArtifact, one await at a time; whatever is refused ends it.
Making(u, next) == making' = [making EXCEPT ![u] = next]
\* On the serial route the artifact is recorded before the inventory accepts its commit.
ClaimArtifact(u) ==
  /\ making[u] = "claim" /\ stage = "run" /\ task[u].phase = "running"
  /\ task' = [task EXCEPT ![u].artifact = "claimed"] /\ Making(u, "move")
  /\ UNCHANGED <<stage, attempted, cancelled, plan, verdict, refs, tree, process, pending, child, mishaps>>
MoveArtifact(u) ==
  /\ making[u] = "move"
  /\ \/ AcceptCommit(Tree(u)) /\ Making(u, "record") /\ UNCHANGED mishaps
     \/ tree[Tree(u)] \notin {"committed", "accepted"} /\ Making(u, "none") /\ UNCHANGED <<tree, mishaps>>
     \/ Making(u, "none") /\ UNCHANGED tree /\ Mishap
  /\ UNCHANGED <<durable, plan, verdict, refs, process, pending, child>>
\* The task must still be running; a demotion under way is not looked at.
RecordArtifact(u) ==
  /\ making[u] = "record" /\ Making(u, "none")
  /\ task' = IF stage = "run" /\ task[u].phase = "running"
             THEN [task EXCEPT ![u].artifact = "accepted"] ELSE task
  /\ UNCHANGED <<stage, attempted, cancelled, plan, verdict, refs, tree, process, pending, child, mishaps>>

\* The session is over, with its tools and its production.
SessionEnds(u) ==
  /\ child[u] = "working" /\ making[u] = "none"
  /\ child' = [child EXCEPT ![u] = "ended"]
  /\ UNCHANGED <<durable, plan, verdict, refs, tree, process, pending, making, mishaps>>

\* A call is completed only with an accepted artifact.
Effective(u, outcome) ==
  IF outcome = "completed" /\ task[u].artifact # "accepted" THEN "failed" ELSE outcome

\* Variant: a task takes its outcome for its phase.
SettledByOutcome(ts, outcomes) ==
  LET settling == {u \in Units : ts[u].phase = "running" /\ outcomes[u] # None} IN
  Suppress([u \in Units |-> IF u \in settling THEN [ts[u] EXCEPT !.outcome = outcomes[u], !.phase = outcomes[u]] ELSE ts[u]],
           {u \in settling : outcomes[u] # "completed"})
\* applyFabricOutcome: what becomes of the running tasks that have an outcome.
Settled(ts, outcomes) ==
  LET settling == {u \in Units : ts[u].phase = "running" /\ outcomes[u] # None}
      failed == {u \in settling : outcomes[u] # "completed"}
  IN Suppress([u \in Units |-> IF u \in settling
                 THEN [ts[u] EXCEPT !.outcome = outcomes[u], !.phase = IF u \in failed THEN "failed" ELSE "completed"]
                 ELSE ts[u]], failed)

\* The wave barrier: every active task has an outcome, and none contradicts a settled one.
BarrierOpen(outcomes) ==
  \A u \in active : IF task[u].phase = "running" THEN outcomes[u] # None
                    ELSE outcomes[u] \in {None, task[u].outcome}

\* completeCall: an outcome of the fabric waits in memory until its wave has settled.
Report(u, outcome) ==
  /\ stage = "run" /\ task[u].phase = "running" /\ child[u] \in {"ended", "kept", "released"}
  /\ pending[u] \in {None, Effective(u, outcome)}
  /\ LET outcomes == [pending EXCEPT ![u] = Effective(u, outcome)]
         ts == Settled(task, outcomes) IN
       IF Fabric /\ ~BarrierOpen(outcomes) THEN pending' = outcomes /\ UNCHANGED <<task, stage>>
       ELSE /\ pending' = [v \in Units |-> None]
            /\ task' \in Reservations(ts, active)
            /\ stage' = StageAfter(ts, active, done, cancelled, FALSE)
  /\ UNCHANGED <<attempted, cancelled, plan, verdict, refs, tree, process, child, making, mishaps>>

\* The artifact of a released worktree gets a private ref.
RefKept(u) == IF task[u].artifact = "none" THEN 0 ELSE task[u].attempt

\* releaseChildWorktree up to its cleanup; a ref that names another commit refuses the release.
KeepArtifact(u) ==
  /\ child[u] = "ended" /\ (RefKept(u) = 0 \/ ref[u] \in {0, RefKept(u)})
  /\ sources' = IF Fabric /\ sources[u] = 0 THEN [sources EXCEPT ![u] = RefKept(u)] ELSE sources
  /\ \/ /\ ref' = IF RefKept(u) = 0 THEN ref ELSE [ref EXCEPT ![u] = RefKept(u)]
        /\ child' = [child EXCEPT ![u] = "kept"] /\ UNCHANGED mishaps
     \/ Mishap /\ UNCHANGED <<ref, child>>
  /\ UNCHANGED <<durable, route, active, done, head, transition, demotion, verdict, candidate, target, tree,
                 process, pending, making>>

\* Its cleanup.  Edits are discarded when there is no artifact; the lifecycle tries again after a refusal.
ReleaseTree(u) ==
  LET t == Tree(u)
      discards == task[u].artifact = "none"
      goes == IF discards THEN Discardable(t) ELSE Removable(t)
      Becomes(state) == child' = [child EXCEPT ![u] = state]
  IN
  /\ child[u] = "kept"
  /\ \/ (goes \/ ~Managed(t)) /\ Remove({t}) /\ Becomes("released") /\ UNCHANGED mishaps
     \/ goes /\ CleanupFails(t) /\ Becomes("ended") /\ Mishap
     \/ Managed(t) /\ ~goes /\ discards /\ UNCHANGED <<tree, mishaps>> /\ Becomes("ended")
     \/ ~goes /\ ~discards /\ CleanupFails(t) /\ Becomes("ended") /\ UNCHANGED mishaps
  /\ UNCHANGED <<durable, plan, verdict, refs, process, pending, making>>

\* cleanupSuppressed: the worktree of a task that never started.
CleanSuppressed(u) ==
  /\ task[u].phase = "suppressed" /\ child[u] = "none" /\ task[u].artifact = "none" /\ Removable(Tree(u))
  /\ Remove({Tree(u)})
  /\ UNCHANGED <<durable, plan, verdict, refs, process, workers, mishaps>>

\* The calls nobody may hold any more: their session is over and their outcome is not known.
Lapsed == {u \in Units : task[u].phase = "running" /\ pending[u] = None /\ child[u] # "working"}

\* reconcile(): the outcomes that wait are applied; calls nobody makes any more and tasks
\* whose worktree is gone are abandoned, all of those that have not started if the inventory cannot be read.
Reconcile(gone, seen) ==
  LET waiting == Settled(task, pending)
      lost == {u \in Units : waiting[u].phase \in {"pending", "reserved"} /\
                 (seen => Reconciled[Tree(u)] \notin ReadyStates)}
      ts == Suppress([u \in Units |-> IF u \in gone \cup lost THEN [waiting[u] EXCEPT !.phase = "abandoned", !.outcome = None]
                                      ELSE waiting[u]], gone \cup lost)
  IN
  /\ stage = "run"
  /\ IF seen THEN tree' = Reconciled /\ UNCHANGED mishaps ELSE Mishap /\ UNCHANGED tree
  /\ IF ts = task THEN UNCHANGED <<task, stage, pending>>
     ELSE /\ task' \in Reservations(ts, active)
          /\ stage' = StageAfter(ts, active, done, cancelled, FALSE)
          /\ pending' = [u \in Units |-> None]
  /\ UNCHANGED <<attempted, cancelled, plan, verdict, refs, process, child, making>>

-----------------------------------------------------------------------------
(* Demotions *)

\* planFabricDemotion: the accepted siblings get their source refs, the first one of a unit for good.
SourcesKept(ts) ==
  [u \in Units |-> IF sources[u] = 0 /\ u \in active /\ ts[u].phase = "completed" /\ ts[u].artifact = "accepted"
                   THEN ts[u].attempt ELSE sources[u]]

Straggling(u) == task[u].phase = "running" /\ task[u].attempt = 1 /\ task[u].artifact = "none"

\* takeoverCriticalFabricUnit: siblings that are done are settled now, before the barrier.
PlanTakeover(u) ==
  LET outcomes == [v \in Units |-> IF v # u /\ pending[v] = "completed" THEN "completed" ELSE None]
      settled == {v \in Units : task[v].phase = "running" /\ outcomes[v] # None}
      ts == Settled(task, outcomes)
  IN
  /\ stage = "run" /\ Fabric /\ ~cancelled /\ transition = None /\ demotion = None
  /\ Straggling(u) /\ pending[u] = None /\ child[u] \in {"working", "ended", "kept"}
  /\ task' = ts /\ pending' = [v \in Units |-> IF v \in settled THEN None ELSE pending[v]]
  /\ sources' = SourcesKept(ts)
  /\ demotion' = [unit |-> u, phase |-> "stopping", clean |-> settled]
  /\ UNCHANGED <<stage, attempted, cancelled, route, active, done, head, transition, verdict, refs, tree,
                 process, child, making, mishaps>>

\* Its last transaction, once the child has been stopped; whatever the task became is overwritten.
FinishTakeover ==
  /\ stage = "run" /\ demotion # None /\ demotion.phase = "stopping"
  /\ child[demotion.unit] = "released" /\ task[demotion.unit].attempt = 1
  /\ \E outcome \in {"failed", "cancelled"} :
       task' = [task EXCEPT ![demotion.unit].phase = "failed", ![demotion.unit].outcome = outcome]
  /\ demotion' = [demotion EXCEPT !.phase = "cleanup"]
  /\ UNCHANGED <<stage, attempted, cancelled, route, active, done, head, transition, sources, verdict, refs, tree,
                 process, workers, mishaps>>

\* demoteFailedFabricUnit: a failed first attempt, once nothing of its wave is open and its child has ended.
DemoteFailed(u) ==
  /\ stage = "run" /\ Fabric /\ ~cancelled /\ transition = None /\ demotion = None
  /\ u \in active /\ task[u].phase = "failed" /\ task[u].outcome # "cancelled" /\ task[u].attempt = 1
  /\ \A v \in active : task[v].phase \notin Open
  /\ child[u] = "released"
  /\ sources' = SourcesKept(task)
  /\ demotion' = [unit |-> u, phase |-> "cleanup", clean |-> {v \in active : Accepted(v)}]
  /\ UNCHANGED <<durable, route, active, done, head, transition, verdict, refs, tree, process, workers, mishaps>>

-----------------------------------------------------------------------------
(* The candidate *)

\* integrateFabricWave up to the hidden ref: the wave's implementations on top of the last candidate.
Integrate ==
  /\ integ = None /\ stage = "run" /\ Fabric /\ ~cancelled /\ transition = None /\ demotion = None
  /\ active # {} /\ \A u \in active : Accepted(u)
  /\ integ' = head \cup Implementations(active)
  /\ candidate \in {head, integ'} /\ candidate' = integ'
  /\ UNCHANGED <<durable, plan, verdict, target, ref, tree, rec, op, workers, mishaps>>

\* Variant: the next wave is chosen before the integrated one counts as completed.
AdvancedBefore == done
Advanced == done \cup active

\* advanceFabricWave: the transition is planned if the wave is still the one that was integrated.
AdvanceWave ==
  /\ integ # None /\ integ' = None
  /\ \/ /\ stage = "run" /\ ~cancelled /\ transition = None
        /\ active # {} /\ \A u \in active : Accepted(u)
        /\ candidate = integ /\ integ = head \cup Implementations(active)
        /\ head' = integ
        /\ \E next \in NextWaves(Advanced) : transition' = [phase |-> "cleanup", next |-> next]
     \/ /\ stage # "run" \/ cancelled \/ transition # None \/ candidate # integ
        /\ UNCHANGED <<head, transition>>
  /\ UNCHANGED <<durable, route, active, done, demotion, sources, verdict, refs, tree, rec, op, workers, mishaps>>

CandidateReady == transition = None /\ demotion = None /\ active = {} /\ done = Units

\* validateFabricCandidate: a validation that was running when the process died is run again.
ClaimValidation ==
  /\ op = "idle" /\ stage = "run" /\ Fabric /\ CandidateReady
  /\ validation \in {"pending", "running"}
  /\ validation' = "running" /\ op' = "validating"
  /\ UNCHANGED <<durable, plan, review, refs, tree, rec, integ, workers, mishaps>>

\* It passes, fails, or cannot be run; the claim stays behind when the lease is lost.
SettleValidation ==
  /\ op = "validating"
  /\ \/ validation' = "pass" /\ op' = "idle" /\ UNCHANGED mishaps
     \/ validation' = "fail" /\ op' = "dropping" /\ UNCHANGED mishaps
     \/ validation' \in {"pending", "running"} /\ op' = "idle" /\ Mishap
  /\ UNCHANGED <<durable, plan, review, refs, tree, rec, integ, workers>>

\* A failed validation or review is finished, if need be by a repeated call.
ReplayFailure ==
  /\ op = "idle" /\ stage = "run" /\ (validation = "fail" \/ review = "fail")
  /\ op' = "dropping"
  /\ UNCHANGED <<durable, plan, verdict, refs, tree, rec, integ, workers, mishaps>>

Reviewable == validation = "pass"

\* acceptFabricCandidate: the first decision is claimed; the same one may be made again.
ClaimReview(decision) ==
  /\ op = "idle" /\ stage = "run" /\ Fabric /\ CandidateReady /\ Reviewable
  /\ review \in {"pending", decision} /\ review' = decision
  /\ op' = IF decision = "pass" THEN "promoting" ELSE "dropping"
  /\ UNCHANGED <<durable, plan, validation, refs, tree, rec, integ, workers, mishaps>>

\* The hidden refs go: the candidate's and those of the sources.
DropRefs ==
  /\ candidate' = IF candidate = head THEN None ELSE candidate
  /\ ref' = [u \in Units |-> IF ref[u] = sources[u] THEN 0 ELSE ref[u]]

DropCandidate ==
  /\ op = "dropping" /\ op' = "failing" /\ DropRefs
  /\ UNCHANGED <<durable, plan, verdict, target, tree, rec, integ, workers, mishaps>>
ArchiveFailed ==
  /\ op = "failing" /\ op' = "idle"
  /\ stage' = IF stage = "run" THEN StageAfter(task, active, done, cancelled, FALSE) ELSE stage
  /\ UNCHANGED <<attempted, cancelled, task, plan, verdict, refs, tree, rec, integ, workers, mishaps>>

\* The target moves by compare-and-swap; an error before it has moved gives the decision back.
MoveTarget ==
  /\ op = "promoting"
  /\ \/ target \in {{}, head} /\ target' = head /\ op' = "dropping refs" /\ UNCHANGED <<review, mishaps>>
     \/ /\ Mishap /\ op' = "idle" /\ UNCHANGED target
        /\ review' = IF target = head THEN review ELSE "pending"
  /\ UNCHANGED <<durable, plan, validation, candidate, ref, tree, rec, integ, workers>>
DropPromoted ==
  /\ op = "dropping refs" /\ op' = "recording" /\ DropRefs
  /\ UNCHANGED <<durable, plan, verdict, target, tree, rec, integ, workers, mishaps>>
RecordPromotion ==
  /\ op = "recording" /\ op' = "idle"
  /\ stage' = IF stage = "run" /\ ~cancelled THEN StageAfter(task, active, done, cancelled, TRUE) ELSE stage
  /\ UNCHANGED <<attempted, cancelled, task, plan, verdict, refs, tree, rec, integ, workers, mishaps>>

DecisionClaimed == review # "pending"

\* cancel(): what has not started is suppressed.
Cancel ==
  /\ op = "idle" /\ stage = "run" /\ ~cancelled /\ ~DecisionClaimed
  /\ cancelled' = TRUE
  /\ LET ts == [u \in Units |-> IF task[u].phase \in {"pending", "reserved"}
                                THEN [task[u] EXCEPT !.phase = "suppressed", !.outcome = "cancelled"] ELSE task[u]] IN
       task' = ts /\ stage' = StageAfter(ts, active, done, TRUE, FALSE)
  /\ UNCHANGED <<attempted, plan, verdict, refs, tree, process, workers, mishaps>>

-----------------------------------------------------------------------------
\* The process dies with its sessions; an inventory operation may be cut short.
Crash ==
  /\ Mishap
  /\ \/ UNCHANGED tree
     \/ rec \in {"create", "make"} /\ (\A t \in NewTrees : ~Managed(t)) /\ CreationCut(NewTrees)
     \/ \E t \in OldTrees : rec = "sweep" /\ Removable(t) /\ RemovalCut(t)
     \/ \E u \in Units : child[u] = "kept" /\ Removable(Tree(u)) /\ RemovalCut(Tree(u))
  /\ rec' = "idle" /\ op' = "idle" /\ integ' = None
  /\ pending' = [u \in Units |-> None] /\ making' = [u \in Units |-> "none"]
  /\ child' = [u \in Units |-> IF child[u] \in {"working", "kept"} THEN "ended" ELSE child[u]]
  /\ UNCHANGED <<durable, plan, verdict, refs>>

Recovery ==
  \/ Prepare \/ ResumePreparation \/ Inspect \/ Create
  \/ RecoverDemotion \/ RecoverTransition \/ Sweep \/ Swept \/ MarkCreating \/ LookAtTrees \/ MakeTrees
  \/ AdoptReplacement \/ AdoptWave
Work(u) ==
  \/ Bind(u) \/ Edits(u) \/ Produce(u) \/ ClaimArtifact(u) \/ MoveArtifact(u) \/ RecordArtifact(u) \/ SessionEnds(u)
  \/ \E outcome \in {"completed", "failed", "cancelled"} : Report(u, outcome)
  \/ KeepArtifact(u) \/ ReleaseTree(u) \/ CleanSuppressed(u) \/ PlanTakeover(u) \/ DemoteFailed(u)
Operations ==
  \/ ClaimValidation \/ SettleValidation \/ ReplayFailure
  \/ \E decision \in {"pass", "fail"} : ClaimReview(decision)
  \/ DropCandidate \/ ArchiveFailed \/ MoveTarget \/ DropPromoted \/ RecordPromotion \/ Cancel

Next ==
  \/ Recovery \/ (\E u \in Units : Work(u)) \/ (\E gone \in SUBSET Lapsed, seen \in BOOLEAN : Reconcile(gone, seen))
  \/ FinishTakeover \/ Integrate \/ AdvanceWave \/ Operations \/ Crash

Spec == Init /\ [][Next]_vars

-----------------------------------------------------------------------------
(* Properties *)

Phases == Open \cup {"absent", "completed", "failed", "abandoned", "suppressed"}
Outcomes == {"completed", "failed", "cancelled"}
Tasks == [phase : Phases, attempt : Attempts, outcome : Outcomes \cup {None},
          artifact : {"none", "claimed", "accepted"}, base : SUBSET Trees]

\* Every variable stays in the set of values its declaration gives it.
TypeOK ==
  /\ stage \in {"none", "preparing", "run", "completed", "failed", "cancelled"}
  /\ route \in Routes /\ attempted \in BOOLEAN /\ cancelled \in BOOLEAN
  /\ task \in [Units -> Tasks]
  /\ active \in SUBSET Units /\ done \in SUBSET Units /\ head \in SUBSET Trees
  /\ transition \in {None} \cup Transitions /\ demotion \in {None} \cup Demotions
  /\ sources \in [Units -> 0 .. 2] /\ ref \in [Units -> 0 .. 2]
  /\ validation \in {"pending", "running", "pass", "fail"} /\ review \in {"pending", "pass", "fail"}
  /\ candidate \in {None} \cup SUBSET Trees /\ target \in SUBSET Trees
  /\ tree \in [Trees -> TreeStates]
  /\ rec \in {"idle", "inspect", "reinspect", "create", "sweep", "mark", "look", "make", "adopt"}
  /\ op \in {"idle", "validating", "dropping", "failing", "promoting", "dropping refs", "recording"}
  /\ integ \in {None} \cup SUBSET Trees
  /\ pending \in [Units -> Outcomes \cup {None}]
  /\ child \in [Units -> {"none", "working", "ended", "kept", "released"}]
  /\ making \in [Units -> {"none", "claim", "move", "record"}]
  /\ mishaps \in 0 .. MaxMishaps

\* A unit is started on a base that holds the implementation its dependencies ended with,
\* completed and accepted, and no other: not the one of an attempt that was taken over.
BasesCurrent ==
  Fabric => \A u \in Units : task[u].phase \in {"reserved", "running", "completed"} =>
    /\ \A d \in Deps[u] : Tree(d) \in task[u].base
    /\ \A d \in Units, a \in Attempts : <<d, a>> \in task[u].base => Accepted(d) /\ a = task[d].attempt

\* An accepted implementation stays in a branch, a private ref, the candidate or the target
\* as long as the run may still use it.  The one exception is a unit whose source ref was
\* made for an attempt that was then taken over: that ref is never moved to its successor.
ArtifactsKept ==
  stage \in {"run", "completed"} /\ validation # "fail" /\ review # "fail" =>
    \A u \in Units : task[u].artifact = "accepted" =>
      \/ OnBranch(Tree(u)) \/ ref[u] = task[u].attempt
      \/ candidate # None /\ Tree(u) \in candidate
      \/ Tree(u) \in target
      \/ Fabric /\ sources[u] \notin {0, task[u].attempt}

\* The target holds the accepted implementation of every unit, validated and passed by
\* review, or nothing of the run; and such a run ends completed, no other way.
PromotionWhole ==
  /\ target # {} =>
       /\ target = Implementations(Units) /\ \A u \in Units : Accepted(u)
       /\ validation = "pass" /\ review = "pass" /\ stage \in {"run", "completed"}
  /\ Fabric /\ stage = "completed" => target = Implementations(Units)
=============================================================================
