# Verification of Sortie-dogs

Sortie-dogs is a set of plugins and command-line tools that let a coding host
(OpenCode, Codex) work on a repository through small, budgeted, reviewed units.
Its risky part is not computation but bookkeeping: several processes, each with
asynchronous handlers, share files in a state directory and a git repository,
and any of them may stall or die between two steps.  This directory models that
bookkeeping in TLA+, checks it with TLC, and proves the main results with TLAPS.

All paths below are relative to the repository; `src/core/...` is the code of
the `sortie-dogs` package.

## 1. Inventory

| Component | State | Operations | Talks to | What is hard |
|---|---|---|---|---|
| Goal ledger (`core/goal-bound.ts`) | replayed goal: budget, revision, reservations, evidence, tickets, validations, receipt | one event kind per operation; the reducer accepts or throws | every front end appends | retries, late prices, revisions in flight, stale receipts |
| Run flight ledger (`core/run-flight-ledger.ts`) | append-only JSONL with a hash chain, lock file; replayed: waves, units, attempts, diagnoses, children, reserved capacity | one event kind per operation; the reducer accepts or throws | goal ledger, child lifecycle, dispatch | units side by side, repairs and rescues that need an earlier end, capacity given back once |
| Goal control (`plugin/index.ts`) | in-memory maps per session, turn and call | handlers of messages, tools and idle events | ledger, host API | reads, awaits the host, then appends |
| Scope-lease mutex (`core/scope-lease-registry.ts`, `withLock`) | lock directory with an owner marker, quarantines, `leases.json` | mkdir, mark, scan, check, commit, release, recover | every process of the project | stale locks, crashes and pauses between file-system calls |
| Scope leases (same file) | leases with scope and expiry; handles with their chains | acquire, heartbeat, assertHeld, replaceScope, release, abandon, close | queue, worktrees, dispatch | expiry during a transaction, queued operations |
| Integration queue (`core/worktree-integration-queue.ts`) | `state.json` (active queue, archive), a ref per run, target branch, worktrees | enqueue, prepare, submitRemediation, accept, cleanup | git, scope leases | crash after `update-ref`, paused owner, foreign commits |
| Managed worktrees (`core/worktree-lifecycle.ts`) | a record per worktree, git worktrees and branches | createMany, acceptCommit, discardOwnedChanges, cleanup, reconcile | queue, dispatch | record and git disagree after a crash |
| Parallel dispatch (`core/worktree-parallel-dispatch.ts`, `luna-fabric-scheduler.ts`) | one run: tasks, wave, candidate, transition, demotion, verdicts; hidden refs, the target | prepare, bind, accept an artifact, complete, integrate, demote, take over, validate, review, cancel, reconcile, recover | worktrees, leases, run ledger, child lifecycle | workers that end in any order, recovery after a crash anywhere, demotions and waves side by side |
| Child lifecycle (`core/child-*.ts`, `registerChildLifecycle`) | per child: registration, stop intent, terminal; deadline, running check | open, check, cancel, take over, release, deliver | run ledger, dispatch, host | state used across an await, a stop interrupted by a crash, terminal delivered after it |
| Native background (`plugin/native-background.ts`) | dispatch records | admit, bind, launch, reconcile, settle | host events, goal ledger | settlement repeated after a crash |
| Validation budget (`core/validation-budget.ts`, `plugin/docker-validation.ts`) | admissions per evidence key | reserve, settle, retry once | goal ledger, Docker | interrupted validations |
| Operator missions (`core/operator-*.ts`) | plan, generation, proposals, recovery lock | propose, approve, advance, recover | Codex, plugin | two processes recovering one mission |
| Remediation, swarm, rescue (`core/adaptive-*.ts`, `failure-*.ts`, `terminal-rescue-*.ts`) | bounded retries | plan, run, aggregate | run ledger, children | limits across restarts |
| Codex front end (`codex/*.ts`) | a JSON-RPC connection, a mission session | run a mission as one unit | goal ledger, operator mission | requests and exits in any order |
| Profiled plugin, continuation (`plugin/profiled.ts`, `continuation.ts`) | sessions and their progress | host hooks | goal control, operator runtime | hooks re-entered while awaiting |
| Mission fabric and review, policy gate, project memory and reflection, routing and metrics, schemas and assets, configuration | mostly none, or one file | decisions over data | | two-step writes of the memory and reflection files |

`PROJECT.json` lists each component with its files, and each hazard at the line
where it bites.  What makes the modelled components correct:

* **Goal ledger** — a unit is charged exactly once whatever is retried; a goal
  succeeds only on evidence of its own units; nothing survives into a turn,
  revision or goal it was not made for; a success is final; a passed validation
  is not repeated.
* **Mutex** — one owner; an owner that lost the lock cannot commit; what it
  commits was computed from the current file; seen from outside, acquire is one
  atomic step.
* **Leases** — live leases never conflict; a handle that believes in a scope has
  it in the file; expiry is final; a release is answered.
* **Run ledger** — attempts form chains; a repair is what its whole diagnosis
  authorized; a rescue follows a reconciled child; capacity is held exactly by
  what is at work.
* **Child** — it is stopped only with a durable intent, torn down only when it is
  quiet, ends once, after its release; past its deadline it does end.
* **Dispatch** — units start on bases that hold accepted, current work only;
  accepted work stays reachable while it is needed; the target gets the reviewed
  work of all units or none.
* **Queue** — only a validated and reviewed candidate reaches the target, on the
  base it was made from, and a run once; the record says integrated only if it happened;
  worktrees are removed only afterwards.

## 2. Modules

| Module | Models | Composition |
|---|---|---|
| `GoalFlight` | `reduceGoalFlight`, one action per event kind | |
| `LeaseTable` | abstract: a call's lease is recorded, refused or not, in one step | |
| `LeaseMutex` | `withLock` and `acquire`, one action per file-system call | implements `LeaseTable` (`INSTANCE`, refinement mapping) |
| `LeasePool` | abstract: handles share a pool of disjoint leases | |
| `LeaseRegistry` | every operation of a lease handle over time, the mutex taken as one transaction at a time | what `LeaseMutex` establishes is its `txn`; implements `LeasePool` (mapping in its proofs) |
| `IntegrationQueue` | the queue's operations over the saved state, its copies and git | takes a lease like a handle of `LeaseRegistry`, but may lose it |
| `RunFlight` | `applyEvent`, the reducer of a run's ledger, one action per event kind | |
| `ChildTable` | abstract: a child is registered, released, ended once, replaced | |
| `ChildLifecycle` | `CancellableChildLifecycle` and its host callbacks, one action per await | implements `ChildTable` (`INSTANCE`, refinement mapping) |
| `LunaFabricScheduler` | the waves of a contract, as constant operators | |
| `WorktreeLifecycle` | the inventory of worktrees and what is in them | |
| `DeliveryTable` | abstract: waves are integrated, the whole is delivered or nothing, the run ends | |
| `ParallelDispatch` | the coordinator: one run on either route, its refs, recovery and workers | extends `LunaFabricScheduler`, instantiates `WorktreeLifecycle`; implements `DeliveryTable` (mapping in `ParallelArtifactProofs`) |
| `...Proofs` | the theorems of the module named | `EXTENDS` the module and `TLAPS` |
| `ParallelArtifactProofs` | the theorems about accepted implementations and about what a run delivers | `EXTENDS ParallelDispatchProofs` |
| `MC...` | constants of the runs | `EXTENDS` the module |

Operators marked *Variant* stand beside the definition they vary: each is a
plausible mistake in that piece of code, used to see that the properties notice.

### GoalFlight

An action is enabled exactly when the reducer accepts the event; a refused
append throws and leaves the file alone.  Before an acceptance the ledger
requires a message id no acceptance has used, which is the guard on `accepted`.

* A goal is named by its origin message (its id is a hash of root and message).
* `scope_epoch` and `acceptance_fingerprint` move with the revision, so
  (goal, revision) stands for all of them.
* Reservation ids hash goal, unit and call and are never used twice; retries of
  one unit are several reservations with the same `UnitOf`.
* A contract is the set of its criteria.  The plugin accepts a goal without one
  and declares it in a revision, Codex accepts with one, a queued goal starts
  without.
* A receipt names any part of the goal's units and proofs: its producer reads the
  goal, awaits and then appends (`plugin/index.ts:2470-2507`), and the reducer
  asks only that each named one is the goal's (`goal-bound.ts:693-695`).
* `evidence` holds what the checks of a proof look at: criterion, revision and
  unit.  Session ids, timestamps, and statistics of skipped validations are left
  out, and `goal.reported` changes nothing that is replayed.
* Several reducer checks are history-dependent (`settledUnits`, the per-lineage
  costs, the replay marks of a replan); they are variables here as there.

### LeaseTable and LeaseMutex

The file system is the lock directory (present or not, with its markers, some
still blank), the set of quarantined directories and the lease file.  A call is
a program counter through `mkdir`, marker `open` and `write`, the `scan` of the
quarantines, the critical section (`read`, `temp` write, `check`, rename =
`commit`), the release (`drop`, `unlink`, `rmdir`) and the recovery (`look`,
`rmdir` of an empty directory or `rename` to a quarantine, then sweeping).
Age is a choice: a directory, marker or quarantine may count as stale at any
moment, since a process can be paused for as long as it takes; refreshing the
marker makes it young again.  A call that finds the lock held may be answered
`lock-timeout`; `Retries` bounds how often it goes round instead.

`CreatorAlone` names the one assumption: while a creator has made the lock
directory and not yet opened its marker, nobody re-creates that directory.  The
comment in the code argues that the recovery is harmless in this window; it is,
unless a third process steps in, which is what run `LeaseRace` shows.

### LeaseRegistry

Handles call operations that run one after the other on the handle's promise
chain (`queue`), each as one transaction under the mutex; the transaction notes
the set of leases that were alive when it began (the code takes `now` at its
beginning) and how long it has been running.  Time passes in `Tick`s, also in
the middle of a transaction, so a heartbeat can commit a lifetime that is partly
over.  `LockError` is every way `withLock` can throw.  The rename of a replacement
and the handle's `scope = normalized` after it (`:363`, `:281`) are one step: the
next operation of that handle waits for both.  `Clashes` is the relation
of overlapping scopes: it stands for the path algebra.

### IntegrationQueue

Durable: `disk` (the queue state file), `refs` (a ref per run), `history` (the
commits on the target since the start), `worktrees`.  Volatile: a copy `mem` and
a program counter per process.  Every save is `check` (assertHeld) then `write`
(rename), separate steps, since nothing fences the rename; git's merge, ref
update, validation and the final compare-and-swap are steps of their own.
`Duplicate` is what `verifyArtifact` finds on the target: the artifact a
remediation replaced is not named there, so a run of that one task is not
recognised, and only the candidate ref, which nothing ever moves, keeps such a
run from landing again.
`LoseLease` is a process paused past its lease, `Crash` forgets `mem`,
`TargetMoves` is a commit by somebody else.  A merge conflict is a property of
the task and the base it is applied to (`Conflicting`).  One target branch.

### RunFlight

As for the goal ledger, an action is enabled exactly when `applyEvent` accepts
the event, and the parameters of the action are the fields the reducer looks at.

* All events name one run; waves are numbers; the ids of an attempt, a lane and
  its child coincide, as in the code.
* The three recovery counters are one `budget`; time and cost are one measured
  resource, whose figures may be `Unknown`, which makes every sum unknown.
* The plan of an acceptance and the accepted heads of a fabric are kept as far as
  later events look at them (`plan`, `heads`).
* `child.stop-requested` is in `ChildLifecycle`; the two events of a validation's
  admission follow the rules already modelled in `GoalFlight`.

Two properties of the reducer that a reader may not expect, kept as they are:
`wave.completed` accepts a candidate that was already claimed, after which no
event can advance or complete the run (`:857`, `:860`); and `run.completed` does
not ask whether a wave is still open.

### ChildTable and ChildLifecycle

`#check` runs from await to await: `pc` names the await it is at, `seen` is the
ledger state it read first and `obs` its last observation, so what it decides on
may be stale by a step or more.  `check()` joins a running operation; a live
takeover runs a second one inside the first (`pc["takeover"]`), which is why
there are two.  Around it: the session (a message or tool makes it work, it goes
quiet, the host reports it idle), the artifact production with its protected
window, the after hook of the Task call (which looks at `stopping`, then awaits,
then publishes), cancellation, the deadline, faults of host calls and crashes.
A crash keeps what is durable (`ledger`, the task's outcome once it has been
applied, `takeover`, `held`) and loses the rest, the in-memory outcome included.

A takeover is looked at in four steps, as the code does: the callback's snapshot
(`TakeoverConsidered`: `eligible` stands for a first attempt of a fabric run whose
escalation is on in memory), `criticalPathInput` (`CriticalPathRead`, which throws
when the run was cancelled or the child has ended), the transaction, which throws
(`TakeoverRefused`), declines (`TakeoverDeclined`: only then does `#check` go on to
the ordinary stop) or makes the intent durable (`TakeoverPlanned`), and after the
nested stop the second transaction.  `sibling` says that the takeover of another
unit is durable; it begins and ends as it likes, at most `MaxSiblings` times, need
not ever end, and when it begins it applies this child's accepted outcome if that
still waits for the wave (`:1157-1165`).

A child that is being stopped is refused every tool and message except
`sortie_release_write_gate` (`plugin/index.ts:7548`).  That call is an action of its
own, `HandOver`: it makes the child *handing*, forgets that it was seen idle, is
not counted as in flight, and hands back what the release would.  The gate, the
lease and the worktree are one `held`, since `reconcileChildTerminal` wants all of
them gone, so `HandOver` alone does not change it.

Whether a child is critical depends on the contract's graph and is any decision
here; a child waiting for a recovery dialogue counts as one that is not idle.
`Evidence.released` is `~held`: the code asks whether any lease conflicts with the
scope (`:4938`), so that after a crash it may have to wait for a lease to expire,
which here is an observation that comes later.

`ExpiredEnds` has one exception, named `Blocked`, with two cases in which the
takeover throws, which ends the check before the ordinary stop is planned, on
every check.  The takeover of a sibling is active (`:1116-1121`); one left in
`stopping` (finding 6 below) keeps every other first attempt of its run from being
stopped at its deadline.  Or the child is critical and has an artifact but no
outcome (`:1148`).  `docs/v0.8-evidence-runtime-roadmap.md:197` wants a
critical-path straggler cancelled at its deadline.
Other orders the model has and the properties tolerate: the after hook may
publish an outcome after the lifecycle began to stop the child, and the terminal
then conflicts with it (the delivery throws and is tried again for ever, with
the outcome on record being the hook's); a takeover overwrites an outcome
recorded meanwhile.

### LunaFabricScheduler, WorktreeLifecycle, ParallelDispatch

A commit is the set of implementations it contains, an implementation a pair of
a unit and the attempt that made it (1 for Luna or the serial worker, 2 for the
Sol that replaced it).  A worktree has the name of the implementation it is for.
Scopes, shared paths and resources are one relation `Conflicts`.

The coordinator takes its state lease per transaction, so each transaction is a
step; between them operations interleave.  `rec` is the holder of the prepare
lease (preparation, demotion, transition), `op` the holder of the operation
lease (validation, review, cancellation), `integ` a wave integration, `making`
each worker's artifact acceptance, `child` its release.  The recovery at the
head of most operations is not a guard of theirs: another operation may plan
one right after it, and does.

* A run of the fabric route is *promoted* exactly when it is archived completed,
  so `promoted` is not a variable; a review that is skipped is one that passed.
* On the serial route an artifact is recorded, then accepted by the inventory,
  then marked; on the fabric route the inventory comes first.
* A crash inside an inventory operation leaves its records `creating` or
  `removing`, which nothing takes further.
* The primary checkout stays clean at the authority commit and nobody else moves
  the run's refs: the checks of both are refusals without effect.
* An inventory filled by earlier runs is a refused creation.
* `archiveIfTerminal` also asks that no transition is under way (`:2905`) before
  it keeps a run of completed tasks open.  `Unfinished` does not: the operations
  that reach it with a transition have cancelled the run or commit the transition.
* The second transaction of `advance` does not look at the cancellation (`:1310`);
  `Advance` does, since a cancelled run whose wave has ended is already archived.

What was found while modelling, beyond the properties:

1. The source ref of a unit names the commit it was made for and is never moved.
   If an artifact is accepted while its attempt is being taken over, Sol's later
   artifact finds the name taken and its release throws for ever (`:1996`,
   `:2010`), and a later demotion of a sibling may leave Sol's commit without a
   ref, while `docs/child-lifecycle.md:19` says that accepted commits are retained
   by private refs.  `ArtifactsKept` names the case as its exception.
2. `lifecycle.reconcile()` between a worker's commit and `acceptCommit` makes an
   orphan of the worktree, and the artifact can never be accepted.
3. A crash between `acceptCommit` and the record of the artifact leaves a
   checkout that is neither removed with its artifact nor discarded.
4. A crash inside a creation or cleanup of a transition makes each recovery
   throw from then on.
5. If reading the target fails after its compare-and-swap succeeded, the review
   is given back although the target has moved (`:1693`); a cancellation is then
   accepted.  This read is not modelled as failing: `MoveTarget` gives the
   decision back only before the move.
6. A takeover whose straggler got an outcome of its own is left in `stopping`, and
   each later takeover of a sibling throws (see `Blocked` of `ChildLifecycle`).

## 3. Runs

| Run | Instance | Shows |
|---|---|---|
| `GoalWork` | 2 goals, 3 reservations of 2 units (one unit retried), 1 criterion, budgets of 1 unit, or 2 units with a cost limit; 3 revisions, 2 tickets | typing, quiescence, receipts, evidence, tickets, charges and costs in every order of events |
| `GoalValidation` | 2 goals, 2 evidence keys, limits 2 and 3, at most 3 admissions | balance of admissions, the single retry, passed keys |
| `GoalBudget` (violation) | as `GoalWork` | a revision can undercut units already reserved |
| `LeaseMutex` | 3 calls, one conflicting pair, one call may retry, 1 crash, `CreatorAlone` | one owner, fencing, currency, refinement of `LeaseTable` |
| `LeaseRace` (violation) | without `CreatorAlone`, no crash | two owners |
| `LeaseQuarantine` (violation) | as `LeaseMutex`, no crash | a quarantine nobody may ever delete |
| `LeaseRegistry` | 2 handles, 2 disjoint scopes, lifetime 2, chains of 2 and 1 | disjoint leases, truthful handles, expiry, answered releases |
| `IntegrationQueue` | 2 symmetric processes, runs of 2 and 1 tasks (conflict, remediation, exhaustion), 2 commits, 1 pause | reviewed, once, on base, truthful record, worktrees kept; no deadlock |
| `IntegrationFailure` (violation) | the same | a queue recorded as failed although it landed |
| `RunFlight` | 2 units, 2 attempts of 3 profiles, 1 swarm of 2 lanes, 2 candidates, budgets of 4 | chains, repairs, rescues and reservations in every order of events |
| `ChildLifecycle` | 1 child, 1 crash, 1 fault, 1 production, 1 gate release, 1 takeover of a sibling | durable stops, quiet teardown, no overlap, refinement of `ChildTable`, an expired child ends unless `Blocked` |
| `ParallelDispatch` | units a, b and c after both, both routes, 2 workers, 1 crash or failing command | current bases, reachable artifacts, whole promotion |

**Bounds.**  `MaxRevision`, `MaxTickets`, `MaxRuns` cap counters of the goal
ledger: two revisions after an acceptance allow a tightened and a widened
budget, two tickets an old and a new one, three admissions a failure, the retry
and one beyond.  Three reservations are a retry of one unit and another unit,
which is enough for a double charge and for a late price of either.  Three calls
are the least for the mutex (an owner, a recoverer and a newcomer); a second
crash would only repeat the first.  `MaxPauses = 1`: one lost lease lets two
processes be in the queue's critical section together, which is the case the
fencing is about; with a second loss both old copies could be written, and the
theorems of section 4 cover any number.  `MaxHistory = 2` admits the own commit
and a foreign one in either order.

`RunFlight` has two attempts because the second clause of `PredecessorUnique`
already speaks of what the next attempt of each open unit would continue;
one swarm is one diagnosis with a finished and an unfinished lane.  In
`ChildLifecycle` one crash can fall between any two awaits, and one production
covers recovery, validation and acceptance; a second fault only repeats a
retry.  One gate release and one takeover of a sibling can come between any two
awaits and stay as long as they like.  In `ParallelDispatch` three units give two waves, a wave with a sibling
to keep or demote, and a unit whose base depends on both; a crash and a failing
command share `MaxMishaps = 1`, since each alone already reaches every recovery
path, and the two of them together square the states.  `Conflicts` is empty
there: with two independent units a conflict would only make the first wave
smaller; the proofs cover any contract.

**Symmetry** is used where nothing tells the values apart and no liveness is
checked: the user messages, the two calls of one unit (`GoalWork`), the evidence
keys (`GoalValidation`), the processes of the queue, the attempts, units and lanes
of `RunFlight`, the two independent units of `ParallelDispatch`.

**Deadlock** is checked for the queue.  The other runs say
`CHECK_DEADLOCK FALSE`: the calls of the mutex and of a handle come to an end,
a bounded ledger fills up, a child ends and a run is archived.

**Fairness** is used in `LeaseRegistry` and `ChildLifecycle` only.  In the
latter: `WF(Open)`, since asking for the status of a run restores its children
(`restoreChildLifecycles`) and the claim is about a run somebody asks for;
`WF(TimerFires)`, the timer `arm()` sets again after each check; `WF` of each
operation and of the takeover, since awaited host calls return or throw;
`WF(SessionIdle)`, the host reports a session whose tools have ended; and
`WF(ProductionFails)`, a production does not hang in its protected window, which
runs bounded git commands.  A tool may run for ever, the gate release included, and nothing forces a check to
be made early, a Task call to return, an outcome to be applied or the takeover of
a sibling to begin or end.
In `LeaseRegistry`, `WF(Turn)`: a promise chain runs
its next operation, since the event loop does.  `WF(Commit \/ AcquireError \/
LockError)`: a transaction that began is answered, since `withLock` retries a
bounded number of times and then throws.  No fairness on the caller, the clock,
or a crash, and none for one of the answers over the other.

### What the violations say

1. **`CumulativeLimit`** (`core/goal-bound.ts:492`).
   `docs/goal-budget-recovery.md:25` calls the budget "the cumulative goal limit
   across all revisions".  A revision compares its limit with what is consumed,
   not with what is also reserved, so outstanding units settle beyond it.
2. **`OneOwner`** without `CreatorAlone` (`core/scope-lease-registry.ts:540`).
   A removes the empty directory of B, which has not marked it yet; C re-creates
   it; B and C both open their markers, whose names differ, and both go on.
   `CommitFenced` still holds: each checks its own marker, and both are there.
3. **`QuarantineTemporary`** (`core/scope-lease-registry.ts:565`).  The recovery
   inspects one directory and renames another.  The quarantine then carries a
   name its content does not match, which the cleanup refuses for ever, while
   its existence makes every later `withLock` give up.
4. **`FailedLeavesTarget`** (`core/worktree-integration-queue.ts:528`).
   `docs/worktree-parallel-contract.md:144`: a failure "leaves the target
   unchanged".  An `update-ref` that took effect and was then killed by its
   timeout, or a crash after it followed by a foreign commit, is recorded as
   failed with the candidate on the target.

## 4. Theorems

All proofs hold for every value of the constants that satisfies the named
assumptions of the module: any number of goals, reservations, calls, handles,
processes and pauses.

**GoalFlightProofs.**  Typing first; then each invariant with its own
strengthening, since the reducer's checks are largely local.
*ReceiptDescribesGoal* says that what a receipt names is the goal's, not that it
names all of it.  It leans on *Quiescent*: what could take evidence or units away
is only possible with a unit running, and then there is no receipt.
*AcceptedWithProof* follows from `ProofInv`: every satisfied criterion has
evidence, every piece of evidence a settled unit (also when it is recovered
later), and a terminal phase has all criteria.  *UnitsChargedOnce* needs that
everything charged or running has been seen (`ChargeInv`), so that a settlement
adds a new element to a finite domain; the counter and the domain are emptied
together.  *ValidationBalanced* and *PassedNeverRerun* are about the validation
record alone; the latter needs that an unused interruption is the latest result
of a key that is neither running nor passed (`RetryInv`).  *TerminalIsFinal* is
an action property, from *Quiescent* and the fact that a goal's message is used.
*CostAgrees* needs that a settlement adds a new unit to a finite table
(`ChargeInv`), and that a late price replaces an unknown one.  The total is a
fold over the table's domain.  Its recursion is unfolded once, at the set itself
(`SumStep`), and every fact about sums for all sets (that equal tables have equal
sums, that a sum is a number, that a member can be taken out: `SumAgrees`,
`SumNatural`, `SumRemoves`) is shown by a smallest set that violates it, with the
well-founded order of finite sets.

**LeaseMutexProofs.**  `CommitFenced` holds with no assumption: a call goes on
to `commit` only from a check that found its marker, and a recovery that moves
the directory away moves its temporary file with it.  `OneOwner` adds, under
`CreatorAlone`, that at most one call is between `mkdir` and `open`, and that
there is no owner while it is (`CreatorInv`).  From one owner follows that
nobody else commits while it holds what it loaded (`LoadedIsCurrent`), and from
that, with what an answer says about the file (`AnswerInv`), the refinement:
`Commit` maps to `Record`, answers to `Grant`, `Refuse` or `Fail`, `Crash` to
`Die`, all else to stuttering.

**LeaseRegistryProofs.**  `NoOverlap` is inductive together with typing and
what is known of a running transaction: it has seen alive every lease that is
alive now, since leases only die while it runs, and those did not overlap
(`TxnInv`).  `ScopeAgrees` needs that a call without a handle yet has no lease
(`NewInv`).  `HandlesShareAPool` is the refinement of `LeasePool`.  Its mapping
cannot simply read the file: a heartbeat that saw its lease alive revives it even
if it expired meanwhile, so a lease counts as held (`Kept`) while it is alive and
while such a heartbeat is under way.  No release, replacement or acquisition can
come between, since the heartbeat has the mutex.  The calls that wait for an answer
are those idle or acquiring, and an acquisition under way is the transaction
(`Asking`), so nobody is answered twice.

**IntegrationQueueProofs.**  The invariant is not about the file alone: a paused
process holds an old copy and may still write it.  A state is *Sound* when what
it calls integrated or archived has landed, what it calls accepted was validated
and reviewed, and so on.  `Sound` is stable, because commits on the target are
never taken back; so the file is sound, every copy is sound, and a process in
the middle of an operation is *Working* on something that fits its program
counter.  The properties follow.  That a run lands once (`LandsOnce`) is not due to the
duplicate check of `enqueue`: all that is validated is what the candidate ref of
its run names (`RefInv`), a ref is never moved, and one candidate fits one base.
Neither the lease nor the number of pauses is used: these properties do not depend
on the lease, only on git's compare-and-swaps and the order of saves.

**RunFlightProofs.**  One invariant `IInv` for all five properties, since the
tables point at each other: ids on record are claimed (`Claimed`); a unit's
pointers lead to its own attempts and only the active one is unfinished
(`UnitLinked`); the latest attempt has no successor yet, and only a unit that is
open alone continues from it (`Chained`, with `Staged`: nothing is open between
two candidates), which gives *PredecessorUnique*; a swarm names a failed attempt
of its unit, no two name the same, and what it selected is a supported finding
of its own lanes (`Diagnosed`), which gives *RepairAuthorized*.
*RescueReconciled* and *ReservationsExact* are conjuncts of it as they stand.

**ChildLifecycleProofs.**  *NoOverlap* first: it makes the two operations one.
*StopDurable* follows the program counter: from the append of the intent (or a
first read that already had it) to the abort the intent stays.
*TeardownQuiet* needs that an admitted release was decided in the same step as
the evidence was read, and that `stopping` keeps messages, and tools other than the
release of the write gate, out from then on; a production needs such a tool
(`Busy`).  The refinement maps `Open`, `Released`, `RecordTerminal` and
`TakeoverSettled` to `Register`, `Release`, `End` and `Replace` or a stutter, and
leans on the released evidence of `Ready`: nothing takes resources back.

**ParallelDispatchProofs.**  Typing, then one invariant `Shape`, the conjunction
of what the durable state, the recovery and the operations know of each other.
The centre is `HeadExact`: the candidate head is exactly the set of accepted,
current implementations of the integrated units; `WavesReady` (the planned wave
depends on integrated units only) and `TasksGrounded` (a task's base is a head it
was given) then give *BasesCurrent*.  *PromotionWhole*: a review can pass only
when nothing is planned, active or left over, and this stays so, since a claimed
decision excludes a cancellation and an integrated unit cannot be demoted; on
the fabric route a run is archived completed only by the promotion.

**ParallelArtifactProofs.**  *ArtifactsKept* holds by the timing of releases,
demotions and integrations against each other.  What makes it inductive is
`Custody`, on top of `Shape`.  An accepted implementation leaves its branch only
by a removal, and only five steps remove one: a released child, a cleaned
suppressed task, a swept worktree, a sweep's failed attempt, and a crash in one
of them.  Each of them finds the implementation *Promised*: kept by its private
ref, by the candidate, by the target, or it is the named exception.  `ReleasedSafe`,
`SweepSafe` and `CandidateHolds` say who promised (a kept or released child's
ref; the siblings' refs during a demotion's sweep; the candidate, then the target,
for what is integrated), and no step takes a promise back while the run is alive
(`PromisedStays`).  The rest is what the promises rest on: an acceptance is
recorded only with its commit on the branch (`Makers`), a unit that waits to
start has no artifact (`Unstarted`), a demotion cleans only siblings that have a
source (`DemotionSound`).  *RunDelivers* is the refinement of `DeliveryTable`:
`integrated` is the candidate head, `status` the archive's terminal reason on the
fabric route.  It puts the results of `ParallelDispatchProofs` together:
`HeadExact` and `WavesReady` make the commit of a transition an integration of a
wave that is new and grounded (`HeadFrame` says nothing else moves the head),
`PromotionWhole` a move of the target a delivery of the whole, and `EndStep` says
how a run can be archived.  On the serial route nothing is integrated here; the
queue delivers.

The assumption `NoneAssumption` says that null is none of the values it stands in
for: transitions, demotions, sets of implementations and outcomes.

`NoTransaction` of `LeaseRegistry` says the same of transactions.

**Model-checked only.**  `EndingAnswered` and `ExpiredEnds`, since the prover does
no liveness under fairness, and the absence of deadlock of the queue, which is
about `ENABLED`.  Every safety invariant, action property and refinement of the
passing runs is a theorem.  Two refinements are theorems only: those of
`LeasePool` and `DeliveryTable`, which no run repeats.

## 5. Plan

Done: goal ledger, mutex and leases, integration queue, run ledger, child
lifecycle, worktrees and parallel dispatch (sections 2 to 4).

1. `GoalController` — the plugin's handlers around `GoalFlight`: each reads a
   snapshot, awaits, appends under the ledger's lock file.  A settlement is
   charged once though hook and recovery both try; a dispatch that is reserved
   is settled or recoverable.  Composes `GoalFlight`.
2. `NativeBackground` — durable dispatch records against the host's events: a
   dispatch is settled at most once in the ledger, though its own record may be
   lost between the two writes.
3. `OperatorMission` — the recovery lock of a mission (publication by rename,
   removal of dead owners) and generations.  `LeaseMutex` is the pattern.
4. The lock of the reflection store and the journal of its managed block.

Theorems to add come with these modules; the refinements of section 4 that are worth
composing are `LeaseMutex` below `LeaseRegistry` and a serial run below
`IntegrationQueue`.

## 6. Not modelled

The components of section 1 that are not in section 2; `PROJECT.json` gives the
reason for each.  Three kinds: those of the plan; decisions over data without a
protocol (gates, schemas, routing, metrics, wording), where a model would repeat
the code; and the outside (git, Docker, hosts), which appears only as the
answers the code can get from it.  Inside the modelled components: the production
of a commit artifact and the critical-path decision (dispatch: any outcome), the
hand-over of a serial run to the queue, setup hooks and path identities of
worktrees, recovery dialogues with a worker (child), validation admissions of a
run (as in the goal ledger), the hash chain and lock file of a ledger, the parsing
of state files and the eviction of old archived runs (queue), the path algebra
of scopes (leases), read-only operations, the command classification of
validations (goal ledger).
