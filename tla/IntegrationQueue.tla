-------------------------- MODULE IntegrationQueue --------------------------
(***************************************************************************)
(* The durable serial integration queue                                     *)
(* (src/core/worktree-integration-queue.ts).  Every operation is a          *)
(* transaction: take the lease, load state.json, work on that copy with     *)
(* intermediate saves, save, release.  A process can die between any two    *)
(* steps; a paused one can lose its lease and go on with the old copy.      *)
(* Between assertHeld and the rename of a save nothing fences it.  The      *)
(* target branch moves under other hands too.                               *)
(*                                                                         *)
(* Abstractions.  The target is its history of tips, a pinned base the      *)
(* length of that history, and a candidate the run, its base and the task   *)
(* a remediation replaced: applying artifacts is deterministic.  A resumed  *)
(* preparation therefore always verifies its synthetic commits.  One owner; *)
(* archived runs are kept by name.  Failure codes, a blocker without an     *)
(* attempt left, the eviction of archived runs after 16 and the validation  *)
(* counter (never above 1 in a run that got that far) are left out.  Any    *)
(* other error of git or the file system is the Crash of the operation.     *)
(***************************************************************************)
EXTENDS Naturals, Sequences, FiniteSets

CONSTANTS
  Procs,        \* processes that call the queue
  Runs,         \* runs whose archive may be enqueued
  Tasks,        \* of each run: its number of tasks, in dependency order
  Conflicting,  \* of each run and base: the tasks whose patch conflicts
  MaxHistory,   \* bound: moves of the target branch
  MaxPauses,    \* bound: leases lost by a process that goes on
  None

ASSUME QueueAssumption ==
  /\ Tasks \in [Runs -> Nat \ {0}] /\ MaxHistory \in Nat /\ MaxPauses \in Nat
  /\ Conflicting \in [Runs \X (0..MaxHistory) -> SUBSET Nat]
  /\ None \notin Procs

VARIABLES
  history,    \* the tips the target branch had, oldest first
  disk,       \* state.json
  lease,      \* the process the scope-lease registry gave the queue to
  refs,       \* of each run: the candidate its candidate ref names
  worktrees,  \* runs that still have managed worktrees, with their number
  pc, call, mem, then,  \* of each process: its step, its call, its copy, the step after a save
  pauses,     \* leases lost by a process that goes on
  validated,  \* history: candidates that passed validation
  approved    \* history: candidates a reviewer passed

outside == <<history, refs, worktrees>>
process == <<pc, call, mem, then>>
ghosts == <<validated, approved>>
vars == <<outside, disk, lease, process, pauses, ghosts>>

Foreign == [by |-> "others"]
Candidate(q) == [by |-> "queue", run |-> q.run, base |-> q.base, fix |-> q.fix]
Pending == [status |-> "pending", head |-> None]

Init ==
  /\ history = <<>> /\ disk = [active |-> None, archived |-> {}] /\ lease = None
  /\ refs = [r \in Runs |-> None] /\ worktrees = Tasks
  /\ pc = [p \in Procs |-> "idle"] /\ call = [p \in Procs |-> None]
  /\ mem = [p \in Procs |-> disk] /\ then = [p \in Procs |-> "idle"]
  /\ pauses = 0 /\ validated = {} /\ approved = {}

-----------------------------------------------------------------------------
Empty == [active |-> None, archived |-> {}]
Goto(p, label) == pc' = [pc EXCEPT ![p] = label] /\ UNCHANGED <<lease, call, mem, then>>
\* The copy gets queue q, is saved, and the operation goes on at the label.
SaveState(p, state, label) ==
  /\ pc' = [pc EXCEPT ![p] = "check"]
  /\ mem' = [mem EXCEPT ![p] = state] /\ then' = [then EXCEPT ![p] = label]
  /\ UNCHANGED <<lease, call>>
SaveQueue(p, q, label) == SaveState(p, [mem[p] EXCEPT !.active = q], label)
\* The copy is gone: with the process, or when the transaction ends.
Forget(p, label, c) ==
  /\ pc' = [pc EXCEPT ![p] = label] /\ call' = [call EXCEPT ![p] = c]
  /\ mem' = [mem EXCEPT ![p] = Empty] /\ then' = [then EXCEPT ![p] = "idle"]
Free(p) == lease' = IF lease = p THEN None ELSE lease
Throw(p) == Forget(p, "idle", None) /\ Free(p)

Queue(p) == mem[p].active
\* requireQueue and findArchived.
Archived(p) == call[p].run \in mem[p].archived
Owned(p) == Queue(p) # None /\ Queue(p).run = call[p].run

\* The transaction ends well.  An accepted integration is cleaned up in another one.
Integrated(p) == IF Owned(p) THEN Queue(p).phase = "integrated" ELSE TRUE
Finish(p) ==
  /\ IF call[p].op = "accept" /\ Integrated(p)
     THEN Forget(p, "again", [op |-> "cleanup", run |-> call[p].run])
     ELSE Forget(p, "idle", None)
  /\ Free(p)

\* The target names an artifact of the run's archive; a replacement is not in it.
Duplicate(r) ==
  \E i \in 1..Len(history) :
    history[i].by = "queue" /\ history[i].run = r /\ \E t \in 1..Tasks[r] : t # history[i].fix
\* rev-parse of the target: still the pinned base, or a candidate.
AtBase(q) == Len(history) = q.base
At(c) == history # <<>> /\ history[Len(history)] = c

Failed(q) == [q EXCEPT !.phase = "failed"]

\* Variant: a passed review counts as the acceptance.
AcceptedByReview(q) == q.head # None /\ q.review.status = "pass"

\* An interrupted acceptance whose update-ref did happen.
Accepted(q) == q.head # None /\ At(q.head) /\ q.review.status = "pass"

-----------------------------------------------------------------------------
(* The transaction around every operation *)

Ops == {"enqueue", "prepare", "accept", "remediate", "cleanup"}
Calls == [op : Ops \ {"accept"}, run : Runs]
Decisions(C) == [op : {"accept"}, run : Runs, head : C, verdict : {"pass", "fail"}]

\* The lease, and a fresh copy of the state.
Start(p, c) ==
  /\ lease' = p /\ mem' = [mem EXCEPT ![p] = disk]
  /\ pc' = [pc EXCEPT ![p] = c.op] /\ call' = [call EXCEPT ![p] = c]
  /\ UNCHANGED <<outside, disk, then, ghosts>>

\* A call that finds the lease held is refused (queue-lease).
Call(p, c) == pc[p] = "idle" /\ lease = None /\ Start(p, c)

\* The cleanup after an acceptance.
Again(p) ==
  /\ pc[p] = "again"
  /\ IF lease = None THEN Start(p, call[p]) ELSE Throw(p) /\ UNCHANGED <<outside, disk, ghosts>>

\* save: assertHeld, the temporary file, and the rename over state.json.
Check(p) ==
  /\ pc[p] = "check"
  /\ IF lease = p THEN Goto(p, "write") ELSE Throw(p)
  /\ UNCHANGED <<outside, disk, ghosts>>

Write(p) ==
  /\ pc[p] = "write"
  /\ disk' = mem[p]
  /\ IF then[p] = "finish" THEN Finish(p) ELSE Goto(p, then[p])
  /\ UNCHANGED <<outside, ghosts>>

-----------------------------------------------------------------------------
(* enqueue *)

NewQueue(r, alike) ==
  [run |-> r, base |-> Len(history), phase |-> IF alike THEN "queued" ELSE "failed",
   applied |-> 0, fix |-> 0, head |-> None, validation |-> Pending, review |-> Pending, blocked |-> 0]

\* An archived or active run is answered from the state.  A target that has an
\* archived artifact of the run already refuses it (duplicate-artifact).  Tasks that
\* name different validation commands fail the queue at once.
Enqueue(p, alike) ==
  /\ pc[p] = "enqueue"
  /\ IF Archived(p) \/ Owned(p) THEN Finish(p)
     ELSE IF Queue(p) # None \/ Duplicate(call[p].run) THEN Throw(p)
     ELSE SaveQueue(p, NewQueue(call[p].run, alike), "finish")
  /\ UNCHANGED <<outside, disk, ghosts>>

-----------------------------------------------------------------------------
(* prepare *)

Prepare(p, safe) ==
  /\ pc[p] = "prepare"
  /\ LET q == Queue(p) IN
     IF Archived(p) THEN Finish(p)
     ELSE IF ~Owned(p) THEN Throw(p)
     ELSE IF Accepted(q) THEN SaveQueue(p, [q EXCEPT !.phase = "integrated"], "finish")
     ELSE IF q.phase \in {"integrated", "prepared"} THEN Finish(p)
     ELSE IF q.phase \in {"failed", "remediation"} THEN Throw(p)
     ELSE IF ~AtBase(q) \/ ~safe THEN SaveQueue(p, Failed(q), "finish")
     ELSE SaveQueue(p, [q EXCEPT !.phase = "preparing"], "apply")
  /\ UNCHANGED <<outside, disk, ghosts>>

\* The replacement artifact was made on the very head its task applies to.
Conflicts(q) == q.applied + 1 \in Conflicting[q.run, q.base] /\ q.fix # q.applied + 1

\* Variant: the loop goes one task too far.
ApplyPast(p, ok) ==
  /\ pc[p] = "apply" /\ Queue(p).applied <= Tasks[Queue(p).run]
  /\ SaveQueue(p, [Queue(p) EXCEPT !.applied = @ + 1], "apply")
  /\ UNCHANGED <<outside, disk, ghosts>>

\* The next artifact: a conflict allows one remediation, any other error fails.
Apply(p, ok) ==
  /\ pc[p] = "apply" /\ Queue(p).applied < Tasks[Queue(p).run]
  /\ LET q == Queue(p) IN
     IF Conflicts(q)
     THEN IF q.fix # 0 THEN SaveQueue(p, Failed(q), "finish")
          ELSE SaveQueue(p, [q EXCEPT !.phase = "remediation", !.blocked = q.applied + 1], "finish")
     ELSE IF ~ok THEN SaveQueue(p, Failed(q), "finish")
     ELSE SaveQueue(p, [q EXCEPT !.applied = @ + 1], "apply")
  /\ UNCHANGED <<outside, disk, ghosts>>

\* All artifacts applied: the candidate gets its ref, unless the ref has another.
Publish(p) ==
  /\ pc[p] = "apply" /\ Queue(p).applied = Tasks[Queue(p).run]
  /\ LET q == Queue(p)
         c == Candidate(q) IN
     IF refs[q.run] \in {None, c}
     THEN /\ refs' = [refs EXCEPT ![q.run] = c]
          /\ SaveQueue(p, [q EXCEPT !.head = c], "validate")
     ELSE SaveQueue(p, [Failed(q) EXCEPT !.head = c], "finish") /\ UNCHANGED refs
  /\ UNCHANGED <<history, worktrees, disk, ghosts>>

\* Conflict markers and the contained validation of the candidate.
Validate(p, ok) ==
  /\ pc[p] = "validate"
  /\ LET q == Queue(p) IN
     IF ok
     THEN /\ validated' = validated \cup {q.head}
          /\ SaveQueue(p, [q EXCEPT !.phase = "prepared", !.blocked = 0,
                            !.validation = [status |-> "pass", head |-> q.head]], "finish")
     ELSE /\ SaveQueue(p, [Failed(q) EXCEPT !.validation = [status |-> "fail", head |-> q.head]], "finish")
          /\ UNCHANGED validated
  /\ UNCHANGED <<outside, disk, approved>>

-----------------------------------------------------------------------------
(* accept *)

\* What a reviewer passed, on whatever snapshot.
Decided(p) ==
  approved' = IF call[p].verdict = "pass" THEN approved \cup {call[p].head} ELSE approved

\* Variant: the decision counts for whatever candidate is prepared.
AcceptAny(p) ==
  /\ pc[p] = "accept"
  /\ LET q == Queue(p) IN
     IF Archived(p) THEN Finish(p)
     ELSE IF ~Owned(p) THEN Throw(p)
     ELSE IF Accepted(q) THEN SaveQueue(p, [q EXCEPT !.phase = "integrated"], "finish")
     ELSE IF q.phase # "prepared" THEN Throw(p)
     ELSE SaveQueue(p, [q EXCEPT !.review = [status |-> call[p].verdict, head |-> call[p].head]], "decide")
  /\ Decided(p) /\ UNCHANGED <<outside, disk, validated>>

Accept(p) ==
  /\ pc[p] = "accept"
  /\ LET q == Queue(p) IN
     IF Archived(p) THEN Finish(p)
     ELSE IF ~Owned(p) THEN Throw(p)
     ELSE IF Accepted(q) THEN SaveQueue(p, [q EXCEPT !.phase = "integrated"], "finish")
     ELSE IF q.phase # "prepared" \/ q.head # call[p].head
             \/ q.validation # [status |-> "pass", head |-> q.head] THEN Throw(p)
     ELSE SaveQueue(p, [q EXCEPT !.review = [status |-> call[p].verdict, head |-> call[p].head]], "decide")
  /\ Decided(p) /\ UNCHANGED <<outside, disk, validated>>

Decide(p, safe) ==
  /\ pc[p] = "decide"
  /\ LET q == Queue(p) IN
     IF call[p].verdict = "fail" \/ ~safe \/ ~AtBase(q) THEN SaveQueue(p, Failed(q), "finish")
     ELSE Goto(p, "cas")
  /\ UNCHANGED <<outside, disk, ghosts>>

\* Variant: update-ref without the old value.
CasForced(p, done, reported) ==
  /\ pc[p] = "cas" /\ Len(history) < MaxHistory
  /\ LET q == Queue(p) IN
       /\ history' = Append(history, q.head)
       /\ IF reported THEN SaveQueue(p, [q EXCEPT !.phase = "integrated"], "finish")
          ELSE SaveQueue(p, Failed(q), "finish")
  /\ UNCHANGED <<refs, worktrees, disk, ghosts>>

\* update-ref with the pinned base as old value.  It can fail, or time out with
\* its work done; either is recorded as a failure.
Cas(p, done, reported) ==
  /\ pc[p] = "cas"
  /\ LET q == Queue(p) IN
     IF AtBase(q) /\ Len(history) < MaxHistory /\ done
     THEN /\ history' = Append(history, q.head)
          /\ IF reported THEN SaveQueue(p, [q EXCEPT !.phase = "integrated"], "finish")
             ELSE SaveQueue(p, Failed(q), "finish")
     ELSE /\ SaveQueue(p, Failed(q), "finish")
          /\ UNCHANGED history
  /\ UNCHANGED <<refs, worktrees, disk, ghosts>>

-----------------------------------------------------------------------------
(* submitRemediation and cleanup *)

\* One replacement for the task that conflicted; everything after it is redone.
Remediate(p) ==
  /\ pc[p] = "remediate"
  /\ LET q == Queue(p) IN
     IF Owned(p) /\ q.phase = "remediation" /\ q.blocked # 0 /\ q.fix = 0
     THEN SaveQueue(p, [q EXCEPT !.fix = q.blocked, !.applied = q.blocked - 1, !.blocked = 0,
                         !.head = None, !.validation = Pending, !.review = Pending,
                         !.phase = "queued"], "finish")
     ELSE Throw(p)
  /\ UNCHANGED <<outside, disk, ghosts>>

\* Variant: cleanup of any run the queue has.
CleanupEarly(p, r, n) ==
  /\ pc[p] = "cleanup" /\ r = call[p].run /\ n <= worktrees[r]
  /\ IF Archived(p) THEN Finish(p) /\ UNCHANGED worktrees
     ELSE IF ~Owned(p) THEN Throw(p) /\ UNCHANGED worktrees
     ELSE /\ worktrees' = [worktrees EXCEPT ![r] = n]
          /\ IF n = 0
             THEN SaveState(p, [active |-> None, archived |-> mem[p].archived \cup {r}], "finish")
             ELSE SaveQueue(p, Queue(p), "finish")
  /\ UNCHANGED <<history, refs, disk, ghosts>>

\* Each worktree is removed or stays for a later cleanup; without any left the run
\* is archived.
Cleanup(p, r, n) ==
  /\ pc[p] = "cleanup" /\ r = call[p].run /\ n <= worktrees[r]
  /\ IF Archived(p) THEN Finish(p) /\ UNCHANGED worktrees
     ELSE IF ~Owned(p) \/ Queue(p).phase # "integrated" THEN Throw(p) /\ UNCHANGED worktrees
     ELSE /\ worktrees' = [worktrees EXCEPT ![r] = n]
          /\ IF n = 0
             THEN SaveState(p, [active |-> None, archived |-> mem[p].archived \cup {r}], "finish")
             ELSE SaveQueue(p, Queue(p), "finish")
  /\ UNCHANGED <<history, refs, disk, ghosts>>

-----------------------------------------------------------------------------
(* What happens around the queue *)

\* The process was paused for longer than the lease lasts, and goes on later.
LoseLease ==
  /\ lease # None /\ pauses < MaxPauses
  /\ lease' = None /\ pauses' = pauses + 1
  /\ UNCHANGED <<outside, disk, process, ghosts>>

\* The process dies and its lease expires, or an unexpected error releases it.
Crash(p) ==
  /\ pc[p] # "idle"
  /\ Throw(p)
  /\ UNCHANGED <<outside, disk, ghosts>>

\* Somebody else's commit.
TargetMoves ==
  /\ Len(history) < MaxHistory
  /\ history' = Append(history, Foreign)
  /\ UNCHANGED <<refs, worktrees, disk, lease, process, ghosts>>

Shown == {refs[r] : r \in Runs} \ {None}
Step(p) ==
  \/ \E c \in Calls \cup Decisions(Shown) : Call(p, c)
  \/ Again(p) \/ Check(p) \/ Write(p)
  \/ \E alike \in BOOLEAN : Enqueue(p, alike)
  \/ \E safe \in BOOLEAN : Prepare(p, safe) \/ Decide(p, safe)
  \/ \E ok \in BOOLEAN : Apply(p, ok) \/ Validate(p, ok)
  \/ Publish(p) \/ Accept(p)
  \/ \E done, reported \in BOOLEAN : Cas(p, done, reported)
  \/ Remediate(p)
  \/ \E r \in Runs : \E n \in 0..Tasks[r] : Cleanup(p, r, n)
  \/ Crash(p)

Next ==
  \/ (\E p \in Procs : Step(p)) /\ UNCHANGED pauses
  \/ LoseLease
  \/ TargetMoves /\ UNCHANGED pauses
Spec == Init /\ [][Next]_vars

-----------------------------------------------------------------------------
(* Properties *)

Commits == [by : {"queue"}, run : Runs, base : Nat, fix : Nat]
Evidence == [status : {"pending", "pass", "fail"}, head : Commits \cup {None}]
QueueRecord ==
  [run : Runs, base : Nat, phase : {"queued", "preparing", "remediation", "prepared", "integrated", "failed"},
   applied : Nat, fix : Nat, head : Commits \cup {None},
   validation : Evidence, review : Evidence, blocked : Nat]
ASSUME NoneAssumption == None \notin QueueRecord \cup Commits

States == [active : QueueRecord \cup {None}, archived : SUBSET Runs]
Wellformed(state) ==
  /\ state \in States
  /\ state.active # None => state.active.applied <= Tasks[state.active.run]
Labels == {"idle", "again", "apply", "validate", "decide", "cas", "check", "write",
           "finish"} \cup Ops

\* The shape of the branch, the file and the processes' copies of it.
TypeOK ==
  /\ history \in Seq(Commits \cup {Foreign}) /\ Wellformed(disk) /\ lease \in Procs \cup {None}
  /\ refs \in [Runs -> Commits \cup {None}] /\ worktrees \in [Runs -> Nat]
  /\ pc \in [Procs -> Labels] /\ call \in [Procs -> Calls \cup Decisions(Commits) \cup {None}]
  /\ mem \in [Procs -> States] /\ (\A p \in Procs : Wellformed(mem[p])) /\ then \in [Procs -> Labels]
  /\ pauses \in 0..MaxPauses /\ validated \subseteq Commits /\ approved \subseteq Commits

\* Only a candidate that passed validation and review reaches the target, even when
\* leases expire under paused processes and stale copies overwrite the state.
TargetReviewed ==
  \A i \in 1..Len(history) : history[i] # Foreign => history[i] \in validated \cap approved

\* A candidate lands exactly on the base it was made from, so it never drops
\* somebody else's commit.
LandsOnBase == \A i \in 1..Len(history) : history[i] # Foreign => history[i].base = i - 1

\* A run lands at most once, though its decision can be given to two processes and a
\* stale copy of the state can bring an integrated run back.
LandsOnce ==
  \A i, j \in 1..Len(history) :
    history[i] # Foreign /\ history[j] # Foreign /\ history[i].run = history[j].run => i = j

\* Nothing the target holds is overwritten or applied a second time.
LandsOnceOnBase == LandsOnBase /\ LandsOnce

Landed(r) == \E i \in 1..Len(history) : history[i].by = "queue" /\ history[i].run = r

\* What is recorded as integrated or archived is on the target.
IntegratedLanded ==
  /\ disk.active # None /\ disk.active.phase = "integrated" => Landed(disk.active.run)
  /\ \A r \in disk.archived : Landed(r)

\* A run keeps its worktrees, the only copy of its work, until it has landed.
WorktreesKept == \A r \in Runs : worktrees[r] < Tasks[r] => Landed(r)

\* A failed queue has left the target unchanged.
FailedLeavesTarget ==
  disk.active # None /\ disk.active.phase = "failed" => ~Landed(disk.active.run)
=============================================================================
