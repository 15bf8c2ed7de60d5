----------------------- MODULE IntegrationQueueProofs -----------------------
(***************************************************************************)
(* The integration queue lands only validated and reviewed candidates on    *)
(* their own base, and each run once, for any number of processes, runs     *)
(* and tasks, and however many leases are lost.                             *)
(***************************************************************************)
EXTENDS IntegrationQueue, TLAPS

USE QueueAssumption, NoneAssumption

\* On branch h there is a candidate of the run.
LandedOn(h, r) == \E i \in 1..Len(h) : h[i].by = "queue" /\ h[i].run = r

\* A queue record tells the truth about branch h and the validated candidates v.
SoundQueue(q, h, v) ==
  /\ q \in QueueRecord /\ q.applied <= Tasks[q.run] /\ q.blocked <= Tasks[q.run]
  /\ q.head # None => q.head.run = q.run /\ q.head.base = q.base
  /\ q.validation.status = "pass" => q.validation.head \in v
  /\ q.phase = "integrated" => LandedOn(h, q.run)

\* So does a state, the one on disk or a process's copy.
Sound(s, h, v) ==
  /\ s \in States
  /\ s.active # None => SoundQueue(s.active, h, v)
  /\ \A r \in s.archived : LandedOn(h, r)

\* The step a process is at, or goes on with once the save is done.
Ahead(l, t) == IF l \in {"check", "write"} THEN t ELSE l

\* What a process at step l knows, with call c, copy s and t after the save.  The
\* decision being carried out is about the validated candidate of the copy.
Working(l, c, s, t, a) ==
  /\ l \in Labels /\ t \in Labels /\ c \in Calls \cup Decisions(Commits) \cup {None}
  /\ l # "idle" => c \in Calls \cup Decisions(Commits)
  /\ l \in {"check", "write"} => t \in {"finish", "apply", "validate", "decide"}
  /\ l \in Ops => c.op = l
  /\ l = "again" => c.op = "cleanup"
  /\ Ahead(l, t) \in {"apply", "validate", "decide", "cas"} => s.active \in QueueRecord
  /\ Ahead(l, t) = "validate" => s.active.head \in Commits
  /\ Ahead(l, t) \in {"decide", "cas"} =>
       /\ c \in Decisions(Commits) /\ s.active.head = c.head
       /\ s.active.validation = [status |-> "pass", head |-> c.head]
       /\ c.verdict = "pass" => c.head \in a
  /\ l = "cas" => c.verdict = "pass"

\* Everything that holds of the processes.
ProcessInv ==
  /\ lease \in Procs \cup {None}
  /\ pc \in [Procs -> Labels] /\ call \in [Procs -> Calls \cup Decisions(Commits) \cup {None}]
  /\ mem \in [Procs -> States] /\ then \in [Procs -> Labels]
  /\ \A p \in Procs : /\ Sound(mem[p], history, validated)
                      /\ Working(pc[p], call[p], mem[p], then[p], approved)

\* Everything that holds of the branch, the refs, the worktrees and the ghosts.
OutsideInv ==
  /\ history \in Seq(Commits \cup {Foreign})
  /\ refs \in [Runs -> Commits \cup {None}] /\ worktrees \in [Runs -> Nat]
  /\ pauses \in 0..MaxPauses /\ validated \subseteq Commits /\ approved \subseteq Commits
  /\ TargetReviewed /\ LandsOnBase /\ WorktreesKept

QueueInv == OutsideInv /\ ProcessInv /\ Sound(disk, history, validated)

\* The branch and the evidence only grow.
Grows ==
  /\ history' = history \/ (\E x \in Commits \cup {Foreign} : history' = Append(history, x))
  /\ validated \subseteq validated' /\ approved \subseteq approved'

-----------------------------------------------------------------------------
(* What the steps have in common *)

LEMMA LandedStays ==
  ASSUME history \in Seq(Commits \cup {Foreign}), Grows, NEW r, LandedOn(history, r)
  PROVE  LandedOn(history', r)
<1>1. CASE history' = history
  BY <1>1
<1>2. ASSUME NEW x \in Commits \cup {Foreign}, history' = Append(history, x)
      PROVE  LandedOn(history', r)
  <2>1. Len(history') = Len(history) + 1 /\ \A i \in 1..Len(history) : history'[i] = history[i]
    BY <1>2
  <2> QED
    BY <2>1 DEF LandedOn
<1> QED
  BY <1>1, <1>2 DEF Grows

\* A sound state stays sound.
LEMMA SoundStays ==
  ASSUME history \in Seq(Commits \cup {Foreign}), Grows, NEW s, Sound(s, history, validated)
  PROVE  Sound(s, history', validated')
BY LandedStays DEF Sound, SoundQueue, Grows

LEMMA WorkingStays ==
  ASSUME Grows, NEW l, NEW c, NEW s, NEW t, Working(l, c, s, t, approved)
  PROVE  Working(l, c, s, t, approved')
BY DEF Working, Grows

\* Only process p moves, and knows what it must: all processes are fine.
LEMMA OneMoves ==
  ASSUME OutsideInv, ProcessInv, Grows, NEW p \in Procs, NEW l, NEW c, NEW s, NEW t,
         lease' \in Procs \cup {None},
         pc' = [pc EXCEPT ![p] = l], call' = [call EXCEPT ![p] = c],
         mem' = [mem EXCEPT ![p] = s], then' = [then EXCEPT ![p] = t],
         Sound(s, history', validated'), Working(l, c, s, t, approved')
  PROVE  ProcessInv'
<1>1. l \in Labels /\ t \in Labels /\ c \in Calls \cup Decisions(Commits) \cup {None} /\ s \in States
  BY DEF Working, Sound
<1>2. /\ pc' \in [Procs -> Labels] /\ call' \in [Procs -> Calls \cup Decisions(Commits) \cup {None}]
      /\ mem' \in [Procs -> States] /\ then' \in [Procs -> Labels]
  BY <1>1 DEF ProcessInv
<1>3. ASSUME NEW q \in Procs
      PROVE  /\ Sound(mem'[q], history', validated')
             /\ Working(pc'[q], call'[q], mem'[q], then'[q], approved')
  <2>1. CASE q = p
    BY <2>1 DEF ProcessInv
  <2>2. CASE q # p
    <3>1. pc'[q] = pc[q] /\ call'[q] = call[q] /\ mem'[q] = mem[q] /\ then'[q] = then[q]
      BY <2>2 DEF ProcessInv
    <3> QED
      BY <3>1, SoundStays, WorkingStays DEF ProcessInv, OutsideInv
  <2> QED
    BY <2>1, <2>2
<1> QED
  BY <1>2, <1>3 DEF ProcessInv

\* No process moves.
LEMMA NoneMoves ==
  ASSUME OutsideInv, ProcessInv, Grows, lease' \in Procs \cup {None}, UNCHANGED process
  PROVE  ProcessInv'
BY SoundStays, WorkingStays DEF ProcessInv, OutsideInv, process

\* The copy is dropped.
LEMMA ForgetKeeps ==
  ASSUME OutsideInv, ProcessInv, Grows, NEW p \in Procs, NEW l, NEW c,
         Forget(p, l, c), Free(p),
         (l = "idle" /\ c = None) \/ (l = "again" /\ c \in Calls /\ c.op = "cleanup")
  PROVE  ProcessInv'
<1>1. Sound(Empty, history', validated')
  BY DEF Sound, Empty, States
<1>2. Working(l, c, Empty, "idle", approved')
  BY DEF Working, Labels, Ahead, Ops
<1>3. lease' \in Procs \cup {None}
  BY DEF Free, ProcessInv
<1> QED
  BY <1>1, <1>2, <1>3, OneMoves DEF Forget

LEMMA ThrowKeeps ==
  ASSUME OutsideInv, ProcessInv, Grows, NEW p \in Procs, Throw(p)
  PROVE  ProcessInv'
BY ForgetKeeps DEF Throw

LEMMA FinishKeeps ==
  ASSUME OutsideInv, ProcessInv, Grows, NEW p \in Procs, pc[p] # "idle", Finish(p)
  PROVE  ProcessInv'
<1>1. call[p].run \in Runs
  BY DEF ProcessInv, Working, Calls, Decisions
<1>2. [op |-> "cleanup", run |-> call[p].run] \in Calls
  BY <1>1 DEF Calls, Ops
<1> QED
  BY <1>2, ForgetKeeps DEF Finish

\* The process goes on with its copy, at the label.
LEMMA GotoKeeps ==
  ASSUME OutsideInv, ProcessInv, Grows, NEW p \in Procs, NEW l, Goto(p, l),
         Working(l, call[p], mem[p], then[p], approved')
  PROVE  ProcessInv'
<1>1. Sound(mem[p], history', validated')
  BY SoundStays DEF OutsideInv, ProcessInv
<1>2. /\ call' = [call EXCEPT ![p] = call[p]] /\ mem' = [mem EXCEPT ![p] = mem[p]]
      /\ then' = [then EXCEPT ![p] = then[p]] /\ lease' \in Procs \cup {None}
  BY DEF Goto, ProcessInv
<1> QED
  BY <1>1, <1>2, OneMoves DEF Goto

\* The process is about to save state s.
LEMMA SaveKeeps ==
  ASSUME OutsideInv, ProcessInv, Grows, NEW p \in Procs, NEW s, NEW t, SaveState(p, s, t),
         Sound(s, history', validated'), Working("check", call[p], s, t, approved')
  PROVE  ProcessInv'
<1>1. call' = [call EXCEPT ![p] = call[p]] /\ lease' \in Procs \cup {None}
  BY DEF SaveState, ProcessInv
<1> QED
  BY <1>1, OneMoves DEF SaveState

\* A copy whose active queue changes stays sound.
LEMMA SoundReplaced ==
  ASSUME OutsideInv, ProcessInv, Grows, NEW p \in Procs, NEW q, SoundQueue(q, history', validated')
  PROVE  /\ Sound([mem[p] EXCEPT !.active = q], history', validated')
         /\ [mem[p] EXCEPT !.active = q].active = q
<1> DEFINE s == [mem[p] EXCEPT !.active = q]
<1>1. mem[p] \in States /\ Sound(mem[p], history', validated')
  BY SoundStays DEF OutsideInv, ProcessInv
<1>2. q \in QueueRecord
  BY DEF SoundQueue
<1>3. s \in States /\ s.active = q /\ s.archived = mem[p].archived
  BY <1>1, <1>2 DEF States
<1> QED
  BY <1>1, <1>3 DEF Sound

\* A queue is saved on the way to the end, or to the next task.
LEMMA SaveQueueKeeps ==
  ASSUME OutsideInv, ProcessInv, Grows, NEW p \in Procs, NEW q, NEW t, SaveQueue(p, q, t),
         SoundQueue(q, history', validated'), pc[p] # "idle", t \in {"finish", "apply"}
  PROVE  ProcessInv'
<1> DEFINE s == [mem[p] EXCEPT !.active = q]
<1>1. Sound(s, history', validated') /\ s.active = q
  BY SoundReplaced
<1>2. Working("check", call[p], s, t, approved')
  BY <1>1 DEF Working, ProcessInv, Labels, Ahead, Ops, SoundQueue
<1> QED
  BY <1>1, <1>2, SaveKeeps DEF SaveQueue

\* The branch does not move.
LEMMA OutsideStays ==
  ASSUME OutsideInv, history' = history, validated \subseteq validated', approved \subseteq approved',
         validated' \subseteq Commits, approved' \subseteq Commits,
         refs' \in [Runs -> Commits \cup {None}], worktrees' = worktrees, pauses' = pauses
  PROVE  OutsideInv' /\ Grows
BY DEF OutsideInv, Grows, TargetReviewed, LandsOnBase, WorktreesKept, Landed

\* The branch moves, by a foreign commit or a reviewed candidate on its base.
LEMMA OutsideMoves ==
  ASSUME OutsideInv, NEW x \in Commits \cup {Foreign}, history' = Append(history, x),
         x # Foreign => x \in validated \cap approved /\ x.base = Len(history),
         UNCHANGED <<refs, worktrees, pauses, ghosts>>
  PROVE  OutsideInv' /\ Grows
<1>1. history' \in Seq(Commits \cup {Foreign}) /\ Len(history') = Len(history) + 1
      /\ history'[Len(history) + 1] = x /\ \A i \in 1..Len(history) : history'[i] = history[i]
  BY DEF OutsideInv
<1>2. Len(history) \in Nat
  BY DEF OutsideInv
<1>3. \A i \in 1..Len(history') : i \in 1..Len(history) \/ i = Len(history) + 1
  BY <1>1, <1>2
<1>4. TargetReviewed'
  BY <1>1, <1>3 DEF OutsideInv, TargetReviewed, ghosts
<1>5. LandsOnBase'
  BY <1>1, <1>2, <1>3 DEF OutsideInv, LandsOnBase
<1>6. Grows
  BY DEF Grows, ghosts
<1>7. WorktreesKept'
  BY <1>6, LandedStays DEF OutsideInv, WorktreesKept, Landed, LandedOn
<1> QED
  BY <1>1, <1>4, <1>5, <1>6, <1>7 DEF OutsideInv, ghosts

\* Only the processes move.
LEMMA Quiet ==
  ASSUME QueueInv, UNCHANGED <<outside, disk, pauses, ghosts>>, OutsideInv /\ Grows => ProcessInv'
  PROVE  QueueInv'
<1>1. OutsideInv' /\ Grows
  BY OutsideStays DEF QueueInv, OutsideInv, outside, ghosts
<1> QED
  BY <1>1, SoundStays DEF QueueInv, OutsideInv, outside, ghosts

\* The run of a call, and its queue when the process holds it.
LEMMA OwnQueue ==
  ASSUME ProcessInv, NEW p \in Procs, pc[p] # "idle"
  PROVE  /\ call[p].run \in Runs
         /\ Owned(p) => SoundQueue(Queue(p), history, validated) /\ Queue(p).run = call[p].run
         /\ mem[p] \in States /\ Sound(mem[p], history, validated)
BY DEF ProcessInv, Working, Calls, Decisions, Owned, Sound, Queue

-----------------------------------------------------------------------------
(* Every step keeps the invariant *)

LEMMA QueueInit == Init => QueueInv
<1> SUFFICES ASSUME Init PROVE QueueInv
  OBVIOUS
<1>1. Sound(Empty, history, validated) /\ disk = Empty /\ mem = [p \in Procs |-> Empty]
  BY DEF Init, Sound, Empty, States
<1>2. Working("idle", None, Empty, "idle", approved)
  BY DEF Working, Labels, Ahead, Ops
<1>3. ProcessInv
  BY <1>1, <1>2 DEF Init, ProcessInv, Labels, Sound
<1>4. OutsideInv
  BY DEF Init, OutsideInv, TargetReviewed, LandsOnBase, WorktreesKept
<1> QED
  BY <1>1, <1>3, <1>4 DEF QueueInv

LEMMA CallKeeps ==
  ASSUME QueueInv, NEW p \in Procs, UNCHANGED pauses,
         \/ \E c \in Calls \cup Decisions(Shown) : Call(p, c)
         \/ Again(p)
  PROVE  QueueInv'
<1>1. Shown \subseteq Commits
  BY DEF Shown, QueueInv, OutsideInv
<1>2. Decisions(Shown) \subseteq Decisions(Commits)
  BY <1>1 DEF Decisions
<1>3. ASSUME NEW c \in Calls \cup Decisions(Commits), Start(p, c) PROVE QueueInv'
  <2> SUFFICES ASSUME OutsideInv, Grows PROVE ProcessInv'
    BY <1>3, Quiet DEF Start
  <2>1. then' = [then EXCEPT ![p] = then[p]] /\ then[p] \in Labels
    BY <1>3 DEF Start, QueueInv, ProcessInv
  <2>2. c.op \in Ops
    BY DEF Calls, Decisions, Ops
  <2>3. Working(c.op, c, disk, then[p], approved')
    BY <2>1, <2>2 DEF Working, Labels, Ahead, Ops
  <2>4. Sound(disk, history', validated')
    BY SoundStays DEF QueueInv, OutsideInv
  <2> QED
    BY <1>3, <2>1, <2>3, <2>4, OneMoves DEF Start, QueueInv
<1>4. CASE \E c \in Calls \cup Decisions(Shown) : Call(p, c)
  BY <1>2, <1>3, <1>4 DEF Call
<1>5. CASE Again(p)
  <2>1. call[p] \in Calls \cup Decisions(Commits)
    BY <1>5 DEF Again, QueueInv, ProcessInv, Working
  <2>2. CASE Throw(p) /\ UNCHANGED <<outside, disk, ghosts>>
    BY <2>2, Quiet, ThrowKeeps DEF QueueInv
  <2> QED
    BY <1>3, <1>5, <2>1, <2>2 DEF Again
<1> QED
  BY <1>4, <1>5

LEMMA CheckKeeps ==
  ASSUME QueueInv, NEW p \in Procs, UNCHANGED pauses, Check(p)
  PROVE  QueueInv'
<1> SUFFICES ASSUME OutsideInv, Grows PROVE ProcessInv'
  BY Quiet DEF Check
<1>1. CASE Goto(p, "write")
  <2>1. Working("write", call[p], mem[p], then[p], approved')
    BY WorkingStays DEF Check, QueueInv, ProcessInv, Working, Labels, Ahead, Grows, Ops
  <2> QED
    BY <1>1, <2>1, GotoKeeps DEF QueueInv
<1> QED
  BY <1>1, ThrowKeeps DEF Check, QueueInv

LEMMA WriteKeeps ==
  ASSUME QueueInv, NEW p \in Procs, UNCHANGED pauses, Write(p)
  PROVE  QueueInv'
<1>1. OutsideInv' /\ Grows
  BY OutsideStays DEF QueueInv, OutsideInv, outside, ghosts, Write
<1>2. Sound(disk', history', validated')
  BY <1>1, SoundStays DEF Write, QueueInv, OutsideInv, ProcessInv
<1>3. pc[p] = "write" /\ pc[p] # "idle"
  BY DEF Write
<1>4. ASSUME Finish(p) PROVE ProcessInv'
  BY <1>1, <1>3, <1>4, FinishKeeps DEF QueueInv
<1>5. ASSUME then[p] # "finish", Goto(p, then[p]) PROVE ProcessInv'
  <2>1. Working(then[p], call[p], mem[p], then[p], approved')
    BY <1>1, <1>3, <1>5 DEF QueueInv, ProcessInv, Working, Labels, Ahead, Grows, Ops
  <2> QED
    BY <1>1, <1>5, <2>1, GotoKeeps DEF QueueInv
<1> QED
  BY <1>1, <1>2, <1>4, <1>5 DEF Write, QueueInv

\* A queue in another phase.
LEMMA Rephased ==
  ASSUME NEW h, NEW v, NEW q, SoundQueue(q, h, v),
         NEW f \in {"queued", "preparing", "remediation", "prepared", "integrated", "failed"},
         f = "integrated" => LandedOn(h, q.run)
  PROVE  SoundQueue([q EXCEPT !.phase = f], h, v)
BY DEF SoundQueue, QueueRecord

LEMMA FailedSound ==
  ASSUME NEW h, NEW v, NEW q, SoundQueue(q, h, v)
  PROVE  SoundQueue(Failed(q), h, v)
BY Rephased DEF Failed

\* A candidate found on the target has landed.
LEMMA AcceptedLanded ==
  ASSUME OutsideInv, NEW q, SoundQueue(q, history, validated), Accepted(q)
  PROVE  SoundQueue([q EXCEPT !.phase = "integrated"], history, validated)
<1>1. q.head \in Commits /\ q.head.run = q.run /\ At(q.head)
  BY DEF Accepted, SoundQueue, QueueRecord
<1>2. Len(history) \in 1..Len(history) /\ history[Len(history)] = q.head
  BY <1>1 DEF At, OutsideInv
<1>3. q.head.by = "queue"
  BY <1>1 DEF Commits
<1>4. LandedOn(history, q.run)
  BY <1>1, <1>2, <1>3 DEF LandedOn
<1> QED
  BY <1>4, Rephased

LEMMA EnqueueKeeps ==
  ASSUME QueueInv, NEW p \in Procs, UNCHANGED pauses, NEW alike \in BOOLEAN, Enqueue(p, alike)
  PROVE  QueueInv'
<1> SUFFICES ASSUME OutsideInv, Grows PROVE ProcessInv'
  BY Quiet DEF Enqueue
<1>1. pc[p] # "idle" /\ call[p].run \in Runs /\ ProcessInv
  BY OwnQueue DEF Enqueue, QueueInv
<1>2. CASE SaveQueue(p, NewQueue(call[p].run, alike), "finish")
  <2>1. SoundQueue(NewQueue(call[p].run, alike), history', validated')
    BY <1>1 DEF NewQueue, SoundQueue, QueueRecord, Evidence, Pending, OutsideInv
  <2> QED
    BY <1>1, <1>2, <2>1, SaveQueueKeeps
<1> QED
  BY <1>1, <1>2, ThrowKeeps, FinishKeeps DEF Enqueue

LEMMA PrepareKeeps ==
  ASSUME QueueInv, NEW p \in Procs, UNCHANGED pauses, NEW safe \in BOOLEAN, Prepare(p, safe)
  PROVE  QueueInv'
<1> SUFFICES ASSUME OutsideInv, Grows PROVE ProcessInv'
  BY Quiet DEF Prepare
<1> DEFINE q == Queue(p)
<1>1. pc[p] # "idle" /\ ProcessInv /\ (Owned(p) => SoundQueue(q, history, validated))
  BY OwnQueue DEF Prepare, QueueInv
<1>2. history' = history /\ validated' = validated
  BY DEF Prepare, outside, ghosts
<1>3. ASSUME Owned(p), Accepted(q), SaveQueue(p, [q EXCEPT !.phase = "integrated"], "finish")
      PROVE  ProcessInv'
  BY <1>1, <1>2, <1>3, AcceptedLanded, SaveQueueKeeps
<1>4. ASSUME Owned(p), SaveQueue(p, Failed(q), "finish") PROVE ProcessInv'
  BY <1>1, <1>2, <1>4, FailedSound, SaveQueueKeeps
<1>5. ASSUME Owned(p), SaveQueue(p, [q EXCEPT !.phase = "preparing"], "apply") PROVE ProcessInv'
  BY <1>1, <1>2, <1>5, Rephased, SaveQueueKeeps
<1> QED
  BY <1>1, <1>3, <1>4, <1>5, ThrowKeeps, FinishKeeps DEF Prepare

\* One more artifact is applied, or conflicts.
LEMMA AppliedSound ==
  ASSUME NEW h, NEW v, NEW q, SoundQueue(q, h, v), q.applied < Tasks[q.run]
  PROVE  SoundQueue([q EXCEPT !.applied = @ + 1], h, v)
<1> DEFINE n == [q EXCEPT !.applied = @ + 1]
<1>1. q \in QueueRecord /\ q.applied \in Nat /\ Tasks[q.run] \in Nat
  BY DEF SoundQueue, QueueRecord
<1>2. n \in QueueRecord /\ n.applied = q.applied + 1
  BY <1>1 DEF QueueRecord
<1>3. /\ n.run = q.run /\ n.base = q.base /\ n.phase = q.phase /\ n.head = q.head
      /\ n.validation = q.validation /\ n.blocked = q.blocked
  BY <1>1 DEF QueueRecord
<1>4. n.applied <= Tasks[n.run]
  BY <1>1, <1>2, <1>3
<1> QED
  BY <1>2, <1>3, <1>4 DEF SoundQueue

LEMMA BlockedSound ==
  ASSUME NEW h, NEW v, NEW q, SoundQueue(q, h, v), q.applied < Tasks[q.run]
  PROVE  SoundQueue([q EXCEPT !.phase = "remediation", !.blocked = q.applied + 1], h, v)
<1> DEFINE n == [q EXCEPT !.phase = "remediation", !.blocked = q.applied + 1]
<1>1. q \in QueueRecord /\ q.applied \in Nat /\ Tasks[q.run] \in Nat
  BY DEF SoundQueue, QueueRecord
<1> DEFINE b == q.applied + 1
<1>a. b \in Nat
  BY <1>1
<1> HIDE DEF b
<1>b. n = [q EXCEPT !.phase = "remediation", !.blocked = b]
  BY DEF b
<1>2. n \in QueueRecord /\ n.blocked = b /\ n.phase = "remediation"
  BY <1>1, <1>a, <1>b DEF QueueRecord
<1>3. /\ n.run = q.run /\ n.base = q.base /\ n.head = q.head
      /\ n.validation = q.validation /\ n.applied = q.applied
  BY <1>1 DEF QueueRecord
<1>4. n.blocked <= Tasks[n.run]
  BY <1>1, <1>2, <1>3 DEF b
<1> QED
  BY <1>2, <1>3, <1>4 DEF SoundQueue

LEMMA ApplyKeeps ==
  ASSUME QueueInv, NEW p \in Procs, UNCHANGED pauses, NEW ok \in BOOLEAN, Apply(p, ok)
  PROVE  QueueInv'
<1> SUFFICES ASSUME OutsideInv, Grows PROVE ProcessInv'
  BY Quiet DEF Apply
<1> DEFINE q == Queue(p)
<1>1. pc[p] # "idle" /\ ProcessInv /\ q \in QueueRecord
  BY DEF Apply, QueueInv, ProcessInv, Working, Ahead, Queue
<1>2. history' = history /\ validated' = validated
  BY DEF Apply, outside, ghosts
<1>3. SoundQueue(q, history, validated)
  BY <1>1 DEF ProcessInv, Sound, Queue
<1>4. q.applied < Tasks[q.run] /\ q.applied \in Nat /\ Tasks[q.run] \in Nat
  BY <1>1 DEF Apply, QueueRecord
<1>5. CASE SaveQueue(p, Failed(q), "finish")
  BY <1>1, <1>2, <1>3, <1>5, FailedSound, SaveQueueKeeps
<1>6. CASE SaveQueue(p, [q EXCEPT !.phase = "remediation", !.blocked = q.applied + 1], "finish")
  <2>1. SoundQueue([q EXCEPT !.phase = "remediation", !.blocked = q.applied + 1], history, validated)
    BY <1>3, <1>4, BlockedSound
  <2> QED
    BY <1>1, <1>2, <1>6, <2>1, SaveQueueKeeps
<1>7. CASE SaveQueue(p, [q EXCEPT !.applied = @ + 1], "apply")
  <2>1. SoundQueue([q EXCEPT !.applied = @ + 1], history, validated)
    BY <1>3, <1>4, AppliedSound
  <2> QED
    BY <1>1, <1>2, <1>7, <2>1, SaveQueueKeeps
<1> QED
  BY <1>5, <1>6, <1>7 DEF Apply

LEMMA PublishKeeps ==
  ASSUME QueueInv, NEW p \in Procs, UNCHANGED pauses, Publish(p)
  PROVE  QueueInv'
<1> DEFINE q == Queue(p)
           c == Candidate(q)
<1>1. pc[p] # "idle" /\ ProcessInv /\ q \in QueueRecord /\ SoundQueue(q, history, validated)
  <2>1. ProcessInv /\ pc[p] = "apply"
    BY DEF Publish, QueueInv
  <2>2. Working(pc[p], call[p], mem[p], then[p], approved) /\ Sound(mem[p], history, validated)
    BY <2>1 DEF ProcessInv
  <2>3. mem[p].active \in QueueRecord
    BY <2>1, <2>2 DEF Working, Ahead
  <2>4. SoundQueue(mem[p].active, history, validated)
    BY <2>2, <2>3, NoneAssumption DEF Sound
  <2> QED
    BY <2>1, <2>3, <2>4 DEF Queue
<1>2. history' = history /\ validated' = validated /\ approved' = approved
  BY DEF Publish, ghosts
<1>3. c \in Commits /\ c.run = q.run /\ c.base = q.base /\ q.run \in Runs
  BY <1>1 DEF Candidate, Commits, QueueRecord
<1>4. refs' \in [Runs -> Commits \cup {None}]
  BY <1>3 DEF Publish, QueueInv, OutsideInv
<1>5. OutsideInv' /\ Grows
  BY <1>2, <1>4, OutsideStays DEF Publish, QueueInv, OutsideInv
<1>6. Sound(disk', history', validated')
  BY <1>5, SoundStays DEF Publish, QueueInv, OutsideInv
<1>7. SoundQueue([q EXCEPT !.head = c], history', validated')
  BY <1>1, <1>2, <1>3 DEF SoundQueue, QueueRecord
<1>8. ASSUME SaveQueue(p, [q EXCEPT !.head = c], "validate") PROVE ProcessInv'
  <2> DEFINE s == [mem[p] EXCEPT !.active = [q EXCEPT !.head = c]]
  <2>1. Sound(s, history', validated') /\ s.active = [q EXCEPT !.head = c]
    BY <1>1, <1>5, <1>7, SoundReplaced DEF QueueInv
  <2>2. s.active \in QueueRecord /\ s.active.head = c
    BY <1>1, <1>7, <2>1 DEF SoundQueue, QueueRecord
  <2>3. Working("check", call[p], s, "validate", approved')
    BY <1>1, <1>3, <2>2 DEF Working, ProcessInv, Labels, Ahead, Ops
  <2> QED
    BY <1>1, <1>5, <1>8, <2>1, <2>3, SaveKeeps DEF SaveQueue, QueueInv
<1>9. ASSUME SaveQueue(p, [Failed(q) EXCEPT !.head = c], "finish") PROVE ProcessInv'
  <2>1. [Failed(q) EXCEPT !.head = c] = Failed([q EXCEPT !.head = c])
    BY <1>1 DEF Failed, QueueRecord
  <2>2. SoundQueue([Failed(q) EXCEPT !.head = c], history', validated')
    BY <1>7, <2>1, FailedSound
  <2> QED
    BY <1>1, <1>5, <1>9, <2>2, SaveQueueKeeps DEF QueueInv
<1> QED
  BY <1>5, <1>6, <1>8, <1>9 DEF Publish, QueueInv

LEMMA ValidateKeeps ==
  ASSUME QueueInv, NEW p \in Procs, UNCHANGED pauses, NEW ok \in BOOLEAN, Validate(p, ok)
  PROVE  QueueInv'
<1> DEFINE q == Queue(p)
           good == [q EXCEPT !.phase = "prepared", !.blocked = 0,
                             !.validation = [status |-> "pass", head |-> q.head]]
           bad == [Failed(q) EXCEPT !.validation = [status |-> "fail", head |-> q.head]]
<1>1. pc[p] # "idle" /\ ProcessInv /\ q \in QueueRecord /\ q.head \in Commits
      /\ SoundQueue(q, history, validated)
  BY DEF Validate, QueueInv, ProcessInv, Working, Ahead, Queue, Sound
<1>2. validated \subseteq validated' /\ validated' \subseteq Commits
      /\ UNCHANGED <<history, refs, worktrees, disk, approved>>
  BY <1>1 DEF Validate, outside, QueueInv, OutsideInv
<1>3. OutsideInv' /\ Grows
  BY <1>2, OutsideStays DEF QueueInv, OutsideInv
<1>4. Sound(disk', history', validated')
  BY <1>2, <1>3, SoundStays DEF QueueInv, OutsideInv
<1>5. ASSUME q.head \in validated', SaveQueue(p, good, "finish") PROVE ProcessInv'
  <2>1. [status |-> "pass", head |-> q.head] \in Evidence
    BY <1>1 DEF Evidence
  <2>2. good \in QueueRecord /\ good.validation.head = q.head /\ good.phase = "prepared"
        /\ good.blocked = 0 /\ good.run = q.run /\ good.base = q.base /\ good.head = q.head
        /\ good.applied = q.applied
    BY <1>1, <2>1 DEF QueueRecord
  <2>3. SoundQueue(good, history', validated')
    BY <1>1, <1>5, <2>2 DEF SoundQueue, QueueRecord
  <2> QED
    BY <1>1, <1>3, <1>5, <2>3, SaveQueueKeeps DEF QueueInv
<1>6. ASSUME SaveQueue(p, bad, "finish") PROVE ProcessInv'
  <2>1. [status |-> "fail", head |-> q.head] \in Evidence
    BY <1>1 DEF Evidence
  <2>2. bad \in QueueRecord /\ bad.validation.status = "fail" /\ bad.phase = "failed"
        /\ bad.blocked = q.blocked /\ bad.run = q.run /\ bad.base = q.base /\ bad.head = q.head
        /\ bad.applied = q.applied
    BY <1>1, <2>1 DEF QueueRecord, Failed
  <2>3. SoundQueue(bad, history', validated')
    BY <1>1, <2>2 DEF SoundQueue, QueueRecord
  <2> QED
    BY <1>1, <1>3, <1>6, <2>3, SaveQueueKeeps DEF QueueInv
<1> QED
  BY <1>3, <1>4, <1>5, <1>6 DEF Validate, QueueInv

\* A decision's candidate and verdict.
LEMMA DecisionTyped ==
  ASSUME ProcessInv, NEW p \in Procs, pc[p] = "accept"
  PROVE  call[p] \in Decisions(Commits) /\ call[p].head \in Commits /\ call[p].verdict \in {"pass", "fail"}
<1>1. call[p] \in Calls \cup Decisions(Commits) /\ call[p].op = "accept"
  BY DEF ProcessInv, Working, Ops
<1> QED
  BY <1>1 DEF Calls, Decisions

LEMMA AcceptKeeps ==
  ASSUME QueueInv, NEW p \in Procs, UNCHANGED pauses, Accept(p)
  PROVE  QueueInv'
<1> DEFINE q == Queue(p)
           r == [status |-> call[p].verdict, head |-> call[p].head]
           n == [q EXCEPT !.review = r]
<1>1. pc[p] # "idle" /\ ProcessInv /\ (Owned(p) => SoundQueue(q, history, validated))
  BY OwnQueue DEF Accept, QueueInv
<1>2. call[p] \in Decisions(Commits) /\ call[p].head \in Commits /\ call[p].verdict \in {"pass", "fail"}
  BY <1>1, DecisionTyped DEF Accept
<1>3. approved \subseteq approved' /\ approved' \subseteq Commits
      /\ UNCHANGED <<history, refs, worktrees, disk, validated>>
      /\ (call[p].verdict = "pass" => call[p].head \in approved')
  BY <1>2 DEF Accept, Decided, outside, QueueInv, OutsideInv
<1>4. OutsideInv' /\ Grows
  BY <1>3, OutsideStays DEF QueueInv, OutsideInv
<1>5. Sound(disk', history', validated')
  BY <1>3, <1>4, SoundStays DEF QueueInv, OutsideInv
<1>6. ASSUME Owned(p), Accepted(q), SaveQueue(p, [q EXCEPT !.phase = "integrated"], "finish")
      PROVE  ProcessInv'
  BY <1>1, <1>3, <1>4, <1>6, AcceptedLanded, SaveQueueKeeps DEF QueueInv
<1>7. ASSUME Owned(p), q.head = call[p].head, q.validation = [status |-> "pass", head |-> q.head],
             SaveQueue(p, n, "decide")
      PROVE  ProcessInv'
  <2>1. r \in Evidence /\ q \in QueueRecord
    BY <1>1, <1>2, <1>7 DEF Evidence, SoundQueue
  <2>2. n \in QueueRecord /\ n.run = q.run /\ n.base = q.base /\ n.phase = q.phase /\ n.head = q.head
        /\ n.validation = q.validation /\ n.blocked = q.blocked /\ n.applied = q.applied
    BY <2>1 DEF QueueRecord
  <2>3. SoundQueue(n, history', validated')
    BY <1>1, <1>3, <1>7, <2>2 DEF SoundQueue
  <2> DEFINE s == [mem[p] EXCEPT !.active = n]
  <2>4. Sound(s, history', validated') /\ s.active = n
    BY <1>1, <1>4, <2>3, SoundReplaced DEF QueueInv
  <2>5. Working("check", call[p], s, "decide", approved')
    BY <1>1, <1>2, <1>3, <1>7, <2>2, <2>4 DEF Working, Labels, Ahead, Ops
  <2> QED
    BY <1>1, <1>4, <1>7, <2>4, <2>5, SaveKeeps DEF SaveQueue, QueueInv
<1>8. ProcessInv'
  BY <1>1, <1>4, <1>6, <1>7, ThrowKeeps, FinishKeeps DEF Accept, QueueInv
<1> QED
  BY <1>4, <1>5, <1>8 DEF QueueInv

\* What is known while a decision is carried out.
LEMMA Deciding ==
  ASSUME QueueInv, NEW p \in Procs, pc[p] \in {"decide", "cas"}
  PROVE  /\ SoundQueue(Queue(p), history, validated) /\ Queue(p).head \in Commits
         /\ Queue(p).head.base = Queue(p).base /\ Queue(p).head.run = Queue(p).run
         /\ Queue(p).head \in validated
         /\ call[p].verdict = "pass" => Queue(p).head \in approved
         /\ pc[p] = "cas" => call[p].verdict = "pass"
<1> DEFINE q == Queue(p)
<1>1. q \in QueueRecord /\ SoundQueue(q, history, validated) /\ q.head = call[p].head
      /\ q.validation = [status |-> "pass", head |-> call[p].head]
      /\ call[p] \in Decisions(Commits) /\ (call[p].verdict = "pass" => call[p].head \in approved)
      /\ (pc[p] = "cas" => call[p].verdict = "pass")
  BY DEF QueueInv, ProcessInv, Working, Ahead, Queue, Sound
<1>2. q.head \in validated /\ q.head \in Commits
  BY <1>1 DEF SoundQueue, QueueInv, OutsideInv
<1>3. q.head # None => q.head.base = q.base /\ q.head.run = q.run
  BY <1>1 DEF SoundQueue
<1> QED
  BY <1>1, <1>2, <1>3

LEMMA DecideKeeps ==
  ASSUME QueueInv, NEW p \in Procs, UNCHANGED pauses, NEW safe \in BOOLEAN, Decide(p, safe)
  PROVE  QueueInv'
<1> SUFFICES ASSUME OutsideInv, Grows PROVE ProcessInv'
  BY Quiet DEF Decide
<1>1. pc[p] = "decide" /\ ProcessInv /\ history' = history /\ validated' = validated /\ approved' = approved
  BY DEF Decide, QueueInv, outside, ghosts
<1>2. CASE SaveQueue(p, Failed(Queue(p)), "finish")
  BY <1>1, <1>2, Deciding, FailedSound, SaveQueueKeeps
<1>3. CASE call[p].verdict # "fail" /\ Goto(p, "cas")
  <2>1. call[p].verdict = "pass"
    BY <1>1, <1>3 DEF ProcessInv, Working, Ahead, Decisions
  <2>2. Working("cas", call[p], mem[p], then[p], approved')
    BY <1>1, <2>1 DEF ProcessInv, Working, Ahead, Labels, Ops
  <2> QED
    BY <1>1, <1>3, <2>2, GotoKeeps
<1> QED
  BY <1>2, <1>3 DEF Decide

LEMMA CasKeeps ==
  ASSUME QueueInv, NEW p \in Procs, UNCHANGED pauses, NEW done \in BOOLEAN, NEW reported \in BOOLEAN,
         Cas(p, done, reported)
  PROVE  QueueInv'
<1> DEFINE q == Queue(p)
<1>1. pc[p] # "idle" /\ ProcessInv /\ UNCHANGED <<validated, approved, disk>>
  BY DEF Cas, QueueInv, ghosts
<1>2. /\ SoundQueue(q, history, validated) /\ q.head \in Commits
      /\ q.head.base = q.base /\ q.head.run = q.run /\ q.head \in validated \cap approved
  BY Deciding DEF Cas
<1>3. OutsideInv' /\ Grows
  <2>1. CASE AtBase(q) /\ history' = Append(history, q.head)
    BY <1>2, <2>1, OutsideMoves DEF Cas, AtBase, QueueInv, ghosts
  <2>2. CASE history' = history
    BY <2>2, OutsideStays DEF Cas, QueueInv, OutsideInv, ghosts
  <2> QED
    BY <2>1, <2>2 DEF Cas
<1>4. Sound(disk', history', validated')
  BY <1>1, <1>3, SoundStays DEF QueueInv, OutsideInv
<1>5. SoundQueue(q, history', validated')
  BY <1>1, <1>2, <1>3, LandedStays DEF SoundQueue, QueueInv, OutsideInv
<1>6. ASSUME SaveQueue(p, Failed(q), "finish") PROVE ProcessInv'
  BY <1>1, <1>3, <1>5, <1>6, FailedSound, SaveQueueKeeps DEF QueueInv
<1>7. ASSUME history' = Append(history, q.head), SaveQueue(p, [q EXCEPT !.phase = "integrated"], "finish")
      PROVE  ProcessInv'
  <2>1. Len(history) + 1 \in 1..Len(history') /\ history'[Len(history) + 1] = q.head
    BY <1>2, <1>7 DEF QueueInv, OutsideInv
  <2>2. LandedOn(history', q.run)
    BY <1>2, <2>1 DEF LandedOn, Commits
  <2>3. SoundQueue([q EXCEPT !.phase = "integrated"], history', validated')
    BY <1>5, <2>2, Rephased
  <2> QED
    BY <1>1, <1>3, <1>7, <2>3, SaveQueueKeeps DEF QueueInv
<1> QED
  BY <1>3, <1>4, <1>6, <1>7 DEF Cas, QueueInv

\* A queue whose conflicting task was replaced starts over from that task.
LEMMA RemediatedSound ==
  ASSUME NEW h, NEW v, NEW q, SoundQueue(q, h, v), q.blocked # 0
  PROVE  SoundQueue([q EXCEPT !.fix = q.blocked, !.applied = q.blocked - 1, !.blocked = 0, !.head = None,
                              !.validation = Pending, !.review = Pending, !.phase = "queued"], h, v)
<1> DEFINE b == q.blocked
           l == q.blocked - 1
           n == [q EXCEPT !.fix = b, !.applied = l, !.blocked = 0, !.head = None,
                          !.validation = Pending, !.review = Pending, !.phase = "queued"]
<1>1. q \in QueueRecord /\ q.run \in Runs /\ Tasks[q.run] \in Nat /\ b \in Nat
  BY DEF SoundQueue, QueueRecord
<1>2. l \in Nat /\ l <= Tasks[q.run]
  BY <1>1 DEF SoundQueue
<1>3. Pending \in Evidence /\ Pending.status = "pending"
  BY DEF Pending, Evidence
<1> HIDE DEF b, l
<1>4. n \in QueueRecord /\ n.run = q.run /\ n.applied = l /\ n.blocked = 0 /\ n.head = None
      /\ n.validation = Pending /\ n.phase = "queued"
  BY <1>1, <1>2, <1>3 DEF QueueRecord
<1>5. SoundQueue(n, h, v)
  BY <1>1, <1>2, <1>3, <1>4 DEF SoundQueue
<1> QED
  BY <1>5 DEF b, l

LEMMA RemediateKeeps ==
  ASSUME QueueInv, NEW p \in Procs, UNCHANGED pauses, Remediate(p)
  PROVE  QueueInv'
<1> SUFFICES ASSUME OutsideInv, Grows PROVE ProcessInv'
  BY Quiet DEF Remediate
<1>1. pc[p] # "idle" /\ ProcessInv /\ (Owned(p) => SoundQueue(Queue(p), history, validated))
      /\ history' = history /\ validated' = validated
  BY OwnQueue DEF Remediate, QueueInv, outside, ghosts
<1> QED
  BY <1>1, RemediatedSound, SaveQueueKeeps, ThrowKeeps DEF Remediate

LEMMA CleanupKeeps ==
  ASSUME QueueInv, NEW p \in Procs, UNCHANGED pauses, NEW r \in Runs, NEW n \in 0..Tasks[r], Cleanup(p, r, n)
  PROVE  QueueInv'
<1>1. pc[p] # "idle" /\ ProcessInv /\ mem[p] \in States /\ Sound(mem[p], history, validated)
      /\ (Owned(p) => SoundQueue(Queue(p), history, validated) /\ Queue(p).run = r)
      /\ UNCHANGED <<history, refs, disk, validated, approved>> /\ r = call[p].run
  BY OwnQueue DEF Cleanup, QueueInv, ghosts
<1>2. Owned(p) /\ Queue(p).phase = "integrated" => LandedOn(history, r)
  BY <1>1 DEF SoundQueue
<1>3. Grows
  BY <1>1 DEF Grows
<1>4. worktrees' \in [Runs -> Nat] /\ WorktreesKept'
  <2>1. CASE worktrees' = worktrees
    BY <1>1, <2>1 DEF QueueInv, OutsideInv, WorktreesKept, Landed
  <2>2. CASE worktrees' = [worktrees EXCEPT ![r] = n] /\ LandedOn(history, r)
    BY <1>1, <2>2 DEF QueueInv, OutsideInv, WorktreesKept, Landed, LandedOn
  <2> QED
    BY <1>2, <2>1, <2>2 DEF Cleanup
<1>5. OutsideInv'
  BY <1>1, <1>4 DEF QueueInv, OutsideInv, TargetReviewed, LandsOnBase
<1>6. Sound(disk', history', validated')
  BY <1>1 DEF QueueInv
<1>7. ASSUME Owned(p), SaveQueue(p, Queue(p), "finish") PROVE ProcessInv'
  BY <1>1, <1>3, <1>7, SaveQueueKeeps DEF QueueInv
<1>8. ASSUME LandedOn(history, r),
             SaveState(p, [active |-> None, archived |-> mem[p].archived \cup {r}], "finish")
      PROVE  ProcessInv'
  <2> DEFINE s == [active |-> None, archived |-> mem[p].archived \cup {r}]
  <2>1. Sound(s, history', validated')
    BY <1>1, <1>8 DEF Sound, States
  <2>2. Working("check", call[p], s, "finish", approved')
    BY <1>1 DEF Working, ProcessInv, Labels, Ahead, Ops
  <2> QED
    BY <1>1, <1>3, <1>8, <2>1, <2>2, SaveKeeps DEF QueueInv
<1>9. ProcessInv'
  BY <1>1, <1>2, <1>3, <1>7, <1>8, ThrowKeeps, FinishKeeps DEF Cleanup, QueueInv
<1> QED
  BY <1>5, <1>6, <1>9 DEF QueueInv

\* Crashes, lost leases and other hands on the target.
LEMMA AroundKeeps ==
  ASSUME QueueInv,
         \/ UNCHANGED pauses /\ \E p \in Procs : Crash(p)
         \/ LoseLease
         \/ TargetMoves /\ UNCHANGED pauses
  PROVE  QueueInv'
<1>1. ASSUME UNCHANGED pauses, NEW p \in Procs, Crash(p) PROVE QueueInv'
  BY <1>1, Quiet, ThrowKeeps DEF Crash, QueueInv
<1>2. CASE LoseLease
  <2>1. OutsideInv' /\ Grows
    BY <1>2 DEF LoseLease, QueueInv, OutsideInv, Grows, TargetReviewed, LandsOnBase, WorktreesKept,
                Landed, outside, ghosts
  <2>2. ProcessInv'
    BY <1>2, <2>1, NoneMoves DEF LoseLease, QueueInv
  <2> QED
    BY <1>2, <2>1, <2>2, SoundStays DEF LoseLease, QueueInv, OutsideInv
<1>3. CASE TargetMoves /\ UNCHANGED pauses
  <2>1. OutsideInv' /\ Grows
    BY <1>3, OutsideMoves DEF TargetMoves, QueueInv
  <2>2. ProcessInv'
    BY <1>3, <2>1, NoneMoves DEF TargetMoves, QueueInv, ProcessInv
  <2> QED
    BY <1>3, <2>1, <2>2, SoundStays DEF TargetMoves, QueueInv, OutsideInv
<1> QED
  BY <1>1, <1>2, <1>3

LEMMA QueueStep == QueueInv /\ [Next]_vars => QueueInv'
<1> SUFFICES ASSUME QueueInv, [Next]_vars PROVE QueueInv'
  OBVIOUS
<1>1. ASSUME NEW p \in Procs, Step(p), UNCHANGED pauses PROVE QueueInv'
  BY <1>1, CallKeeps, CheckKeeps, WriteKeeps, EnqueueKeeps, PrepareKeeps, ApplyKeeps, PublishKeeps,
     ValidateKeeps, AcceptKeeps, DecideKeeps, CasKeeps, RemediateKeeps, CleanupKeeps, AroundKeeps DEF Step
<1>2. CASE LoseLease \/ (TargetMoves /\ UNCHANGED pauses)
  BY <1>2, AroundKeeps
<1>3. CASE UNCHANGED vars
  <2>1. OutsideInv' /\ Grows
    BY <1>3, OutsideStays DEF vars, outside, ghosts, QueueInv, OutsideInv
  <2>2. ProcessInv'
    BY <1>3, <2>1, NoneMoves DEF vars, process, QueueInv, ProcessInv
  <2> QED
    BY <1>3, <2>1, <2>2, SoundStays DEF vars, QueueInv, OutsideInv
<1> QED
  BY <1>1, <1>2, <1>3 DEF Next

LEMMA QueueInvariant == Spec => []QueueInv
BY QueueInit, QueueStep, PTL DEF Spec

-----------------------------------------------------------------------------
(* A run has one candidate *)

\* What was validated, and what is about to be, is what the candidate ref of its run
\* names; the ref never changes once it is set (ensureSourceRef).
RefInv ==
  /\ \A c \in validated : refs[c.run] = c
  /\ \A p \in Procs : Ahead(pc[p], then[p]) = "validate" => refs[Queue(p).head.run] = Queue(p).head

\* Only Publish moves a ref, only Validate validates.
LEMMA StepFrame ==
  ASSUME NEW p \in Procs, Step(p)
  PROVE  /\ refs' = refs \/ Publish(p)
         /\ validated' = validated \/ \E ok \in BOOLEAN : Validate(p, ok)
<1>1. ASSUME \/ \E c \in Calls \cup Decisions(Shown) : Call(p, c)
             \/ Again(p) \/ Check(p) \/ Write(p) \/ Remediate(p) \/ Crash(p)
      PROVE  refs' = refs /\ validated' = validated
  BY <1>1 DEF Call, Again, Start, Check, Write, Remediate, Crash, outside, ghosts
<1>2. ASSUME NEW b \in BOOLEAN, Enqueue(p, b) \/ Prepare(p, b) \/ Decide(p, b) \/ Apply(p, b)
      PROVE  refs' = refs /\ validated' = validated
  BY <1>2 DEF Enqueue, Prepare, Decide, Apply, outside, ghosts
<1>3. ASSUME NEW ok \in BOOLEAN, Validate(p, ok) PROVE refs' = refs
  BY <1>3 DEF Validate, outside
<1>4. Publish(p) => validated' = validated
  BY DEF Publish, ghosts
<1>5. Accept(p) => refs' = refs /\ validated' = validated
  BY DEF Accept, outside
<1>6. ASSUME NEW done \in BOOLEAN, NEW reported \in BOOLEAN, Cas(p, done, reported)
      PROVE  refs' = refs /\ validated' = validated
  BY <1>6 DEF Cas, ghosts
<1>7. ASSUME NEW r \in Runs, NEW n \in 0..Tasks[r], Cleanup(p, r, n)
      PROVE  refs' = refs /\ validated' = validated
  BY <1>7 DEF Cleanup, ghosts
<1> QED
  BY <1>1, <1>2, <1>3, <1>4, <1>5, <1>6, <1>7 DEF Step

\* A ref that is set stays.
LEMMA RefsStay ==
  ASSUME QueueInv, [Next]_vars
  PROVE  \A c \in Commits : refs[c.run] = c => refs'[c.run] = c
<1>1. refs' = refs \/ \E p \in Procs : Publish(p)
  <2>1. ASSUME NEW p \in Procs, Step(p) PROVE refs' = refs \/ Publish(p)
    BY <2>1, StepFrame
  <2> QED
    BY <2>1 DEF Next, LoseLease, TargetMoves, outside, vars
<1>2. ASSUME NEW p \in Procs, Publish(p), NEW c \in Commits, refs[c.run] = c PROVE refs'[c.run] = c
  <2>1. refs \in [Runs -> Commits \cup {None}] /\ c.run \in Runs /\ c # None
    BY DEF QueueInv, OutsideInv, Commits
  <2>2. CASE refs' = refs
    BY <1>2, <2>2
  <2>3. CASE refs[Queue(p).run] \in {None, Candidate(Queue(p))}
             /\ refs' = [refs EXCEPT ![Queue(p).run] = Candidate(Queue(p))]
    BY <1>2, <2>1, <2>3
  <2> QED
    BY <1>2, <2>2, <2>3 DEF Publish
<1> QED
  BY <1>1, <1>2

\* A step of g that does not bring it to validate another candidate.
Carries(g) ==
  /\ \A p \in Procs \ {g} : pc'[p] = pc[p] /\ then'[p] = then[p] /\ mem'[p] = mem[p]
  /\ Ahead(pc'[g], then'[g]) = "validate" => Ahead(pc[g], then[g]) = "validate" /\ mem'[g] = mem[g]

LEMMA ForgetCarries ==
  ASSUME ProcessInv, NEW g \in Procs, Finish(g) \/ Throw(g)
  PROVE  Carries(g)
BY DEF Finish, Throw, Forget, Carries, Ahead, ProcessInv

LEMMA SaveCarries ==
  ASSUME ProcessInv, NEW g \in Procs, NEW s, NEW t \in {"finish", "apply", "decide"}, SaveState(g, s, t)
  PROVE  Carries(g)
BY DEF SaveState, Carries, Ahead, ProcessInv

LEMMA StartCarries ==
  ASSUME ProcessInv, NEW g \in Procs, NEW c \in Calls \cup Decisions(Commits), Start(g, c)
  PROVE  Carries(g)
<1>1. c.op \in Ops
  BY DEF Calls, Decisions, Ops
<1> QED
  BY <1>1 DEF Start, Carries, Ahead, ProcessInv, Ops

LEMMA GotoCarries ==
  ASSUME ProcessInv, NEW g \in Procs, NEW l, Goto(g, l),
         l = "cas" \/ (pc[g] = "check" /\ l = "write") \/ (pc[g] = "write" /\ l = then[g])
  PROVE  Carries(g)
<1>1. pc[g] = "write" => then[g] \notin {"check", "write"}
  BY DEF ProcessInv, Working
<1> QED
  BY <1>1 DEF Goto, Carries, Ahead, ProcessInv

\* A process comes to validate only from the publication of its candidate, through the
\* save of its copy.
LEMMA StepCarries ==
  ASSUME QueueInv, NEW g \in Procs, Step(g)
  PROVE  Publish(g) \/ Carries(g)
<1>1. ProcessInv /\ Decisions(Shown) \subseteq Decisions(Commits)
  BY DEF QueueInv, OutsideInv, Shown, Decisions
<1>2. ASSUME \E c \in Calls \cup Decisions(Shown) : Call(g, c) PROVE Carries(g)
  BY <1>1, <1>2, StartCarries DEF Call
<1>3. ASSUME Again(g) PROVE Carries(g)
  <2>1. call[g] \in Calls \cup Decisions(Commits)
    BY <1>1, <1>3 DEF Again, ProcessInv, Working
  <2> QED
    BY <1>1, <1>3, <2>1, StartCarries, ForgetCarries DEF Again
<1>4. ASSUME Check(g) \/ Write(g) PROVE Carries(g)
  BY <1>1, <1>4, GotoCarries, ForgetCarries DEF Check, Write
<1>5. ASSUME NEW b \in BOOLEAN, Enqueue(g, b) \/ Prepare(g, b) \/ Decide(g, b) PROVE Carries(g)
  BY <1>1, <1>5, SaveCarries, GotoCarries, ForgetCarries DEF Enqueue, Prepare, Decide, SaveQueue
<1>6. ASSUME NEW b \in BOOLEAN, Apply(g, b) \/ Validate(g, b) PROVE Carries(g)
  BY <1>1, <1>6, SaveCarries DEF Apply, Validate, SaveQueue
<1>7. ASSUME Accept(g) \/ Remediate(g) \/ Crash(g) PROVE Carries(g)
  BY <1>1, <1>7, SaveCarries, ForgetCarries DEF Accept, Remediate, Crash, SaveQueue
<1>8. ASSUME NEW done \in BOOLEAN, NEW reported \in BOOLEAN, Cas(g, done, reported) PROVE Carries(g)
  BY <1>1, <1>8, SaveCarries DEF Cas, SaveQueue
<1>9. ASSUME NEW r \in Runs, NEW n \in 0..Tasks[r], Cleanup(g, r, n) PROVE Carries(g)
  BY <1>1, <1>9, SaveCarries, ForgetCarries DEF Cleanup, SaveQueue
<1> QED
  BY <1>2, <1>3, <1>4, <1>5, <1>6, <1>7, <1>8, <1>9 DEF Step

\* A candidate about to be validated has just got its ref, or had it before.
LEMMA PublishedHasRef ==
  ASSUME QueueInv, NEW g \in Procs, Publish(g)
  PROVE  /\ \A p \in Procs \ {g} : pc'[p] = pc[p] /\ then'[p] = then[p] /\ mem'[p] = mem[p]
         /\ Ahead(pc'[g], then'[g]) = "validate" =>
              refs'[mem'[g].active.head.run] = mem'[g].active.head
<1> DEFINE q == Queue(g)
           c == Candidate(q)
<1>1. mem[g] \in States /\ q \in QueueRecord /\ q = mem[g].active
  BY DEF Publish, QueueInv, ProcessInv, Working, Ahead, Queue
<1>2. c \in Commits /\ c.run = q.run /\ q.run \in Runs
  BY <1>1 DEF Candidate, Commits, QueueRecord
<1>3. ASSUME refs' = [refs EXCEPT ![q.run] = c], SaveQueue(g, [q EXCEPT !.head = c], "validate")
      PROVE  refs'[mem'[g].active.head.run] = mem'[g].active.head
  <2>1. [q EXCEPT !.head = c].head = c
    BY <1>1, <1>2 DEF QueueRecord
  <2>2. mem'[g].active = [q EXCEPT !.head = c]
    BY <1>1, <1>3 DEF SaveQueue, SaveState, QueueInv, ProcessInv, States
  <2>3. refs'[q.run] = c
    BY <1>2, <1>3 DEF QueueInv, OutsideInv
  <2> QED
    BY <1>2, <2>1, <2>2, <2>3
<1>4. ASSUME SaveQueue(g, [Failed(q) EXCEPT !.head = c], "finish")
      PROVE  Ahead(pc'[g], then'[g]) # "validate"
  BY <1>4 DEF SaveQueue, SaveState, Ahead, QueueInv, ProcessInv
<1>5. \A p \in Procs \ {g} : pc'[p] = pc[p] /\ then'[p] = then[p] /\ mem'[p] = mem[p]
  BY DEF Publish, SaveQueue, SaveState, QueueInv, ProcessInv
<1> QED
  BY <1>3, <1>4, <1>5 DEF Publish

LEMMA RefStep ==
  ASSUME QueueInv, RefInv, [Next]_vars
  PROVE  RefInv'
<1>1. \A c \in Commits : refs[c.run] = c => refs'[c.run] = c
  BY RefsStay
<1>2. \A c \in validated' : refs'[c.run] = c
  <2>1. validated' = validated \/ \E p \in Procs : pc[p] = "validate" /\ validated' = validated \cup {Queue(p).head}
    <3>1. ASSUME NEW p \in Procs, Step(p)
          PROVE  \/ validated' = validated
                 \/ pc[p] = "validate" /\ validated' = validated \cup {Queue(p).head}
      BY <3>1, StepFrame DEF Validate
    <3> QED
      BY <3>1 DEF Next, LoseLease, TargetMoves, ghosts, vars
  <2>2. ASSUME NEW p \in Procs, pc[p] = "validate" PROVE Queue(p).head \in Commits /\ refs[Queue(p).head.run] = Queue(p).head
    BY <2>2 DEF RefInv, QueueInv, ProcessInv, Working, Ahead, Queue
  <2> QED
    BY <1>1, <2>1, <2>2 DEF RefInv, QueueInv, OutsideInv
<1>3. ASSUME NEW p \in Procs, Ahead(pc'[p], then'[p]) = "validate"
      PROVE  refs'[mem'[p].active.head.run] = mem'[p].active.head
  <2>1. CASE Ahead(pc[p], then[p]) = "validate" /\ mem'[p] = mem[p]
    <3>1. mem[p].active.head \in Commits /\ refs[mem[p].active.head.run] = mem[p].active.head
      BY <2>1 DEF RefInv, QueueInv, ProcessInv, Working, Queue
    <3> QED
      BY <1>1, <2>1, <3>1
  <2>2. CASE UNCHANGED process
    BY <1>3, <2>1, <2>2 DEF process
  <2>3. ASSUME NEW g \in Procs, Step(g) PROVE refs'[mem'[p].active.head.run] = mem'[p].active.head
    <3>1. CASE Publish(g)
      BY <1>3, <2>1, <3>1, PublishedHasRef
    <3>2. CASE Carries(g)
      BY <1>3, <2>1, <3>2 DEF Carries
    <3> QED
      BY <2>3, <3>1, <3>2, StepCarries
  <2> QED
    BY <2>2, <2>3 DEF Next, LoseLease, TargetMoves, vars, process
<1> QED
  BY <1>2, <1>3 DEF RefInv, Queue

LEMMA RefInvariant == Spec => []RefInv
<1>1. Init => RefInv
  BY DEF Init, RefInv, Ahead
<1> QED
  BY <1>1, RefStep, QueueInvariant, PTL DEF Spec

-----------------------------------------------------------------------------
(* Theorems *)

\* The branch, the state file and every process's copy keep their shape.
THEOREM IntegrationTyped == Spec => []TypeOK
<1>1. QueueInv => TypeOK
  BY DEF QueueInv, TypeOK, OutsideInv, ProcessInv, Sound, SoundQueue, Wellformed
<1> QED
  BY <1>1, QueueInvariant, PTL

\* Only validated and reviewed candidates land (the update-ref of accept), whatever
\* copies of the state the processes work on.
THEOREM OnlyReviewedLands == Spec => []TargetReviewed
<1>1. QueueInv => TargetReviewed
  BY DEF QueueInv, OutsideInv
<1> QED
  BY <1>1, QueueInvariant, PTL

\* A candidate lands on the base it was made from, and a run lands once (the old value
\* of update-ref, and the candidate ref that is never moved): nobody's commit is
\* dropped, no artifact is applied twice.
THEOREM CandidateLandsOnce == Spec => []LandsOnceOnBase
<1>1. QueueInv /\ RefInv => LandsOnceOnBase
  <2> SUFFICES ASSUME QueueInv, RefInv PROVE LandsOnceOnBase
    OBVIOUS
  <2>1. \A i \in 1..Len(history) : history[i] # Foreign =>
          refs[history[i].run] = history[i] /\ history[i].base = i - 1
    BY DEF QueueInv, OutsideInv, TargetReviewed, LandsOnBase, RefInv
  <2>2. Len(history) \in Nat
    BY DEF QueueInv, OutsideInv
  <2>3. LandsOnce
    BY <2>1, <2>2 DEF LandsOnce
  <2> QED
    BY <2>3 DEF QueueInv, OutsideInv, LandsOnceOnBase
<1> QED
  BY <1>1, QueueInvariant, RefInvariant, PTL

\* What state.json calls integrated or archived is on the target.
THEOREM IntegratedHasLanded == Spec => []IntegratedLanded
<1>1. QueueInv => IntegratedLanded
  BY DEF QueueInv, IntegratedLanded, Sound, SoundQueue, Landed, LandedOn
<1> QED
  BY <1>1, QueueInvariant, PTL

\* cleanup removes worktrees of landed runs only.
THEOREM WorktreesOutliveRuns == Spec => []WorktreesKept
<1>1. QueueInv => WorktreesKept
  BY DEF QueueInv, OutsideInv
<1> QED
  BY <1>1, QueueInvariant, PTL
=============================================================================
