---------------------------- MODULE LeaseRegistry ----------------------------
(***************************************************************************)
(* Scope leases over time (src/core/scope-lease-registry.ts): acquire, and  *)
(* the handle makeLease returns with its chain of pending operations, its   *)
(* heartbeat timer and its ways to end.  An operation runs under the mutex  *)
(* of LeaseMutex, so one at a time; but it looks at the clock when it       *)
(* starts and writes when it commits, and time passes in between.           *)
(*                                                                         *)
(* Abstractions.  A handle is a process of its own.  A lease is kept with   *)
(* the time it has left, 0 once it has expired.  Ids, hashes and the        *)
(* capacity of the file are left out.                                       *)
(***************************************************************************)
EXTENDS Naturals, Sequences, FiniteSets, Functions

CONSTANTS
  Handles,   \* calls of acquire
  Scopes,    \* scopes a lease may cover
  Clashes,   \* the sets of scopes that conflict: {s} or {s, t}
  TTL,       \* lifetime of a lease, in ticks
  MaxQueue,  \* bound: operations waiting on each handle
  Called,    \* bound: the kinds of operation called on each handle
  None       \* no transaction, no scope

ASSUME RegistryAssumption ==
  /\ TTL \in Nat \ {0} /\ MaxQueue \in [Handles -> Nat]
  /\ None \notin Handles /\ None \notin Scopes

VARIABLES
  leases,   \* scope-leases.json: handle -> [scope, left]
  state,    \* of each handle: idle, acquiring, active, stopped, gone (refused or dead)
  closing,  \* a release or an abandonment is under way
  scope,    \* the scope the handle believes it has
  queue,    \* the pending chain: operations not finished yet
  started,  \* the head of the chain passed its check and waits for the mutex
  txn       \* the transaction under the mutex

vars == <<leases, state, closing, scope, queue, started, txn>>
handle == <<state, closing, scope, queue, started>>

Ops == [kind : {"heartbeat", "assert", "release", "abandon"}] \cup [kind : {"replace"}, scope : Scopes]
Ending == {"release", "abandon"}

Init ==
  /\ leases = [h \in {} |-> None] /\ txn = None
  /\ state = [h \in Handles |-> "idle"] /\ closing = [h \in Handles |-> FALSE]
  /\ scope = [h \in Handles |-> None] /\ queue = [h \in Handles |-> <<>>]
  /\ started = [h \in Handles |-> FALSE]

-----------------------------------------------------------------------------
Live == {h \in DOMAIN leases : leases[h].left > 0}
Conflicts(s, S) == \E g \in S : {s, leases[g].scope} \in Clashes
Set(f, h, x) == [f EXCEPT ![h] = x]

\* Variant: an expired lease still counts as held.
StillHeldExpired(h) == h \in DOMAIN leases
\* The lease is in the file and had not expired when the transaction looked.
StillHeld(h) == h \in DOMAIN leases /\ h \in txn.live

\* expiresAt counts from the moment the transaction looked at the clock.
Lifetime == IF txn.age < TTL THEN TTL - txn.age ELSE 0

Enter(h, op) == txn = None /\ txn' = [handle |-> h, op |-> op, live |-> Live, age |-> 0]

\* The chain moves on; the handle is stopped or not.
Finish(h, stop) ==
  /\ queue' = Set(queue, h, Tail(queue[h])) /\ started' = Set(started, h, FALSE)
  /\ state' = IF stop /\ state[h] = "active" THEN Set(state, h, "stopped") ELSE state

-----------------------------------------------------------------------------
(* Acquisition *)

AcquireBegin(h, s) ==
  /\ state[h] = "idle"
  /\ Enter(h, [kind |-> "acquire", scope |-> s])
  /\ state' = Set(state, h, "acquiring")
  /\ UNCHANGED <<leases, closing, scope, queue, started>>

\* Expired leases leave the file for good.
AcquireCommit(h) ==
  /\ txn # None /\ txn.handle = h /\ txn.op.kind = "acquire"
  /\ IF Conflicts(txn.op.scope, txn.live)
     THEN state' = Set(state, h, "gone") /\ UNCHANGED <<leases, scope>>
     ELSE /\ leases' = [g \in txn.live \cup {h} |->
                          IF g = h THEN [scope |-> txn.op.scope, left |-> Lifetime] ELSE leases[g]]
          /\ scope' = Set(scope, h, txn.op.scope) /\ state' = Set(state, h, "active")
  /\ txn' = None
  /\ UNCHANGED <<closing, queue, started>>

\* lock-timeout or lock-lost: acquire fails, and there is no handle.
AcquireError(h) ==
  /\ state[h] = "acquiring"
  /\ state' = Set(state, h, "gone") /\ txn' = None
  /\ UNCHANGED <<leases, closing, scope, queue, started>>

-----------------------------------------------------------------------------
(* The chain of a handle *)

\* serialized refuses at the call; replaceScope only when its turn comes.
Accepted(h, op) == op.kind # "replace" => state[h] = "active" /\ ~closing[h]

Call(h, op) ==
  /\ state[h] \in {"active", "stopped"} /\ Accepted(h, op)
  /\ op.kind \in Called[h] /\ Len(queue[h]) < MaxQueue[h]
  /\ queue' = Set(queue, h, Append(queue[h], op))
  /\ closing' = IF op.kind \in Ending THEN Set(closing, h, TRUE) ELSE closing
  /\ UNCHANGED <<leases, state, scope, started, txn>>

\* The turn of the head: a stopped handle, or a replacement on a closing one, is
\* refused without the mutex.
Turn(h) ==
  /\ state[h] \in {"active", "stopped"} /\ queue[h] # <<>> /\ ~started[h]
  /\ IF state[h] = "active" /\ (Head(queue[h]).kind = "replace" => ~closing[h])
     THEN started' = Set(started, h, TRUE) /\ UNCHANGED <<state, queue>>
     ELSE Finish(h, FALSE)
  /\ UNCHANGED <<leases, closing, scope, txn>>

Begin(h) ==
  /\ started[h] /\ state[h] # "gone"
  /\ Enter(h, Head(queue[h]))
  /\ UNCHANGED <<leases, handle>>

Running(h, kinds) == txn # None /\ txn.handle = h /\ txn.op.kind \in kinds
\* What every transaction of a handle leaves behind.
Leave(h, stop) == txn' = None /\ Finish(h, stop) /\ UNCHANGED closing

AssertCommit(h) ==
  /\ Running(h, {"assert"})
  /\ Leave(h, ~StillHeld(h)) /\ UNCHANGED <<leases, scope>>

\* Variant: each heartbeat adds a lifetime to what is left.
HeartbeatAdds(h) ==
  /\ Running(h, {"heartbeat"})
  /\ leases' = IF StillHeld(h) THEN [leases EXCEPT ![h].left = @ + TTL] ELSE leases
  /\ Leave(h, ~StillHeld(h)) /\ UNCHANGED scope

HeartbeatCommit(h) ==
  /\ Running(h, {"heartbeat"})
  /\ leases' = IF StillHeld(h) THEN [leases EXCEPT ![h].left = Lifetime] ELSE leases
  /\ Leave(h, ~StillHeld(h)) /\ UNCHANGED scope

\* release and abandon: the lease goes, and the handle stops held or not.
EndCommit(h) ==
  /\ Running(h, Ending)
  /\ leases' = IF StillHeld(h) THEN Restrict(leases, DOMAIN leases \ {h}) ELSE leases
  /\ Leave(h, TRUE) /\ UNCHANGED scope

\* Variant: the replacement is compared with nothing.
ReplaceUnchecked(h) ==
  /\ Running(h, {"replace"})
  /\ IF StillHeld(h)
     THEN leases' = [leases EXCEPT ![h].scope = txn.op.scope] /\ scope' = Set(scope, h, txn.op.scope)
     ELSE UNCHANGED <<leases, scope>>
  /\ Leave(h, FALSE)

\* Variant: the handle takes its new scope before the conflict is found.
ReplaceEarly(h) ==
  /\ Running(h, {"replace"})
  /\ leases' = IF StillHeld(h) /\ ~Conflicts(txn.op.scope, txn.live \ {h})
                THEN [leases EXCEPT ![h].scope = txn.op.scope] ELSE leases
  /\ scope' = Set(scope, h, txn.op.scope)
  /\ Leave(h, FALSE)

\* A failed replacement keeps the lease and its scope, and never stops the handle.
ReplaceCommit(h) ==
  /\ Running(h, {"replace"})
  /\ IF StillHeld(h) /\ ~Conflicts(txn.op.scope, txn.live \ {h})
     THEN leases' = [leases EXCEPT ![h].scope = txn.op.scope] /\ scope' = Set(scope, h, txn.op.scope)
     ELSE UNCHANGED <<leases, scope>>
  /\ Leave(h, FALSE)

\* Variant: a failed release leaves the handle closing.
LockErrorStuck(h) ==
  /\ state[h] # "gone" /\ started[h]
  /\ txn' = IF txn # None /\ txn.handle = h THEN None ELSE txn
  /\ Finish(h, Head(queue[h]).kind = "abandon")
  /\ UNCHANGED <<leases, scope, closing>>

\* lock-timeout before, or lock-lost during, the transaction: a release can be
\* tried again, an abandoned handle stops, anything else goes on.
LockError(h) ==
  /\ state[h] # "gone" /\ started[h]
  /\ txn' = IF txn # None /\ txn.handle = h THEN None ELSE txn
  /\ Finish(h, Head(queue[h]).kind = "abandon")
  /\ closing' = IF Head(queue[h]).kind = "release" THEN Set(closing, h, FALSE) ELSE closing
  /\ UNCHANGED <<leases, scope>>

-----------------------------------------------------------------------------
(* The end of a handle, and time *)

\* close() only stops the handle and its timer; the lease is left to expire.
Close(h) ==
  /\ state[h] = "active"
  /\ state' = Set(state, h, "stopped")
  /\ UNCHANGED <<leases, closing, scope, queue, started, txn>>

\* The process dies, and its mutex is recovered (LeaseMutex).
Crash(h) ==
  /\ state[h] \in {"acquiring", "active", "stopped"}
  /\ state' = Set(state, h, "gone")
  /\ queue' = Set(queue, h, <<>>) /\ started' = Set(started, h, FALSE)
  /\ closing' = Set(closing, h, FALSE) /\ scope' = Set(scope, h, None)
  /\ txn' = IF txn # None /\ txn.handle = h THEN None ELSE txn
  /\ UNCHANGED leases

Tick ==
  /\ leases' = [h \in DOMAIN leases |-> [leases[h] EXCEPT !.left = IF @ > 0 THEN @ - 1 ELSE 0]]
  /\ txn' = IF txn # None /\ txn.age < TTL THEN [txn EXCEPT !.age = @ + 1] ELSE txn
  /\ leases' # leases \/ txn' # txn
  /\ UNCHANGED handle

Commit(h) == AcquireCommit(h) \/ AssertCommit(h) \/ HeartbeatCommit(h) \/ EndCommit(h) \/ ReplaceCommit(h)
Next ==
  \/ \E h \in Handles :
       \/ \E s \in Scopes : AcquireBegin(h, s)
       \/ \E op \in Ops : Call(h, op)
       \/ Turn(h) \/ Begin(h) \/ Commit(h) \/ AcquireError(h) \/ LockError(h) \/ Close(h) \/ Crash(h)
  \/ Tick

Spec == Init /\ [][Next]_vars
\* Promise chains run, and a transaction under the mutex ends.  A call for the
\* mutex is answered (its retries are bounded), by it or by an error.
Fairness == \A h \in Handles : WF_vars(Turn(h)) /\ WF_vars(Commit(h) \/ AcquireError(h) \/ LockError(h))
FairSpec == Spec /\ Fairness

-----------------------------------------------------------------------------
(* Properties *)

Lease == [scope : Scopes, left : 0..TTL]
Transaction ==
  [handle : Handles, op : Ops \cup [kind : {"acquire"}, scope : Scopes], live : SUBSET Handles,
   age : 0..TTL]
ASSUME NoTransaction == None \notin Transaction

\* The shape of the file, the handles and the transaction under the mutex.
TypeOK ==
  /\ DOMAIN leases \subseteq Handles /\ leases \in [DOMAIN leases -> Lease]
  /\ state \in [Handles -> {"idle", "acquiring", "active", "stopped", "gone"}]
  /\ closing \in [Handles -> BOOLEAN] /\ scope \in [Handles -> Scopes \cup {None}]
  /\ queue \in [Handles -> Seq(Ops)] /\ started \in [Handles -> BOOLEAN]
  /\ \A h \in Handles : started[h] => queue[h] # <<>>
  /\ txn \in Transaction \cup {None}
  /\ txn # None => txn.live \subseteq DOMAIN leases

\* Two leases that have not expired never cover conflicting scopes, whatever
\* heartbeats, replacements, expiries and slow transactions come between.
NoOverlap ==
  \A g, h \in Live : g # h => {leases[g].scope, leases[h].scope} \notin Clashes

\* A handle that still works never believes in a scope the file does not give it.
ScopeAgrees ==
  \A h \in DOMAIN leases : state[h] = "active" => scope[h] = leases[h].scope

\* Once a lease has expired it never lives again, unless its own heartbeat had
\* looked at the clock before.
ExpiredForGood ==
  [][\A h \in DOMAIN leases :
       leases[h].left = 0 /\ ~(txn # None /\ txn.handle = h /\ h \in txn.live) => h \notin Live']_vars

\* A release or an abandonment ends: the handle stops, or the release failed and
\* can be tried again; nothing waits for ever behind it.
EndingAnswered ==
  \A h \in Handles : closing[h] ~> ~closing[h] \/ state[h] \in {"stopped", "gone"}
=============================================================================
