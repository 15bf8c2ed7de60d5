------------------------- MODULE LeaseRegistryProofs -------------------------
(***************************************************************************)
(* Scope leases never overlap and expire for good, for any number of        *)
(* handles and scopes, any lifetime and chains of any length; and all that  *)
(* the handles do, seen from outside, is sharing a LeasePool.               *)
(***************************************************************************)
EXTENDS LeaseRegistry, TLAPS

USE RegistryAssumption

\* No two of the given leases cover conflicting scopes.
Apart(S) == \A g, h \in S : g # h => {leases[g].scope, leases[h].scope} \notin Clashes

\* The transaction looked when at least the present leases were alive, which do
\* not overlap either; it belongs to a call that is still waiting for it.
TxnInv ==
  txn # None =>
    /\ Live \subseteq txn.live /\ Apart(txn.live)
    /\ IF txn.op.kind = "acquire" THEN state[txn.handle] = "acquiring" ELSE started[txn.handle]

\* A call that has no handle yet has no lease either.
NewInv == \A h \in Handles : state[h] \in {"idle", "acquiring"} => h \notin DOMAIN leases /\ ~started[h]

RegistryInv == TypeOK /\ NoOverlap /\ ScopeAgrees /\ TxnInv /\ NewInv

-----------------------------------------------------------------------------
(* What the steps have in common *)

\* Every operation of a handle has a kind of its own, and a replacement a scope.
LEMMA OpsTyped ==
  ASSUME NEW op \in Ops
  PROVE  op.kind # "acquire" /\ (op.kind = "replace" => op.scope \in Scopes)
BY DEF Ops

\* The new lifetime of a lease.
LEMMA LifetimeTyped ==
  ASSUME txn \in Transaction
  PROVE  Lifetime \in 0..TTL
BY DEF Lifetime, Transaction

\* A handle whose chain moves on stays well typed.
LEMMA FinishTyped ==
  ASSUME TypeOK, NEW h \in Handles, NEW stop \in BOOLEAN, queue[h] # <<>>, Finish(h, stop)
  PROVE  /\ queue' \in [Handles -> Seq(Ops)] /\ started' \in [Handles -> BOOLEAN]
         /\ state' \in [Handles -> {"idle", "acquiring", "active", "stopped", "gone"}]
         /\ \A g \in Handles : started'[g] => queue'[g] # <<>>
<1>1. queue[h] \in Seq(Ops) /\ Tail(queue[h]) \in Seq(Ops)
  BY DEF TypeOK
<1>2. queue' \in [Handles -> Seq(Ops)] /\ started' \in [Handles -> BOOLEAN]
  BY <1>1 DEF TypeOK, Finish, Set
<1>3. state' \in [Handles -> {"idle", "acquiring", "active", "stopped", "gone"}]
  BY DEF TypeOK, Finish, Set
<1>4. \A g \in Handles : started'[g] => queue'[g] # <<>>
  <2> SUFFICES ASSUME NEW g \in Handles, started'[g] PROVE queue'[g] # <<>>
    OBVIOUS
  <2>1. g # h /\ started[g] /\ queue'[g] = queue[g]
    BY DEF TypeOK, Finish, Set
  <2> QED
    BY <2>1 DEF TypeOK
<1> QED
  BY <1>2, <1>3, <1>4

\* Moving the chain on changes the state of a working handle only, to stopped.
LEMMA FinishStates ==
  ASSUME TypeOK, NEW h \in Handles, NEW stop \in BOOLEAN, Finish(h, stop), NEW g \in Handles
  PROVE  /\ state'[g] = state[g] \/ (state[g] = "active" /\ state'[g] = "stopped")
         /\ started'[g] => started[g] /\ g # h
BY DEF TypeOK, Finish, Set

\* The initial file is empty.
LEMMA RegistryInit == Init => RegistryInv
<1> SUFFICES ASSUME Init PROVE RegistryInv
  OBVIOUS
<1>1. TypeOK
  BY DEF Init, TypeOK
<1> QED
  BY <1>1 DEF Init, RegistryInv, NoOverlap, ScopeAgrees, TxnInv, NewInv, Live

-----------------------------------------------------------------------------
(* Every step keeps the invariant *)

\* A step that leaves the file alone, takes no new transaction, and activates no
\* handle, keeps everything that is said about leases.
LEMMA QuietStep ==
  ASSUME RegistryInv, leases' = leases, scope' = scope, txn' = txn \/ txn' = None, TypeOK',
         \A g \in Handles : /\ state'[g] = state[g] \/ state'[g] \in {"stopped", "gone"}
                            /\ state'[g] \in {"idle", "acquiring"} => ~started'[g],
         txn' # None => /\ state'[txn.handle] = state[txn.handle] \/ txn.op.kind # "acquire"
                        /\ started'[txn.handle] = started[txn.handle]
  PROVE  RegistryInv'
<1>1. Live' = Live
  BY DEF Live
<1>2. NoOverlap'
  BY <1>1 DEF RegistryInv, NoOverlap
<1>3. ScopeAgrees'
  BY DEF RegistryInv, ScopeAgrees, TypeOK
<1>4. TxnInv'
  BY <1>1 DEF RegistryInv, TxnInv, Apart
<1>5. NewInv'
  BY DEF RegistryInv, NewInv
<1> QED
  BY <1>2, <1>3, <1>4, <1>5 DEF RegistryInv

LEMMA AcquireBeginStep ==
  ASSUME RegistryInv, NEW h \in Handles, NEW s \in Scopes, AcquireBegin(h, s)
  PROVE  RegistryInv'
<1> DEFINE t == [handle |-> h, op |-> [kind |-> "acquire", scope |-> s], live |-> Live, age |-> 0]
<1>1. txn' = t /\ leases' = leases /\ state' = [state EXCEPT ![h] = "acquiring"]
      /\ closing' = closing /\ scope' = scope /\ queue' = queue /\ started' = started
  BY DEF AcquireBegin, Enter, Set
<1>2. TypeOK'
  <2>1. Live \subseteq DOMAIN leases /\ Live \subseteq Handles
    BY DEF Live, RegistryInv, TypeOK
  <2>2. t \in Transaction
    BY <2>1 DEF Transaction
  <2> QED
    BY <1>1, <2>1, <2>2 DEF RegistryInv, TypeOK
<1>3. Live' = Live /\ NoOverlap' /\ ScopeAgrees'
  BY <1>1 DEF RegistryInv, Live, NoOverlap, ScopeAgrees, TypeOK
<1>4. TxnInv'
  BY <1>1, <1>3 DEF RegistryInv, TxnInv, Apart, NoOverlap, TypeOK
<1>5. NewInv'
  BY <1>1 DEF RegistryInv, NewInv, TypeOK, AcquireBegin
<1> QED
  BY <1>2, <1>3, <1>4, <1>5 DEF RegistryInv

\* The leases that were alive when the acquisition looked, and the new one.
LEMMA AcquireCommitStep ==
  ASSUME RegistryInv, NEW h \in Handles, AcquireCommit(h)
  PROVE  RegistryInv'
<1>1. txn \in Transaction /\ txn # None /\ txn.handle = h /\ txn.op.kind = "acquire" /\ txn' = None
  BY DEF AcquireCommit, RegistryInv, TypeOK
<1>2. txn.op \in [kind : {"acquire"}, scope : Scopes]
  BY <1>1, OpsTyped DEF Transaction
<1>3. txn.live \subseteq DOMAIN leases /\ txn.live \subseteq Handles /\ Live \subseteq txn.live
      /\ Apart(txn.live) /\ state[h] = "acquiring" /\ h \notin DOMAIN leases /\ ~started[h]
  BY <1>1 DEF RegistryInv, TypeOK, TxnInv, NewInv, Transaction
<1>4. closing' = closing /\ queue' = queue /\ started' = started
  BY DEF AcquireCommit
<1>5. CASE Conflicts(txn.op.scope, txn.live)
  <2>1. state' = [state EXCEPT ![h] = "gone"] /\ leases' = leases /\ scope' = scope
    BY <1>5 DEF AcquireCommit, Set
  <2>2. TypeOK'
    BY <1>1, <1>4, <2>1 DEF RegistryInv, TypeOK
  <2> QED
    BY <1>1, <1>3, <1>4, <2>1, <2>2, QuietStep DEF RegistryInv, TypeOK, NewInv
<1>6. CASE ~Conflicts(txn.op.scope, txn.live)
  <2> DEFINE new == [scope |-> txn.op.scope, left |-> Lifetime]
  <2>1. /\ leases' = [g \in txn.live \cup {h} |-> IF g = h THEN new ELSE leases[g]]
        /\ scope' = [scope EXCEPT ![h] = txn.op.scope] /\ state' = [state EXCEPT ![h] = "active"]
    BY <1>6 DEF AcquireCommit, Set
  <2>2. new \in Lease
    BY <1>1, <1>2, LifetimeTyped DEF Lease
  <2>3. TypeOK'
    BY <1>1, <1>2, <1>3, <1>4, <2>1, <2>2 DEF RegistryInv, TypeOK
  <2>4. \A g \in txn.live : {txn.op.scope, leases[g].scope} \notin Clashes
    BY <1>6 DEF Conflicts
  <2>5. NoOverlap'
    <3> SUFFICES ASSUME NEW f \in Live', NEW g \in Live', f # g
                 PROVE  {leases'[f].scope, leases'[g].scope} \notin Clashes
      BY DEF NoOverlap
    <3>1. f \in txn.live \cup {h} /\ g \in txn.live \cup {h}
      BY <2>1 DEF Live
    <3>2. CASE f = h
      BY <1>2, <2>1, <2>4, <3>1, <3>2
    <3>3. CASE g = h
      <4>1. {leases'[g].scope, leases'[f].scope} \notin Clashes
        BY <1>2, <2>1, <2>4, <3>1, <3>3
      <4>2. {leases'[f].scope, leases'[g].scope} = {leases'[g].scope, leases'[f].scope}
        OBVIOUS
      <4> QED
        BY <4>1, <4>2
    <3>4. CASE f # h /\ g # h
      BY <1>3, <2>1, <3>1, <3>4 DEF Apart
    <3> QED
      BY <3>2, <3>3, <3>4
  <2>6. ScopeAgrees'
    BY <1>2, <1>3, <2>1 DEF RegistryInv, ScopeAgrees, TypeOK
  <2>7. TxnInv' /\ NewInv'
    BY <1>1, <1>3, <1>4, <2>1 DEF RegistryInv, TxnInv, NewInv, TypeOK
  <2> QED
    BY <2>3, <2>5, <2>6, <2>7 DEF RegistryInv
<1> QED
  BY <1>5, <1>6

LEMMA AcquireErrorStep ==
  ASSUME RegistryInv, NEW h \in Handles, AcquireError(h)
  PROVE  RegistryInv'
<1>1. state' = [state EXCEPT ![h] = "gone"] /\ txn' = None /\ leases' = leases /\ closing' = closing
      /\ scope' = scope /\ queue' = queue /\ started' = started
  BY DEF AcquireError, Set
<1>2. TypeOK'
  BY <1>1 DEF RegistryInv, TypeOK
<1> QED
  BY <1>1, <1>2, QuietStep DEF RegistryInv, TypeOK, NewInv

LEMMA CallStep ==
  ASSUME RegistryInv, NEW h \in Handles, NEW op \in Ops, Call(h, op)
  PROVE  RegistryInv'
<1>1. queue' = [queue EXCEPT ![h] = Append(queue[h], op)] /\ leases' = leases /\ state' = state
      /\ scope' = scope /\ started' = started /\ txn' = txn
  BY DEF Call, Set
<1>2. closing' \in [Handles -> BOOLEAN]
  BY DEF Call, Set, RegistryInv, TypeOK
<1>3. Append(queue[h], op) \in Seq(Ops) /\ Append(queue[h], op) # <<>>
  <2>1. queue[h] \in Seq(Ops)
    BY DEF RegistryInv, TypeOK
  <2> HIDE DEF Ops
  <2>2. Append(queue[h], op) \in Seq(Ops) /\ Len(Append(queue[h], op)) = Len(queue[h]) + 1
    BY <2>1
  <2> QED
    BY <2>1, <2>2
<1>4. TypeOK'
  BY <1>1, <1>2, <1>3 DEF RegistryInv, TypeOK
<1> QED
  BY <1>1, <1>4, QuietStep DEF RegistryInv, TypeOK, NewInv

\* The turn of a head that is refused belongs to no transaction.
LEMMA TurnStep ==
  ASSUME RegistryInv, NEW h \in Handles, Turn(h)
  PROVE  RegistryInv'
<1>1. leases' = leases /\ closing' = closing /\ scope' = scope /\ txn' = txn
      /\ state[h] \in {"active", "stopped"} /\ queue[h] # <<>> /\ ~started[h]
  BY DEF Turn
<1>2. state' = state /\ \A g \in Handles \ {h} : started'[g] = started[g]
  BY <1>1 DEF Turn, Finish, Set, RegistryInv, TypeOK
<1>3. TypeOK'
  <2>1. CASE started' = [started EXCEPT ![h] = TRUE] /\ queue' = queue
    BY <1>1, <1>2, <2>1 DEF RegistryInv, TypeOK
  <2>2. CASE Finish(h, FALSE)
    BY <1>1, <2>2, FinishTyped DEF RegistryInv, TypeOK
  <2> QED
    BY <2>1, <2>2 DEF Turn, Set
<1>4. \A g \in Handles : /\ state'[g] = state[g] \/ state'[g] \in {"stopped", "gone"}
                         /\ state'[g] \in {"idle", "acquiring"} => ~started'[g]
  BY <1>1, <1>2 DEF RegistryInv, NewInv
<1>5. ASSUME txn' # None
      PROVE  /\ state'[txn.handle] = state[txn.handle] \/ txn.op.kind # "acquire"
             /\ started'[txn.handle] = started[txn.handle]
  <2>1. txn # None /\ txn \in Transaction /\ txn.handle # h
    BY <1>1, <1>5 DEF RegistryInv, TypeOK, TxnInv
  <2> QED
    BY <1>2, <2>1 DEF Transaction
<1> QED
  BY <1>1, <1>3, <1>4, <1>5, QuietStep

LEMMA BeginStep ==
  ASSUME RegistryInv, NEW h \in Handles, Begin(h)
  PROVE  RegistryInv'
<1> DEFINE t == [handle |-> h, op |-> Head(queue[h]), live |-> Live, age |-> 0]
<1>1. txn' = t /\ started[h] /\ leases' = leases /\ state' = state
      /\ closing' = closing /\ scope' = scope /\ queue' = queue /\ started' = started
  BY DEF Begin, Enter, handle
<1>2. Head(queue[h]) \in Ops
  BY <1>1 DEF RegistryInv, TypeOK
<1>3. TypeOK'
  <2>1. Live \subseteq DOMAIN leases /\ Live \subseteq Handles
    BY DEF Live, RegistryInv, TypeOK
  <2>2. t \in Transaction
    BY <1>2, <2>1 DEF Transaction
  <2> QED
    BY <1>1, <2>1, <2>2 DEF RegistryInv, TypeOK
<1>4. Live' = Live /\ NoOverlap' /\ ScopeAgrees' /\ NewInv'
  BY <1>1 DEF RegistryInv, Live, NoOverlap, ScopeAgrees, TypeOK, NewInv
<1>5. TxnInv'
  BY <1>1, <1>2, <1>4, OpsTyped DEF RegistryInv, TxnInv, Apart, NoOverlap, TypeOK
<1> QED
  BY <1>3, <1>4, <1>5 DEF RegistryInv

\* What is known of the transaction a handle runs.
LEMMA RunningFacts ==
  ASSUME RegistryInv, NEW h \in Handles, NEW kinds, Running(h, kinds), "acquire" \notin kinds
  PROVE  /\ txn \in Transaction /\ txn # None /\ txn.handle = h /\ txn.op \in Ops
         /\ queue[h] # <<>> /\ txn.live \subseteq DOMAIN leases /\ txn.live \subseteq Handles
         /\ Live \subseteq txn.live /\ Apart(txn.live)
<1>1. txn \in Transaction /\ txn # None /\ txn.handle = h /\ txn.op.kind # "acquire"
  BY DEF Running, RegistryInv, TypeOK
<1>2. txn.op \in Ops
  BY <1>1 DEF Transaction
<1>3. txn.live \subseteq DOMAIN leases /\ txn.live \subseteq Handles /\ Live \subseteq txn.live
      /\ Apart(txn.live) /\ started[h]
  BY <1>1 DEF RegistryInv, TypeOK, TxnInv, Transaction
<1>4. queue[h] # <<>>
  BY <1>3 DEF RegistryInv, TypeOK
<1> QED
  BY <1>1, <1>2, <1>3, <1>4

\* A transaction that ends leaves only its effect on the leases to be looked at.
LEMMA LeaveStep ==
  ASSUME RegistryInv, NEW h \in Handles, NEW stop \in BOOLEAN, queue[h] # <<>>, Leave(h, stop),
         DOMAIN leases' \subseteq DOMAIN leases, leases' \in [DOMAIN leases' -> Lease],
         scope' \in [Handles -> Scopes \cup {None}], NoOverlap',
         \A g \in DOMAIN leases' : state[g] = "active" => scope'[g] = leases'[g].scope
  PROVE  RegistryInv'
<1>1. txn' = None /\ closing' = closing /\ Finish(h, stop)
  BY DEF Leave
<1>2. TypeOK'
  BY <1>1, FinishTyped DEF RegistryInv, TypeOK
<1>3. \A g \in Handles : /\ state'[g] = state[g] \/ (state[g] = "active" /\ state'[g] = "stopped")
                         /\ started'[g] => started[g]
  BY <1>1, FinishStates DEF RegistryInv
<1>4. ScopeAgrees'
  BY <1>2, <1>3 DEF ScopeAgrees, TypeOK
<1>5. NewInv'
  BY <1>3 DEF RegistryInv, NewInv
<1> QED
  BY <1>1, <1>2, <1>4, <1>5 DEF RegistryInv, TxnInv

LEMMA AssertCommitStep ==
  ASSUME RegistryInv, NEW h \in Handles, AssertCommit(h)
  PROVE  RegistryInv'
<1>1. queue[h] # <<>>
  BY RunningFacts DEF AssertCommit
<1>2. Leave(h, ~StillHeld(h)) /\ leases' = leases /\ scope' = scope
  BY DEF AssertCommit
<1>3. NoOverlap' /\ \A g \in DOMAIN leases' : state[g] = "active" => scope'[g] = leases'[g].scope
  BY <1>2 DEF RegistryInv, NoOverlap, Live, ScopeAgrees
<1> QED
  BY <1>1, <1>2, <1>3, LeaveStep DEF RegistryInv, TypeOK

\* A heartbeat may bring back a lease that expired while the file was written:
\* it was alive when the transaction looked, and nobody could take its scope.
LEMMA HeartbeatCommitStep ==
  ASSUME RegistryInv, NEW h \in Handles, HeartbeatCommit(h)
  PROVE  RegistryInv'
<1>1. txn \in Transaction /\ queue[h] # <<>> /\ Live \subseteq txn.live /\ Apart(txn.live)
  BY RunningFacts DEF HeartbeatCommit
<1>2. Leave(h, ~StillHeld(h)) /\ scope' = scope
  BY DEF HeartbeatCommit
<1>3. CASE ~StillHeld(h)
  <2>1. leases' = leases
    BY <1>3 DEF HeartbeatCommit
  <2>2. NoOverlap' /\ \A g \in DOMAIN leases' : state[g] = "active" => scope'[g] = leases'[g].scope
    BY <1>2, <2>1 DEF RegistryInv, NoOverlap, Live, ScopeAgrees
  <2> QED
    BY <1>1, <1>2, <2>1, <2>2, LeaveStep DEF RegistryInv, TypeOK
<1>4. CASE StillHeld(h)
  <2>1. leases' = [leases EXCEPT ![h].left = Lifetime] /\ h \in txn.live /\ h \in DOMAIN leases
    BY <1>4 DEF HeartbeatCommit, StillHeld
  <2>2. DOMAIN leases' = DOMAIN leases /\ leases' \in [DOMAIN leases -> Lease]
    <3>1. leases \in [DOMAIN leases -> Lease] /\ leases[h] \in Lease
      BY <2>1 DEF RegistryInv, TypeOK
    <3>2. [leases[h] EXCEPT !.left = Lifetime] \in Lease
      BY <1>1, <3>1, LifetimeTyped DEF Lease
    <3>3. leases' = [leases EXCEPT ![h] = [leases[h] EXCEPT !.left = Lifetime]]
      BY <2>1
    <3> QED
      BY <3>1, <3>2, <3>3
  <2>3. \A g \in DOMAIN leases : leases'[g].scope = leases[g].scope /\ (g # h => leases'[g] = leases[g])
    BY <2>1 DEF RegistryInv, TypeOK, Lease
  <2>4. Live' \subseteq txn.live
    BY <1>1, <2>1, <2>2, <2>3 DEF Live
  <2>5. NoOverlap'
    BY <1>1, <2>2, <2>3, <2>4 DEF NoOverlap, Apart, Live
  <2>6. \A g \in DOMAIN leases' : state[g] = "active" => scope'[g] = leases'[g].scope
    BY <1>2, <2>2, <2>3 DEF RegistryInv, ScopeAgrees
  <2> QED
    BY <1>1, <1>2, <2>2, <2>5, <2>6, LeaveStep DEF RegistryInv, TypeOK
<1> QED
  BY <1>3, <1>4

LEMMA EndCommitStep ==
  ASSUME RegistryInv, NEW h \in Handles, EndCommit(h)
  PROVE  RegistryInv'
<1>1. queue[h] # <<>> /\ Leave(h, TRUE) /\ scope' = scope
  BY RunningFacts DEF EndCommit, Ending
<1>2. DOMAIN leases' \subseteq DOMAIN leases /\ \A g \in DOMAIN leases' : leases'[g] = leases[g]
  BY DEF EndCommit, Restrict
<1>3. leases' \in [DOMAIN leases' -> Lease]
  BY <1>2 DEF EndCommit, Restrict, RegistryInv, TypeOK
<1>4. NoOverlap' /\ \A g \in DOMAIN leases' : state[g] = "active" => scope'[g] = leases'[g].scope
  BY <1>1, <1>2 DEF RegistryInv, NoOverlap, Live, ScopeAgrees
<1> QED
  BY <1>1, <1>2, <1>3, <1>4, LeaveStep DEF RegistryInv, TypeOK

LEMMA ReplaceCommitStep ==
  ASSUME RegistryInv, NEW h \in Handles, ReplaceCommit(h)
  PROVE  RegistryInv'
<1>1. txn \in Transaction /\ txn.op \in Ops /\ txn.op.kind = "replace" /\ queue[h] # <<>>
      /\ Live \subseteq txn.live /\ Apart(txn.live) /\ txn.live \subseteq DOMAIN leases
  BY RunningFacts DEF ReplaceCommit, Running
<1>2. Leave(h, FALSE)
  BY DEF ReplaceCommit
<1>3. CASE ~(StillHeld(h) /\ ~Conflicts(txn.op.scope, txn.live \ {h}))
  <2>1. leases' = leases /\ scope' = scope
    BY <1>3 DEF ReplaceCommit
  <2>2. NoOverlap' /\ \A g \in DOMAIN leases' : state[g] = "active" => scope'[g] = leases'[g].scope
    BY <2>1 DEF RegistryInv, NoOverlap, Live, ScopeAgrees
  <2> QED
    BY <1>1, <1>2, <2>1, <2>2, LeaveStep DEF RegistryInv, TypeOK
<1>4. CASE StillHeld(h) /\ ~Conflicts(txn.op.scope, txn.live \ {h})
  <2> DEFINE s == txn.op.scope
  <2>1. s \in Scopes
    BY <1>1, OpsTyped
  <2>2. leases' = [leases EXCEPT ![h].scope = s] /\ scope' = [scope EXCEPT ![h] = s] /\ h \in DOMAIN leases
    BY <1>4 DEF ReplaceCommit, StillHeld, Set
  <2>3. DOMAIN leases' = DOMAIN leases /\ leases' \in [DOMAIN leases -> Lease]
    <3>1. leases \in [DOMAIN leases -> Lease] /\ leases[h] \in Lease
      BY <2>2 DEF RegistryInv, TypeOK
    <3>2. [leases[h] EXCEPT !.scope = s] \in Lease
      BY <2>1, <3>1 DEF Lease
    <3>3. leases' = [leases EXCEPT ![h] = [leases[h] EXCEPT !.scope = s]]
      BY <2>2
    <3> QED
      BY <3>1, <3>2, <3>3
  <2>4. /\ leases'[h].scope = s
        /\ \A g \in DOMAIN leases : leases'[g].left = leases[g].left /\ (g # h => leases'[g] = leases[g])
    BY <2>2 DEF RegistryInv, TypeOK, Lease
  <2>5. Live' = Live
    BY <2>3, <2>4 DEF Live
  <2>6. \A g \in txn.live \ {h} : {s, leases[g].scope} \notin Clashes
    BY <1>4 DEF Conflicts
  <2>7. NoOverlap'
    <3> SUFFICES ASSUME NEW f \in Live, NEW g \in Live, f # g
                 PROVE  {leases'[f].scope, leases'[g].scope} \notin Clashes
      BY <2>5 DEF NoOverlap
    <3> HIDE DEF s
    <3>1. f \in txn.live /\ g \in txn.live /\ f \in DOMAIN leases /\ g \in DOMAIN leases
      BY <1>1
    <3>2. CASE f = h
      BY <2>4, <2>6, <3>1, <3>2
    <3>3. CASE g = h
      <4>1. {leases'[g].scope, leases'[f].scope} \notin Clashes
        BY <2>4, <2>6, <3>1, <3>3
      <4>2. {leases'[f].scope, leases'[g].scope} = {leases'[g].scope, leases'[f].scope}
        OBVIOUS
      <4> QED
        BY <4>1, <4>2
    <3>4. CASE f # h /\ g # h
      BY <1>1, <2>4, <3>1, <3>4 DEF Apart
    <3> QED
      BY <3>2, <3>3, <3>4
  <2>8. scope' \in [Handles -> Scopes \cup {None}]
    BY <2>1, <2>2 DEF RegistryInv, TypeOK
  <2>9. \A g \in DOMAIN leases' : state[g] = "active" => scope'[g] = leases'[g].scope
    BY <2>2, <2>3, <2>4 DEF RegistryInv, ScopeAgrees, TypeOK
  <2> QED
    BY <1>1, <1>2, <2>3, <2>7, <2>8, <2>9, LeaveStep
<1> QED
  BY <1>3, <1>4

LEMMA LockErrorStep ==
  ASSUME RegistryInv, NEW h \in Handles, LockError(h)
  PROVE  RegistryInv'
<1> DEFINE stop == Head(queue[h]).kind = "abandon"
<1>1. started[h] /\ Finish(h, stop) /\ leases' = leases /\ scope' = scope
      /\ txn' = IF txn # None /\ txn.handle = h THEN None ELSE txn
  BY DEF LockError
<1>2. queue[h] # <<>> /\ closing' \in [Handles -> BOOLEAN]
  BY <1>1 DEF LockError, Set, RegistryInv, TypeOK
<1> HIDE DEF stop
<1>3. stop \in BOOLEAN
  BY DEF stop
<1>4. TypeOK'
  BY <1>1, <1>2, <1>3, FinishTyped DEF RegistryInv, TypeOK
<1>5. \A g \in Handles : /\ state'[g] = state[g] \/ (state[g] = "active" /\ state'[g] = "stopped")
                         /\ started'[g] => started[g]
  BY <1>1, <1>3, FinishStates DEF RegistryInv
<1>6. \A g \in Handles : /\ state'[g] = state[g] \/ state'[g] \in {"stopped", "gone"}
                         /\ state'[g] \in {"idle", "acquiring"} => ~started'[g]
  BY <1>5 DEF RegistryInv, NewInv
<1>7. ASSUME txn' # None
      PROVE  /\ state'[txn.handle] = state[txn.handle] \/ txn.op.kind # "acquire"
             /\ started'[txn.handle] = started[txn.handle]
  <2>1. txn' = txn /\ txn \in Transaction /\ txn.handle \in Handles \ {h}
    BY <1>1, <1>7 DEF RegistryInv, TypeOK, Transaction
  <2>2. started' = [started EXCEPT ![h] = FALSE]
    BY <1>1 DEF Finish, Set
  <2>3. txn.op.kind = "acquire" => state[txn.handle] = "acquiring"
    BY <1>7, <2>1 DEF RegistryInv, TxnInv
  <2> QED
    BY <1>5, <2>1, <2>2, <2>3 DEF RegistryInv, TypeOK
<1> QED
  BY <1>1, <1>4, <1>6, <1>7, QuietStep

LEMMA CloseStep ==
  ASSUME RegistryInv, NEW h \in Handles, Close(h)
  PROVE  RegistryInv'
<1>1. state[h] = "active" /\ state' = [state EXCEPT ![h] = "stopped"] /\ leases' = leases /\ txn' = txn
      /\ closing' = closing /\ scope' = scope /\ queue' = queue /\ started' = started
  BY DEF Close, Set
<1>2. TypeOK'
  BY <1>1 DEF RegistryInv, TypeOK
<1>3. \A g \in Handles : /\ state'[g] = state[g] \/ state'[g] \in {"stopped", "gone"}
                         /\ state'[g] \in {"idle", "acquiring"} => ~started'[g]
  BY <1>1 DEF RegistryInv, NewInv, TypeOK
<1>4. ASSUME txn' # None
      PROVE  /\ state'[txn.handle] = state[txn.handle] \/ txn.op.kind # "acquire"
             /\ started'[txn.handle] = started[txn.handle]
  BY <1>1, <1>4 DEF RegistryInv, TypeOK, TxnInv, Transaction
<1> QED
  BY <1>1, <1>2, <1>3, <1>4, QuietStep

LEMMA CrashStep ==
  ASSUME RegistryInv, NEW h \in Handles, Crash(h)
  PROVE  RegistryInv'
<1>1. /\ state' = [state EXCEPT ![h] = "gone"] /\ leases' = leases
      /\ queue' = [queue EXCEPT ![h] = <<>>] /\ started' = [started EXCEPT ![h] = FALSE]
      /\ closing' = [closing EXCEPT ![h] = FALSE] /\ scope' = [scope EXCEPT ![h] = None]
      /\ txn' = IF txn # None /\ txn.handle = h THEN None ELSE txn
  BY DEF Crash, Set
<1>2. TypeOK'
  BY <1>1 DEF RegistryInv, TypeOK
<1>3. NoOverlap'
  BY <1>1 DEF RegistryInv, NoOverlap, Live
<1>4. ScopeAgrees'
  BY <1>1 DEF RegistryInv, ScopeAgrees, TypeOK
<1>5. TxnInv'
  <2> SUFFICES ASSUME txn' # None PROVE TxnInv'
    BY DEF TxnInv
  <2>1. txn' = txn /\ txn \in Transaction /\ txn.handle \in Handles \ {h}
    BY <1>1 DEF RegistryInv, TypeOK, Transaction
  <2>2. state'[txn.handle] = state[txn.handle] /\ started'[txn.handle] = started[txn.handle]
    BY <1>1, <2>1 DEF RegistryInv, TypeOK
  <2> QED
    BY <1>1, <2>1, <2>2 DEF RegistryInv, TxnInv, Live, Apart
<1>6. NewInv'
  BY <1>1 DEF RegistryInv, NewInv, TypeOK
<1> QED
  BY <1>2, <1>3, <1>4, <1>5, <1>6 DEF RegistryInv

\* Time takes leases away and gives none.
LEMMA TickStep ==
  ASSUME RegistryInv, Tick
  PROVE  RegistryInv' /\ Live' \subseteq Live
<1>1. /\ leases' = [h \in DOMAIN leases |->
                     [leases[h] EXCEPT !.left = IF leases[h].left > 0 THEN leases[h].left - 1 ELSE 0]]
      /\ txn' = IF txn # None /\ txn.age < TTL THEN [txn EXCEPT !.age = txn.age + 1] ELSE txn
      /\ state' = state /\ closing' = closing /\ scope' = scope /\ queue' = queue /\ started' = started
  BY DEF Tick, handle
<1>2. \A h \in DOMAIN leases : leases'[h] \in Lease /\ leases'[h].scope = leases[h].scope
                              /\ leases'[h].left <= leases[h].left
  <2> SUFFICES ASSUME NEW h \in DOMAIN leases
               PROVE  leases'[h] \in Lease /\ leases'[h].scope = leases[h].scope
                      /\ leases'[h].left <= leases[h].left
    OBVIOUS
  <2>1. leases[h] \in Lease
    BY DEF RegistryInv, TypeOK
  <2> QED
    BY <1>1, <2>1 DEF Lease
<1>3. DOMAIN leases' = DOMAIN leases /\ leases' \in [DOMAIN leases -> Lease]
  BY <1>1, <1>2
<1>4. txn' \in Transaction \cup {None} /\ (txn' # None => txn # None /\ txn'.live = txn.live
         /\ txn'.handle = txn.handle /\ txn'.op = txn.op)
  <2>1. CASE txn # None /\ txn.age < TTL
    <3>1. txn \in Transaction
      BY <2>1 DEF RegistryInv, TypeOK
    <3> QED
      BY <1>1, <2>1, <3>1 DEF Transaction
  <2>2. CASE ~(txn # None /\ txn.age < TTL)
    BY <1>1, <2>2 DEF RegistryInv, TypeOK
  <2> QED
    BY <2>1, <2>2
<1>5. TypeOK'
  BY <1>1, <1>3, <1>4 DEF RegistryInv, TypeOK
<1>6. Live' \subseteq Live
  BY <1>2, <1>3 DEF Live, Lease, RegistryInv, TypeOK
<1>7. NoOverlap'
  BY <1>2, <1>6 DEF RegistryInv, NoOverlap, Live
<1>8. ScopeAgrees' /\ NewInv'
  BY <1>1, <1>2, <1>3 DEF RegistryInv, ScopeAgrees, NewInv
<1>9. TxnInv'
  <2> SUFFICES ASSUME txn' # None PROVE TxnInv'
    BY DEF TxnInv
  <2>1. /\ txn # None /\ txn'.live = txn.live /\ txn'.handle = txn.handle /\ txn'.op = txn.op
        /\ txn.live \subseteq DOMAIN leases
    BY <1>4 DEF RegistryInv, TypeOK
  <2>2. Live' \subseteq txn'.live
    BY <1>6, <2>1 DEF RegistryInv, TxnInv
  <2>3. \A g, h \in txn'.live : g # h => {leases'[g].scope, leases'[h].scope} \notin Clashes
    BY <1>2, <2>1 DEF RegistryInv, TxnInv, Apart
  <2>4. IF txn'.op.kind = "acquire" THEN state'[txn'.handle] = "acquiring" ELSE started'[txn'.handle]
    BY <1>1, <2>1 DEF RegistryInv, TxnInv
  <2> QED
    BY <2>2, <2>3, <2>4 DEF TxnInv, Apart
<1> QED
  BY <1>5, <1>6, <1>7, <1>8, <1>9 DEF RegistryInv

\* The invariant is inductive.
LEMMA RegistryStep ==
  ASSUME RegistryInv, [Next]_vars
  PROVE  RegistryInv'
<1>1. CASE UNCHANGED vars
  BY <1>1 DEF vars, RegistryInv, TypeOK, NoOverlap, ScopeAgrees, TxnInv, NewInv, Live, Apart
<1>2. CASE Tick
  BY <1>2, TickStep
<1>3. ASSUME NEW h \in Handles, NEW s \in Scopes, AcquireBegin(h, s) PROVE RegistryInv'
  BY <1>3, AcquireBeginStep
<1>4. ASSUME NEW h \in Handles, NEW op \in Ops, Call(h, op) PROVE RegistryInv'
  BY <1>4, CallStep
<1>5. ASSUME NEW h \in Handles,
             Turn(h) \/ Begin(h) \/ Commit(h) \/ AcquireError(h) \/ LockError(h) \/ Close(h) \/ Crash(h)
      PROVE  RegistryInv'
  BY <1>5, TurnStep, BeginStep, AcquireCommitStep, AssertCommitStep, HeartbeatCommitStep, EndCommitStep,
     ReplaceCommitStep, AcquireErrorStep, LockErrorStep, CloseStep, CrashStep DEF Commit
<1> QED
  BY <1>1, <1>2, <1>3, <1>4, <1>5 DEF Next

LEMMA RegistryInvariant == Spec => []RegistryInv
<1>1. RegistryInv /\ [Next]_vars => RegistryInv'
  BY RegistryStep
<1> QED
  BY RegistryInit, <1>1, PTL DEF Spec

-----------------------------------------------------------------------------
(* What the registry promises *)

\* The file, the handles and the transaction keep their shape through makeLease's
\* operations, crashes and expiries.
THEOREM LeaseRegistryTyped == Spec => []TypeOK
<1>1. RegistryInv => TypeOK
  BY DEF RegistryInv
<1> QED
  BY RegistryInvariant, <1>1, PTL

\* acquire, replaceScope and late heartbeats never let two living leases conflict.
THEOREM LeasesNeverOverlap == Spec => []NoOverlap
<1>1. RegistryInv => NoOverlap
  BY DEF RegistryInv
<1> QED
  BY RegistryInvariant, <1>1, PTL

\* A handle that works believes in the scope scope-leases.json gives it.
THEOREM HandleScopeAgrees == Spec => []ScopeAgrees
<1>1. RegistryInv => ScopeAgrees
  BY DEF RegistryInv
<1> QED
  BY RegistryInvariant, <1>1, PTL

\* An expired lease comes back only through a heartbeat that looked before.
THEOREM LeaseExpiresForGood == Spec => ExpiredForGood
<1>1. ASSUME RegistryInv, [Next]_vars, NEW h \in DOMAIN leases, leases[h].left = 0,
             ~(txn # None /\ txn.handle = h /\ h \in txn.live)
      PROVE  h \notin Live'
  <2> USE <1>1
  <2>1. h \in Handles /\ h \notin Live
    BY DEF RegistryInv, TypeOK, Live
  <2>2. leases' = leases => h \notin Live'
    BY DEF Live
  <2>3. CASE Tick
    BY <2>1, <2>3, TickStep
  <2>4. ASSUME NEW g \in Handles, AcquireCommit(g) PROVE h \notin Live'
    <3>1. txn # None /\ txn \in Transaction /\ txn.handle = g /\ state[g] = "acquiring" /\ g \notin DOMAIN leases
      BY <2>4 DEF AcquireCommit, RegistryInv, TypeOK, TxnInv, NewInv
    <3>2. g # h
      BY <3>1
    <3>3. leases' = leases \/ (h \in DOMAIN leases' => leases'[h] = leases[h])
      BY <2>4, <3>2 DEF AcquireCommit
    <3> QED
      BY <2>2, <3>3 DEF Live
  <2>5. ASSUME NEW g \in Handles, HeartbeatCommit(g) PROVE h \notin Live'
    <3>1. CASE StillHeld(g)
      <4>1. txn # None /\ txn.handle = g /\ g \in txn.live
        BY <2>5, <3>1 DEF HeartbeatCommit, Running, StillHeld
      <4>2. leases' = [leases EXCEPT ![g].left = Lifetime] /\ g # h
        BY <2>5, <3>1, <4>1 DEF HeartbeatCommit
      <4>3. leases'[h] = leases[h]
        BY <4>2 DEF RegistryInv, TypeOK
      <4> QED
        BY <4>3 DEF Live
    <3>2. CASE ~StillHeld(g)
      BY <2>2, <2>5, <3>2 DEF HeartbeatCommit
    <3> QED
      BY <3>1, <3>2
  <2>6. ASSUME NEW g \in Handles, EndCommit(g) PROVE h \notin Live'
    BY <2>6 DEF EndCommit, Restrict, Live
  <2>7. ASSUME NEW g \in Handles, ReplaceCommit(g) PROVE h \notin Live'
    <3>1. CASE leases' = leases
      BY <2>2, <3>1
    <3>2. CASE leases' = [leases EXCEPT ![g].scope = txn.op.scope]
      <4>1. leases'[h].left = leases[h].left
        BY <3>2 DEF RegistryInv, TypeOK, Lease
      <4> QED
        BY <4>1 DEF Live
    <3> QED
      BY <2>7, <3>1, <3>2 DEF ReplaceCommit
  <2>8. ASSUME NEW g \in Handles, NEW s \in Scopes, AcquireBegin(g, s) PROVE h \notin Live'
    BY <2>2, <2>8 DEF AcquireBegin
  <2>9. ASSUME NEW g \in Handles, NEW op \in Ops, Call(g, op) PROVE h \notin Live'
    BY <2>2, <2>9 DEF Call
  <2>10. ASSUME NEW g \in Handles, Turn(g) \/ Begin(g) \/ AssertCommit(g) \/ AcquireError(g)
                                    \/ LockError(g) \/ Close(g) \/ Crash(g)
         PROVE  h \notin Live'
    BY <2>2, <2>10 DEF Turn, Begin, AssertCommit, AcquireError, LockError, Close, Crash
  <2>11. CASE UNCHANGED vars
    BY <2>2, <2>11 DEF vars
  <2> QED
    BY <2>3, <2>4, <2>5, <2>6, <2>7, <2>8, <2>9, <2>10, <2>11 DEF Next, Commit
<1>2. RegistryInv /\ [Next]_vars =>
        [\A h \in DOMAIN leases :
           leases[h].left = 0 /\ ~(txn # None /\ txn.handle = h /\ h \in txn.live) => h \notin Live']_vars
  BY <1>1
<1> QED
  BY RegistryInvariant, <1>2, PTL DEF Spec, ExpiredForGood
-----------------------------------------------------------------------------
(* The promise of the handles: LeasePool *)

\* A lease is held while it is alive, and while a heartbeat that saw it alive is under way.
Kept ==
  IF txn # None /\ txn.op.kind = "heartbeat" /\ txn.handle \in txn.live THEN Live \cup {txn.handle} ELSE Live
Waiting == {h \in Handles : state[h] \in {"idle", "acquiring"}}
Covers == [h \in Handles |-> IF h \in Kept THEN leases[h].scope ELSE None]
Pool == INSTANCE LeasePool WITH waiting <- Waiting, covers <- Covers

\* An acquisition that is not answered yet is the transaction under the mutex.
Asking == \A h \in Handles : state[h] = "acquiring" => txn # None /\ txn.handle = h /\ txn.op.kind = "acquire"
PoolInv == RegistryInv /\ Asking

\* Only acquire waits for an answer, from the transaction it begins with to its end.
LEMMA AskingStep ==
  ASSUME PoolInv, [Next]_vars
  PROVE  PoolInv'
<1>0. RegistryInv /\ RegistryInv' /\ Asking /\ TypeOK
  BY RegistryStep DEF PoolInv, RegistryInv
<1>1. CASE UNCHANGED <<state, txn>>
  BY <1>0, <1>1 DEF Asking, PoolInv
<1>2. CASE Tick
  <2>1. state' = state
    BY <1>2 DEF Tick, handle
  <2>2. txn # None => txn \in Transaction
    BY <1>0 DEF TypeOK
  <2>3. txn # None => txn'.handle = txn.handle /\ txn'.op = txn.op /\ txn' # None
    <3>1. UNCHANGED txn \/ (txn # None /\ txn.age < TTL /\ txn' = [txn EXCEPT !.age = txn.age + 1])
      BY <1>2 DEF Tick
    <3>2. txn # None => txn'.handle = txn.handle /\ txn'.op = txn.op /\ txn' \in Transaction
      BY <2>2, <3>1 DEF Transaction
    <3> QED
      BY <3>2, NoTransaction
  <2> QED
    BY <1>0, <2>1, <2>3 DEF Asking, PoolInv
<1>3. ASSUME NEW h \in Handles, NEW s \in Scopes, AcquireBegin(h, s) PROVE PoolInv'
  <2>1. state' = [state EXCEPT ![h] = "acquiring"] /\ txn = None /\ DOMAIN state = Handles
    BY <1>0, <1>3 DEF AcquireBegin, Enter, Set, TypeOK
  <2>2. txn'.handle = h /\ txn'.op.kind = "acquire"
    BY <1>3 DEF AcquireBegin, Enter
  <2>3. txn' # None
    <3>1. txn' \in Transaction
      <4>1. txn' = [handle |-> h, op |-> [kind |-> "acquire", scope |-> s], live |-> Live, age |-> 0]
        BY <1>3 DEF AcquireBegin, Enter
      <4>2. Live \in SUBSET Handles /\ 0 \in 0..TTL
        BY <1>0, RegistryAssumption DEF TypeOK, Live
      <4> QED
        BY <4>1, <4>2 DEF Transaction
    <3> QED
      BY <3>1, NoTransaction
  <2>4. \A g \in Handles : state'[g] = "acquiring" => g = h
    BY <1>0, <2>1 DEF Asking
  <2> QED
    BY <1>0, <2>2, <2>3, <2>4 DEF Asking, PoolInv
<1>4. ASSUME NEW h \in Handles, NEW op \in Ops, Call(h, op) PROVE PoolInv'
  BY <1>1, <1>4 DEF Call
<1>5. ASSUME NEW h \in Handles, Turn(h) \/ Close(h) PROVE PoolInv'
  BY <1>0, <1>5, FinishStates DEF Turn, Close, Set, Asking, PoolInv, TypeOK
<1>6. ASSUME NEW h \in Handles, Begin(h) PROVE PoolInv'
  BY <1>0, <1>6 DEF Begin, Enter, handle, Asking, PoolInv
<1>7. ASSUME NEW h \in Handles, AcquireCommit(h) \/ AcquireError(h) PROVE PoolInv'
  <2>1. \A g \in Handles : state[g] = "acquiring" => g = h
    BY <1>0, <1>7 DEF AcquireCommit, AcquireError, Asking
  <2>2. state' = [state EXCEPT ![h] = "gone"] \/ state' = [state EXCEPT ![h] = "active"]
    BY <1>7 DEF AcquireCommit, AcquireError, Set
  <2>3. DOMAIN state = Handles
    BY <1>0 DEF TypeOK
  <2>4. \A g \in Handles : state'[g] # "acquiring"
    BY <2>1, <2>2, <2>3
  <2> QED
    BY <1>0, <2>4 DEF Asking, PoolInv
<1>8. ASSUME NEW h \in Handles, AssertCommit(h) \/ HeartbeatCommit(h) \/ EndCommit(h) \/ ReplaceCommit(h) PROVE PoolInv'
  <2>1. txn # None /\ txn.op.kind # "acquire"
    BY <1>8 DEF AssertCommit, HeartbeatCommit, EndCommit, ReplaceCommit, Running, Ending
  <2>2. PICK stop \in BOOLEAN : Finish(h, stop)
    BY <1>8 DEF AssertCommit, HeartbeatCommit, EndCommit, ReplaceCommit, Leave
  <2>3. \A g \in Handles : state'[g] # "acquiring"
    BY <1>0, <2>1, <2>2, FinishStates DEF Asking
  <2> QED
    BY <1>0, <2>3 DEF Asking, PoolInv
<1>9. ASSUME NEW h \in Handles, LockError(h) PROVE PoolInv'
  <2>1. PICK stop \in BOOLEAN : Finish(h, stop)
    BY <1>9 DEF LockError
  <2>2. started[h] /\ state[h] # "acquiring"
    BY <1>0, <1>9 DEF LockError, RegistryInv, NewInv
  <2>3. \A g \in Handles : state'[g] = "acquiring" => g # h /\ state[g] = "acquiring"
    BY <1>0, <2>1, <2>2, FinishStates
  <2>4. txn' = IF txn # None /\ txn.handle = h THEN None ELSE txn
    BY <1>9 DEF LockError
  <2> QED
    BY <1>0, <2>3, <2>4 DEF Asking, PoolInv
<1>10. ASSUME NEW h \in Handles, Crash(h) PROVE PoolInv'
  BY <1>0, <1>10 DEF Crash, Set, Asking, PoolInv, TypeOK
<1>11. CASE UNCHANGED vars
  BY <1>1, <1>11 DEF vars
<1> QED
  BY <1>2, <1>3, <1>4, <1>5, <1>6, <1>7, <1>8, <1>9, <1>10, <1>11 DEF Next, Commit

\* What is held is on file, apart, and nothing a transaction under way has not seen.
LEMMA KeptFacts ==
  ASSUME RegistryInv
  PROVE  /\ Kept \subseteq DOMAIN leases /\ Kept \subseteq Handles /\ Live \subseteq Kept
         /\ \A h \in Kept : leases[h].scope \in Scopes
         /\ txn # None => Kept \subseteq txn.live
         /\ Pool!Held = Kept
<1>1. TypeOK /\ TxnInv
  BY DEF RegistryInv
<1>2. Kept \subseteq DOMAIN leases /\ Live \subseteq Kept /\ (txn # None => Kept \subseteq txn.live)
  BY <1>1 DEF Kept, Live, TypeOK, TxnInv
<1>3. Kept \subseteq Handles /\ \A h \in Kept : leases[h].scope \in Scopes
  BY <1>1, <1>2 DEF TypeOK, Lease
<1>4. Pool!Held = Kept
  BY <1>3 DEF Pool!Held, Covers
<1> QED
  BY <1>2, <1>3, <1>4

\* Nothing is gained and no lease is moved: some lapse, perhaps none.
LEMMA LapseStep ==
  ASSUME RegistryInv, UNCHANGED Waiting, Kept' \subseteq Kept, \A h \in Kept' : leases'[h].scope = leases[h].scope
  PROVE  \E gone \in SUBSET Pool!Held : Pool!Lapse(gone)
<1>1. Kept \ Kept' \in SUBSET Pool!Held
  BY KeptFacts
<1>2. Covers' = [h \in Handles |-> IF h \in Kept \ Kept' THEN None ELSE Covers[h]]
  BY DEF Covers
<1>3. Pool!Lapse(Kept \ Kept')
  BY <1>2 DEF Pool!Lapse
<1> QED
  BY <1>1, <1>3

\* A call is refused, or the lease it was given had expired by then.
LEMMA RefuseStep ==
  ASSUME RegistryInv, NEW h \in Handles, state[h] = "acquiring", state' = [state EXCEPT ![h] = state'[h]],
         state'[h] \notin {"idle", "acquiring"}, Kept' = Kept, \A g \in Kept : leases'[g].scope = leases[g].scope
  PROVE  Pool!Refuse(h)
<1>1. Waiting' = Waiting \ {h} /\ h \in Waiting
  BY DEF Waiting, RegistryInv, TypeOK
<1>2. UNCHANGED Covers
  BY DEF Covers
<1> QED
  BY <1>1, <1>2 DEF Pool!Refuse, Pool!Answer

\* A committed acquisition grants what nobody holds.
LEMMA GrantStep ==
  ASSUME PoolInv, NEW h \in Handles, AcquireCommit(h)
  PROVE  Pool!Refuse(h) \/ \E s \in Scopes : Pool!Grant(h, s)
<1>0. /\ txn # None /\ txn \in Transaction /\ txn.handle = h /\ txn.op.kind = "acquire" /\ txn' = None
      /\ txn.live \subseteq DOMAIN leases /\ RegistryInv /\ Live \subseteq txn.live
      /\ state[h] = "acquiring" /\ h \notin DOMAIN leases
  BY DEF AcquireCommit, PoolInv, RegistryInv, TypeOK, TxnInv, NewInv
<1>1. Kept = Live /\ Kept' = Live'
  BY <1>0 DEF Kept
<1>2. txn.op.scope \in Scopes
  BY <1>0, OpsTyped DEF Transaction
<1>3. CASE Conflicts(txn.op.scope, txn.live)
  <2>1. state' = [state EXCEPT ![h] = "gone"] /\ leases' = leases
    BY <1>3 DEF AcquireCommit, Set
  <2>2. state'[h] = "gone" /\ Live' = Live
    BY <1>0, <2>1 DEF RegistryInv, TypeOK, Live
  <2> QED
    BY <1>0, <1>1, <2>1, <2>2, RefuseStep
<1>4. CASE ~Conflicts(txn.op.scope, txn.live)
  <2> DEFINE new == [scope |-> txn.op.scope, left |-> Lifetime]
  <2>1. /\ leases' = [g \in txn.live \cup {h} |-> IF g = h THEN new ELSE leases[g]]
        /\ state' = [state EXCEPT ![h] = "active"]
    BY <1>4 DEF AcquireCommit, Set
  <2>2. state'[h] = "active"
    BY <1>0, <2>1 DEF RegistryInv, TypeOK
  <2>3. \A g \in Live : g # h /\ leases'[g] = leases[g] /\ g \in Live'
    BY <1>0, <2>1 DEF Live
  <2>4. \A g \in Live' : g = h \/ g \in Live
    BY <1>0, <2>1 DEF Live
  <2>5. leases'[h].scope = txn.op.scope
    BY <2>1
  <2> HIDE DEF new
  <2>6. CASE h \in Live'
    <3>1. Waiting' = Waiting \ {h} /\ h \in Waiting
      BY <1>0, <2>1 DEF Waiting, RegistryInv, TypeOK
    <3>2. Covers' = [Covers EXCEPT ![h] = txn.op.scope]
      BY <1>1, <2>3, <2>4, <2>5, <2>6 DEF Covers
    <3>3. \A g \in Live : {txn.op.scope, leases[g].scope} \notin Clashes
      BY <1>0, <1>4 DEF Conflicts
    <3>4. Pool!Free(txn.op.scope, h)
      BY <1>0, <1>1, <3>3, KeptFacts DEF Pool!Free, Covers
    <3> QED
      BY <1>2, <3>1, <3>2, <3>4 DEF Pool!Grant, Pool!Answer
  <2>7. CASE h \notin Live'
    <3>1. Live' = Live
      BY <2>3, <2>4, <2>7
    <3> QED
      BY <1>0, <1>1, <2>1, <2>2, <2>3, <3>1, RefuseStep
  <2> QED
    BY <2>6, <2>7
<1> QED
  BY <1>3, <1>4

\* A handle that has its answer does not ask again.
LEMMA WaitingSame ==
  ASSUME TypeOK, NEW h \in Handles, NEW stop \in BOOLEAN, Finish(h, stop)
  PROVE  UNCHANGED Waiting
<1>1. \A g \in Handles : state'[g] = state[g] \/ (state[g] = "active" /\ state'[g] = "stopped")
  BY FinishStates
<1> QED
  BY <1>1 DEF Waiting

\* A replacement moves a lease that is alive to a free scope.
LEMMA MoveStep ==
  ASSUME PoolInv, NEW h \in Handles, ReplaceCommit(h)
  PROVE  (\E gone \in SUBSET Pool!Held : Pool!Lapse(gone)) \/ \E s \in Scopes : Pool!Move(h, s)
<1>0. /\ RegistryInv /\ TypeOK /\ txn \in Transaction /\ txn # None /\ txn.op \in Ops /\ txn.op.kind = "replace"
      /\ Live \subseteq txn.live /\ txn.live \subseteq DOMAIN leases /\ txn' = None
  BY RunningFacts DEF ReplaceCommit, Running, Leave, PoolInv, RegistryInv
<1>1. Kept = Live /\ Kept' = Live'
  BY <1>0 DEF Kept
<1>2. UNCHANGED Waiting
  BY <1>0, WaitingSame DEF ReplaceCommit, Leave
<1>3. CASE ~(StillHeld(h) /\ ~Conflicts(txn.op.scope, txn.live \ {h}))
  <2>1. leases' = leases
    BY <1>3 DEF ReplaceCommit
  <2> QED
    BY <1>0, <1>1, <1>2, <2>1, LapseStep DEF Live
<1>4. CASE StillHeld(h) /\ ~Conflicts(txn.op.scope, txn.live \ {h})
  <2>1. leases' = [leases EXCEPT ![h].scope = txn.op.scope] /\ h \in DOMAIN leases
    BY <1>4 DEF ReplaceCommit, StillHeld
  <2>2. /\ DOMAIN leases' = DOMAIN leases /\ leases'[h].scope = txn.op.scope
        /\ \A g \in DOMAIN leases : leases'[g].left = leases[g].left /\ (g # h => leases'[g] = leases[g])
    BY <1>0, <2>1 DEF TypeOK, Lease
  <2>3. Live' = Live
    BY <2>2 DEF Live
  <2>4. txn.op.scope \in Scopes
    BY <1>0, OpsTyped
  <2>5. CASE h \in Live
    <3>1. Covers' = [Covers EXCEPT ![h] = txn.op.scope]
      BY <1>1, <2>2, <2>3, <2>5 DEF Covers, Live
    <3>2. \A g \in Live \ {h} : {txn.op.scope, leases[g].scope} \notin Clashes
      BY <1>0, <1>4 DEF Conflicts
    <3>3. Pool!Free(txn.op.scope, h) /\ h \in Pool!Held
      BY <1>0, <1>1, <2>5, <3>2, KeptFacts DEF Pool!Free, Covers
    <3> QED
      BY <1>2, <2>4, <3>1, <3>3 DEF Pool!Move
  <2>6. CASE h \notin Live
    <3>1. \A g \in Live : leases'[g].scope = leases[g].scope
      BY <2>2, <2>6 DEF Live
    <3> QED
      BY <1>0, <1>1, <1>2, <2>3, <3>1, LapseStep
  <2> QED
    BY <2>5, <2>6
<1> QED
  BY <1>3, <1>4

\* The other transactions give nothing that was not held.
LEMMA LeavePool ==
  ASSUME PoolInv, NEW h \in Handles, AssertCommit(h) \/ HeartbeatCommit(h) \/ EndCommit(h)
  PROVE  \E gone \in SUBSET Pool!Held : Pool!Lapse(gone)
<1>0. /\ RegistryInv /\ TypeOK /\ txn' = None /\ Live \subseteq txn.live /\ txn.live \subseteq DOMAIN leases
      /\ txn # None /\ txn.handle = h
  BY RunningFacts DEF AssertCommit, HeartbeatCommit, EndCommit, Leave, PoolInv, RegistryInv, Ending
<1>1. Live \subseteq Kept /\ Kept' = Live' /\ Live \subseteq DOMAIN leases
  BY <1>0, KeptFacts DEF Kept, Live
<1>2. UNCHANGED Waiting
  BY <1>0, WaitingSame DEF AssertCommit, HeartbeatCommit, EndCommit, Leave
<1>3. CASE leases' = leases
  BY <1>0, <1>1, <1>2, <1>3, LapseStep DEF Live
<1>4. CASE HeartbeatCommit(h) /\ StillHeld(h)
  <2>1. h \in Kept /\ leases' = [leases EXCEPT ![h].left = Lifetime]
    BY <1>0, <1>4 DEF HeartbeatCommit, Running, StillHeld, Kept
  <2>2. \A g \in DOMAIN leases : leases'[g].scope = leases[g].scope /\ (g # h => leases'[g] = leases[g])
    BY <1>0, <2>1 DEF TypeOK, Lease
  <2>3. DOMAIN leases' = DOMAIN leases
    BY <2>1
  <2>4. Live' \subseteq Kept /\ \A g \in Live' : leases'[g].scope = leases[g].scope
    BY <1>1, <2>1, <2>2, <2>3 DEF Live
  <2> QED
    BY <1>0, <1>1, <1>2, <2>4, LapseStep
<1>5. CASE EndCommit(h)
  <2>1. DOMAIN leases' \subseteq DOMAIN leases /\ \A g \in DOMAIN leases' : leases'[g] = leases[g]
    BY <1>5 DEF EndCommit, Restrict
  <2>2. Live' \subseteq Kept /\ \A g \in Live' : leases'[g].scope = leases[g].scope
    BY <1>1, <2>1 DEF Live
  <2> QED
    BY <1>0, <1>1, <1>2, <2>2, LapseStep
<1> QED
  BY <1>3, <1>4, <1>5 DEF AssertCommit, HeartbeatCommit

\* A transaction that begins, goes on or is given up holds no more than was held before.
LEMMA QuietPool ==
  ASSUME RegistryInv, UNCHANGED <<leases, Waiting>>,
         \/ UNCHANGED txn \/ txn' = None
         \/ txn = None /\ txn'.live = Live
  PROVE  \E gone \in SUBSET Pool!Held : Pool!Lapse(gone)
<1>1. Live' = Live
  BY DEF Live
<1>2. Kept' \subseteq Kept
  BY <1>1 DEF Kept
<1> QED
  BY <1>2, LapseStep

\* Handles that acquire, renew, move, release, expire and die share a pool of disjoint
\* leases: what ScopeLeaseRegistry.acquire and makeLease promise their callers together.
THEOREM HandlesShareAPool == Spec => Pool!Spec
<1>1. Init => PoolInv
  BY RegistryInit DEF Init, PoolInv, Asking
<1>2. ASSUME Init PROVE Pool!Init
  <2>1. Kept = {} /\ Waiting = Handles
    BY <1>2 DEF Init, Kept, Live, Waiting
  <2> QED
    BY <2>1 DEF Pool!Init, Covers
<1>3. ASSUME PoolInv, [Next]_vars PROVE [Pool!Next]_(Pool!pool)
  <2>0. RegistryInv /\ TypeOK /\ RegistryInv'
    BY <1>3, RegistryStep DEF PoolInv, RegistryInv
  <2>1. ASSUME \E gone \in SUBSET Pool!Held : Pool!Lapse(gone) PROVE Pool!Next
    BY <2>1 DEF Pool!Next
  <2>2. CASE UNCHANGED vars
    BY <2>0, <2>1, <2>2, QuietPool DEF vars, Waiting
  <2>3. CASE Tick
    <3>1. Live' \subseteq Live /\ UNCHANGED Waiting
      BY <2>0, <2>3, TickStep DEF Tick, handle, Waiting
    <3>2. \A h \in DOMAIN leases : leases'[h].scope = leases[h].scope
      BY <2>0, <2>3 DEF Tick, TypeOK, Lease
    <3>3. UNCHANGED txn \/ (txn # None /\ txn' = [txn EXCEPT !.age = txn.age + 1])
      BY <2>3 DEF Tick
    <3>4. Kept' \subseteq Kept
      <4>1. txn # None => txn \in Transaction
        BY <2>0 DEF TypeOK
      <4>2. txn' # None => txn # None /\ txn'.handle = txn.handle /\ txn'.op = txn.op /\ txn'.live = txn.live
        BY <3>3, <4>1 DEF Transaction
      <4> QED
        BY <3>1, <4>2 DEF Kept
    <3> QED
      BY <2>0, <2>1, <3>1, <3>2, <3>4, KeptFacts, LapseStep
  <2>4. ASSUME NEW h \in Handles, NEW s \in Scopes, AcquireBegin(h, s) PROVE Pool!Next
    <3>1. UNCHANGED <<leases, Waiting>> /\ txn = None /\ txn'.live = Live
      BY <2>0, <2>4 DEF AcquireBegin, Enter, Set, Waiting, TypeOK
    <3> QED
      BY <2>0, <2>1, <3>1, QuietPool
  <2>5. ASSUME NEW h \in Handles, NEW op \in Ops, Call(h, op) PROVE Pool!Next
    BY <2>0, <2>1, <2>5, QuietPool DEF Call, Waiting
  <2>6. ASSUME NEW h \in Handles, Turn(h) \/ Close(h) PROVE Pool!Next
    <3>1. UNCHANGED Waiting
      BY <2>0, <2>6, WaitingSame DEF Turn, Close, Set, Waiting, TypeOK
    <3> QED
      BY <2>0, <2>1, <2>6, <3>1, QuietPool DEF Turn, Close
  <2>7. ASSUME NEW h \in Handles, Begin(h) PROVE Pool!Next
    <3>1. UNCHANGED <<leases, Waiting>> /\ txn = None /\ txn'.live = Live
      BY <2>7 DEF Begin, Enter, handle, Waiting
    <3> QED
      BY <2>0, <2>1, <3>1, QuietPool
  <2>8. ASSUME NEW h \in Handles, Commit(h) PROVE Pool!Next
    BY <1>3, <2>1, <2>8, GrantStep, MoveStep, LeavePool DEF Commit, Pool!Next
  <2>9. ASSUME NEW h \in Handles, LockError(h) PROVE Pool!Next
    <3>1. UNCHANGED leases /\ (UNCHANGED txn \/ txn' = None)
      BY <2>9 DEF LockError
    <3>2. UNCHANGED Waiting
      BY <2>0, <2>9, WaitingSame DEF LockError
    <3> QED
      BY <2>0, <2>1, <3>1, <3>2, QuietPool
  <2>10. ASSUME NEW h \in Handles, AcquireError(h) \/ Crash(h) PROVE Pool!Next
    <3>0. /\ UNCHANGED leases /\ state' = [state EXCEPT ![h] = "gone"] /\ state'[h] = "gone"
          /\ UNCHANGED txn \/ txn' = None
      BY <2>0, <2>10 DEF AcquireError, Crash, Set, TypeOK
    <3>1. CASE state[h] = "acquiring"
      <4>1. txn # None /\ txn.handle = h /\ txn.op.kind = "acquire" /\ txn' = None
        BY <1>3, <2>10, <3>1 DEF PoolInv, Asking, AcquireError, Crash
      <4>2. Kept' = Kept
        BY <3>0, <4>1 DEF Kept, Live
      <4>3. Pool!Refuse(h)
        BY <2>0, <3>0, <3>1, <4>2, RefuseStep
      <4> QED
        BY <4>3 DEF Pool!Next
    <3>2. CASE state[h] # "acquiring"
      <4>1. UNCHANGED Waiting
        BY <2>0, <2>10, <3>0, <3>2 DEF AcquireError, Crash, Waiting, TypeOK
      <4> QED
        BY <2>0, <2>1, <3>0, <4>1, QuietPool
    <3> QED
      BY <3>1, <3>2
  <2> QED
    BY <1>3, <2>2, <2>3, <2>4, <2>5, <2>6, <2>7, <2>8, <2>9, <2>10 DEF Next
<1>4. PoolInv /\ [Next]_vars => PoolInv'
  BY AskingStep
<1> QED
  BY <1>1, <1>2, <1>3, <1>4, PTL DEF Spec, Pool!Spec
=============================================================================
