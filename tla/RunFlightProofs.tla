-------------------------- MODULE RunFlightProofs --------------------------
(***************************************************************************)
(* Safety of the run ledger for every value of the constants: typing, the   *)
(* chains of attempts, the authority of a diagnosis, the reconciliation of  *)
(* a rescue, and the reservations.                                          *)
(***************************************************************************)
EXTENDS RunFlight, TLAPS

USE NamesAssumption

-----------------------------------------------------------------------------
(* The inductive invariant *)

\* What the tables mention has been claimed.
Claimed ==
  /\ \A u \in Units : units[u].state # "absent" => u \in ids
  /\ \A a \in Attempts : log[a] # None => a \in ids
  /\ \A s \in Swarms : swarms[s] # None => s \in ids
  /\ \A l \in Lanes : lanes[l] # "absent" => l \in ids

\* A unit's pointers lead to its own attempts, and only its active one is unfinished.
UnitLinked(u) ==
  /\ units[u].state = "absent" => units[u] = AbsentUnit
  /\ units[u].active # None => units[u].active = units[u].last /\ units[u].state = "open"
  /\ units[u].last # None =>
       /\ log[units[u].last] # None /\ log[units[u].last].unit = u
       /\ (log[units[u].last].done = None) <=> (units[u].active # None)
  /\ units[u].failed # None /\ units[u].active = None => units[u].failed = units[u].last
  /\ units[u].failed # None => units[u].last # None

\* Between two candidates no unit is open.
Staged == pending # None => wave = 0 /\ OpenUnits = {}

\* Predecessors have started; the latest attempt has no successor yet, and only a
\* unit that is alone waits for it.
Chained ==
  /\ lastAttempt # None => log[lastAttempt] # None
  /\ \A a \in Attempts : log[a] # None =>
       /\ log[a].pred # None => log[log[a].pred] # None /\ log[a].pred # lastAttempt
       /\ log[a].pred # a
  /\ \A u \in OpenUnits : units[u].last = None /\ units[u].initial # None =>
       OpenUnits = {u} /\ units[u].initial = lastAttempt
  /\ \A u \in Units, a \in Attempts :
       units[u].last # None /\ log[a] # None /\ log[a].unit = u => log[a].pred # units[u].last

\* A swarm names a failed attempt of its unit, and its own lanes; what it selected is
\* one of their supported findings.
SwarmLinked(s) ==
  /\ log[swarms[s].failed] # None /\ log[swarms[s].failed].unit = swarms[s].unit
  /\ \A l \in swarms[s].lanes : lanes[l] # "absent"
  /\ swarms[s].pick # None =>
       /\ \A l \in swarms[s].lanes : Found(l)
       /\ lanes[swarms[s].pick.lane] = "supported"
Diagnosed ==
  /\ \A s \in Swarms : swarms[s] # None => SwarmLinked(s)
  /\ \A s, t \in Swarms :
       swarms[s] # None /\ swarms[t] # None /\ swarms[s].failed = swarms[t].failed => s = t

IInv ==
  /\ TypeOK /\ Claimed /\ Staged /\ Chained /\ Diagnosed
  /\ \A u \in Units : UnitLinked(u)
  /\ PredecessorUnique /\ RepairAuthorized /\ RescueReconciled /\ ReservationsExact

-----------------------------------------------------------------------------
(* Type correctness *)

\* The initial state of a replay is well typed.
LEMMA InitTyped == Init => TypeOK
<1> SUFFICES ASSUME Init PROVE TypeOK
  OBVIOUS
<1>1. RunOK
  <2>1. heads \in Seq(Candidates)
    BY DEF Init
  <2>2. completion \in [candidate : BOOLEAN, cleanup : BOOLEAN, run : BOOLEAN]
    BY DEF Init
  <2> QED
    BY <2>1, <2>2 DEF Init, RunOK
<1>2. WorkOK
  <2>1. AbsentUnit \in UnitRecord
    BY DEF AbsentUnit, UnitRecord
  <2> QED
    BY <2>1 DEF Init, WorkOK
<1>3. SwarmsOK
  BY DEF Init, SwarmsOK
<1>4. AccountsOK
  BY DEF Init, AccountsOK
<1> QED
  BY <1>1, <1>2, <1>3, <1>4 DEF TypeOK

\* Resource figures stay figures.
LEMMA PlusTyped ==
  ASSUME NEW a \in Nat \cup {Unknown}, NEW b \in Nat \cup {Unknown}
  PROVE  Plus(a, b) \in Nat \cup {Unknown}
BY DEF Plus

\* Charging, reserving and releasing keep the accounts well typed.
LEMMA ChargeTyped ==
  ASSUME AccountsOK, NEW n \in Nat, Charge(n)
  PROVE  budget' \in [limit : Nat \cup {None}, spent : Nat]
BY NumbersAssumption DEF AccountsOK, Charge
LEMMA ReserveTyped ==
  ASSUME AccountsOK, NEW K \in SUBSET Tasks, NEW q \in Requests \cup {Unknown}, Reserve(K, q)
  PROVE  reserved' \in [Tasks -> Nat \cup {None, Unknown}]
BY NumbersAssumption DEF AccountsOK, Reserve
LEMMA ReleaseTyped ==
  ASSUME AccountsOK, NEW k \in Tasks, NEW n \in Usages, Release(k, n)
  PROVE  AccountsOK'
<1>1. Plus(resources.used, n) \in Nat \cup {Unknown}
  BY PlusTyped, NumbersAssumption DEF AccountsOK
<1> QED
  BY <1>1 DEF AccountsOK, Release

\* Every accepted event keeps the state well typed.
LEMMA NextTyped == TypeOK /\ (\A u \in Units : UnitLinked(u)) /\ [Next]_vars => TypeOK'
<1> SUFFICES ASSUME TypeOK, \A u \in Units : UnitLinked(u), [Next]_vars PROVE TypeOK'
  OBVIOUS
<1> USE NumbersAssumption, EventsAssumption DEF TypeOK
<1>1. CASE PlanningStep
  <2>1. CASE PlanCompiled
    BY <2>1 DEF PlanCompiled, course, work, diagnosis, accounts, RunOK, WorkOK, SwarmsOK, AccountsOK
  <2>2. ASSUME NEW from \in Candidates, NEW c \in Candidates, FabricWaveAccepted(from, c) PROVE TypeOK'
    BY <2>2 DEF FabricWaveAccepted, work, diagnosis, accounts, RunOK, WorkOK, SwarmsOK, AccountsOK
  <2>3. ASSUME NEW c \in Candidates, NEW limit \in Limits, NEW r \in ResourceLimits, RunPlanned(c, limit, r)
        PROVE TypeOK'
    BY <2>3 DEF RunPlanned, work, diagnosis, RunOK, WorkOK, SwarmsOK, AccountsOK
  <2> QED
    BY <1>1, <2>1, <2>2, <2>3 DEF PlanningStep
<1>2. CASE WaveStep
  <2>1. CASE CandidateAdvanced
    BY <2>1 DEF CandidateAdvanced, setup, diagnosis, accounts, AbsentUnit, UnitRecord,
       RunOK, WorkOK, SwarmsOK, AccountsOK
  <2>2. ASSUME NEW c \in Candidates, WaveCompleted(c) PROVE TypeOK'
    BY <2>2 DEF WaveCompleted, setup, work, diagnosis, accounts, RunOK, WorkOK, SwarmsOK, AccountsOK
  <2>3. ASSUME UNCHANGED <<work, accounts>> PROVE WorkOK' /\ SwarmsOK' /\ AccountsOK'
    BY <2>3 DEF work, diagnosis, accounts, WorkOK, SwarmsOK, AccountsOK
  <2>4. CASE RouteSelected \/ WaveOpened
    <3>1. routed' \in BOOLEAN /\ wave' \in Nat /\ UNCHANGED <<ids, setup, candidate, pending, completion, waves, work>>
      <4>1. CASE RouteSelected
        BY <4>1 DEF RouteSelected, RunOK
      <4>2. CASE WaveOpened
        <5>1. wave' \in Nat
          BY <4>2 DEF WaveOpened, RunOK
        <5>2. routed' \in BOOLEAN
          BY <4>2 DEF WaveOpened
        <5>3. UNCHANGED <<ids, setup, candidate, pending, completion, waves, work>>
          BY <4>2 DEF WaveOpened
        <5> QED
          BY <5>1, <5>2, <5>3
      <4> QED
        BY <2>4, <4>1, <4>2
    <3>2. RunOK'
      BY <3>1 DEF setup, work, RunOK
    <3> QED
      BY <2>3, <2>4, <3>2 DEF RouteSelected, WaveOpened
  <2>5. CASE CandidateCompleted \/ CleanupCompleted \/ RunCompleted
    <3>1. completion' \in [candidate : BOOLEAN, cleanup : BOOLEAN, run : BOOLEAN]
      BY <2>5 DEF CandidateCompleted, CleanupCompleted, RunCompleted, RunOK
    <3>2. UNCHANGED <<ids, setup, candidate, pending, routed, wave, waves, work, accounts>>
      BY <2>5 DEF CandidateCompleted, CleanupCompleted, RunCompleted
    <3>3. RunOK'
      BY <3>1, <3>2 DEF setup, work, RunOK
    <3> QED
      BY <2>3, <3>2, <3>3
  <2> QED
    BY <1>2, <2>1, <2>2, <2>4, <2>5 DEF WaveStep
<1>3. CASE UnitStep
  <2>1. ASSUME NEW u \in Units, UnitOpened(u) PROVE TypeOK'
    <3>1. units' \in [Units -> UnitRecord]
      <4>1. ASSUME NEW v \in Units PROVE units'[v] \in UnitRecord
        <5>1. CASE v = u
          BY <2>1, <5>1 DEF UnitOpened, AbsentUnit, UnitRecord, WorkOK, RunOK
        <5>2. CASE v # u
          <6>1. units[v] \in UnitRecord /\ [units[v] EXCEPT !.initial = None] \in UnitRecord
            BY DEF WorkOK, UnitRecord
          <6> QED
            BY <2>1, <5>2, <6>1 DEF UnitOpened, WorkOK
        <5> QED
          BY <5>1, <5>2
      <4> QED
        BY <2>1, <4>1 DEF UnitOpened
    <3> QED
      <4>1. RunOK'
        BY <2>1 DEF UnitOpened, setup, course, RunOK
      <4>2. WorkOK'
        BY <2>1, <3>1 DEF UnitOpened, WorkOK
      <4>3. SwarmsOK' /\ AccountsOK'
        BY <2>1 DEF UnitOpened, diagnosis, accounts, SwarmsOK, AccountsOK
      <4> QED
        BY <4>1, <4>2, <4>3
  <2>2. ASSUME NEW u \in Units, UnitCompleted(u) PROVE TypeOK'
    <3>1. [units[u] EXCEPT !.state = "completed"] \in UnitRecord
      BY DEF WorkOK, UnitRecord
    <3> QED
      BY <2>2, <3>1 DEF UnitCompleted, setup, course, diagnosis, accounts, RunOK, WorkOK, SwarmsOK, AccountsOK
  <2>3. ASSUME NEW a \in Attempts, NEW u \in Units, NEW p \in Profiles, NEW remediation \in BOOLEAN,
               NEW rescue \in BOOLEAN, NEW q \in Requests \cup {Unknown},
               AttemptStarted(a, u, p, remediation, rescue, q)
        PROVE TypeOK'
    <3>1. RunOK'
      BY <2>3 DEF AttemptStarted, setup, course, RunOK, Tasks
    <3>2. WorkOK'
      <4>1. Predecessor(u) \in Attempts \cup {None}
        BY DEF Predecessor, WorkOK, UnitRecord
      <4>2. units' \in [Units -> UnitRecord]
        <5>1. [units[u] EXCEPT !.active = a, !.last = a, !.validation = None] \in UnitRecord
          <6>1. units[u] \in UnitRecord
            BY DEF WorkOK
          <6> QED
            BY <6>1 DEF UnitRecord
        <5>2. units' = [units EXCEPT ![u] = [units[u] EXCEPT !.active = a, !.last = a, !.validation = None]]
          BY <2>3 DEF AttemptStarted, WorkOK, UnitRecord
        <5> QED
          BY <5>1, <5>2 DEF WorkOK
      <4>3. log' \in [Attempts -> AttemptRecord \cup {None}]
        BY <2>3, <4>1 DEF AttemptStarted, WorkOK, AttemptRecord
      <4> QED
        BY <2>3, <4>2, <4>3 DEF AttemptStarted, WorkOK
    <3>3. SwarmsOK'
      <4>1. ASSUME NEW s \in Swarms, s \in Diagnoses(u) PROVE [swarms[s] EXCEPT !.executed = a] \in SwarmRecord
        BY <4>1 DEF Diagnoses, SwarmsOK, SwarmRecord
      <4> QED
        BY <2>3, <4>1 DEF AttemptStarted, SwarmsOK
    <3>4. AccountsOK'
      <4>1. {a} \in SUBSET Tasks /\ p.charge \in Nat
        BY DEF Tasks
      <4>2. Charge(p.charge) /\ Reserve({a}, q) /\ UNCHANGED resources
        BY <2>3 DEF AttemptStarted
      <4> QED
        BY <4>1, <4>2, ChargeTyped, ReserveTyped DEF AccountsOK
    <3> QED
      BY <3>1, <3>2, <3>3, <3>4
  <2>4. ASSUME NEW a \in Attempts, NEW u \in Units, NEW o \in Outcomes, NEW n \in Usages,
               AttemptFinished(a, u, o, n)
        PROVE TypeOK'
    <3>1. RunOK' /\ SwarmsOK'
      BY <2>4 DEF AttemptFinished, setup, course, diagnosis, RunOK, SwarmsOK
    <3>2. WorkOK'
      <4>1. units' \in [Units -> UnitRecord]
        <5> DEFINE f == IF o.failure = None THEN None ELSE a
        <5>1. [units[u] EXCEPT !.active = None, !.failed = f] \in UnitRecord
          <6>1. units[u] \in UnitRecord /\ f \in Attempts \cup {None}
            BY DEF WorkOK
          <6> HIDE DEF f
          <6> QED
            BY <6>1 DEF UnitRecord
        <5>2. units' = [units EXCEPT ![u] = [units[u] EXCEPT !.active = None, !.failed = f]]
          BY <2>4 DEF AttemptFinished, WorkOK, UnitRecord
        <5> QED
          BY <5>1, <5>2 DEF WorkOK
      <4>2. log' \in [Attempts -> AttemptRecord \cup {None}]
        <5>1. log[a] \in AttemptRecord
          BY <2>4 DEF AttemptFinished, UnitLinked, WorkOK, UnitRecord
        <5>2. [log[a] EXCEPT !.done = o.disposition, !.failure = o.failure] \in AttemptRecord
          BY <5>1 DEF AttemptRecord
        <5>3. log' = [log EXCEPT ![a] = [log[a] EXCEPT !.done = o.disposition, !.failure = o.failure]]
          BY <2>4, <5>1 DEF AttemptFinished, AttemptRecord
        <5> QED
          BY <5>2, <5>3 DEF WorkOK
      <4> QED
        BY <2>4, <4>1, <4>2 DEF AttemptFinished, WorkOK
    <3>3. AccountsOK'
      BY <2>4, ReleaseTyped DEF AttemptFinished, Tasks
    <3> QED
      BY <3>1, <3>2, <3>3
  <2>5. ASSUME NEW n \in Notes, NEW u \in Units, RecoveryRecorded(n, u) PROVE TypeOK'
    BY <2>5 DEF RecoveryRecorded, setup, course, work, diagnosis, accounts, RunOK, WorkOK, SwarmsOK, AccountsOK
  <2>6. ASSUME NEW n \in Notes, NEW u \in Units, NEW r \in {"passed", "failed"}, ValidationRecorded(n, u, r)
        PROVE TypeOK'
    <3>1. [units[u] EXCEPT !.validation = r] \in UnitRecord
      BY DEF WorkOK, UnitRecord
    <3> QED
      BY <2>6, <3>1 DEF ValidationRecorded, setup, course, diagnosis, accounts, RunOK, WorkOK, SwarmsOK, AccountsOK
  <2> HIDE DEF TypeOK
  <2> QED
    BY <1>3, <2>1, <2>2, <2>3, <2>4, <2>5, <2>6 DEF UnitStep
<1>4. CASE DiagnosisStep
  <2>1. ASSUME NEW s \in Swarms, NEW u \in Units, NEW L \in SUBSET Lanes, NEW c \in SwarmCharges,
               NEW q \in Requests \cup {Unknown}, DiagnosisOpened(s, u, L, c, q)
        PROVE TypeOK'
    <3>1. RunOK' /\ WorkOK'
      BY <2>1 DEF DiagnosisOpened, setup, course, RunOK, WorkOK, Tasks
    <3>2. SwarmsOK'
      <4>1. units[u].failed \in Attempts
        BY <2>1 DEF DiagnosisOpened, Diagnosable, WorkOK, UnitRecord
      <4> QED
        BY <2>1, <4>1 DEF DiagnosisOpened, SwarmsOK, SwarmRecord, RunOK
    <3>3. AccountsOK'
      <4>1. L \in SUBSET Tasks /\ Charge(c) /\ Reserve(L, q) /\ UNCHANGED resources
        BY <2>1 DEF DiagnosisOpened, Tasks
      <4> QED
        BY <4>1, ChargeTyped, ReserveTyped DEF AccountsOK
    <3> QED
      BY <3>1, <3>2, <3>3
  <2>2. ASSUME NEW s \in Swarms, NEW l \in Lanes, DiagnosisDispatched(s, l) PROVE TypeOK'
    BY <2>2 DEF DiagnosisDispatched, setup, course, accounts, RunOK, WorkOK, SwarmsOK, AccountsOK
  <2>3. ASSUME NEW l \in Lanes, NEW v \in Verdicts, NEW n \in Usages, DiagnosisFinished(l, v, n) PROVE TypeOK'
    <3>1. RunOK' /\ WorkOK' /\ SwarmsOK'
      BY <2>3 DEF DiagnosisFinished, setup, course, RunOK, WorkOK, SwarmsOK
    <3>2. AccountsOK'
      BY <2>3, ReleaseTyped DEF DiagnosisFinished, Tasks
    <3> QED
      BY <3>1, <3>2
  <2>4. ASSUME NEW s \in Swarms, NEW l \in Lanes, NEW p \in Profiles, DiagnosisSelected(s, l, p) PROVE TypeOK'
    <3>1. RunOK' /\ WorkOK' /\ AccountsOK'
      BY <2>4 DEF DiagnosisSelected, setup, course, accounts, RunOK, WorkOK, AccountsOK
    <3>2. SwarmsOK'
      BY <2>4 DEF DiagnosisSelected, SwarmsOK, SwarmRecord, Selection
    <3> QED
      BY <3>1, <3>2
  <2> QED
    BY <1>4, <2>1, <2>2, <2>3, <2>4 DEF DiagnosisStep
<1>5. CASE ChildStep
  <2>1. ASSUME NEW k \in Tasks, ChildRegistered(k) PROVE TypeOK'
    BY <2>1 DEF ChildRegistered, setup, course, diagnosis, accounts, RunOK, WorkOK, SwarmsOK, AccountsOK
  <2>2. ASSUME NEW k \in Tasks, NEW end \in Ends, ChildTerminal(k, end) PROVE TypeOK'
    BY <2>2 DEF ChildTerminal, setup, course, diagnosis, accounts, RunOK, WorkOK, SwarmsOK, AccountsOK
  <2> QED
    BY <1>5, <2>1, <2>2 DEF ChildStep
<1>6. CASE UNCHANGED vars
  BY <1>6 DEF vars, setup, course, work, diagnosis, accounts, RunOK, WorkOK, SwarmsOK, AccountsOK
<1> QED
  BY <1>1, <1>2, <1>3, <1>4, <1>5, <1>6 DEF Next

-----------------------------------------------------------------------------
(* Events that leave the units, the attempts and the diagnoses alone *)

WorkUnchanged == UNCHANGED <<lastAttempt, units, log, swarms, lanes>>

\* Such an event keeps the links and the chains; it may only claim more ids.
LEMMA QuietLinks ==
  ASSUME IInv, WorkUnchanged, ids \subseteq ids'
  PROVE  Claimed' /\ Chained' /\ Diagnosed' /\ (\A u \in Units : UnitLinked(u)') /\ PredecessorUnique' /\ RepairAuthorized'
<1> USE DEF WorkUnchanged, IInv
<1>1. Claimed'
  BY DEF Claimed
<1>2. Chained'
  BY DEF Chained, OpenUnits
<1>3. Diagnosed'
  BY DEF Diagnosed, SwarmLinked, Found
<1>4. \A u \in Units : UnitLinked(u)'
  BY DEF UnitLinked
<1>5. PredecessorUnique'
  BY DEF PredecessorUnique, OpenUnits, Predecessor
<1>6. RepairAuthorized'
  BY DEF RepairAuthorized, Found
<1> QED
  BY <1>1, <1>2, <1>3, <1>4, <1>5, <1>6

\* With the children and the accounts left alone too, so are the rest of the properties.
LEMMA QuietRest ==
  ASSUME IInv, WorkUnchanged, UNCHANGED <<children, reserved>>
  PROVE  RescueReconciled' /\ ReservationsExact'
BY DEF IInv, WorkUnchanged, RescueReconciled, Ended, ReservationsExact, Waiting

-----------------------------------------------------------------------------
(* One lemma per event that changes the work *)

\* Opening a unit extends the chain only if the unit is alone.
LEMMA UnitOpenedInv ==
  ASSUME IInv, TypeOK', NEW u \in Units, UnitOpened(u)
  PROVE  IInv'
<1> USE DEF IInv
<1>0. /\ units[u] = AbsentUnit /\ u \notin OpenUnits /\ wave # 0 /\ pending = None
      /\ units' \in [Units -> UnitRecord] /\ units \in [Units -> UnitRecord]
      /\ lastAttempt \in Attempts \cup {None} /\ log \in [Attempts -> AttemptRecord \cup {None}]
  BY DEF UnitOpened, Claimed, UnitLinked, OpenUnits, Staged, TypeOK, RunOK, WorkOK, AbsentUnit
<1>1. /\ UNCHANGED <<lastAttempt, log, children, swarms, lanes, reserved, pending, wave>> /\ ids' = ids \cup {u}
      /\ \A v \in Units : v # u =>
           /\ units'[v].state = units[v].state /\ units'[v].active = units[v].active
           /\ units'[v].last = units[v].last /\ units'[v].failed = units[v].failed
           /\ units[v].state = "absent" => units'[v] = units[v]
           /\ units'[v].initial \in {units[v].initial, None}
           /\ v \in OpenUnits /\ units[v].last = None => units'[v].initial = None
      /\ units'[u].state = "open" /\ units'[u].active = None /\ units'[u].last = None /\ units'[u].failed = None
      /\ units'[u].initial = IF OpenUnits = {} THEN lastAttempt ELSE None
  <2>1. ASSUME NEW v \in Units, v # u
        PROVE  /\ units'[v].state = units[v].state /\ units'[v].active = units[v].active
               /\ units'[v].last = units[v].last /\ units'[v].failed = units[v].failed
               /\ units[v].state = "absent" => units'[v] = units[v]
               /\ units'[v].initial \in {units[v].initial, None}
               /\ v \in OpenUnits /\ units[v].last = None => units'[v].initial = None
    <3>1. CASE v \in OpenUnits /\ units[v].last = None
      <4>1. units'[v] = [units[v] EXCEPT !.initial = None] /\ units[v] \in UnitRecord
        BY <2>1, <3>1, <1>0 DEF UnitOpened
      <4> QED
        BY <3>1, <4>1 DEF UnitRecord, OpenUnits
    <3>2. CASE ~(v \in OpenUnits /\ units[v].last = None)
      BY <2>1, <3>2, <1>0 DEF UnitOpened
    <3> QED
      BY <3>1, <3>2
  <2>2. /\ units'[u].state = "open" /\ units'[u].active = None /\ units'[u].last = None /\ units'[u].failed = None
        /\ units'[u].initial = IF OpenUnits = {} THEN lastAttempt ELSE None
    BY DEF UnitOpened, AbsentUnit
  <2> QED
    BY <2>1, <2>2 DEF UnitOpened, course, diagnosis, accounts
<1>2. OpenUnits' = OpenUnits \cup {u}
  BY <1>1 DEF OpenUnits
<1>3. Claimed'
  BY <1>1 DEF Claimed
<1>4. \A v \in Units : UnitLinked(v)'
  <2>1. UnitLinked(u)'
    BY <1>1 DEF UnitLinked
  <2>2. ASSUME NEW v \in Units, v # u PROVE UnitLinked(v)'
    BY <1>1, <2>2 DEF UnitLinked
  <2> QED
    BY <2>1, <2>2
<1>5. Staged'
  BY <1>0, <1>1 DEF Staged
<1>6. Chained'
  <2>1. ASSUME NEW v \in OpenUnits', units'[v].last = None, units'[v].initial # None
        PROVE  OpenUnits' = {v} /\ units'[v].initial = lastAttempt'
    BY <1>1, <1>2, <2>1 DEF OpenUnits
  <2>2. ASSUME NEW v \in Units, NEW a \in Attempts, units'[v].last # None, log'[a] # None, log'[a].unit = v
        PROVE  log'[a].pred # units'[v].last
    BY <1>1, <2>2 DEF Chained
  <2>3. /\ lastAttempt' # None => log'[lastAttempt'] # None
        /\ \A a \in Attempts : log'[a] # None =>
             /\ log'[a].pred # None => log'[log'[a].pred] # None /\ log'[a].pred # lastAttempt'
             /\ log'[a].pred # a
    BY <1>1 DEF Chained
  <2> QED
    BY <2>1, <2>2, <2>3 DEF Chained
<1>7. PredecessorUnique'
  <2>1. \A v \in OpenUnits : units[v].last # None => Predecessor(v)' = Predecessor(v)
    BY <1>1, <1>0 DEF OpenUnits, Predecessor
  <2>2. \A v \in OpenUnits : units[v].last = None => Predecessor(v)' = None
    BY <1>1, <1>0 DEF OpenUnits, Predecessor
  <2>3. Predecessor(u)' = IF OpenUnits = {} THEN lastAttempt ELSE None
    BY <1>1 DEF Predecessor
  <2>4. ASSUME NEW v \in OpenUnits', Predecessor(v)' # None
        PROVE  /\ \A w \in OpenUnits' : Predecessor(w)' = Predecessor(v)' => w = v
               /\ \A a \in Attempts : log'[a] # None => log'[a].pred # Predecessor(v)'
    <3>1. CASE v = u
      BY <3>1, <2>3, <2>4, <1>1, <1>2 DEF Chained
    <3>2. CASE v # u
      <4>1. v \in OpenUnits /\ units[v].last # None /\ Predecessor(v)' = Predecessor(v)
        BY <3>2, <2>4, <2>1, <2>2, <1>2
      <4>2. \A w \in OpenUnits' : Predecessor(w)' = Predecessor(v)' => w = v
        BY <4>1, <2>1, <2>2, <2>3, <2>4, <1>2 DEF PredecessorUnique
      <4> QED
        BY <4>1, <4>2, <2>4, <1>1 DEF PredecessorUnique
    <3> QED
      BY <3>1, <3>2
  <2> QED
    BY <2>4, <1>1 DEF PredecessorUnique
<1>8. Diagnosed' /\ RepairAuthorized' /\ RescueReconciled' /\ ReservationsExact'
  BY <1>1 DEF Diagnosed, SwarmLinked, Found, RepairAuthorized, RescueReconciled, Ended, ReservationsExact, Waiting
<1> QED
  BY <1>3, <1>4, <1>5, <1>6, <1>7, <1>8

\* An attempt takes its unit's predecessor and becomes the end of the chain.
LEMMA AttemptStartedInv ==
  ASSUME IInv, TypeOK', NEW a \in Attempts, NEW u \in Units, NEW p \in Profiles, NEW remediation \in BOOLEAN,
         NEW rescue \in BOOLEAN, NEW q \in Requests \cup {Unknown},
         AttemptStarted(a, u, p, remediation, rescue, q)
  PROVE  IInv'
<1> USE DEF IInv
<1> DEFINE pr == Predecessor(u)
           rec == [unit |-> u, pred |-> pr, role |-> p.role, kind |-> p.kind,
                   rescue |-> rescue, done |-> None, failure |-> None]
<1>0. /\ u \in OpenUnits /\ units[u].active = None /\ log[a] = None /\ wave # 0 /\ pending = None
      /\ units \in [Units -> UnitRecord] /\ log \in [Attempts -> AttemptRecord \cup {None}]
      /\ lastAttempt \in Attempts \cup {None} /\ pr \in Attempts \cup {None}
      /\ swarms \in [Swarms -> SwarmRecord \cup {None}]
  BY DEF AttemptStarted, Idle, OpenUnits, Claimed, Staged, TypeOK, RunOK, WorkOK, SwarmsOK, Predecessor, UnitRecord
<1>1. /\ UNCHANGED <<pending, wave, children, lanes>> /\ ids' = ids \cup {a} /\ lastAttempt' = a
      /\ \A b \in Attempts : b # a => log'[b] = log[b]
      /\ log'[a] = rec /\ log'[a] # None
      /\ \A v \in Units : v # u => units'[v] = units[v]
      /\ units'[u].state = "open" /\ units'[u].active = a /\ units'[u].last = a
      /\ units'[u].failed = units[u].failed /\ units'[u].initial = units[u].initial
      /\ reserved' = [k \in Tasks |-> IF k \in {a} THEN q ELSE reserved[k]]
  <2>1. rec # None
    BY <1>0, RecordsAssumption, EventsAssumption DEF AttemptRecord
  <2>2. units'[u] = [units[u] EXCEPT !.active = a, !.last = a, !.validation = None]
    BY <1>0 DEF AttemptStarted
  <2> QED
    BY <1>0, <2>1, <2>2 DEF AttemptStarted, course, OpenUnits, UnitRecord, Reserve
<1>2. OpenUnits' = OpenUnits
  BY <1>0, <1>1 DEF OpenUnits
<1>3. \A v \in Units : units[v].last # a
  BY <1>0 DEF UnitLinked
<1>4. pr # a /\ (pr # None => log[pr] # None)
  <2>1. CASE units[u].last # None
    BY <2>1, <1>0 DEF Predecessor, UnitLinked
  <2>2. CASE units[u].last = None /\ units[u].initial # None
    BY <2>2, <1>0 DEF Predecessor, Chained
  <2>3. CASE units[u].last = None /\ units[u].initial = None
    BY <2>3 DEF Predecessor
  <2> QED
    BY <2>1, <2>2, <2>3
<1>5. \A b \in Attempts : log[b] # None => log[b].pred # pr \/ pr = None
  BY <1>0 DEF PredecessorUnique
<1>6. \A b \in Attempts : log[b] # None => log[b].pred # a
  BY <1>0 DEF Chained
<1>7. Claimed'
  <2>1. \A s \in Swarms : swarms'[s] # None => swarms[s] # None
    BY <1>0 DEF AttemptStarted, Diagnoses
  <2>2. \A b \in Attempts : log'[b] # None => b \in ids'
    BY <1>1 DEF Claimed
  <2>3. \A v \in Units : units'[v].state # "absent" => v \in ids'
    BY <1>0, <1>1 DEF Claimed, OpenUnits
  <2> QED
    BY <1>1, <2>1, <2>2, <2>3 DEF Claimed
<1>8. \A v \in Units : UnitLinked(v)'
  <2>1. UnitLinked(u)'
    BY <1>1 DEF UnitLinked
  <2>2. ASSUME NEW v \in Units, v # u PROVE UnitLinked(v)'
    <3>1. units[v].last # None => log'[units[v].last] = log[units[v].last]
      BY <1>0, <1>1, <1>3 DEF UnitRecord
    <3> QED
      BY <2>2, <3>1, <1>1 DEF UnitLinked
  <2> QED
    BY <2>1, <2>2
<1>9. Staged'
  BY <1>0, <1>1 DEF Staged
<1>10. Chained'
  <2>1. lastAttempt' # None => log'[lastAttempt'] # None
    BY <1>1
  <2>2. ASSUME NEW b \in Attempts, log'[b] # None
        PROVE  /\ log'[b].pred # None => log'[log'[b].pred] # None /\ log'[b].pred # lastAttempt'
               /\ log'[b].pred # b
    <3>1. CASE b = a
      BY <3>1, <1>0, <1>1, <1>4
    <3>2. CASE b # a
      BY <3>2, <2>2, <1>0, <1>1, <1>6 DEF Chained, AttemptRecord
    <3> QED
      BY <3>1, <3>2
  <2>3. ASSUME NEW v \in OpenUnits', units'[v].last = None, units'[v].initial # None
        PROVE  OpenUnits' = {v} /\ units'[v].initial = lastAttempt'
    <3>1. v # u /\ v \in OpenUnits /\ units[v].last = None /\ units[v].initial # None
      BY <1>1, <1>2, <2>3 DEF OpenUnits
    <3> QED
      BY <3>1, <1>0 DEF Chained
  <2>4. ASSUME NEW v \in Units, NEW b \in Attempts, units'[v].last # None, log'[b] # None, log'[b].unit = v
        PROVE  log'[b].pred # units'[v].last
    <3>1. CASE v = u /\ b = a
      BY <3>1, <1>1, <1>4
    <3>2. CASE v = u /\ b # a
      BY <3>2, <2>4, <1>1, <1>6
    <3>3. CASE v # u
      BY <3>3, <2>4, <1>0, <1>1 DEF Chained
    <3> QED
      BY <3>1, <3>2, <3>3
  <2> QED
    BY <2>1, <2>2, <2>3, <2>4 DEF Chained
<1>11. PredecessorUnique'
  <2>1. Predecessor(u)' = a
    BY <1>0, <1>1 DEF Predecessor
  <2>2. \A v \in OpenUnits : v # u => Predecessor(v)' = Predecessor(v) /\ Predecessor(v) # a
    BY <1>0, <1>1, <1>3 DEF Predecessor, OpenUnits, Chained
  <2>3. \A v \in OpenUnits : v # u /\ Predecessor(v) # None => Predecessor(v) # pr
    BY <1>0 DEF PredecessorUnique
  <2>4. ASSUME NEW b \in Attempts, NEW c \in Attempts, log'[b] # None, log'[c] # None,
               log'[b].pred # None, log'[b].pred = log'[c].pred
        PROVE  b = c
    BY <2>4, <1>1, <1>5 DEF PredecessorUnique
  <2>5. ASSUME NEW v \in OpenUnits', Predecessor(v)' # None
        PROVE  /\ \A w \in OpenUnits' : Predecessor(w)' = Predecessor(v)' => w = v
               /\ \A b \in Attempts : log'[b] # None => log'[b].pred # Predecessor(v)'
    <3>1. CASE v = u
      BY <3>1, <2>1, <2>2, <1>1, <1>2, <1>4, <1>6
    <3>2. CASE v # u
      BY <3>2, <2>5, <2>1, <2>2, <2>3, <1>1, <1>2 DEF PredecessorUnique
    <3> QED
      BY <3>1, <3>2
  <2> QED
    BY <2>4, <2>5 DEF PredecessorUnique
<1>12. Diagnosed'
  <2>1. \A s \in Swarms : swarms'[s] # None =>
          /\ swarms[s] # None /\ swarms'[s].failed = swarms[s].failed /\ swarms'[s].unit = swarms[s].unit
          /\ swarms'[s].lanes = swarms[s].lanes /\ swarms'[s].pick = swarms[s].pick
    BY <1>0 DEF AttemptStarted, Diagnoses, SwarmRecord
  <2>2. ASSUME NEW s \in Swarms, swarms'[s] # None PROVE SwarmLinked(s)'
    <3>1. swarms[s].failed \in Attempts /\ SwarmLinked(s)
      BY <2>1, <2>2, <1>0 DEF SwarmRecord, Diagnosed
    <3>2. swarms[s].failed # a
      BY <3>1, <1>0 DEF SwarmLinked
    <3> QED
      BY <2>1, <2>2, <3>1, <3>2, <1>1 DEF SwarmLinked, Found
  <2> QED
    BY <2>1, <2>2 DEF Diagnosed
<1>13. RepairAuthorized'
  <2> SUFFICES ASSUME NEW s \in Swarms, NEW b \in Attempts, swarms'[s] # None, log'[b] # None,
                      log'[b].unit = swarms'[s].unit, log'[b].pred = swarms'[s].failed
               PROVE  /\ \A l \in swarms'[s].lanes : Found(l)'
                      /\ IF swarms'[s].pick = None
                         THEN log'[b].kind = "model_rescue" /\ \A l \in swarms'[s].lanes : lanes'[l] # "supported"
                         ELSE /\ swarms'[s].executed = b /\ lanes'[swarms'[s].pick.lane] = "supported"
                              /\ log'[b].kind = swarms'[s].pick.kind
    BY DEF RepairAuthorized
  <2>1. /\ swarms[s] # None /\ swarms'[s].failed = swarms[s].failed /\ swarms'[s].unit = swarms[s].unit
        /\ swarms'[s].lanes = swarms[s].lanes /\ swarms'[s].pick = swarms[s].pick
        /\ swarms[s] \in SwarmRecord
    BY <1>0 DEF AttemptStarted, Diagnoses, SwarmRecord
  <2>2. CASE b # a
    <3>1. log[b] # None /\ log[b].unit = swarms[s].unit /\ log[b].pred = swarms[s].failed
      BY <2>1, <2>2, <1>1
    <3>2. s \notin Diagnoses(u)
      BY <3>1, <2>1, <1>5 DEF Diagnoses, SwarmRecord
    <3>3. swarms'[s] = swarms[s]
      BY <3>2, <1>0 DEF AttemptStarted
    <3> QED
      BY <2>2, <3>1, <3>3, <1>1 DEF RepairAuthorized, Found
  <2>3. CASE b = a
    <3>1. s \in Diagnoses(u)
      BY <2>1, <2>3, <1>1 DEF Diagnoses
    <3>2. CASE DirectRescue(s, p, remediation)
      BY <2>1, <2>3, <3>1, <3>2, <1>1 DEF DirectRescue, Found, Verdicts
    <3>3. CASE ~DirectRescue(s, p, remediation)
      <4>1. SelectedRepair(s, p, remediation) /\ swarms'[s] = [swarms[s] EXCEPT !.executed = a]
        BY <3>1, <3>3, <1>0 DEF AttemptStarted
      <4>2. SwarmLinked(s)
        BY <2>1 DEF Diagnosed
      <4> QED
        BY <2>1, <2>3, <4>1, <4>2, <1>1 DEF SelectedRepair, SwarmLinked, Found, SwarmRecord
    <3> QED
      BY <3>2, <3>3
  <2> QED
    BY <2>2, <2>3
<1>14. RescueReconciled'
  <2> SUFFICES ASSUME NEW b \in Attempts, log'[b] # None, log'[b].rescue
               PROVE  /\ log'[b].pred # None /\ children'[log'[b].pred] = "failed"
                      /\ log'[log'[b].pred].kind = "normal_remediation" /\ log'[log'[b].pred].done = "failed"
                      /\ log'[b].done # None => children'[b] = log'[b].done
    BY DEF RescueReconciled
  <2>1. CASE b # a
    <3>1. log[b] # None /\ log[b].rescue /\ log[b].pred # a /\ log[b] \in AttemptRecord
      BY <2>1, <1>0, <1>1, <1>6
    <3>2. log[b].pred \in Attempts
      BY <3>1 DEF RescueReconciled, AttemptRecord
    <3> QED
      BY <2>1, <3>1, <3>2, <1>1 DEF RescueReconciled
  <2>2. CASE b = a
    <3>1. Rescuable(u) /\ pr = units[u].last
      BY <2>2, <1>1 DEF AttemptStarted, Rescuable, Predecessor
    <3> QED
      BY <2>2, <3>1, <1>0, <1>1, <1>4 DEF Rescuable
  <2> QED
    BY <2>1, <2>2
<1>15. ReservationsExact'
  <2>1. q # None
    BY NumbersAssumption
  <2>2. Attempts \subseteq Tasks /\ Lanes \subseteq Tasks
    BY DEF Tasks
  <2> SUFFICES ASSUME NEW k \in Tasks
               PROVE  reserved'[k] # None <=> \/ k \in Attempts /\ log'[k] # None /\ log'[k].done = None
                                              \/ k \in Lanes /\ k \in Waiting'
    BY DEF ReservationsExact
  <2>3. Waiting' = Waiting
    BY <1>1 DEF Waiting
  <2>4. CASE k = a
    BY <2>1, <2>4, <1>1
  <2>5. CASE k # a
    BY <2>3, <2>5, <1>1 DEF ReservationsExact
  <2> QED
    BY <2>4, <2>5
<1> QED
  BY <1>7, <1>8, <1>9, <1>10, <1>11, <1>12, <1>13, <1>14, <1>15

\* A finished attempt keeps its place in the chain; its reservation goes.
LEMMA AttemptFinishedInv ==
  ASSUME IInv, TypeOK', NEW a \in Attempts, NEW u \in Units, NEW o \in Outcomes, NEW n \in Usages,
         AttemptFinished(a, u, o, n)
  PROVE  IInv'
<1> USE DEF IInv
<1>0. /\ units[u].active = a /\ units[u].last = a /\ units[u].state = "open" /\ log[a] # None
      /\ log[a].unit = u /\ log[a].done = None /\ log[a] \in AttemptRecord /\ units[u] \in UnitRecord
      /\ units \in [Units -> UnitRecord] /\ log \in [Attempts -> AttemptRecord \cup {None}]
      /\ o.disposition # None
  <2>1. o.disposition \in Dispositions
    BY EventsAssumption
  <2>2. o.disposition # None
    BY <2>1
  <2> QED
    BY <2>2 DEF AttemptFinished, UnitLinked, TypeOK, WorkOK
<1>1. /\ UNCHANGED <<ids, pending, wave, lastAttempt, children, swarms, lanes>>
      /\ \A b \in Attempts : b # a => log'[b] = log[b]
      /\ log'[a] # None /\ log'[a].unit = log[a].unit /\ log'[a].pred = log[a].pred
      /\ log'[a].kind = log[a].kind /\ log'[a].rescue = log[a].rescue /\ log'[a].done = o.disposition
      /\ \A v \in Units : v # u => units'[v] = units[v]
      /\ units'[u].state = "open" /\ units'[u].active = None /\ units'[u].last = a
      /\ units'[u].initial = units[u].initial /\ units'[u].failed \in {None, a}
      /\ reserved' = [reserved EXCEPT ![a] = None]
  <2>1. log'[a] = [log[a] EXCEPT !.done = o.disposition, !.failure = o.failure]
    BY <1>0 DEF AttemptFinished
  <2>2. log'[a] \in AttemptRecord
    BY <2>1, <1>0, EventsAssumption DEF AttemptRecord
  <2>3. log'[a] # None
    BY <2>2, RecordsAssumption
  <2>4. units'[u] = [units[u] EXCEPT !.active = None, !.failed = IF o.failure = None THEN None ELSE a]
    BY <1>0 DEF AttemptFinished
  <2>5. /\ units'[u].state = "open" /\ units'[u].active = None /\ units'[u].last = a
        /\ units'[u].initial = units[u].initial /\ units'[u].failed \in {None, a}
    BY <2>4, <1>0 DEF UnitRecord
  <2>6. /\ log'[a].unit = log[a].unit /\ log'[a].pred = log[a].pred
        /\ log'[a].kind = log[a].kind /\ log'[a].rescue = log[a].rescue /\ log'[a].done = o.disposition
    BY <2>1, <1>0 DEF AttemptRecord
  <2>7. \A b \in Attempts : b # a => log'[b] = log[b]
    BY <1>0 DEF AttemptFinished
  <2>8. \A v \in Units : v # u => units'[v] = units[v]
    BY <1>0 DEF AttemptFinished
  <2> QED
    BY <2>3, <2>5, <2>6, <2>7, <2>8 DEF AttemptFinished, course, diagnosis, Release
<1>2. OpenUnits' = OpenUnits /\ \A v \in Units : Predecessor(v)' = Predecessor(v) /\ units'[v].last = units[v].last
  BY <1>0, <1>1 DEF OpenUnits, Predecessor
<1>3. \A b \in Attempts : /\ (log'[b] # None) <=> (log[b] # None)
                          /\ log'[b].unit = log[b].unit /\ log'[b].pred = log[b].pred
                          /\ log'[b].kind = log[b].kind /\ log'[b].rescue = log[b].rescue
  BY <1>0, <1>1
<1>4. Claimed' /\ Staged'
  <2>1. \A v \in Units : units'[v].state # "absent" => units[v].state # "absent"
    BY <1>0, <1>1
  <2> QED
    BY <2>1, <1>1, <1>2, <1>3 DEF Claimed, Staged
<1>5. \A v \in Units : UnitLinked(v)'
  <2>1. UnitLinked(u)'
    BY <1>0, <1>1 DEF UnitLinked
  <2>2. ASSUME NEW v \in Units, v # u PROVE UnitLinked(v)'
    <3>1. units[v].last # None => units[v].last # a /\ units[v].last \in Attempts
      BY <2>2, <1>0 DEF UnitLinked, UnitRecord
    <3> QED
      BY <2>2, <3>1, <1>1 DEF UnitLinked
  <2> QED
    BY <2>1, <2>2
<1>6. Chained'
  <2>1. \A v \in OpenUnits : units'[v].initial = units[v].initial
    BY <1>1 DEF OpenUnits
  <2>2. \A b \in Attempts : log[b] # None /\ log[b].pred # None => log[b].pred \in Attempts
    BY <1>0 DEF AttemptRecord
  <2>3. lastAttempt # None => lastAttempt \in Attempts
    BY DEF TypeOK, RunOK
  <2>4. /\ lastAttempt' # None => log'[lastAttempt'] # None
        /\ \A b \in Attempts : log'[b] # None =>
             /\ log'[b].pred # None => log'[log'[b].pred] # None /\ log'[b].pred # lastAttempt'
             /\ log'[b].pred # b
    BY <2>2, <2>3, <1>1, <1>3 DEF Chained
  <2>5. \A v \in OpenUnits' : units'[v].last = None /\ units'[v].initial # None =>
          OpenUnits' = {v} /\ units'[v].initial = lastAttempt'
    <3>1. OpenUnits \subseteq Units
      BY DEF OpenUnits
    <3> QED
      BY <2>1, <3>1, <1>1, <1>2 DEF Chained
  <2>6. \A v \in Units, b \in Attempts :
          units'[v].last # None /\ log'[b] # None /\ log'[b].unit = v => log'[b].pred # units'[v].last
    BY <1>2, <1>3 DEF Chained
  <2> QED
    BY <2>4, <2>5, <2>6 DEF Chained
<1>7. PredecessorUnique'
  BY <1>2, <1>3 DEF PredecessorUnique, OpenUnits
<1>8. Diagnosed'
  <2>1. \A s \in Swarms : swarms[s] # None => swarms[s].failed \in Attempts
    BY DEF TypeOK, SwarmsOK, SwarmRecord
  <2> QED
    BY <2>1, <1>1, <1>3 DEF Diagnosed, SwarmLinked, Found
<1>9. RepairAuthorized'
  BY <1>1, <1>3 DEF RepairAuthorized, Found
<1>10. RescueReconciled'
  <2> SUFFICES ASSUME NEW b \in Attempts, log'[b] # None, log'[b].rescue
               PROVE  /\ log'[b].pred # None /\ children'[log'[b].pred] = "failed"
                      /\ log'[log'[b].pred].kind = "normal_remediation" /\ log'[log'[b].pred].done = "failed"
                      /\ log'[b].done # None => children'[b] = log'[b].done
    BY DEF RescueReconciled
  <2>1. log[b] # None /\ log[b].rescue /\ log[b] \in AttemptRecord
    BY <1>0, <1>3
  <2>2. log[b].pred \in Attempts /\ log[b].pred # a
    BY <2>1, <1>0 DEF RescueReconciled, AttemptRecord, Dispositions
  <2>3. b = a => children[a] = o.disposition
    BY <2>1 DEF AttemptFinished, MayFinish
  <2> QED
    BY <2>1, <2>2, <2>3, <1>1, <1>3 DEF RescueReconciled
<1>11. ReservationsExact'
  <2>1. Waiting' = Waiting
    BY <1>1 DEF Waiting
  <2>2. a \notin Lanes /\ a \in Tasks /\ DOMAIN reserved = Tasks
    BY DEF Tasks, TypeOK, AccountsOK
  <2> QED
    BY <2>1, <2>2, <1>0, <1>1 DEF ReservationsExact
<1> QED
  BY <1>4, <1>5, <1>6, <1>7, <1>8, <1>9, <1>10, <1>11

\* Events that leave the work, the children and the reservations alone.
LEMMA QuietInv ==
  ASSUME IInv, TypeOK', WorkUnchanged, UNCHANGED <<children, reserved>>, ids \subseteq ids',
         pending' # None => wave' = 0 /\ OpenUnits = {}
  PROVE  IInv'
<1>1. Staged'
  BY DEF Staged, OpenUnits, WorkUnchanged
<1> QED
  BY <1>1, QuietLinks, QuietRest DEF IInv

\* Planning, routing and the completion of the run touch none of the work.
LEMMA PlanningInv ==
  ASSUME IInv, TypeOK', PlanningStep
  PROVE  IInv'
<1>1. WorkUnchanged /\ UNCHANGED <<children, reserved, pending, wave>> /\ ids \subseteq ids'
  BY DEF PlanningStep, PlanCompiled, FabricWaveAccepted, RunPlanned, WorkUnchanged, course, work, diagnosis, accounts
<1>2. pending' # None => wave' = 0 /\ OpenUnits = {}
  BY <1>1 DEF IInv, Staged
<1> QED
  BY <1>1, <1>2, QuietInv

\* A candidate is staged only when no unit is open, and advancing forgets the units.
LEMMA WaveInv ==
  ASSUME IInv, TypeOK', WaveStep
  PROVE  IInv'
<1>1. CASE RouteSelected \/ CandidateCompleted \/ CleanupCompleted \/ RunCompleted
  <2>1. WorkUnchanged /\ UNCHANGED <<children, reserved, pending, wave>> /\ ids \subseteq ids'
    BY <1>1 DEF RouteSelected, CandidateCompleted, CleanupCompleted, RunCompleted, WorkUnchanged, work, diagnosis, accounts
  <2>2. pending' # None => wave' = 0 /\ OpenUnits = {}
    BY <2>1 DEF IInv, Staged
  <2> QED
    BY <2>1, <2>2, QuietInv
<1>2. CASE WaveOpened
  <2>1. WorkUnchanged /\ UNCHANGED <<children, reserved>> /\ ids \subseteq ids' /\ pending' = None
    BY <1>2 DEF WaveOpened, WorkUnchanged, work, diagnosis, accounts
  <2> QED
    BY <2>1, QuietInv
<1>3. ASSUME NEW c \in Candidates, WaveCompleted(c) PROVE IInv'
  <2>1. WorkUnchanged /\ UNCHANGED <<children, reserved>> /\ ids \subseteq ids' /\ wave' = 0
    BY <1>3 DEF WaveCompleted, WorkUnchanged, work, diagnosis, accounts
  <2>2. OpenUnits = {}
    BY <1>3 DEF WaveCompleted, WaveSettled, OpenUnits
  <2> QED
    BY <2>1, <2>2, QuietInv
<1>4. CASE CandidateAdvanced
  <2>1. /\ UNCHANGED <<wave, log, children, swarms, lanes, reserved>> /\ ids \subseteq ids' /\ pending' = None
        /\ lastAttempt' = None /\ \A v \in Units : units'[v] = AbsentUnit
    BY <1>4 DEF CandidateAdvanced, diagnosis, accounts
  <2>2. \A v \in Units : units'[v].state = "absent" /\ units'[v].last = None
    BY <2>1 DEF AbsentUnit
  <2>3. OpenUnits' = {}
    BY <2>2 DEF OpenUnits
  <2>4. Claimed' /\ Staged'
    BY <2>1, <2>2 DEF IInv, Claimed, Staged
  <2>5. Chained'
    BY <2>1, <2>2, <2>3 DEF IInv, Chained
  <2>6. \A v \in Units : UnitLinked(v)'
    BY <2>1 DEF UnitLinked, AbsentUnit
  <2>7. PredecessorUnique'
    BY <2>1, <2>3 DEF IInv, PredecessorUnique
  <2>8. Diagnosed' /\ RepairAuthorized'
    BY <2>1 DEF IInv, Diagnosed, SwarmLinked, Found, RepairAuthorized
  <2>9. RescueReconciled' /\ ReservationsExact'
    BY <2>1 DEF IInv, RescueReconciled, ReservationsExact, Waiting
  <2> QED
    BY <2>4, <2>5, <2>6, <2>7, <2>8, <2>9 DEF IInv
<1> QED
  BY <1>1, <1>2, <1>3, <1>4 DEF WaveStep

\* A verdict or a completion changes nothing the properties look at.
LEMMA UnitMarkedInv ==
  ASSUME IInv, TypeOK', NEW u \in Units, ids \subseteq ids',
         UNCHANGED <<pending, wave, lastAttempt, log, children, swarms, lanes, reserved>>,
         Idle(u), \A v \in Units : v # u => units'[v] = units[v],
         units'[u].active = None, units'[u].last = units[u].last, units'[u].failed = units[u].failed,
         units'[u].initial = units[u].initial,
         units'[u].state = "open" \/ (units'[u].state = "completed" /\ units[u].last # None)
  PROVE  IInv'
<1> USE DEF IInv
<1>1. OpenUnits' \subseteq OpenUnits /\ (\A v \in Units : Predecessor(v)' = Predecessor(v) /\ units'[v].last = units[v].last)
  BY DEF OpenUnits, Idle, Predecessor
<1>2. Claimed' /\ Staged'
  <2>1. \A v \in Units : units'[v].state # "absent" => units[v].state # "absent"
    BY DEF Idle
  <2> QED
    BY <1>1, <2>1 DEF Claimed, Staged
<1>3. \A v \in Units : UnitLinked(v)'
  BY DEF UnitLinked, Idle
<1>4. Chained'
  <2>1. \A v \in OpenUnits' : units'[v].last = None /\ units'[v].initial # None =>
          OpenUnits' = {v} /\ units'[v].initial = lastAttempt'
    <3> SUFFICES ASSUME NEW v \in OpenUnits', units'[v].last = None, units'[v].initial # None
                 PROVE  OpenUnits' = {v} /\ units'[v].initial = lastAttempt'
      OBVIOUS
    <3>1. v \in OpenUnits /\ units[v].last = None /\ units[v].initial # None /\ units'[v].initial = units[v].initial
      BY <1>1 DEF OpenUnits
    <3> QED
      BY <3>1, <1>1 DEF Chained
  <2> QED
    BY <1>1, <2>1 DEF Chained
<1>5. PredecessorUnique'
  BY <1>1 DEF PredecessorUnique, OpenUnits
<1>6. Diagnosed' /\ RepairAuthorized'
  BY DEF Diagnosed, SwarmLinked, Found, RepairAuthorized
<1>7. RescueReconciled' /\ ReservationsExact'
  BY DEF RescueReconciled, ReservationsExact, Waiting
<1> QED
  BY <1>2, <1>3, <1>4, <1>5, <1>6, <1>7

\* A swarm is opened for an attempt nothing follows yet.
LEMMA DiagnosisOpenedInv ==
  ASSUME IInv, TypeOK', NEW s \in Swarms, NEW u \in Units, NEW L \in SUBSET Lanes, NEW c \in SwarmCharges,
         NEW q \in Requests \cup {Unknown}, DiagnosisOpened(s, u, L, c, q)
  PROVE  IInv'
<1> USE DEF IInv
<1> DEFINE new == [unit |-> u, failed |-> units[u].failed, candidate |-> candidate,
                   lanes |-> L, pick |-> None, executed |-> None]
<1>0. /\ units[u].failed = units[u].last /\ units[u].failed \in Attempts /\ swarms[s] = None
      /\ log[units[u].failed] # None /\ log[units[u].failed].unit = u
      /\ \A t \in Swarms : swarms[t] # None => swarms[t].failed # units[u].failed
      /\ \A l \in L : l \notin ids /\ lanes[l] = "absent"
      /\ swarms \in [Swarms -> SwarmRecord \cup {None}]
  <2>1. units[u].active = None /\ units[u].failed # None
    BY DEF DiagnosisOpened, Diagnosable, Idle
  <2>2. units[u].failed = units[u].last /\ units[u].failed \in Attempts
    BY <2>1 DEF UnitLinked, TypeOK, WorkOK, UnitRecord
  <2>3. log[units[u].failed] # None /\ log[units[u].failed].unit = u
    BY <2>1, <2>2 DEF UnitLinked
  <2>4. \A l \in L : l \notin ids /\ lanes[l] = "absent"
    BY DEF DiagnosisOpened, Claimed
  <2>5. swarms[s] = None
    BY DEF DiagnosisOpened, Claimed
  <2>6. \A t \in Swarms : swarms[t] # None => swarms[t].failed # units[u].failed
    BY DEF DiagnosisOpened, Diagnosable
  <2> QED
    BY <2>2, <2>3, <2>4, <2>5, <2>6 DEF TypeOK, SwarmsOK
<1>1. /\ UNCHANGED <<pending, wave, lastAttempt, units, log, children>> /\ ids' = ids \cup {s} \cup L
      /\ \A t \in Swarms : t # s => swarms'[t] = swarms[t]
      /\ swarms'[s] = new
      /\ \A l \in Lanes : lanes'[l] = IF l \in L THEN "open" ELSE lanes[l]
      /\ \A k \in Tasks : reserved'[k] = IF k \in L THEN q ELSE reserved[k]
  BY <1>0 DEF DiagnosisOpened, setup, course, Reserve
<1>2. Claimed' /\ Staged' /\ Chained' /\ PredecessorUnique' /\ (\A v \in Units : UnitLinked(v)')
  <2>1. Claimed'
    BY <1>1 DEF Claimed
  <2>2. Staged' /\ Chained'
    BY <1>1 DEF Staged, Chained, OpenUnits
  <2>3. PredecessorUnique'
    BY <1>1 DEF PredecessorUnique, OpenUnits, Predecessor
  <2>4. \A v \in Units : UnitLinked(v)'
    BY <1>1 DEF UnitLinked
  <2> QED
    BY <2>1, <2>2, <2>3, <2>4
<1>3. ASSUME NEW t \in Swarms, swarms[t] # None
      PROVE  swarms'[t] = swarms[t] /\ \A l \in swarms[t].lanes : l \in Lanes /\ lanes'[l] = lanes[l]
  <2>1. swarms[t].lanes \subseteq Lanes /\ \A l \in swarms[t].lanes : lanes[l] # "absent"
    BY <1>0, <1>3 DEF SwarmRecord, Diagnosed, SwarmLinked
  <2> QED
    BY <2>1, <1>0, <1>1, <1>3
<1>4. Diagnosed'
  <2>1. SwarmLinked(s)'
    BY <1>0, <1>1 DEF SwarmLinked
  <2>2. ASSUME NEW t \in Swarms, swarms[t] # None PROVE SwarmLinked(t)'
    <3>1. SwarmLinked(t) /\ swarms'[t] = swarms[t] /\ swarms[t] \in SwarmRecord
      BY <2>2, <1>0, <1>3 DEF Diagnosed
    <3>2. \A l \in swarms[t].lanes : lanes'[l] = lanes[l]
      BY <2>2, <1>3
    <3>3. swarms[t].pick # None => swarms[t].pick.lane \in Lanes /\ lanes'[swarms[t].pick.lane] = lanes[swarms[t].pick.lane]
      BY <3>1, <1>0, <1>1 DEF SwarmRecord, Selection, SwarmLinked
    <3> QED
      BY <3>1, <3>2, <3>3, <1>1 DEF SwarmLinked, Found
  <2>3. \A t \in Swarms : t # s /\ swarms'[t] # None => swarms[t] # None /\ swarms'[t] = swarms[t] /\ SwarmLinked(t)'
    BY <2>2, <1>1
  <2> QED
    BY <2>1, <2>3, <1>0, <1>1 DEF Diagnosed
<1>5. RepairAuthorized'
  <2> SUFFICES ASSUME NEW t \in Swarms, NEW b \in Attempts, swarms'[t] # None, log[b] # None,
                      log[b].unit = swarms'[t].unit, log[b].pred = swarms'[t].failed
               PROVE  /\ \A l \in swarms'[t].lanes : Found(l)'
                      /\ IF swarms'[t].pick = None
                         THEN log[b].kind = "model_rescue" /\ \A l \in swarms'[t].lanes : lanes'[l] # "supported"
                         ELSE /\ swarms'[t].executed = b /\ lanes'[swarms'[t].pick.lane] = "supported"
                              /\ log[b].kind = swarms'[t].pick.kind
    BY <1>1 DEF RepairAuthorized
  <2>1. CASE t = s
    <3>1. log[b].unit = u /\ log[b].pred = units[u].last
      BY <2>1, <1>0, <1>1
    <3> QED
      BY <3>1, <1>0 DEF Chained
  <2>2. CASE t # s
    <3>1. swarms[t] # None /\ swarms'[t] = swarms[t] /\ swarms[t] \in SwarmRecord
      BY <2>2, <1>0, <1>1
    <3>2. \A l \in swarms[t].lanes : lanes'[l] = lanes[l]
      BY <3>1, <1>3
    <3>3. swarms[t].pick # None => lanes[swarms[t].pick.lane] = "supported" /\ lanes'[swarms[t].pick.lane] = lanes[swarms[t].pick.lane]
      BY <3>1, <1>0, <1>1 DEF SwarmRecord, Selection, SwarmLinked, Diagnosed
    <3> QED
      BY <3>1, <3>2, <3>3 DEF RepairAuthorized, Found
  <2> QED
    BY <2>1, <2>2
<1>6. RescueReconciled'
  BY <1>1 DEF RescueReconciled
<1>7. ReservationsExact'
  <2>1. q # None
    BY NumbersAssumption
  <2>2. \A l \in Lanes : l \in Waiting' <=> l \in L \/ l \in Waiting
    BY <1>0, <1>1 DEF Waiting
  <2>3. L \subseteq Lanes /\ Attempts \cap Lanes = {}
    OBVIOUS
  <2> QED
    BY <2>1, <2>2, <2>3, <1>1 DEF ReservationsExact
<1> QED
  BY <1>2, <1>4, <1>5, <1>6, <1>7

\* A lane moves only while it waits, so nothing a decision rests on changes.
LEMMA LaneMovedInv ==
  ASSUME IInv, TypeOK', NEW l \in Lanes, UNCHANGED <<ids, pending, wave, lastAttempt, units, log, children, swarms>>,
         l \in Waiting, \A m \in Lanes : m # l => lanes'[m] = lanes[m], lanes'[l] # "absent",
         \A k \in Tasks : k # l => reserved'[k] = reserved[k],
         reserved'[l] # None <=> l \in Waiting'
  PROVE  IInv'
<1> USE DEF IInv
<1>0. /\ ~Found(l) /\ lanes[l] # "supported" /\ swarms \in [Swarms -> SwarmRecord \cup {None}]
      /\ \A m \in Lanes : m # l => (Found(m)' <=> Found(m)) /\ (m \in Waiting' <=> m \in Waiting)
  BY DEF Found, Waiting, Verdicts, TypeOK, SwarmsOK
<1>1. Claimed' /\ Staged' /\ Chained' /\ PredecessorUnique' /\ (\A v \in Units : UnitLinked(v)')
  <2>1. Claimed'
    BY DEF Claimed, Waiting
  <2>2. Staged' /\ Chained'
    BY DEF Staged, Chained, OpenUnits
  <2>3. PredecessorUnique'
    BY DEF PredecessorUnique, OpenUnits, Predecessor
  <2>4. \A v \in Units : UnitLinked(v)'
    BY DEF UnitLinked
  <2> QED
    BY <2>1, <2>2, <2>3, <2>4
<1>2. Diagnosed'
  <2>1. ASSUME NEW t \in Swarms, swarms[t] # None PROVE SwarmLinked(t)'
    <3>1. SwarmLinked(t) /\ swarms[t] \in SwarmRecord
      BY <2>1, <1>0 DEF Diagnosed
    <3>2. swarms[t].lanes \subseteq Lanes /\ (swarms[t].pick # None => swarms[t].pick.lane \in Lanes)
      BY <3>1 DEF SwarmRecord, Selection
    <3> QED
      BY <3>1, <3>2, <1>0 DEF SwarmLinked
  <2> QED
    BY <2>1 DEF Diagnosed
<1>3. RepairAuthorized'
  <2> SUFFICES ASSUME NEW t \in Swarms, NEW b \in Attempts, swarms[t] # None, log[b] # None,
                      log[b].unit = swarms[t].unit, log[b].pred = swarms[t].failed
               PROVE  /\ \A m \in swarms[t].lanes : Found(m)'
                      /\ IF swarms[t].pick = None
                         THEN log[b].kind = "model_rescue" /\ \A m \in swarms[t].lanes : lanes'[m] # "supported"
                         ELSE /\ swarms[t].executed = b /\ lanes'[swarms[t].pick.lane] = "supported"
                              /\ log[b].kind = swarms[t].pick.kind
    BY DEF RepairAuthorized
  <2>1. /\ \A m \in swarms[t].lanes : Found(m)
        /\ IF swarms[t].pick = None
           THEN log[b].kind = "model_rescue" /\ \A m \in swarms[t].lanes : lanes[m] # "supported"
           ELSE /\ swarms[t].executed = b /\ lanes[swarms[t].pick.lane] = "supported"
                /\ log[b].kind = swarms[t].pick.kind
    BY DEF RepairAuthorized
  <2>2. swarms[t].lanes \subseteq Lanes /\ (swarms[t].pick # None => swarms[t].pick.lane \in Lanes)
    BY <1>0 DEF SwarmRecord, Selection
  <2> QED
    BY <2>1, <2>2, <1>0
<1>4. RescueReconciled'
  BY DEF RescueReconciled
<1>5. ReservationsExact'
  <2>1. l \notin Attempts
    OBVIOUS
  <2> QED
    BY <2>1, <1>0 DEF ReservationsExact
<1> QED
  BY <1>1, <1>2, <1>3, <1>4, <1>5

\* A finding is selected after every lane reported and before anything follows the attempt.
LEMMA DiagnosisSelectedInv ==
  ASSUME IInv, TypeOK', NEW s \in Swarms, NEW l \in Lanes, NEW p \in Profiles, DiagnosisSelected(s, l, p)
  PROVE  IInv'
<1> USE DEF IInv
<1>0. /\ swarms[s] # None /\ swarms[s] \in SwarmRecord /\ l \in swarms[s].lanes /\ lanes[l] = "supported"
      /\ \A m \in swarms[s].lanes : Found(m)
      /\ units[swarms[s].unit].active = None /\ units[swarms[s].unit].failed = swarms[s].failed
      /\ swarms \in [Swarms -> SwarmRecord \cup {None}] /\ swarms[s].pick = None
  BY DEF DiagnosisSelected, AllFound, TypeOK, SwarmsOK
<1>1. /\ UNCHANGED <<ids, pending, wave, lastAttempt, units, log, children, lanes, reserved>>
      /\ \A t \in Swarms : t # s => swarms'[t] = swarms[t]
      /\ swarms'[s].unit = swarms[s].unit /\ swarms'[s].failed = swarms[s].failed
      /\ swarms'[s].lanes = swarms[s].lanes /\ swarms'[s].pick.lane = l
  <2>1. swarms'[s] = [swarms[s] EXCEPT !.pick = [lane |-> l, kind |-> p.kind, charge |-> p.charge]]
    BY <1>0 DEF DiagnosisSelected
  <2>2. /\ swarms'[s].unit = swarms[s].unit /\ swarms'[s].failed = swarms[s].failed
        /\ swarms'[s].lanes = swarms[s].lanes /\ swarms'[s].pick.lane = l
    BY <2>1, <1>0 DEF SwarmRecord
  <2> QED
    BY <2>2, <1>0 DEF DiagnosisSelected, course, setup, accounts
<1>2. Claimed' /\ Staged' /\ Chained' /\ PredecessorUnique' /\ (\A v \in Units : UnitLinked(v)')
  <2>1. Claimed'
    BY <1>0, <1>1 DEF Claimed
  <2>2. Staged' /\ Chained'
    BY <1>1 DEF Staged, Chained, OpenUnits
  <2>3. PredecessorUnique'
    BY <1>1 DEF PredecessorUnique, OpenUnits, Predecessor
  <2>4. \A v \in Units : UnitLinked(v)'
    BY <1>1 DEF UnitLinked
  <2> QED
    BY <2>1, <2>2, <2>3, <2>4
<1>3. Diagnosed'
  <2>1. SwarmLinked(s)'
    BY <1>0, <1>1 DEF SwarmLinked, Found, Diagnosed
  <2>2. ASSUME NEW t \in Swarms, t # s, swarms'[t] # None PROVE SwarmLinked(t)'
    BY <2>2, <1>1 DEF SwarmLinked, Found, Diagnosed
  <2> QED
    BY <2>1, <2>2, <1>0, <1>1 DEF Diagnosed
<1>4. RepairAuthorized'
  <2> SUFFICES ASSUME NEW t \in Swarms, NEW b \in Attempts, swarms'[t] # None, log[b] # None,
                      log[b].unit = swarms'[t].unit, log[b].pred = swarms'[t].failed
               PROVE  /\ \A m \in swarms'[t].lanes : Found(m)
                      /\ IF swarms'[t].pick = None
                         THEN log[b].kind = "model_rescue" /\ \A m \in swarms'[t].lanes : lanes[m] # "supported"
                         ELSE /\ swarms'[t].executed = b /\ lanes[swarms'[t].pick.lane] = "supported"
                              /\ log[b].kind = swarms'[t].pick.kind
    BY <1>1 DEF RepairAuthorized, Found
  <2>1. CASE t = s
    <3>1. swarms[s].unit \in Units /\ swarms[s].failed \in Attempts
      BY <1>0 DEF SwarmRecord
    <3>2. units[swarms[s].unit].last = swarms[s].failed
      BY <3>1, <1>0 DEF UnitLinked
    <3> QED
      BY <2>1, <3>1, <3>2, <1>1 DEF Chained
  <2>2. CASE t # s
    BY <2>2, <1>1 DEF RepairAuthorized
  <2> QED
    BY <2>1, <2>2
<1>5. RescueReconciled' /\ ReservationsExact'
  BY <1>1 DEF RescueReconciled, ReservationsExact, Waiting
<1> QED
  BY <1>2, <1>3, <1>4, <1>5

\* Every diagnosis event keeps the invariant.
LEMMA DiagnosisInv ==
  ASSUME IInv, TypeOK', DiagnosisStep
  PROVE  IInv'
<1>1. ASSUME NEW s \in Swarms, NEW l \in Lanes, DiagnosisDispatched(s, l) PROVE IInv'
  <2>1. /\ UNCHANGED <<ids, pending, wave, lastAttempt, units, log, children, swarms, reserved>>
        /\ lanes[l] = "open" /\ lanes'[l] = "dispatched" /\ \A m \in Lanes : m # l => lanes'[m] = lanes[m]
    BY <1>1 DEF DiagnosisDispatched, setup, course, accounts, IInv, TypeOK, SwarmsOK
  <2>2. reserved[l] # None <=> l \in Waiting'
    BY <2>1 DEF IInv, ReservationsExact, Waiting, Tasks
  <2> QED
    BY <2>1, <2>2, LaneMovedInv DEF Waiting
<1>2. ASSUME NEW l \in Lanes, NEW v \in Verdicts, NEW n \in Usages, DiagnosisFinished(l, v, n) PROVE IInv'
  <2>1. /\ UNCHANGED <<ids, pending, wave, lastAttempt, units, log, children, swarms>>
        /\ lanes[l] = "dispatched" /\ lanes'[l] = v /\ \A m \in Lanes : m # l => lanes'[m] = lanes[m]
        /\ reserved' = [reserved EXCEPT ![l] = None] /\ DOMAIN reserved = Tasks
    BY <1>2 DEF DiagnosisFinished, Release, setup, course, IInv, TypeOK, SwarmsOK, AccountsOK
  <2>2. reserved'[l] = None /\ (\A k \in Tasks : k # l => reserved'[k] = reserved[k])
    BY <2>1 DEF Tasks
  <2>3. l \notin Waiting' /\ lanes'[l] # "absent"
    BY <2>1 DEF Waiting, Verdicts
  <2> QED
    BY <2>1, <2>2, <2>3, LaneMovedInv DEF Waiting
<1> QED
  BY <1>1, <1>2, DiagnosisOpenedInv, DiagnosisSelectedInv DEF DiagnosisStep

\* A child starts and ends once; what a rescue rests on is already terminal.
LEMMA ChildInv ==
  ASSUME IInv, TypeOK', ChildStep
  PROVE  IInv'
<1>1. PICK k \in Tasks : ChildRegistered(k) \/ \E end \in Ends : ChildTerminal(k, end)
  BY DEF ChildStep
<1>2. /\ WorkUnchanged /\ UNCHANGED <<ids, pending, wave, reserved>>
      /\ children[k] \in {None, "running"} /\ \A m \in Tasks : m # k => children'[m] = children[m]
  BY <1>1 DEF ChildRegistered, ChildTerminal, WorkUnchanged, setup, course, diagnosis, accounts, IInv, TypeOK, WorkOK
<1>3. Staged'
  BY <1>2 DEF IInv, Staged, OpenUnits, WorkUnchanged
<1>4. RescueReconciled'
  <2> SUFFICES ASSUME NEW a \in Attempts, log[a] # None, log[a].rescue
               PROVE  /\ log[a].pred # None /\ children'[log[a].pred] = "failed"
                      /\ log[log[a].pred].kind = "normal_remediation" /\ log[log[a].pred].done = "failed"
                      /\ log[a].done # None => children'[a] = log[a].done
    BY <1>2 DEF RescueReconciled, WorkUnchanged
  <2>1. /\ log[a].pred # None /\ children[log[a].pred] = "failed"
        /\ log[log[a].pred].kind = "normal_remediation" /\ log[log[a].pred].done = "failed"
        /\ log[a].done # None => children[a] = log[a].done
    BY DEF IInv, RescueReconciled
  <2>2. log[a] \in AttemptRecord
    BY DEF IInv, TypeOK, WorkOK
  <2>3. log[a].pred \in Tasks /\ a \in Tasks /\ (log[a].done # None => log[a].done \in Dispositions)
    BY <2>1, <2>2 DEF AttemptRecord, Tasks
  <2>4. log[a].pred # k /\ (log[a].done # None => a # k)
    BY <1>2, <2>1, <2>3 DEF Dispositions
  <2> QED
    BY <1>2, <2>1, <2>3, <2>4
<1>5. ReservationsExact'
  BY <1>2 DEF IInv, ReservationsExact, Waiting, WorkUnchanged
<1> QED
  BY <1>2, <1>3, <1>4, <1>5, QuietLinks DEF IInv

\* Every unit event keeps the invariant.
LEMMA UnitInv ==
  ASSUME IInv, TypeOK', UnitStep
  PROVE  IInv'
<1>1. ASSUME NEW u \in Units, UnitCompleted(u) PROVE IInv'
  <2>1. units[u] \in UnitRecord /\ units'[u] = [units[u] EXCEPT !.state = "completed"]
    BY <1>1 DEF UnitCompleted, IInv, TypeOK, WorkOK
  <2>2. /\ units'[u].state = "completed" /\ units'[u].active = units[u].active /\ units'[u].last = units[u].last
        /\ units'[u].failed = units[u].failed /\ units'[u].initial = units[u].initial
    BY <2>1 DEF UnitRecord
  <2>3. \A v \in Units : v # u => units'[v] = units[v]
    BY <1>1 DEF UnitCompleted, IInv, TypeOK, WorkOK
  <2> QED
    BY <1>1, <2>2, <2>3, UnitMarkedInv DEF UnitCompleted, setup, course, diagnosis, accounts, Idle
<1>2. ASSUME NEW n \in Notes, NEW u \in Units, NEW r \in {"passed", "failed"}, ValidationRecorded(n, u, r) PROVE IInv'
  <2>1. units[u] \in UnitRecord /\ units'[u] = [units[u] EXCEPT !.validation = r]
    BY <1>2 DEF ValidationRecorded, IInv, TypeOK, WorkOK
  <2>2. /\ units'[u].state = units[u].state /\ units'[u].active = units[u].active /\ units'[u].last = units[u].last
        /\ units'[u].failed = units[u].failed /\ units'[u].initial = units[u].initial
    BY <2>1 DEF UnitRecord
  <2>3. \A v \in Units : v # u => units'[v] = units[v]
    BY <1>2 DEF ValidationRecorded, IInv, TypeOK, WorkOK
  <2>4. /\ Idle(u) /\ units'[u].state = "open" /\ units'[u].active = None
        /\ UNCHANGED <<pending, wave, lastAttempt, log, children, swarms, lanes, reserved>> /\ ids \subseteq ids'
    BY <1>2, <2>2 DEF ValidationRecorded, setup, course, diagnosis, accounts, Idle
  <2> QED
    BY <2>2, <2>3, <2>4, UnitMarkedInv
<1>3. ASSUME NEW n \in Notes, NEW u \in Units, RecoveryRecorded(n, u) PROVE IInv'
  <2>1. WorkUnchanged /\ UNCHANGED <<children, reserved, pending, wave>> /\ ids \subseteq ids'
    BY <1>3 DEF RecoveryRecorded, WorkUnchanged, setup, course, work, diagnosis, accounts
  <2>2. pending' # None => wave' = 0 /\ OpenUnits = {}
    BY <2>1 DEF IInv, Staged
  <2> QED
    BY <2>1, <2>2, QuietInv
<1> QED
  BY <1>1, <1>2, <1>3, UnitOpenedInv, AttemptStartedInv, AttemptFinishedInv DEF UnitStep

-----------------------------------------------------------------------------
(* The theorems *)

\* The empty ledger satisfies the invariant.
LEMMA InitInv == Init => IInv
<1> SUFFICES ASSUME Init PROVE IInv
  OBVIOUS
<1>1. TypeOK
  BY InitTyped
<1>2. /\ \A u \in Units : units[u] = AbsentUnit
      /\ \A a \in Attempts : log[a] = None
      /\ \A s \in Swarms : swarms[s] = None
      /\ \A l \in Lanes : lanes[l] = "absent"
      /\ \A k \in Tasks : reserved[k] = None
      /\ pending = None /\ lastAttempt = None
  BY DEF Init
<1>3. \A u \in Units : units[u].state = "absent" /\ units[u].last = None
  BY <1>2 DEF AbsentUnit
<1>4. OpenUnits = {} /\ Waiting = {}
  BY <1>2, <1>3 DEF OpenUnits, Waiting
<1>5. Claimed /\ Staged /\ Chained /\ Diagnosed
  BY <1>2, <1>3, <1>4 DEF Claimed, Staged, Chained, Diagnosed
<1>6. \A u \in Units : UnitLinked(u)
  BY <1>2 DEF UnitLinked, AbsentUnit
<1>7. PredecessorUnique /\ RepairAuthorized /\ RescueReconciled /\ ReservationsExact
  BY <1>2, <1>4 DEF PredecessorUnique, RepairAuthorized, RescueReconciled, ReservationsExact
<1> QED
  BY <1>1, <1>5, <1>6, <1>7 DEF IInv

\* Every accepted event preserves it.
LEMMA NextInv == IInv /\ [Next]_vars => IInv'
<1> SUFFICES ASSUME IInv, [Next]_vars PROVE IInv'
  OBVIOUS
<1>1. TypeOK'
  BY NextTyped DEF IInv
<1>2. CASE UNCHANGED vars
  <2>1. WorkUnchanged /\ UNCHANGED <<children, reserved, pending, wave>> /\ ids \subseteq ids'
    BY <1>2 DEF vars, WorkUnchanged, setup, course, work, diagnosis, accounts
  <2>2. pending' # None => wave' = 0 /\ OpenUnits = {}
    BY <2>1 DEF IInv, Staged
  <2> QED
    BY <1>1, <2>1, <2>2, QuietInv
<1> QED
  BY <1>1, <1>2, PlanningInv, WaveInv, UnitInv, DiagnosisInv, ChildInv DEF Next

\* The replayed state of a run ledger satisfies the inductive invariant after every event.
LEMMA Inductive == Spec => []IInv
BY InitInv, NextInv, PTL DEF Spec

\* The reducer's state is well typed after every sequence of accepted events.
THEOREM TypeCorrect == Spec => []TypeOK
<1>1. IInv => TypeOK
  BY DEF IInv
<1> QED
  BY <1>1, Inductive, PTL

\* However units open and run side by side, no attempt gets two successors.
THEOREM PredecessorsUnique == Spec => []PredecessorUnique
<1>1. IInv => PredecessorUnique
  BY DEF IInv
<1> QED
  BY <1>1, Inductive, PTL

\* A diagnosed attempt is followed in its unit only by what its diagnosis authorized.
THEOREM RepairsAuthorized == Spec => []RepairAuthorized
<1>1. IInv => RepairAuthorized
  BY DEF IInv
<1> QED
  BY <1>1, Inductive, PTL

\* A terminal rescue rests on a reconciled failure and ends as its own child did.
THEOREM RescuesReconciled == Spec => []RescueReconciled
<1>1. IInv => RescueReconciled
  BY DEF IInv
<1> QED
  BY <1>1, Inductive, PTL

\* Exactly the unfinished attempts and lanes hold measured capacity.
THEOREM CapacityHeldExactly == Spec => []ReservationsExact
<1>1. IInv => ReservationsExact
  BY DEF IInv
<1> QED
  BY <1>1, Inductive, PTL

=============================================================================
