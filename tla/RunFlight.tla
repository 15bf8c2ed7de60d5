----------------------------- MODULE RunFlight -----------------------------
(***************************************************************************)
(* The ledger of one run: the state that applyEvent                         *)
(* (src/core/run-flight-ledger.ts) replays from the append-only event file, *)
(* one action per event kind.  An action is enabled exactly when the        *)
(* reducer accepts the event; a refused append throws and changes nothing.  *)
(*                                                                         *)
(* Abstractions.  All events name one run.  Route ids are fresh names, so   *)
(* only "a route waits for the next wave" is kept; a wave is named by its   *)
(* index.  The three recovery counters are one, time and cost are one       *)
(* measured resource.  The ids of an attempt, a lane and its child are the  *)
(* same, as in the code; a child is registered under the identity (unit,    *)
(* candidate, route, call) of its attempt.  Left out: stop triggers, which  *)
(* ChildLifecycle has, sessions, statistics, and the validation admissions, *)
(* which follow the rules in GoalFlight.                                    *)
(***************************************************************************)
EXTENDS Integers, Sequences, FiniteSets, Functions

CONSTANTS
  Candidates,     \* candidate ids
  Units,          \* unit ids
  Attempts,       \* attempt ids
  Swarms,         \* ids of diagnosis swarms
  Lanes,          \* diagnosis ids, one per lane of a swarm
  Notes,          \* ids of validations and recoveries
  Profiles,       \* what an attempt may be: [role, kind, charge]
  SwarmCharges,   \* recovery charges of a swarm
  Outcomes,       \* how an attempt may finish: [disposition, failure]
  Ends,           \* dispositions of a child
  Limits,         \* recovery budgets a run may be planned with
  ResourceLimits, \* resource budgets, None for no limit
  Requests,       \* measured requests an attempt or a lane may reserve
  Usages,         \* measured consumption an event may report, or Unknown
  MaxActive,      \* LUNA_FABRIC_MAX_ACTIVE
  MaxWaves,       \* bound: waves of the run
  MaxTasks,       \* bound: attempts and children of the run
  None,           \* null
  Unknown         \* a resource figure nobody measured

Kinds == {"implementation", "normal_remediation", "adaptive_probe", "read_only_diagnosis", "model_rescue"}
Roles == {"implementation", "review", "advice", "rescue"}
Dispositions == {"continue", "succeeded", "failed", "cancelled"}
Verdicts == {"supported", "excluded", "unknown"}
Tasks == Attempts \cup Lanes

ASSUME NumbersAssumption ==
  /\ MaxActive \in Nat \ {0} /\ MaxWaves \in Nat /\ MaxTasks \in Nat
  /\ Limits \subseteq Nat /\ Requests \subseteq Nat
  /\ ResourceLimits \subseteq Nat \cup {None} /\ Usages \subseteq Nat \cup {Unknown}
ASSUME EventsAssumption ==
  /\ Profiles \subseteq [role : Roles, kind : Kinds, charge : Nat]
  /\ \A p \in Profiles : p.kind # "implementation" => p.charge > 0
  /\ Outcomes \subseteq [disposition : Dispositions, failure : {None, "implementation", "other"}]
  /\ SwarmCharges \subseteq Nat
  /\ \A o \in Outcomes : (o.failure = None) <=> (o.disposition = "succeeded")
  /\ Ends \subseteq Dispositions
ASSUME NamesAssumption ==
  /\ None \notin Candidates \cup Units \cup Attempts \cup Swarms \cup Lanes \cup Nat \cup Dispositions
  /\ Unknown \notin Nat /\ Unknown # None /\ None # "running"
  /\ Attempts \cap Lanes = {}

\* What the tables of the reducer hold.
UnitRecord == [state : {"absent", "open", "completed"}, wave : Nat, active : Attempts \cup {None},
               last : Attempts \cup {None}, initial : Attempts \cup {None}, failed : Attempts \cup {None},
               validation : {None, "passed", "failed"}]
AttemptRecord == [unit : Units, pred : Attempts \cup {None}, role : Roles, kind : Kinds, rescue : BOOLEAN,
                  done : Dispositions \cup {None}, failure : {None, "implementation", "other"}]
Selection == [lane : Lanes, kind : Kinds, charge : Nat]
SwarmRecord == [unit : Units, failed : Attempts, candidate : Candidates \cup {None}, lanes : SUBSET Lanes,
                pick : Selection \cup {None}, executed : Attempts \cup {None}]

ASSUME RecordsAssumption ==
  None \notin AttemptRecord /\ None \notin SwarmRecord /\ None \notin Selection

VARIABLES
  ids,        \* ids: every durable identity claimed so far
  plan,       \* accepted_plan is set
  heads,      \* candidates of accepted_fabric_waves
  planned,    \* run_id is set
  candidate,  \* current_candidate_id
  pending,    \* pending_candidate.to
  completion, \* candidate_completed, cleanup_completed, terminal_disposition
  routed,     \* current_route_id is set
  wave,       \* index of active_wave_id, 0 if none
  waves,      \* completed_wave_count
  lastAttempt,
  units,
  log,        \* the attempt events of the file, None before attempt.started
  children,   \* children: None, "running" or the disposition of child.terminal
  swarms,     \* diagnoses: None, or [unit, failed, candidate, lanes, pick, executed]
  lanes,      \* what the swarms know of each lane
  budget,     \* budget_limits and budget_consumed
  resources,  \* resource_budget_limits and resource_budget_consumed
  reserved    \* resource_reservations, None where there is none

course == <<candidate, pending, completion, routed, wave, waves>>
diagnosis == <<swarms, lanes>>
accounts == <<budget, resources, reserved>>
setup == <<plan, heads, planned>>
work == <<lastAttempt, units, log, children, diagnosis>>
vars == <<ids, setup, course, work, accounts>>

-----------------------------------------------------------------------------
(* Values the reducer starts from *)

AbsentUnit == [state |-> "absent", wave |-> 0, active |-> None, last |-> None, initial |-> None,
               failed |-> None, validation |-> None]

Init ==
  /\ ids = {} /\ plan = FALSE /\ heads = <<>>
  /\ planned = FALSE /\ candidate = None /\ pending = None
  /\ completion = [candidate |-> FALSE, cleanup |-> FALSE, run |-> FALSE]
  /\ routed = FALSE /\ wave = 0 /\ waves = 0 /\ lastAttempt = None
  /\ units = [u \in Units |-> AbsentUnit]
  /\ log = [a \in Attempts |-> None] /\ children = [k \in Tasks |-> None]
  /\ swarms = [s \in Swarms |-> None] /\ lanes = [l \in Lanes |-> "absent"]
  /\ budget = [limit |-> None, spent |-> 0] /\ resources = [limit |-> None, used |-> 0]
  /\ reserved = [k \in Tasks |-> None]

-----------------------------------------------------------------------------
(* Derived notions *)

Idle(u) == units[u].state = "open" /\ units[u].active = None
OpenUnits == {u \in Units : units[u].state = "open"}
Ended(k) == children[k] \in Ends
Found(l) == lanes[l] \in Verdicts
Waiting == {l \in Lanes : lanes[l] \in {"open", "dispatched"}}
Load == Cardinality({a \in Attempts : log[a] # None}) + Cardinality({k \in Tasks : children[k] # None})
RescueUsed(u) == \E a \in Attempts : log[a] # None /\ log[a].unit = u /\ log[a].kind = "model_rescue"

\* addResources: unknown is contagious.
Plus(a, b) == IF a = Unknown \/ b = Unknown THEN Unknown ELSE a + b
ReservedResources ==
  FoldFunctionOnSet(Plus, 0, reserved, {k \in Tasks : reserved[k] # None})

\* reserveResourceBudget for the keys K, each with request q (Unknown if it has none).
Affordable(K, q) ==
  resources.limit # None =>
    LET held == Plus(resources.used, ReservedResources) IN
    held # Unknown /\ q # Unknown /\ held + Cardinality(K) * q <= resources.limit
Reserve(K, q) ==
  /\ Affordable(K, q)
  /\ reserved' = [k \in Tasks |-> IF k \in K THEN q ELSE reserved[k]]

\* chargeRecoveryBudget
Charge(n) ==
  /\ budget.limit # None /\ budget.spent + n <= budget.limit
  /\ budget' = [budget EXCEPT !.spent = @ + n]

\* Variant: the consumption is booked, the reservation stays.
ReleaseLeaks(k, n) ==
  /\ resources' = [resources EXCEPT !.used = Plus(@, n)]
  /\ UNCHANGED <<budget, reserved>>
\* Variant: a reservation that was never booked is refunded.
ReleaseRefunds(k, n) ==
  /\ reserved' = [reserved EXCEPT ![k] = None]
  /\ resources' = [resources EXCEPT !.used = @ - reserved[k]]
  /\ UNCHANGED budget
\* The reservation goes, the measured consumption comes: overruns are kept.
Release(k, n) ==
  /\ reserved' = [reserved EXCEPT ![k] = None]
  /\ resources' = [resources EXCEPT !.used = Plus(@, n)]
  /\ UNCHANGED budget

-----------------------------------------------------------------------------
(* Planning and the candidate *)

\* A rejected plan only uses up its id; the accepted one is for good.
PlanCompiled ==
  /\ wave = 0 /\ ~routed /\ ~plan
  /\ plan' = TRUE
  /\ UNCHANGED <<ids, heads, planned, course, work, accounts>>

\* A wave another ledger integrated, adopted before this run is planned.
FabricWaveAccepted(from, c) ==
  /\ ~planned /\ plan /\ Len(heads) < MaxWaves
  /\ c # from /\ c \notin Range(heads) /\ (heads # <<>> => from = heads[Len(heads)])
  /\ heads' = Append(heads, c) /\ candidate' = c /\ waves' = waves + 1
  /\ UNCHANGED <<ids, plan, planned, pending, completion, routed, wave, work, accounts>>

RunPlanned(c, limit, resourceLimit) ==
  /\ ~planned /\ c \notin ids
  /\ planned' = TRUE /\ ids' = ids \cup {c} /\ candidate' = c
  /\ budget' = [budget EXCEPT !.limit = limit]
  /\ resources' = [resources EXCEPT !.limit = resourceLimit]
  /\ UNCHANGED <<plan, heads, pending, completion, routed, wave, waves, work, reserved>>

RouteSelected ==
  /\ planned /\ wave = 0 /\ ~completion.candidate
  /\ routed' = TRUE
  /\ UNCHANGED <<ids, setup, candidate, pending, completion, wave, waves, work, accounts>>

WaveOpened ==
  /\ routed /\ wave = 0 /\ pending = None /\ waves < MaxWaves
  /\ wave' = waves + 1 /\ routed' = FALSE
  /\ UNCHANGED <<ids, setup, candidate, pending, completion, waves, work, accounts>>

\* Every unit of the reducer's table belongs to the wave and is completed.
WaveSettled ==
  /\ \E u \in Units : units[u].state # "absent"
  /\ \A u \in Units : units[u].state # "absent" => units[u].wave = wave /\ units[u].state = "completed"

WaveCompleted(c) ==
  /\ wave # 0 /\ WaveSettled /\ c # candidate
  /\ pending' = c /\ wave' = 0 /\ waves' = waves + 1
  /\ UNCHANGED <<ids, setup, candidate, completion, routed, work, accounts>>

\* The units of the candidate before are forgotten, and with them the last attempt.
CandidateAdvanced ==
  /\ pending # None /\ pending \notin ids
  /\ ids' = ids \cup {pending} /\ candidate' = pending /\ pending' = None
  /\ lastAttempt' = None /\ units' = [u \in Units |-> AbsentUnit]
  /\ UNCHANGED <<setup, completion, routed, wave, waves, log, children, diagnosis, accounts>>

CandidateCompleted ==
  /\ wave = 0 /\ pending = None /\ candidate # None /\ waves > 0
  /\ completion' = [completion EXCEPT !.candidate = TRUE]
  /\ UNCHANGED <<ids, setup, candidate, pending, routed, wave, waves, work, accounts>>

CleanupCompleted ==
  /\ planned /\ completion.candidate /\ ~completion.cleanup
  /\ completion' = [completion EXCEPT !.cleanup = TRUE]
  /\ UNCHANGED <<ids, setup, candidate, pending, routed, wave, waves, work, accounts>>

RunCompleted ==
  /\ completion.cleanup /\ \A k \in Tasks : children[k] # "running"
  /\ completion' = [completion EXCEPT !.run = TRUE]
  /\ UNCHANGED <<ids, setup, candidate, pending, routed, wave, waves, work, accounts>>

-----------------------------------------------------------------------------
(* Units and attempts *)

\* Variant: the first attempt of every unit follows the last attempt of the run.
UnitOpenedShared(u) ==
  /\ wave # 0 /\ u \notin ids
  /\ ids' = ids \cup {u}
  /\ units' = [units EXCEPT ![u] = [AbsentUnit EXCEPT !.state = "open", !.wave = wave, !.initial = lastAttempt]]
  /\ UNCHANGED <<setup, course, lastAttempt, log, children, diagnosis, accounts>>
\* Only a unit that is alone continues the chain of attempts of the units before it.
UnitOpened(u) ==
  /\ wave # 0 /\ u \notin ids
  /\ ids' = ids \cup {u}
  /\ units' = [v \in Units |->
       IF v = u THEN [AbsentUnit EXCEPT !.state = "open", !.wave = wave,
                                        !.initial = IF OpenUnits = {} THEN lastAttempt ELSE None]
       ELSE IF v \in OpenUnits /\ units[v].last = None THEN [units[v] EXCEPT !.initial = None]
       ELSE units[v]]
  /\ UNCHANGED <<setup, course, lastAttempt, log, children, diagnosis, accounts>>

Predecessor(u) == IF units[u].last # None THEN units[u].last ELSE units[u].initial

\* Variant: the child of the failed remediation may still be running.
RescuableUnreconciled(u) ==
  LET prior == units[u].last IN
  /\ prior # None /\ log[prior].role = "implementation" /\ log[prior].kind = "normal_remediation"
  /\ log[prior].done = "failed" /\ log[prior].failure = "implementation"
  /\ units[u].validation = "failed" /\ ~RescueUsed(u)
  /\ \A v \in Units : units[v].active # None => log[units[v].active].role # "rescue"
  /\ resources.limit # None
\* A terminal rescue follows a normal remediation that failed, was validated as failed
\* and whose child is reconciled; no other rescue runs.
Rescuable(u) ==
  LET prior == units[u].last IN
  /\ prior # None /\ log[prior].role = "implementation" /\ log[prior].kind = "normal_remediation"
  /\ log[prior].done = "failed" /\ log[prior].failure = "implementation"
  /\ units[u].validation = "failed" /\ ~RescueUsed(u)
  /\ children[prior] = "failed"
  /\ \A v \in Units : units[v].active # None => log[units[v].active].role # "rescue"
  /\ resources.limit # None

\* The diagnosis, if any, of the attempt that unit u would continue.
Diagnoses(u) == {s \in Swarms : swarms[s] # None /\ swarms[s].unit = u /\ swarms[s].failed = Predecessor(u)}
DirectRescue(s, p, remediation) ==
  /\ swarms[s].pick = None /\ ~remediation /\ p.kind = "model_rescue"
  /\ \A l \in swarms[s].lanes : lanes[l] \in {"excluded", "unknown"}
SelectedRepair(s, p, remediation) ==
  /\ swarms[s].pick # None /\ swarms[s].executed = None /\ remediation
  /\ p.kind = swarms[s].pick.kind /\ p.charge = swarms[s].pick.charge

\* remediation: the event carries the contract of the diagnosis' selection;
\* rescue: it carries a terminal rescue contract; q: its measured request, or Unknown.
AttemptStarted(a, u, p, remediation, rescue, q) ==
  LET found == Diagnoses(u)
      repairs == {s \in found : ~DirectRescue(s, p, remediation)} IN
  /\ Idle(u) /\ wave # 0 /\ a \notin ids /\ Load < MaxTasks
  /\ ids' = ids \cup {a}
  /\ rescue => Rescuable(u) /\ p.role = "rescue" /\ p.kind = "model_rescue" /\ q # Unknown
  /\ \A s \in repairs : SelectedRepair(s, p, remediation)
  /\ found = {} => ~remediation
  /\ swarms' = [s \in Swarms |-> IF s \in repairs THEN [swarms[s] EXCEPT !.executed = a] ELSE swarms[s]]
  /\ Charge(p.charge) /\ Reserve({a}, q) /\ UNCHANGED resources
  /\ log' = [log EXCEPT ![a] = [unit |-> u, pred |-> Predecessor(u), role |-> p.role, kind |-> p.kind,
                                rescue |-> rescue, done |-> None, failure |-> None]]
  /\ units' = [units EXCEPT ![u] = [@ EXCEPT !.active = a, !.last = a, !.validation = None]]
  /\ lastAttempt' = a
  /\ UNCHANGED <<setup, course, children, lanes>>

\* A rescue finishes as its reconciled child did.
MayFinish(a, o) == log[a].rescue => children[a] = o.disposition

AttemptFinished(a, u, o, n) ==
  /\ units[u].active = a /\ MayFinish(a, o)
  /\ Release(a, n)
  /\ log' = [log EXCEPT ![a] = [@ EXCEPT !.done = o.disposition, !.failure = o.failure]]
  /\ units' = [units EXCEPT ![u] = [@ EXCEPT !.active = None, !.failed = IF o.failure = None THEN None ELSE a]]
  /\ UNCHANGED <<ids, setup, course, lastAttempt, children, diagnosis>>

RecoveryRecorded(n, u) ==
  /\ n \notin ids /\ units[u].state # "absent" /\ units[u].active = None
  /\ units[u].failed # None /\ log[units[u].last].done = "continue"
  /\ ids' = ids \cup {n}
  /\ UNCHANGED <<setup, course, work, accounts>>

ValidationRecorded(n, u, result) ==
  /\ n \notin ids /\ Idle(u)
  /\ ids' = ids \cup {n}
  /\ units' = [units EXCEPT ![u].validation = result]
  /\ UNCHANGED <<setup, course, lastAttempt, log, children, diagnosis, accounts>>

UnitCompleted(u) ==
  /\ Idle(u) /\ units[u].last # None /\ log[units[u].last].done # "continue"
  /\ units' = [units EXCEPT ![u].state = "completed"]
  /\ UNCHANGED <<ids, setup, course, lastAttempt, log, children, diagnosis, accounts>>

-----------------------------------------------------------------------------
(* Diagnosis swarms *)

\* The unit's last attempt was a normal remediation that failed its validation, and has no diagnosis.
Diagnosable(u) ==
  /\ Idle(u) /\ units[u].failed # None /\ plan
  /\ log[units[u].last].kind = "normal_remediation" /\ units[u].validation = "failed"
  /\ ~\E s \in Swarms : swarms[s] # None /\ swarms[s].failed = units[u].failed

DiagnosisOpened(s, u, L, charge, q) ==
  /\ Diagnosable(u) /\ L # {} /\ Cardinality(Waiting) + Cardinality(L) <= MaxActive
  /\ ({s} \cup L) \cap ids = {} /\ ids' = ids \cup {s} \cup L
  /\ charge >= Cardinality(L) /\ Charge(charge) /\ Reserve(L, q) /\ UNCHANGED resources
  /\ swarms' = [swarms EXCEPT ![s] = [unit |-> u, failed |-> units[u].failed, candidate |-> candidate,
                                      lanes |-> L, pick |-> None, executed |-> None]]
  /\ lanes' = [l \in Lanes |-> IF l \in L THEN "open" ELSE lanes[l]]
  /\ UNCHANGED <<setup, course, lastAttempt, units, log, children>>

DiagnosisDispatched(s, l) ==
  /\ swarms[s] # None /\ l \in swarms[s].lanes /\ swarms[s].pick = None /\ lanes[l] = "open"
  /\ lanes' = [lanes EXCEPT ![l] = "dispatched"]
  /\ UNCHANGED <<ids, setup, course, lastAttempt, units, log, children, swarms, accounts>>

DiagnosisFinished(l, verdict, n) ==
  /\ lanes[l] = "dispatched" /\ Ended(l)
  /\ Release(l, n)
  /\ lanes' = [lanes EXCEPT ![l] = verdict]
  /\ UNCHANGED <<ids, setup, course, lastAttempt, units, log, children, swarms>>

\* Variant: a finding is selected while other lanes still search.
SomeFound(s) == \E l \in swarms[s].lanes : Found(l)
AllFound(s) == \A l \in swarms[s].lanes : Found(l)

DiagnosisSelected(s, l, p) ==
  /\ swarms[s] # None /\ swarms[s].pick = None /\ l \in swarms[s].lanes
  /\ AllFound(s) /\ lanes[l] = "supported"
  /\ units[swarms[s].unit].active = None /\ units[swarms[s].unit].failed = swarms[s].failed
  /\ swarms[s].candidate = candidate
  /\ swarms' = [swarms EXCEPT ![s].pick = [lane |-> l, kind |-> p.kind, charge |-> p.charge]]
  /\ UNCHANGED <<ids, setup, course, lastAttempt, units, log, children, lanes, accounts>>

-----------------------------------------------------------------------------
(* Children *)

ChildRegistered(k) ==
  /\ children[k] = None /\ Load < MaxTasks
  /\ children' = [children EXCEPT ![k] = "running"]
  /\ UNCHANGED <<ids, setup, course, lastAttempt, units, log, diagnosis, accounts>>

ChildTerminal(k, end) ==
  /\ children[k] = "running"
  /\ children' = [children EXCEPT ![k] = end]
  /\ UNCHANGED <<ids, setup, course, lastAttempt, units, log, diagnosis, accounts>>

-----------------------------------------------------------------------------
(* The specification *)

RunOpen == ~completion.run

PlanningStep ==
  \/ PlanCompiled
  \/ \E from, c \in Candidates : FabricWaveAccepted(from, c)
  \/ \E c \in Candidates, limit \in Limits, r \in ResourceLimits : RunPlanned(c, limit, r)

WaveStep ==
  \/ RouteSelected
  \/ WaveOpened
  \/ \E c \in Candidates : WaveCompleted(c)
  \/ CandidateAdvanced
  \/ CandidateCompleted
  \/ CleanupCompleted
  \/ RunCompleted

UnitStep ==
  \/ \E u \in Units : UnitOpened(u) \/ UnitCompleted(u)
  \/ \E a \in Attempts, u \in Units, p \in Profiles, remediation, rescue \in BOOLEAN,
        q \in Requests \cup {Unknown} : AttemptStarted(a, u, p, remediation, rescue, q)
  \/ \E a \in Attempts, u \in Units, o \in Outcomes, n \in Usages : AttemptFinished(a, u, o, n)
  \/ \E n \in Notes, u \in Units : RecoveryRecorded(n, u)
  \/ \E n \in Notes, u \in Units, r \in {"passed", "failed"} : ValidationRecorded(n, u, r)

DiagnosisStep ==
  \/ \E s \in Swarms, u \in Units, L \in SUBSET Lanes, c \in SwarmCharges, q \in Requests \cup {Unknown} :
        DiagnosisOpened(s, u, L, c, q)
  \/ \E s \in Swarms, l \in Lanes : DiagnosisDispatched(s, l)
  \/ \E l \in Lanes, v \in Verdicts, n \in Usages : DiagnosisFinished(l, v, n)
  \/ \E s \in Swarms, l \in Lanes, p \in {r \in Profiles : r.kind # "implementation"} :
        DiagnosisSelected(s, l, p)

ChildStep ==
  \/ \E k \in Tasks : ChildRegistered(k)
  \/ \E k \in Tasks, end \in Ends : ChildTerminal(k, end)

Next == RunOpen /\ (PlanningStep \/ WaveStep \/ UnitStep \/ DiagnosisStep \/ ChildStep)

Spec == Init /\ [][Next]_vars

-----------------------------------------------------------------------------
(* Properties *)

RunOK ==
  /\ ids \subseteq Candidates \cup Units \cup Tasks \cup Swarms \cup Notes
  /\ plan \in BOOLEAN /\ heads \in Seq(Candidates)
  /\ planned \in BOOLEAN /\ candidate \in Candidates \cup {None} /\ pending \in Candidates \cup {None}
  /\ completion \in [candidate : BOOLEAN, cleanup : BOOLEAN, run : BOOLEAN]
  /\ routed \in BOOLEAN /\ wave \in Nat /\ waves \in Nat /\ lastAttempt \in Attempts \cup {None}
WorkOK ==
  /\ units \in [Units -> UnitRecord] /\ log \in [Attempts -> AttemptRecord \cup {None}]
  /\ children \in [Tasks -> Ends \cup {None, "running"}]
SwarmsOK ==
  /\ swarms \in [Swarms -> SwarmRecord \cup {None}]
  /\ lanes \in [Lanes -> {"absent", "open", "dispatched"} \cup Verdicts]
AccountsOK ==
  /\ budget \in [limit : Nat \cup {None}, spent : Nat]
  /\ resources \in [limit : Nat \cup {None}, used : Nat \cup {Unknown}]
  /\ reserved \in [Tasks -> Nat \cup {None, Unknown}]

\* Type invariant of the replayed state of the run ledger.
TypeOK == RunOK /\ WorkOK /\ SwarmsOK /\ AccountsOK

\* The attempts of the file form chains: no attempt is, or is about to be, the
\* predecessor of two others, although units open and run side by side and a later unit
\* may continue an earlier one's chain (initial_predecessor_id, last_attempt_id).
PredecessorUnique ==
  /\ \A a, b \in Attempts :
       log[a] # None /\ log[b] # None /\ log[a].pred # None /\ log[a].pred = log[b].pred => a = b
  /\ \A u \in OpenUnits : Predecessor(u) # None =>
       /\ \A v \in OpenUnits : Predecessor(v) = Predecessor(u) => v = u
       /\ \A a \in Attempts : log[a] # None => log[a].pred # Predecessor(u)

\* What follows a diagnosed attempt in its unit was authorized by the diagnosis: it is the one
\* execution of the selected repair, for a lane that ended supported, or a model rescue
\* after every lane ended without support.
RepairAuthorized ==
  \A s \in Swarms, a \in Attempts :
    swarms[s] # None /\ log[a] # None /\ log[a].unit = swarms[s].unit /\ log[a].pred = swarms[s].failed =>
      /\ \A l \in swarms[s].lanes : Found(l)
      /\ IF swarms[s].pick = None
         THEN log[a].kind = "model_rescue" /\ \A l \in swarms[s].lanes : lanes[l] # "supported"
         ELSE /\ swarms[s].executed = a /\ lanes[swarms[s].pick.lane] = "supported"
              /\ log[a].kind = swarms[s].pick.kind

\* A terminal rescue starts after the child of the attempt it rescues has been
\* reconciled as failed, and finishes only as its own reconciled child did.
RescueReconciled ==
  \A a \in Attempts : log[a] # None /\ log[a].rescue =>
    /\ log[a].pred # None /\ children[log[a].pred] = "failed"
    /\ log[log[a].pred].kind = "normal_remediation" /\ log[log[a].pred].done = "failed"
    /\ log[a].done # None => children[a] = log[a].done

\* Measured capacity is held exactly by the attempts and the diagnosis lanes still at
\* work: nothing finished keeps a reservation, even across candidates, and nothing
\* works without one.
ReservationsExact ==
  \A k \in Tasks : reserved[k] # None <=>
    \/ k \in Attempts /\ log[k] # None /\ log[k].done = None
    \/ k \in Lanes /\ k \in Waiting

=============================================================================
