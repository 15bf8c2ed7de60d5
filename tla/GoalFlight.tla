----------------------------- MODULE GoalFlight -----------------------------
(***************************************************************************)
(* The goal ledger of one root session: the state that reduceGoalFlight     *)
(* (src/core/goal-bound.ts) replays from the append-only event file, with   *)
(* one action per event kind.  An action is enabled exactly when the        *)
(* reducer accepts the event; a refused append throws and changes nothing.  *)
(*                                                                         *)
(* Abstractions.  A goal is named by its origin message (its id is a hash   *)
(* of the root and that message).  scope_epoch moves in lockstep with       *)
(* revision and acceptance_fingerprint only changes with it, so the pair    *)
(* (goal, revision) stands for all four.  The null contract is {}.  A       *)
(* reservation id hashes goal, unit and call, so it is never used twice.    *)
(* Session ids, timestamps and the statistics of skipped validations are    *)
(* left out.                                                                *)
(***************************************************************************)
EXTENDS Integers, Sequences, FiniteSets, Functions

CONSTANTS
  Messages,      \* identities of real user messages
  Reservations,  \* dispatch reservation ids
  UnitOf,        \* the unit a reservation is for
  Criteria,      \* acceptance criteria a contract may list
  Keys,          \* validation evidence keys
  Budgets,       \* budgets a goal may be given: [units, time, cost]
  Limits,        \* validation limits a host policy may ask for
  Elapsed,       \* elapsed times a settlement may report
  Costs,         \* costs a settlement or a reconciliation may report
  MaxRevision,   \* bound: revisions of one goal
  MaxTickets,    \* bound: continuation tickets between two user turns
  MaxRuns,       \* bound: validations admitted in one budget lineage
  None,          \* no goal, no unit, no receipt, no limit
  Unknown        \* a usage figure the host could not observe

Units == {UnitOf[r] : r \in Reservations}
Outcomes == {"none", "passed", "retryable", "blocked", "interrupted"}
Usage(S) == S \cup {Unknown}

ASSUME NumbersAssumption ==
  /\ MaxRevision \in Nat /\ MaxTickets \in Nat /\ MaxRuns \in Nat
  /\ Elapsed \subseteq Nat /\ Costs \subseteq Nat /\ Limits \subseteq Nat \ {0}
ASSUME BudgetsAssumption ==
  Budgets \subseteq [units : Nat \ {0}, time : Nat \cup {None}, cost : Nat \cup {None}]
ASSUME NamesAssumption ==
  /\ UnitOf \in [Reservations -> Units]
  /\ None \notin Messages /\ None \notin Units /\ None \notin Nat
  /\ Unknown \notin Nat

VARIABLES
  goal,         \* goal_id
  accepted,     \* origin messages some acceptance event already used
  latest,       \* latest_user_message_id
  revision,
  budget,
  contract,     \* acceptance_contract: the criteria it lists
  registered,   \* validation_registrations: criterion -> unit
  phase,
  tickets,      \* continuation tickets of the current user turn
  outstanding,  \* outstanding_reservations
  reserved,     \* every reservation id the file has seen
  consumed,     \* consumed_units
  time,         \* consumed_time_ms
  cost,         \* consumed_cost_usd
  unitCosts,    \* cost of every unit settled in the current budget lineage
  unitIds,      \* unit_ids
  evidence,     \* evidence_refs
  satisfied,    \* satisfied_criteria
  recoverable,  \* settlements a later host proof may still supplement
  noProgress,   \* no_progress_results
  replan,       \* replan_required, replan_used and the replay marks
  validation,   \* validation_budget and its replay maps
  receipt

turn == <<goal, accepted, latest>>
scope == <<revision, budget, contract>>
dispatch == <<outstanding, reserved>>
usage == <<consumed, time, cost, unitCosts>>
proof == <<unitIds, evidence, satisfied, recoverable>>
progress == <<noProgress, replan>>
vars == <<turn, scope, registered, phase, tickets, dispatch, usage, proof, progress,
          validation, receipt>>

-----------------------------------------------------------------------------
(* Values the reducer starts from *)

NoReplan == [required |-> FALSE, used |-> FALSE, at |-> 0, legacy |-> FALSE]
NoRegistration == [c \in Criteria |-> None]
NoCosts == [r \in {} |-> 0]
FreshValidation ==
  [consumed |-> 0, limit |-> 0, admission |-> 0, completed |-> 0, inFlight |-> {}, passed |-> {},
   latest |-> [k \in Keys |-> "none"], interrupted |-> {}, reopened |-> {}]

Init ==
  /\ goal = None /\ accepted = {} /\ latest = None
  /\ revision = 0 /\ budget = None /\ contract = {} /\ registered = NoRegistration
  /\ phase = "stopped" /\ tickets = <<>>
  /\ outstanding = {} /\ reserved = {}
  /\ consumed = 0 /\ time = 0 /\ cost = 0 /\ unitCosts = NoCosts
  /\ unitIds = {} /\ evidence = {} /\ satisfied = {} /\ recoverable = {}
  /\ noProgress = 0 /\ replan = NoReplan
  /\ validation = FreshValidation /\ receipt = None

-----------------------------------------------------------------------------
(* Derived notions *)

Larger(a, b) == IF a > b THEN a ELSE b
\* Variant: an unobserved figure counts as nothing.
PlusUnknownFree(a, b) == IF a = Unknown THEN b ELSE IF b = Unknown THEN a ELSE a + b
Plus(a, b) == IF a = Unknown \/ b = Unknown THEN Unknown ELSE a + b
Total(costs) ==
  IF \E r \in DOMAIN costs : costs[r] = Unknown THEN Unknown
  ELSE FoldFunction(+, 0, costs)

Spendable(used, limit) == limit # None => used # Unknown /\ used < limit

AllAccepted == contract # {} /\ contract \subseteq satisfied

\* Variant: a finished goal still takes turns.
OpenAlways == goal # None
\* A goal that still takes turns, revisions and a terminal receipt.
Open == goal # None /\ phase # "terminal"
Active == goal # None /\ phase = "active"

\* Variant: a reservation settles again.
SettleableTwice(r) == r \in reserved
Settleable(r) == r \in outstanding

\* Variant: the unit budget replaces the capacity.
RevisedLimitShrinks(units) == IF validation.limit = 0 THEN 0 ELSE units
\* A revision never shrinks retained validation capacity below what was used.
RevisedLimit(units) ==
  IF validation.limit = 0 THEN 0
  ELSE Larger(validation.limit, Larger(validation.consumed, units))

\* What the host may adopt for a unit: current criteria, and for a registered
\* criterion only the unit that registered the command.
ValidProof(c, unit) == c \in contract /\ registered[c] \in {None, unit}
Proofs(E, unit) == {[criterion |-> c, revision |-> revision, unit |-> unit] : c \in E}

\* Variant: satisfied criteria leak into the next goal.
FreshGoalLeaks(m, b, C) ==
  /\ goal' = m /\ accepted' = accepted \cup {m} /\ latest' = m
  /\ revision' = 1 /\ budget' = b /\ contract' = C /\ registered' = NoRegistration
  /\ phase' = "active" /\ tickets' = <<>>
  /\ outstanding' = {} /\ UNCHANGED <<reserved, satisfied>>
  /\ unitIds' = {} /\ evidence' = {} /\ recoverable' = {}
  /\ noProgress' = 0 /\ replan' = NoReplan /\ receipt' = None

\* The per-goal fields an acceptance starts from, whatever went before.
FreshGoal(m, b, C) ==
  /\ goal' = m /\ accepted' = accepted \cup {m} /\ latest' = m
  /\ revision' = 1 /\ budget' = b /\ contract' = C /\ registered' = NoRegistration
  /\ phase' = "active" /\ tickets' = <<>>
  /\ outstanding' = {} /\ UNCHANGED reserved
  /\ unitIds' = {} /\ evidence' = {} /\ satisfied' = {} /\ recoverable' = {}
  /\ noProgress' = 0 /\ replan' = NoReplan /\ receipt' = None

-----------------------------------------------------------------------------
(* Goals and their revisions *)

\* An ordinary real turn: a new goal with a budget of its own.  The plugin's goals
\* get their contract by a revision; a Codex mission accepts one with its contract.
GoalAccepted(m, b, C) ==
  /\ m \notin accepted
  /\ phase \in {"terminal", "stopped"}
  /\ FreshGoal(m, b, C)
  /\ consumed' = 0 /\ time' = 0 /\ cost' = 0 /\ unitCosts' = NoCosts
  /\ validation' = FreshValidation

\* A queued mission goal continues the budget lineage of a succeeded predecessor.
GoalQueuedAccepted(m) ==
  /\ m \notin accepted
  /\ phase = "terminal" /\ receipt # None /\ receipt.status = "succeeded"
  /\ outstanding = {} /\ validation.inFlight = {}
  /\ FreshGoal(m, budget, {})
  /\ UNCHANGED usage
  /\ validation' = [FreshValidation EXCEPT !.consumed = validation.consumed,
                      !.limit = validation.limit, !.completed = validation.completed]

\* Variants: a new turn keeps the old receipt, or the old tickets.
GoalUserContinuedKeepsReceipt(m) ==
  /\ Open
  /\ latest' = m /\ phase' = "active" /\ tickets' = <<>>
  /\ UNCHANGED <<goal, accepted, scope, registered, dispatch, usage, proof, progress, validation, receipt>>
GoalUserContinuedKeepsTickets(m) ==
  /\ Open
  /\ latest' = m /\ phase' = "active" /\ receipt' = None
  /\ UNCHANGED <<goal, accepted, scope, registered, tickets, dispatch, usage, proof, progress, validation>>

GoalUserContinued(m) ==
  /\ Open
  /\ latest' = m /\ phase' = "active" /\ receipt' = None /\ tickets' = <<>>
  /\ UNCHANGED <<goal, accepted, scope, registered, dispatch, usage, proof, progress, validation>>

\* reset is the event's reset_no_progress: "yes", "no", or "absent" in old files.
GoalRevised(m, b, C, reset) ==
  /\ Open /\ revision < MaxRevision
  /\ b.units >= consumed
  /\ revision' = revision + 1 /\ budget' = b /\ contract' = C
  /\ registered' = NoRegistration /\ latest' = m
  /\ phase' = "active" /\ receipt' = None /\ tickets' = <<>>
  /\ noProgress' = IF reset = "yes" THEN 0 ELSE noProgress
  /\ replan' = [required |-> reset # "yes" /\ replan.required,
                used |-> reset # "yes" /\ replan.used,
                at |-> IF reset = "yes" THEN 0 ELSE replan.at,
                legacy |-> reset = "absent"]
  /\ validation' = [validation EXCEPT
       !.limit = RevisedLimit(b.units),
       !.admission = IF @ = 0 THEN 0 ELSE Larger(b.units, validation.consumed)]
  /\ UNCHANGED <<goal, accepted, dispatch, usage, proof>>

\* A reserved unit registers the command that will prove criterion c.
GoalValidationRegistered(r, c) ==
  /\ Active /\ r \in outstanding /\ c \in contract
  /\ registered' = [registered EXCEPT ![c] = UnitOf[r]]
  /\ satisfied' = satisfied \ {c}
  /\ UNCHANGED <<turn, scope, phase, tickets, dispatch, usage, unitIds, evidence, recoverable,
                 progress, validation, receipt>>

GoalReplanned ==
  /\ Active /\ replan.required /\ ~replan.used
  /\ noProgress' = 0
  /\ replan' = [replan EXCEPT !.required = FALSE, !.used = TRUE, !.at = revision]
  /\ UNCHANGED <<turn, scope, registered, phase, tickets, dispatch, usage, proof, validation, receipt>>

\* Variants: a receipt overtakes a running unit; the status becomes the phase.
GoalTerminalEarly(status, units, refs) ==
  /\ Open
  /\ units \subseteq unitIds /\ refs \subseteq evidence
  /\ status = "succeeded" => AllAccepted
  /\ phase' = IF status = "succeeded" THEN "terminal" ELSE "stopped"
  /\ tickets' = <<>>
  /\ receipt' = [goal |-> goal, revision |-> revision, status |-> status,
                 units |-> units, evidence |-> refs]
  /\ UNCHANGED <<turn, scope, registered, dispatch, usage, proof, progress, validation>>
GoalTerminalRaw(status, units, refs) ==
  /\ Open /\ outstanding = {}
  /\ units \subseteq unitIds /\ refs \subseteq evidence
  /\ status = "succeeded" => AllAccepted
  /\ phase' = status /\ tickets' = <<>>
  /\ receipt' = [goal |-> goal, revision |-> revision, status |-> status,
                 units |-> units, evidence |-> refs]
  /\ UNCHANGED <<turn, scope, registered, dispatch, usage, proof, progress, validation>>

\* The receipt was drawn up from an earlier snapshot: it names units and evidence of the goal,
\* not necessarily all.
GoalTerminal(status, units, refs) ==
  /\ Open /\ outstanding = {}
  /\ units \subseteq unitIds /\ refs \subseteq evidence
  /\ status = "succeeded" => AllAccepted
  /\ phase' = IF status = "succeeded" THEN "terminal" ELSE "stopped"
  /\ tickets' = <<>>
  /\ receipt' = [goal |-> goal, revision |-> revision, status |-> status,
                 units |-> units, evidence |-> refs]
  /\ UNCHANGED <<turn, scope, registered, dispatch, usage, proof, progress, validation>>

-----------------------------------------------------------------------------
(* Continuation tickets *)

TicketIssued ==
  /\ Active /\ Len(tickets) < MaxTickets
  /\ \A i \in 1..Len(tickets) : tickets[i].received
  /\ tickets' = Append(tickets, [revision |-> revision, origin |-> latest, received |-> FALSE])
  /\ UNCHANGED <<turn, scope, registered, phase, dispatch, usage, proof, progress, validation, receipt>>

\* A ticket names the turn it was issued for; the event must agree with it.
TicketConsumed(i) ==
  /\ Active
  /\ ~tickets[i].received /\ tickets[i].revision = revision
  /\ tickets' = [tickets EXCEPT ![i].received = TRUE]
  /\ UNCHANGED <<turn, scope, registered, phase, dispatch, usage, proof, progress, validation, receipt>>

-----------------------------------------------------------------------------
(* Dispatch, settlement and later corrections *)

\* Files of one older runtime reset the no-progress cycle on a revision without
\* recording it; a dispatch accepted in a later revision proves that reset.
LegacyReset == replan.legacy /\ replan.required /\ replan.used /\ replan.at # 0 /\ revision > replan.at

\* i is the ticket the dispatch names, 0 for none.
DispatchReserved(r, i) ==
  /\ Active /\ r \notin reserved
  /\ replan.required => replan.used
  /\ consumed + Cardinality(outstanding) < budget.units
  /\ Spendable(time, budget.time) /\ Spendable(cost, budget.cost)
  /\ i # 0 => tickets[i].received
  /\ outstanding' = outstanding \cup {r} /\ reserved' = reserved \cup {r}
  /\ IF LegacyReset
     THEN noProgress' = 0 /\ replan' = [required |-> FALSE, used |-> FALSE, at |-> 0, legacy |-> TRUE]
     ELSE UNCHANGED progress
  /\ UNCHANGED <<turn, scope, registered, phase, tickets, usage, proof, validation, receipt>>

\* disposition and result_class of the event as one value.
Results == {"succeeded", "rejected", "process-defect", "interrupted"}

\* Adopt evidence for the criteria E, reached by the given unit.
Adopt(E, unit) ==
  /\ \A c \in E : ValidProof(c, unit)
  /\ evidence' = evidence \cup Proofs(E, unit)
  /\ satisfied' = satisfied \cup E

UnitSettled(r, result, E, ms, usd) ==
  /\ Settleable(r)
  /\ Adopt(E, UnitOf[r])
  /\ outstanding' = outstanding \ {r}
  /\ consumed' = consumed + 1 /\ time' = Plus(time, ms) /\ cost' = Plus(cost, usd)
  /\ unitCosts' = [s \in DOMAIN unitCosts \cup {r} |-> IF s = r THEN usd ELSE unitCosts[s]]
  /\ unitIds' = unitIds \cup {UnitOf[r]}
  /\ noProgress' = IF E \ satisfied # {} THEN 0
                   ELSE IF result = "rejected" THEN noProgress + 1 ELSE noProgress
  /\ replan' = [replan EXCEPT !.required = noProgress' >= 2]
  /\ recoverable' = IF E = {} /\ result # "succeeded"
                    THEN recoverable \cup {[reservation |-> r, revision |-> revision]}
                    ELSE recoverable
  /\ UNCHANGED <<turn, scope, registered, phase, tickets, reserved, validation, receipt>>

\* The price of a settled unit becomes known, whatever goal of the lineage it ran in.
UnitUsageReconciled(r, usd) ==
  /\ goal # None /\ r \in DOMAIN unitCosts /\ unitCosts[r] \in {Unknown, usd}
  /\ unitCosts' = [unitCosts EXCEPT ![r] = usd]
  /\ cost' = Total(unitCosts')
  /\ UNCHANGED <<turn, scope, registered, phase, tickets, dispatch, consumed, time, proof, progress,
                 validation, receipt>>

\* A host proof recovered for a unit that had settled without evidence.
UnitEvidenceReconciled(old, E) ==
  /\ Active /\ receipt = None /\ outstanding = {}
  /\ old \in recoverable /\ old.revision = revision
  /\ E # {} /\ Adopt(E, UnitOf[old.reservation])
  /\ recoverable' = recoverable \ {old}
  /\ UNCHANGED <<turn, scope, registered, phase, tickets, dispatch, usage, unitIds, progress,
                 validation, receipt>>

-----------------------------------------------------------------------------
(* Validation admissions: ALLOW with its reservation, then its settlement.  *)
(* SKIP and DENY only move statistics.                                      *)

\* Variant: any number of retries.
MayReopenAgain(k) == k \in validation.interrupted
\* A one-time host-authorised retry of an interrupted validation.
MayReopen(k) == k \in validation.interrupted /\ k \notin validation.reopened
MayRun(k) == k \notin validation.passed /\ validation.latest[k] \notin {"blocked", "interrupted"}

ValidationAdmitted(k, limit, reopen) ==
  /\ goal # None /\ k \notin validation.inFlight
  /\ validation.consumed + 1 <= limit /\ validation.consumed < MaxRuns
  /\ limit >= validation.admission
  /\ IF reopen THEN MayReopen(k) ELSE MayRun(k)
  /\ validation' = [validation EXCEPT !.consumed = @ + 1, !.limit = Larger(@, limit),
                      !.admission = limit, !.inFlight = @ \cup {k},
                      !.reopened = IF reopen THEN @ \cup {k} ELSE @]
  /\ UNCHANGED <<turn, scope, registered, phase, tickets, dispatch, usage, proof, progress, receipt>>

\* "retryable" is a failure with a nonzero exit; a timeout, a cancellation or an
\* unreadable exit is "blocked".
ValidationSettled(k, outcome) ==
  /\ goal # None /\ k \in validation.inFlight
  /\ validation' = [validation EXCEPT !.inFlight = @ \ {k}, !.completed = @ + 1,
                      !.passed = IF outcome = "passed" THEN @ \cup {k} ELSE @,
                      !.latest[k] = outcome,
                      !.interrupted = IF outcome = "interrupted" THEN @ \cup {k} ELSE @]
  /\ UNCHANGED <<turn, scope, registered, phase, tickets, dispatch, usage, proof, progress, receipt>>

-----------------------------------------------------------------------------
Next ==
  \/ \E m \in Messages, b \in Budgets, C \in SUBSET Criteria : GoalAccepted(m, b, C)
  \/ \E m \in Messages : GoalQueuedAccepted(m)
  \/ \E m \in Messages : GoalUserContinued(m)
  \/ \E m \in Messages, b \in Budgets, C \in SUBSET Criteria, reset \in {"yes", "no", "absent"} :
       GoalRevised(m, b, C, reset)
  \/ \E r \in Reservations, c \in Criteria : GoalValidationRegistered(r, c)
  \/ GoalReplanned
  \/ \E status \in {"succeeded", "stopped"}, units \in SUBSET unitIds, refs \in SUBSET evidence :
       GoalTerminal(status, units, refs)
  \/ TicketIssued
  \/ \E i \in 1..Len(tickets) : TicketConsumed(i)
  \/ \E r \in Reservations, i \in 0..Len(tickets) : DispatchReserved(r, i)
  \/ \E r \in Reservations, result \in Results, E \in SUBSET Criteria,
        ms \in Usage(Elapsed), usd \in Usage(Costs) : UnitSettled(r, result, E, ms, usd)
  \/ \E r \in Reservations, usd \in Costs : UnitUsageReconciled(r, usd)
  \/ \E old \in recoverable, E \in SUBSET Criteria : UnitEvidenceReconciled(old, E)
  \/ \E k \in Keys, limit \in Limits, reopen \in BOOLEAN : ValidationAdmitted(k, limit, reopen)
  \/ \E k \in Keys, outcome \in Outcomes \ {"none"} : ValidationSettled(k, outcome)

Spec == Init /\ [][Next]_vars

-----------------------------------------------------------------------------
(* Properties *)

Proof == [criterion : Criteria, revision : Nat, unit : Units]

TurnOK ==
  /\ goal \in Messages \cup {None} /\ accepted \subseteq Messages /\ latest \in Messages \cup {None}
  /\ revision \in Nat /\ budget \in Budgets \cup {None} /\ contract \subseteq Criteria
  /\ registered \in [Criteria -> Units \cup {None}]
  /\ phase \in {"active", "stopped", "terminal"}
TicketRecord == [revision : Nat, origin : Messages \cup {None}, received : BOOLEAN]
TicketsOK == tickets \in Seq(TicketRecord)
WorkOK ==
  /\ outstanding \subseteq Reservations /\ reserved \subseteq Reservations
  /\ consumed \in Nat /\ time \in Usage(Nat) /\ noProgress \in Nat
  /\ DOMAIN unitCosts \subseteq Reservations
  /\ unitCosts \in [DOMAIN unitCosts -> Usage(Nat)]
  /\ unitIds \subseteq Units /\ evidence \subseteq Proof /\ satisfied \subseteq Criteria
  /\ recoverable \subseteq [reservation : Reservations, revision : Nat]
ReplanOK == replan \in [required : BOOLEAN, used : BOOLEAN, at : Nat, legacy : BOOLEAN]
ValidationRecord ==
  [consumed : Nat, limit : Nat, admission : Nat, completed : Nat,
   inFlight : SUBSET Keys, passed : SUBSET Keys, latest : [Keys -> Outcomes],
   interrupted : SUBSET Keys, reopened : SUBSET Keys]
ValidationOK == validation \in ValidationRecord
ReceiptOK ==
  receipt \in [goal : Messages, revision : Nat, status : {"succeeded", "stopped"},
               units : SUBSET Units, evidence : SUBSET Proof] \cup {None}

\* The shape of the replayed state (GoalFlightState); CostAgrees types the cost.
TypeOK == TurnOK /\ TicketsOK /\ WorkOK /\ ReplanOK /\ ValidationOK /\ ReceiptOK

\* A goal that is not active has no unit running and no ticket to hand in: the
\* terminal event may not overtake a reservation, and nothing reserves or issues
\* after it until the next turn.
Quiescent == phase # "active" => outstanding = {} /\ tickets = <<>>

\* A receipt belongs to the goal it is stored with for as long as it is stored: it has its
\* status and revision, and every unit and every proof it names is the goal's.  A user turn
\* or a revision takes the receipt away, late evidence is refused.
ReceiptDescribesGoal ==
  receipt # None =>
    /\ phase = IF receipt.status = "succeeded" THEN "terminal" ELSE "stopped"
    /\ receipt.goal = goal /\ receipt.revision = revision
    /\ receipt.units \subseteq unitIds /\ receipt.evidence \subseteq evidence

\* A succeeded goal has, for every criterion of a contract it does have, evidence
\* accepted in this goal and reached by a unit this goal settled.
AcceptedWithProof ==
  phase = "terminal" =>
    /\ contract # {}
    /\ \A c \in contract : \E e \in evidence : e.criterion = c /\ e.unit \in unitIds

\* Every ticket belongs to the current revision and to the latest user turn, and
\* only the newest one can still be handed in.
TicketsCurrent ==
  \A i \in 1..Len(tickets) :
    /\ tickets[i].revision = revision /\ tickets[i].origin = latest
    /\ ~tickets[i].received => i = Len(tickets)

\* Units are charged once per settled reservation over a whole budget lineage, a
\* queued successor goal included; what is running has not been charged yet.
UnitsChargedOnce ==
  /\ consumed = Cardinality(DOMAIN unitCosts)
  /\ outstanding \cap DOMAIN unitCosts = {}

\* The goal's cost is the sum over the units of its lineage, and unknown exactly
\* while some unit's price is: late prices and settlements in any order agree.
CostAgrees == cost = Total(unitCosts)

\* Every admitted validation is running or settled, and the retained capacity
\* covers what was admitted, through revisions that lower the unit budget.
ValidationBalanced ==
  /\ validation.completed + Cardinality(validation.inFlight) = validation.consumed
  /\ validation.consumed <= validation.limit
  /\ validation.admission <= validation.limit

\* A validation that passed is never running again in the same goal, not even
\* through the retry of an interruption.
PassedNeverRerun == validation.passed \cap validation.inFlight = {}

\* A succeeded goal cannot be reopened, revised or charged; only another
\* acceptance ends it.
TerminalIsFinal ==
  [][phase = "terminal" /\ goal' = goal =>
       phase' = "terminal" /\ UNCHANGED <<receipt, scope, consumed, evidence>>]_vars

\* goal_budget_units is the cumulative limit across all revisions of a goal.
CumulativeLimit == budget # None => consumed <= budget.units

=============================================================================
