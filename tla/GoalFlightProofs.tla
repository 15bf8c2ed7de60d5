-------------------------- MODULE GoalFlightProofs --------------------------
(***************************************************************************)
(* Safety of the goal ledger for every value of the constants.             *)
(***************************************************************************)
EXTENDS GoalFlight, FiniteSetTheorems, SequenceTheorems, TLAPS

-----------------------------------------------------------------------------
(* Updates of the validation record *)

\* An admission's counters keep the record well typed.
LEMMA CountersTyped ==
  ASSUME NEW v \in ValidationRecord, NEW c \in Nat, NEW l \in Nat, NEW a \in Nat
  PROVE  [v EXCEPT !.consumed = c, !.limit = l, !.admission = a] \in ValidationRecord
BY DEF ValidationRecord

\* So do a settlement's counter and key set.
LEMMA ClosingTyped ==
  ASSUME NEW v \in ValidationRecord, NEW K \in SUBSET Keys, NEW c \in Nat
  PROVE  [v EXCEPT !.inFlight = K, !.completed = c] \in ValidationRecord
BY DEF ValidationRecord

-----------------------------------------------------------------------------
(* Sums.  Total folds over its units in an order it chooses; a claim about every finite *)
(* set of units is refuted, if it fails, by a smallest one it fails for.                *)

\* A non-empty family of subsets of a finite set has a member that is in it without
\* another member strictly within.
LEMMA SmallestMember ==
  ASSUME NEW S, IsFiniteSet(S), NEW family \in SUBSET SUBSET S, family # {}
  PROVE  \E m \in family : \A s \in family : s \subseteq m => s = m
<1>1. IsWellFoundedOn(StrictSubsetOrdering(S), SUBSET S)
  BY FS_StrictSubsetOrderingWellFounded, FS_FiniteSubsetsOfFinite
<1>2. PICK m \in family : \A s \in family : ~(<<s, m>> \in StrictSubsetOrdering(S))
  BY <1>1, WFMin
<1>3. ASSUME NEW s \in family, s \subseteq m, s # m PROVE FALSE
  <2>1. <<s, m>> \in StrictSubsetOrdering(S)
    BY <1>3 DEF StrictSubsetOrdering
  <2> QED
    BY <1>2, <2>1
<1> QED
  BY <1>3

\* The fold of the sum over a function picks any element first.
Picked(s) == CHOOSE x \in s : TRUE
SumStep(g, costs, s) == IF s = {} THEN 0 ELSE costs[Picked(s)] + g[s \ {Picked(s)}]
SumTable(g, costs, S) == g = [s \in SUBSET S |-> SumStep(g, costs, s)]

LEMMA SumChosen ==
  ASSUME NEW costs, NEW S
  PROVE  SumFunctionOnSet(costs, S) = (CHOOSE g : SumTable(g, costs, S))[S]
BY DEF SumFunctionOnSet, FoldFunctionOnSet, MapThenFoldSet, SumTable, SumStep, Picked

\* Two tables agree where their functions do.
LEMMA TablesAgree ==
  ASSUME NEW c, NEW d, NEW S, NEW T, NEW g, NEW h, SumTable(g, c, S), SumTable(h, d, T),
         NEW R, IsFiniteSet(R), R \subseteq S, R \subseteq T, \A x \in R : c[x] = d[x]
  PROVE  g[R] = h[R]
<1> DEFINE differ == {s \in SUBSET R : g[s] # h[s]}
<1> SUFFICES ASSUME differ # {} PROVE FALSE
  OBVIOUS
<1>1. PICK m \in differ : \A s \in differ : s \subseteq m => s = m
  <2>1. differ \in SUBSET SUBSET R
    OBVIOUS
  <2> HIDE DEF differ
  <2> QED
    BY <2>1, SmallestMember
<1>2. m \in SUBSET S /\ m \in SUBSET T
  OBVIOUS
<1>3. g[m] = SumStep(g, c, m) /\ h[m] = SumStep(h, d, m)
  BY <1>2 DEF SumTable
<1>4. CASE m = {}
  BY <1>3, <1>4 DEF SumStep
<1>5. CASE m # {}
  <2>1. Picked(m) \in m
    BY <1>5 DEF Picked
  <2>2. g[m \ {Picked(m)}] = h[m \ {Picked(m)}]
    BY <1>1, <2>1
  <2> QED
    BY <1>3, <1>5, <2>1, <2>2 DEF SumStep
<1> QED
  BY <1>4, <1>5

\* Every finite set has a table.
LEMMA TableExists ==
  ASSUME NEW costs, NEW S, IsFiniteSet(S)
  PROVE  \E g : SumTable(g, costs, S)
<1> DEFINE without == {s \in SUBSET S : ~\E g : SumTable(g, costs, s)}
<1> SUFFICES ASSUME without # {} PROVE FALSE
  OBVIOUS
<1>1. PICK m \in without : \A s \in without : s \subseteq m => s = m
  <2>1. without \in SUBSET SUBSET S
    OBVIOUS
  <2> HIDE DEF without
  <2> QED
    BY <2>1, SmallestMember
<1> DEFINE table(s) == CHOOSE g : SumTable(g, costs, s)
           whole == [s \in SUBSET m |-> IF s = {} THEN 0 ELSE costs[Picked(s)] + table(s \ {Picked(s)})[s \ {Picked(s)}]]
<1>2. ASSUME NEW s \in SUBSET m, s # m PROVE SumTable(table(s), costs, s)
  BY <1>1, <1>2
<1>3. ASSUME NEW s \in SUBSET m, s # m PROVE whole[s] = table(s)[s]
  <2>1. table(s)[s] = SumStep(table(s), costs, s)
    <3>1. SumTable(table(s), costs, s)
      BY <1>2, <1>3
    <3> HIDE DEF table
    <3> QED
      BY <3>1 DEF SumTable
  <2>2. CASE s = {}
    BY <2>1, <2>2 DEF SumStep
  <2>3. CASE s # {}
    <3>1. PICK r : r = s \ {Picked(s)}
      OBVIOUS
    <3>2. Picked(s) \in s
      BY <2>3 DEF Picked
    <3>3. r \in SUBSET m /\ r # m /\ r \subseteq s /\ IsFiniteSet(r)
      BY <1>1, <1>3, <3>1, <3>2, FS_Subset
    <3>4. SumTable(table(r), costs, r) /\ SumTable(table(s), costs, s)
      BY <1>2, <1>3, <3>3
    <3> HIDE DEF table
    <3>5. table(r)[r] = table(s)[r]
      BY <3>3, <3>4, TablesAgree
    <3> QED
      BY <1>3, <2>1, <2>3, <3>1, <3>5 DEF SumStep
  <2> QED
    BY <2>2, <2>3
<1>4. SumTable(whole, costs, m)
  <2>1. ASSUME NEW s \in SUBSET m PROVE whole[s] = SumStep(whole, costs, s)
    <3>1. CASE s = {}
      BY <3>1 DEF SumStep
    <3>2. CASE s # {}
      <4>1. PICK r : r = s \ {Picked(s)}
        OBVIOUS
      <4>2. Picked(s) \in s
        BY <3>2 DEF Picked
      <4>3. whole[r] = table(r)[r]
        BY <1>3, <4>1, <4>2
      <4>4. whole[s] = costs[Picked(s)] + table(r)[r]
        BY <3>2, <4>1
      <4> HIDE DEF whole, table
      <4> QED
        BY <3>2, <4>1, <4>3, <4>4 DEF SumStep
    <3> QED
      BY <3>1, <3>2
  <2>2. whole = [s \in SUBSET m |-> whole[s]]
    OBVIOUS
  <2> HIDE DEF whole
  <2> QED
    BY <2>1, <2>2 DEF SumTable
<1> QED
  BY <1>1, <1>4
\* So a sum is the sum without the element picked first, and that element's value.
LEMMA SumPicks ==
  ASSUME NEW costs, NEW S, IsFiniteSet(S)
  PROVE  /\ S = {} => SumFunctionOnSet(costs, S) = 0
         /\ S # {} => /\ Picked(S) \in S
                      /\ SumFunctionOnSet(costs, S) = costs[Picked(S)] + SumFunctionOnSet(costs, S \ {Picked(S)})
<1> DEFINE table(s) == CHOOSE g : SumTable(g, costs, s)
<1>1. ASSUME NEW s, IsFiniteSet(s) PROVE SumTable(table(s), costs, s)
  BY <1>1, TableExists
<1>2. \A s : SumFunctionOnSet(costs, s) = table(s)[s]
  BY SumChosen
<1> HIDE DEF table
<1>3. SumFunctionOnSet(costs, S) = SumStep(table(S), costs, S)
  BY <1>1, <1>2 DEF SumTable
<1>4. CASE S = {}
  BY <1>3, <1>4 DEF SumStep
<1>5. CASE S # {}
  <2>1. PICK r : r = S \ {Picked(S)}
    OBVIOUS
  <2>2. Picked(S) \in S /\ IsFiniteSet(r) /\ r \subseteq S
    BY <1>5, <2>1, FS_Subset DEF Picked
  <2>3. table(S)[r] = table(r)[r]
    BY <1>1, <2>2, TablesAgree
  <2> QED
    BY <1>2, <1>3, <1>5, <2>1, <2>2, <2>3 DEF SumStep
<1> QED
  BY <1>4, <1>5

\* Only the summed values matter.
LEMMA SumAgrees ==
  ASSUME NEW c, NEW d, NEW S, IsFiniteSet(S), \A x \in S : c[x] = d[x]
  PROVE  SumFunctionOnSet(c, S) = SumFunctionOnSet(d, S)
<1>1. PICK g : g = CHOOSE f : SumTable(f, c, S)
  OBVIOUS
<1>2. PICK h : h = CHOOSE f : SumTable(f, d, S)
  OBVIOUS
<1>3. SumTable(g, c, S) /\ SumTable(h, d, S)
  BY <1>1, <1>2, TableExists
<1>4. g[S] = h[S]
  BY <1>3, TablesAgree
<1> QED
  BY <1>1, <1>2, <1>4, SumChosen

\* A sum of natural numbers is one.
LEMMA SumNatural ==
  ASSUME NEW costs, NEW S, IsFiniteSet(S), \A x \in S : costs[x] \in Nat
  PROVE  SumFunctionOnSet(costs, S) \in Nat
<1> DEFINE other == {s \in SUBSET S : SumFunctionOnSet(costs, s) \notin Nat}
<1> SUFFICES ASSUME other # {} PROVE FALSE
  OBVIOUS
<1>1. PICK m \in other : \A s \in other : s \subseteq m => s = m
  <2>1. other \in SUBSET SUBSET S
    OBVIOUS
  <2> HIDE DEF other
  <2> QED
    BY <2>1, SmallestMember
<1>2. IsFiniteSet(m)
  BY <1>1, FS_Subset
<1>3. CASE m = {}
  <2>1. SumFunctionOnSet(costs, m) = 0
    BY <1>2, <1>3, SumPicks
  <2> QED
    BY <1>1, <2>1
<1>4. CASE m # {}
  <2>1. /\ Picked(m) \in m
        /\ SumFunctionOnSet(costs, m) = costs[Picked(m)] + SumFunctionOnSet(costs, m \ {Picked(m)})
    BY <1>2, <1>4, SumPicks
  <2>2. SumFunctionOnSet(costs, m \ {Picked(m)}) \in Nat
    BY <1>1, <2>1
  <2> QED
    BY <1>1, <2>1, <2>2
<1> QED
  BY <1>3, <1>4

\* Whichever element is picked first, the sum is the same.
LEMMA SumRemoves ==
  ASSUME NEW costs, NEW S, IsFiniteSet(S), \A x \in S : costs[x] \in Nat, NEW r \in S
  PROVE  SumFunctionOnSet(costs, S) = costs[r] + SumFunctionOnSet(costs, S \ {r})
<1> DEFINE Splits(s, x) == SumFunctionOnSet(costs, s) = costs[x] + SumFunctionOnSet(costs, s \ {x})
           wrong == {s \in SUBSET S : \E x \in s : ~Splits(s, x)}
<1> SUFFICES ASSUME wrong # {} PROVE FALSE
  OBVIOUS
<1>1. PICK m \in wrong : \A s \in wrong : s \subseteq m => s = m
  <2>1. wrong \in SUBSET SUBSET S
    OBVIOUS
  <2> HIDE DEF wrong
  <2> QED
    BY <2>1, SmallestMember
<1>2. PICK x \in m : ~Splits(m, x)
  OBVIOUS
<1>3. m \in SUBSET S /\ m # {} /\ IsFiniteSet(m)
  BY <1>2, FS_Subset
<1>4. PICK p : p = Picked(m)
  OBVIOUS
<1>5. p \in m /\ Splits(m, p)
  BY <1>3, <1>4, SumPicks
<1>6. p # x
  BY <1>2, <1>5
<1>7. Splits(m \ {p}, x) /\ Splits(m \ {x}, p)
  BY <1>1, <1>2, <1>5, <1>6
<1>8. PICK rest : rest = m \ {p, x}
  OBVIOUS
<1>9. (m \ {p}) \ {x} = rest /\ (m \ {x}) \ {p} = rest
  BY <1>8
<1>10. SumFunctionOnSet(costs, rest) \in Nat /\ costs[p] \in Nat /\ costs[x] \in Nat
  BY <1>2, <1>3, <1>5, <1>8, FS_Subset, SumNatural
<1>11. SumFunctionOnSet(costs, m) = costs[x] + SumFunctionOnSet(costs, m \ {x})
  BY <1>5, <1>7, <1>9, <1>10
<1> QED
  BY <1>2, <1>11

USE NumbersAssumption, BudgetsAssumption, NamesAssumption

-----------------------------------------------------------------------------
(* Type correctness *)

\* Adopted evidence is well typed.
LEMMA AdoptTyped ==
  ASSUME NEW r \in Reservations, NEW E \in SUBSET Criteria, TypeOK, Adopt(E, UnitOf[r])
  PROVE  evidence' \subseteq Proof /\ satisfied' \subseteq Criteria
BY DEF TypeOK, TurnOK, WorkOK, Adopt, Proofs, Proof, Units

\* The initial state of a replay is well typed.
LEMMA InitTyped == Init => TypeOK
BY DEF Init, TypeOK, TurnOK, TicketsOK, WorkOK, ReplanOK, ValidationOK, ValidationRecord, ReceiptOK, NoRegistration, NoCosts, NoReplan, FreshValidation, Outcomes, Usage

\* Every accepted event keeps the state well typed.
LEMMA NextTyped == TypeOK /\ [Next]_vars => TypeOK'
<1> SUFFICES ASSUME TypeOK, [Next]_vars PROVE TypeOK'
  OBVIOUS
<1> USE DEF Usage, Outcomes, TypeOK
<1>0. ASSUME UNCHANGED <<turn, scope, registered, phase, dispatch, usage, proof, progress, receipt>>
      PROVE  TurnOK' /\ WorkOK' /\ ReplanOK' /\ ReceiptOK'
  <2>1. TurnOK' /\ ReplanOK'
    BY <1>0 DEF turn, scope, progress, TurnOK, ReplanOK
  <2>2. WorkOK'
    BY <1>0 DEF dispatch, usage, proof, progress, WorkOK
  <2>3. ReceiptOK'
    BY <1>0 DEF ReceiptOK
  <2> QED
    BY <2>1, <2>2, <2>3
<1>1. ASSUME NEW m \in Messages, NEW b \in Budgets, NEW C \in SUBSET Criteria,
              GoalAccepted(m, b, C) PROVE TypeOK'
  BY <1>1 DEF GoalAccepted, FreshGoal, NoRegistration, NoCosts, NoReplan, FreshValidation,
     TurnOK, TicketsOK, WorkOK, ReplanOK, ValidationOK, ValidationRecord, ReceiptOK
<1>2. ASSUME NEW m \in Messages, GoalQueuedAccepted(m) PROVE TypeOK'
  <2>1. TurnOK' /\ TicketsOK' /\ WorkOK' /\ ReplanOK' /\ ReceiptOK'
    BY <1>2 DEF GoalQueuedAccepted, FreshGoal, NoRegistration, NoReplan, usage,
       TurnOK, TicketsOK, WorkOK, ReplanOK, ReceiptOK
  <2>2. ValidationOK'
    BY <1>2 DEF GoalQueuedAccepted, FreshValidation, ValidationOK, ValidationRecord
  <2> QED
    BY <2>1, <2>2
<1>3. ASSUME NEW m \in Messages, GoalUserContinued(m) PROVE TypeOK'
  <2>1. TurnOK' /\ TicketsOK' /\ ReceiptOK'
    BY <1>3 DEF GoalUserContinued, scope, TurnOK, TicketsOK, ReceiptOK
  <2>2. WorkOK' /\ ReplanOK' /\ ValidationOK'
    BY <1>3 DEF GoalUserContinued, dispatch, usage, proof, progress, WorkOK, ReplanOK, ValidationOK
  <2> QED
    BY <2>1, <2>2
<1>4. ASSUME NEW m \in Messages, NEW b \in Budgets, NEW C \in SUBSET Criteria,
             NEW reset \in {"yes", "no", "absent"}, GoalRevised(m, b, C, reset)
      PROVE TypeOK'
  <2>1. TurnOK' /\ TicketsOK' /\ WorkOK' /\ ReceiptOK'
    BY <1>4 DEF GoalRevised, NoRegistration, dispatch, usage, proof, TurnOK, TicketsOK, WorkOK, ReceiptOK
  <2>2. ReplanOK'
    BY <1>4 DEF GoalRevised, ReplanOK
  <2>3. RevisedLimit(b.units) \in Nat /\ Larger(b.units, validation.consumed) \in Nat
    BY DEF ValidationOK, ValidationRecord, RevisedLimit, Larger
  <2>4. ValidationOK'
    BY <1>4, <2>3 DEF GoalRevised, ValidationOK, ValidationRecord
  <2> QED
    BY <2>1, <2>2, <2>4
<1>5. ASSUME NEW r \in Reservations, NEW c \in Criteria, GoalValidationRegistered(r, c)
      PROVE TypeOK'
  BY <1>5 DEF GoalValidationRegistered, Units, turn, scope, dispatch, usage, progress,
     TurnOK, TicketsOK, WorkOK, ReplanOK, ValidationOK, ReceiptOK
<1>6. CASE GoalReplanned
  <2>1. TurnOK' /\ TicketsOK' /\ WorkOK' /\ ValidationOK' /\ ReceiptOK'
    BY <1>6 DEF GoalReplanned, turn, scope, dispatch, usage, proof,
       TurnOK, TicketsOK, WorkOK, ValidationOK, ReceiptOK
  <2>2. ReplanOK'
    BY <1>6 DEF GoalReplanned, ReplanOK, TurnOK
  <2> QED
    BY <2>1, <2>2
<1>7. ASSUME NEW status \in {"succeeded", "stopped"}, NEW units \in SUBSET unitIds, NEW refs \in SUBSET evidence,
             GoalTerminal(status, units, refs)
      PROVE  TypeOK'
  BY <1>7 DEF GoalTerminal, Open, turn, scope, dispatch, usage, proof, progress,
     TurnOK, TicketsOK, WorkOK, ReplanOK, ValidationOK, ReceiptOK
<1>8. CASE TicketIssued
  <2>1. TurnOK' /\ WorkOK' /\ ReplanOK' /\ ValidationOK' /\ ReceiptOK'
    BY <1>0, <1>8 DEF TicketIssued, ValidationOK
  <2>2. TicketsOK'
    BY <1>8 DEF TicketIssued, TicketsOK, TicketRecord, TurnOK
  <2> QED
    BY <2>1, <2>2
<1>9. ASSUME NEW i \in 1..Len(tickets), TicketConsumed(i) PROVE TypeOK'
  <2>1. TurnOK' /\ WorkOK' /\ ReplanOK' /\ ValidationOK' /\ ReceiptOK'
    BY <1>0, <1>9 DEF TicketConsumed, ValidationOK
  <2>2. [tickets[i] EXCEPT !.received = TRUE] \in TicketRecord
    <3>1. tickets[i] \in TicketRecord
      BY ElementOfSeq DEF TicketsOK
    <3> QED
      BY <3>1 DEF TicketRecord
  <2>3. TicketsOK'
    BY <1>9, <2>2 DEF TicketConsumed, TicketsOK
  <2> QED
    BY <2>1, <2>3
<1>10. ASSUME NEW r \in Reservations, NEW i \in 0..Len(tickets), DispatchReserved(r, i) PROVE TypeOK'
  <2>1. TurnOK' /\ TicketsOK' /\ ValidationOK' /\ ReceiptOK'
    BY <1>10 DEF DispatchReserved, turn, scope, TurnOK, TicketsOK, ValidationOK, ReceiptOK
  <2>2. CASE LegacyReset
    <3>1. outstanding' \subseteq Reservations /\ reserved' \subseteq Reservations /\ noProgress' \in Nat
      BY <1>10, <2>2 DEF DispatchReserved, WorkOK
    <3>2. WorkOK'
      BY <1>10, <3>1 DEF DispatchReserved, usage, proof, WorkOK
    <3>3. replan' = [required |-> FALSE, used |-> FALSE, at |-> 0, legacy |-> TRUE]
      BY <1>10, <2>2 DEF DispatchReserved
    <3>4. ReplanOK'
      BY <3>3, SMT DEF ReplanOK
    <3> QED
      BY <2>1, <3>2, <3>4
  <2>3. CASE ~LegacyReset
    BY <1>10, <2>1, <2>3 DEF DispatchReserved, usage, proof, progress, WorkOK, ReplanOK
  <2> QED
    BY <2>2, <2>3
<1>11. ASSUME NEW r \in Reservations, NEW result \in Results, NEW E \in SUBSET Criteria,
              NEW ms \in Usage(Elapsed), NEW usd \in Usage(Costs), UnitSettled(r, result, E, ms, usd)
       PROVE TypeOK'
  <2>1. TurnOK' /\ TicketsOK' /\ ValidationOK' /\ ReceiptOK'
    BY <1>11 DEF UnitSettled, turn, scope, TurnOK, TicketsOK, ValidationOK, ReceiptOK
  <2>2. evidence' \subseteq Proof /\ satisfied' \subseteq Criteria
    BY <1>11, AdoptTyped DEF UnitSettled
  <2>3. time' \in Usage(Nat) /\ noProgress' \in Nat /\ consumed' \in Nat
    BY <1>11 DEF UnitSettled, WorkOK, Plus
  <2>4. DOMAIN unitCosts' \subseteq Reservations /\ unitCosts' \in [DOMAIN unitCosts' -> Usage(Nat)]
    BY <1>11 DEF UnitSettled, WorkOK
  <2>5. WorkOK'
    BY <1>11, <2>2, <2>3, <2>4 DEF UnitSettled, WorkOK, TurnOK, Units
  <2>6. ReplanOK'
    <3>1. (noProgress' >= 2) \in BOOLEAN
      OBVIOUS
    <3>2. \A q \in BOOLEAN : [replan EXCEPT !.required = q] \in
                              [required : BOOLEAN, used : BOOLEAN, at : Nat, legacy : BOOLEAN]
      BY DEF ReplanOK
    <3>3. replan' = [replan EXCEPT !.required = noProgress' >= 2]
      BY <1>11 DEF UnitSettled
    <3> QED
      BY <3>1, <3>2, <3>3, Zenon DEF ReplanOK
  <2> QED
    BY <2>1, <2>5, <2>6
<1>12. ASSUME NEW r \in Reservations, NEW usd \in Costs, UnitUsageReconciled(r, usd) PROVE TypeOK'
  <2>1. TurnOK' /\ TicketsOK' /\ ReplanOK' /\ ValidationOK' /\ ReceiptOK'
    BY <1>12 DEF UnitUsageReconciled, turn, scope, progress,
       TurnOK, TicketsOK, ReplanOK, ValidationOK, ReceiptOK
  <2>2. DOMAIN unitCosts' = DOMAIN unitCosts /\ unitCosts' \in [DOMAIN unitCosts -> Usage(Nat)]
    BY <1>12 DEF UnitUsageReconciled, WorkOK
  <2>3. UNCHANGED <<dispatch, consumed, time, proof, noProgress>>
    BY <1>12 DEF UnitUsageReconciled, progress
  <2>4. WorkOK'
    BY <2>2, <2>3 DEF dispatch, proof, WorkOK
  <2> QED
    BY <2>1, <2>4
<1>13. ASSUME NEW old \in recoverable, NEW E \in SUBSET Criteria, UnitEvidenceReconciled(old, E)
       PROVE TypeOK'
  <2>1. old.reservation \in Reservations
    BY DEF WorkOK
  <2>2. evidence' \subseteq Proof /\ satisfied' \subseteq Criteria
    BY <1>13, <2>1, AdoptTyped DEF UnitEvidenceReconciled
  <2>3. TurnOK' /\ TicketsOK' /\ ReplanOK' /\ ValidationOK' /\ ReceiptOK'
    BY <1>13 DEF UnitEvidenceReconciled, turn, scope, progress,
       TurnOK, TicketsOK, ReplanOK, ValidationOK, ReceiptOK
  <2>4. UNCHANGED <<dispatch, usage, unitIds, noProgress>> /\ recoverable' \subseteq recoverable
    BY <1>13 DEF UnitEvidenceReconciled, progress
  <2>5. WorkOK'
    BY <2>2, <2>4 DEF dispatch, usage, WorkOK
  <2> QED
    BY <2>3, <2>5
<1>14. ASSUME NEW k \in Keys, NEW limit \in Limits, NEW reopen \in BOOLEAN,
              ValidationAdmitted(k, limit, reopen)
       PROVE TypeOK'
  <2>1. TurnOK' /\ TicketsOK' /\ WorkOK' /\ ReplanOK' /\ ReceiptOK'
    BY <1>0, <1>14 DEF ValidationAdmitted, TicketsOK
  <2>2. Larger(validation.limit, limit) \in Nat
    BY DEF ValidationOK, ValidationRecord, Larger
  <2> DEFINE counted == [validation EXCEPT !.consumed = @ + 1, !.limit = Larger(@, limit),
                                           !.admission = limit]
  <2>3. counted \in ValidationRecord
    <3>1. validation.consumed + 1 \in Nat /\ limit \in Nat
      BY DEF ValidationOK, ValidationRecord
    <3> QED
      BY <2>2, <3>1, CountersTyped DEF ValidationOK
  <2>4. ValidationOK'
    <3> HIDE DEF counted
    <3>1. validation' = [counted EXCEPT !.inFlight = @ \cup {k},
                                        !.reopened = IF reopen THEN @ \cup {k} ELSE @]
      BY <1>14 DEF ValidationAdmitted, ValidationOK, ValidationRecord, counted
    <3> QED
      BY <2>3, <3>1 DEF ValidationOK, ValidationRecord
  <2> QED
    BY <2>1, <2>4
<1>15. ASSUME NEW k \in Keys, NEW outcome \in Outcomes \ {"none"}, ValidationSettled(k, outcome)
       PROVE TypeOK'
  <2>1. TurnOK' /\ TicketsOK' /\ WorkOK' /\ ReplanOK' /\ ReceiptOK'
    BY <1>0, <1>15 DEF ValidationSettled, TicketsOK
  <2> DEFINE closed == [validation EXCEPT !.inFlight = @ \ {k}, !.completed = @ + 1]
  <2>2. closed \in ValidationRecord
    <3>1. validation.completed + 1 \in Nat /\ validation.inFlight \ {k} \in SUBSET Keys
      BY DEF ValidationOK, ValidationRecord
    <3> QED
      BY <3>1, ClosingTyped DEF ValidationOK
  <2>3. ValidationOK'
    <3> HIDE DEF closed
    <3>1. validation' = [closed EXCEPT
            !.passed = IF outcome = "passed" THEN @ \cup {k} ELSE @,
            !.latest = [@ EXCEPT ![k] = outcome],
            !.interrupted = IF outcome = "interrupted" THEN @ \cup {k} ELSE @]
      BY <1>15 DEF ValidationSettled, ValidationOK, ValidationRecord, closed
    <3> QED
      BY <2>2, <3>1 DEF ValidationOK, ValidationRecord
  <2> QED
    BY <2>1, <2>3
<1>16. CASE UNCHANGED vars
  BY <1>16 DEF vars, turn, scope, dispatch, usage, proof, progress,
     TurnOK, TicketsOK, WorkOK, ReplanOK, ValidationOK, ReceiptOK
<1> QED
  BY <1>1, <1>2, <1>3, <1>4, <1>5, <1>6, <1>7, <1>8, <1>9, <1>10, <1>11, <1>12, <1>13, <1>14,
     <1>15, <1>16 DEF Next

\* The replayed state always has its type.
THEOREM GoalFlightTyped == Spec => []TypeOK
BY InitTyped, NextTyped, PTL DEF Spec

-----------------------------------------------------------------------------
(* Receipts and tickets *)

\* No step of an idle goal reserves a unit or issues a ticket.
LEMMA QuiescentNext == Quiescent /\ [Next]_vars => Quiescent'
<1> SUFFICES ASSUME Quiescent, [Next]_vars PROVE Quiescent'
  OBVIOUS
<1> USE DEF Quiescent, turn, scope, dispatch
<1>1. CASE UNCHANGED <<phase, outstanding, tickets>>
  BY <1>1
<1>2. CASE phase' = "active"
  BY <1>2
<1>3. CASE Active /\ UNCHANGED phase
  BY <1>3 DEF Active
<1>4. ASSUME NEW status \in {"succeeded", "stopped"}, NEW units \in SUBSET unitIds, NEW refs \in SUBSET evidence,
             GoalTerminal(status, units, refs)
      PROVE  Quiescent'
  BY <1>4 DEF GoalTerminal
<1>5. ASSUME NEW r \in Reservations, NEW result \in Results, NEW E \in SUBSET Criteria,
             NEW ms \in Usage(Elapsed), NEW usd \in Usage(Costs), UnitSettled(r, result, E, ms, usd)
      PROVE Quiescent'
  BY <1>5 DEF UnitSettled
<1>6. ASSUME NEW m \in Messages, GoalUserContinued(m) PROVE Quiescent'
  BY <1>6, <1>2 DEF GoalUserContinued
<1>7. ASSUME NEW r \in Reservations, NEW i \in 0..Len(tickets), DispatchReserved(r, i)
      PROVE Quiescent'
  BY <1>7, <1>3 DEF DispatchReserved
<1> QED
  BY <1>1, <1>2, <1>3, <1>4, <1>5, <1>6, <1>7 DEF Next, vars, GoalAccepted, FreshGoal,
     GoalQueuedAccepted, GoalRevised, GoalValidationRegistered, GoalReplanned, TicketIssued,
     TicketConsumed, UnitUsageReconciled, UnitEvidenceReconciled, ValidationAdmitted,
     ValidationSettled

\* The terminal event cannot overtake a reservation, and nothing is reserved or
\* issued after it before the next turn.
THEOREM GoalQuiescent == Spec => []Quiescent
<1>1. Init => Quiescent
  BY DEF Init, Quiescent
<1> QED
  BY <1>1, QuiescentNext, PTL DEF Spec

\* What would change a receipt's content removes the receipt or is refused.
LEMMA ReceiptNext ==
  Quiescent /\ ReceiptDescribesGoal /\ [Next]_vars => ReceiptDescribesGoal'
<1> SUFFICES ASSUME Quiescent, ReceiptDescribesGoal, [Next]_vars PROVE ReceiptDescribesGoal'
  OBVIOUS
<1> USE DEF ReceiptDescribesGoal
<1>1. receipt # None => outstanding = {}
  BY DEF Quiescent
<1>2. CASE UNCHANGED vars
  BY <1>2 DEF vars, turn, scope, proof
<1>3. ASSUME NEW status \in {"succeeded", "stopped"}, NEW units \in SUBSET unitIds, NEW refs \in SUBSET evidence,
             GoalTerminal(status, units, refs)
      PROVE  ReceiptDescribesGoal'
  BY <1>3 DEF GoalTerminal, turn, scope, proof
<1>4. ASSUME NEW r \in Reservations, NEW result \in Results, NEW E \in SUBSET Criteria,
             NEW ms \in Usage(Elapsed), NEW usd \in Usage(Costs), UnitSettled(r, result, E, ms, usd)
      PROVE ReceiptDescribesGoal'
  BY <1>1, <1>4 DEF UnitSettled, Settleable
<1>5. ASSUME NEW old \in recoverable, NEW E \in SUBSET Criteria, UnitEvidenceReconciled(old, E)
      PROVE ReceiptDescribesGoal'
  BY <1>5 DEF UnitEvidenceReconciled
<1>6. ASSUME NEW r \in Reservations, NEW i \in 0..Len(tickets), DispatchReserved(r, i)
      PROVE ReceiptDescribesGoal'
  BY <1>6 DEF DispatchReserved, turn, scope, proof
<1>7. CASE \/ \E m \in Messages, b \in Budgets, C \in SUBSET Criteria : GoalAccepted(m, b, C)
           \/ \E m \in Messages : GoalQueuedAccepted(m)
           \/ \E m \in Messages : GoalUserContinued(m)
           \/ \E m \in Messages, b \in Budgets, C \in SUBSET Criteria, reset \in {"yes", "no", "absent"} :
                GoalRevised(m, b, C, reset)
  BY <1>7 DEF GoalAccepted, FreshGoal, GoalQueuedAccepted, GoalUserContinued, GoalRevised
<1>8. CASE UNCHANGED <<turn, scope, phase, unitIds, evidence, receipt>>
  BY <1>8 DEF turn, scope
<1>9. CASE \/ \E r \in Reservations, c \in Criteria : GoalValidationRegistered(r, c)
           \/ GoalReplanned
  BY <1>8, <1>9 DEF GoalValidationRegistered, GoalReplanned, proof
<1>10. CASE TicketIssued \/ \E i \in 1..Len(tickets) : TicketConsumed(i)
  BY <1>8, <1>10 DEF TicketIssued, TicketConsumed, proof
<1>11. CASE \E r \in Reservations, usd \in Costs : UnitUsageReconciled(r, usd)
  BY <1>8, <1>11 DEF UnitUsageReconciled, proof
<1>12. CASE \/ \E k \in Keys, limit \in Limits, reopen \in BOOLEAN : ValidationAdmitted(k, limit, reopen)
            \/ \E k \in Keys, outcome \in Outcomes \ {"none"} : ValidationSettled(k, outcome)
  BY <1>8, <1>12 DEF ValidationAdmitted, ValidationSettled, proof
<1> HIDE DEF ReceiptDescribesGoal
<1> QED
  BY <1>2, <1>3, <1>4, <1>5, <1>6, <1>7, <1>9, <1>10, <1>11, <1>12, Zenon DEF Next

\* A stored receipt agrees with the goal's phase, revision, units and evidence.
THEOREM ReceiptFaithful == Spec => []ReceiptDescribesGoal
<1>1. Init => Quiescent /\ ReceiptDescribesGoal
  BY DEF Init, Quiescent, ReceiptDescribesGoal
<1> QED
  BY <1>1, QuiescentNext, ReceiptNext, PTL DEF Spec

\* A new turn or revision drops the tickets of the one before.
LEMMA TicketsNext == TypeOK /\ TicketsCurrent /\ [Next]_vars => TicketsCurrent'
<1> SUFFICES ASSUME TypeOK, TicketsCurrent, [Next]_vars PROVE TicketsCurrent'
  OBVIOUS
<1> USE DEF TicketsCurrent
<1>1. tickets \in Seq(TicketRecord)
  BY DEF TypeOK, TicketsOK
<1>2. CASE tickets' = <<>>
  BY <1>2
<1>3. CASE UNCHANGED <<tickets, revision, latest>>
  BY <1>3
<1>4. CASE TicketIssued
  <2> DEFINE t == [revision |-> revision, origin |-> latest, received |-> FALSE]
  <2>1. tickets' = Append(tickets, t) /\ UNCHANGED <<revision, latest>>
    BY <1>4 DEF TicketIssued, turn, scope
  <2>2. Len(tickets') = Len(tickets) + 1 /\ tickets'[Len(tickets) + 1] = t
        /\ \A i \in 1..Len(tickets) : tickets'[i] = tickets[i]
    BY <1>1, <2>1
  <2>3. \A i \in 1..Len(tickets) : tickets[i].received
    BY <1>4 DEF TicketIssued
  <2> QED
    BY <1>1, <2>1, <2>2, <2>3
<1>5. ASSUME NEW i \in 1..Len(tickets), TicketConsumed(i) PROVE TicketsCurrent'
  <2>1. tickets' = [tickets EXCEPT ![i].received = TRUE] /\ UNCHANGED <<revision, latest>>
    BY <1>5 DEF TicketConsumed, turn, scope
  <2>2. Len(tickets') = Len(tickets)
    BY <1>1, <2>1
  <2>3. \A j \in 1..Len(tickets) :
          /\ tickets[j] \in TicketRecord
          /\ tickets'[j] = IF j = i THEN [tickets[j] EXCEPT !.received = TRUE] ELSE tickets[j]
    <3>1. \A j \in 1..Len(tickets) : tickets[j] \in TicketRecord
      BY <1>1, ElementOfSeq
    <3>2. DOMAIN tickets = 1..Len(tickets)
      BY <1>1
    <3> QED
      BY <2>1, <3>1, <3>2, Zenon
  <2>4. \A j \in 1..Len(tickets) :
          /\ tickets'[j].revision = tickets[j].revision /\ tickets'[j].origin = tickets[j].origin
          /\ tickets[j].received => tickets'[j].received
    <3> TAKE j \in 1..Len(tickets)
    <3>1. tickets[j] \in TicketRecord
      BY <2>3
    <3>2. tickets'[j] = tickets[j] \/ tickets'[j] = [tickets[j] EXCEPT !.received = TRUE]
      BY <2>3
    <3> QED
      BY <3>1, <3>2 DEF TicketRecord
  <2> QED
    BY <2>1, <2>2, <2>4
<1>6. CASE \/ \E m \in Messages, b \in Budgets, C \in SUBSET Criteria : GoalAccepted(m, b, C)
           \/ \E m \in Messages : GoalQueuedAccepted(m)
           \/ \E m \in Messages : GoalUserContinued(m)
           \/ \E m \in Messages, b \in Budgets, C \in SUBSET Criteria, reset \in {"yes", "no", "absent"} :
                GoalRevised(m, b, C, reset)
  BY <1>2, <1>6 DEF GoalAccepted, FreshGoal, GoalQueuedAccepted, GoalUserContinued, GoalRevised
<1>7. CASE \E status \in {"succeeded", "stopped"}, units \in SUBSET unitIds, refs \in SUBSET evidence :
                GoalTerminal(status, units, refs)
  BY <1>2, <1>7 DEF GoalTerminal
<1>8. CASE \/ \E r \in Reservations, c \in Criteria : GoalValidationRegistered(r, c)
           \/ GoalReplanned
  BY <1>3, <1>8 DEF GoalValidationRegistered, GoalReplanned, turn, scope
<1>9. CASE \E r \in Reservations, i \in 0..Len(tickets) : DispatchReserved(r, i)
  BY <1>3, <1>9 DEF DispatchReserved, turn, scope
<1>10. CASE \E r \in Reservations, result \in Results, E \in SUBSET Criteria,
               ms \in Usage(Elapsed), usd \in Usage(Costs) : UnitSettled(r, result, E, ms, usd)
  BY <1>3, <1>10 DEF UnitSettled, turn, scope
<1>11. CASE \/ \E r \in Reservations, usd \in Costs : UnitUsageReconciled(r, usd)
            \/ \E old \in recoverable, E \in SUBSET Criteria : UnitEvidenceReconciled(old, E)
  BY <1>3, <1>11 DEF UnitUsageReconciled, UnitEvidenceReconciled, turn, scope
<1>12. CASE \/ \E k \in Keys, limit \in Limits, reopen \in BOOLEAN : ValidationAdmitted(k, limit, reopen)
            \/ \E k \in Keys, outcome \in Outcomes \ {"none"} : ValidationSettled(k, outcome)
  BY <1>3, <1>12 DEF ValidationAdmitted, ValidationSettled, turn, scope
<1>13. CASE UNCHANGED vars
  BY <1>3, <1>13 DEF vars, turn, scope
<1> HIDE DEF TicketsCurrent
<1> QED
  BY <1>4, <1>5, <1>6, <1>7, <1>8, <1>9, <1>10, <1>11, <1>12, <1>13, Zenon DEF Next

\* A ticket never outlives its turn or its revision.
THEOREM TicketsFresh == Spec => []TicketsCurrent
<1>1. Init => TicketsCurrent
  BY DEF Init, TicketsCurrent
<1> QED
  BY <1>1, InitTyped, NextTyped, TicketsNext, PTL DEF Spec

-----------------------------------------------------------------------------
(* Acceptance *)

\* What acceptance rests on: every satisfied criterion has evidence, every piece
\* of evidence a settled unit, also when it is recovered after the settlement.
ProofInv ==
  /\ \A c \in satisfied : \E e \in evidence : e.criterion = c
  /\ \A e \in evidence : e.unit \in unitIds
  /\ \A old \in recoverable : UnitOf[old.reservation] \in unitIds
  /\ phase = "terminal" => AllAccepted

\* Adoption keeps criteria and evidence together.
LEMMA AdoptProved ==
  ASSUME NEW E, NEW unit, Adopt(E, unit), ProofInv
  PROVE  /\ \A c \in satisfied' : \E e \in evidence' : e.criterion = c
         /\ \A e \in evidence' : e.unit \in unitIds \cup {unit}
         /\ satisfied \subseteq satisfied'
<1> DEFINE new(c) == [criterion |-> c, revision |-> revision, unit |-> unit]
<1>1. evidence' = evidence \cup {new(c) : c \in E} /\ satisfied' = satisfied \cup E
  BY DEF Adopt, Proofs
<1>2. \A c \in E : new(c) \in evidence' /\ new(c).criterion = c /\ new(c).unit = unit
  BY <1>1
<1>3. \A c \in satisfied' : \E e \in evidence' : e.criterion = c
  BY <1>1, <1>2 DEF ProofInv
<1>4. \A e \in evidence' : e.unit \in unitIds \cup {unit}
  BY <1>1, <1>2 DEF ProofInv
<1> QED
  BY <1>1, <1>3, <1>4

\* Every step keeps the evidence behind the satisfied criteria.
LEMMA ProofNext == TypeOK /\ Quiescent /\ ProofInv /\ [Next]_vars => ProofInv'
<1> SUFFICES ASSUME TypeOK, Quiescent, ProofInv, [Next]_vars PROVE ProofInv'
  OBVIOUS
<1> USE DEF AllAccepted
<1>1. CASE UNCHANGED <<proof, phase, contract>>
  BY <1>1 DEF proof, ProofInv
<1>2. CASE UNCHANGED proof /\ phase' = "active"
  BY <1>2 DEF proof, ProofInv
<1>3. CASE satisfied' = {} /\ evidence' = {} /\ recoverable' = {} /\ phase' = "active"
  BY <1>3 DEF ProofInv
<1>4. ASSUME NEW r \in Reservations, NEW c \in Criteria, GoalValidationRegistered(r, c)
      PROVE ProofInv'
  BY <1>4 DEF GoalValidationRegistered, Active, ProofInv
<1>5. ASSUME NEW status \in {"succeeded", "stopped"}, NEW units \in SUBSET unitIds, NEW refs \in SUBSET evidence,
             GoalTerminal(status, units, refs)
      PROVE  ProofInv'
  BY <1>5 DEF GoalTerminal, scope, proof, ProofInv
<1>6. ASSUME NEW r \in Reservations, NEW result \in Results, NEW E \in SUBSET Criteria,
             NEW ms \in Usage(Elapsed), NEW usd \in Usage(Costs), UnitSettled(r, result, E, ms, usd)
      PROVE ProofInv'
  <2>1. phase # "terminal" /\ UNCHANGED <<phase, contract>>
    BY <1>6 DEF UnitSettled, Settleable, Quiescent, scope
  <2>2. unitIds' = unitIds \cup {UnitOf[r]} /\ Adopt(E, UnitOf[r])
    BY <1>6 DEF UnitSettled
  <2>3. recoverable' \subseteq recoverable \cup {[reservation |-> r, revision |-> revision]}
    BY <1>6 DEF UnitSettled
  <2>4. \A old \in recoverable' : UnitOf[old.reservation] \in unitIds'
    BY <2>2, <2>3 DEF ProofInv
  <2> QED
    BY <2>1, <2>2, <2>4, AdoptProved DEF ProofInv
<1>7. ASSUME NEW old \in recoverable, NEW E \in SUBSET Criteria, UnitEvidenceReconciled(old, E)
      PROVE ProofInv'
  <2>1. phase' = "active" /\ UNCHANGED unitIds /\ recoverable' \subseteq recoverable
    BY <1>7 DEF UnitEvidenceReconciled, Active
  <2>2. Adopt(E, UnitOf[old.reservation]) /\ UnitOf[old.reservation] \in unitIds
    BY <1>7 DEF UnitEvidenceReconciled, ProofInv
  <2> QED
    BY <2>1, <2>2, AdoptProved DEF ProofInv
<1>8. ASSUME NEW r \in Reservations, NEW i \in 0..Len(tickets), DispatchReserved(r, i)
      PROVE ProofInv'
  BY <1>1, <1>8 DEF DispatchReserved, scope
<1>9. ASSUME NEW m \in Messages, NEW b \in Budgets \cup {budget}, NEW C \in SUBSET Criteria,
              FreshGoal(m, b, C) PROVE ProofInv'
  BY <1>3, <1>9 DEF FreshGoal
<1>10. ASSUME NEW m \in Messages, NEW b \in Budgets, NEW C \in SUBSET Criteria,
              NEW reset \in {"yes", "no", "absent"}, GoalRevised(m, b, C, reset)
       PROVE ProofInv'
  BY <1>2, <1>10 DEF GoalRevised
<1>11. ASSUME NEW m \in Messages, GoalUserContinued(m) PROVE ProofInv'
  BY <1>2, <1>11 DEF GoalUserContinued
<1>12. ASSUME NEW m \in Messages, NEW b \in Budgets, NEW C \in SUBSET Criteria,
              GoalAccepted(m, b, C) PROVE ProofInv'
  BY <1>9, <1>12 DEF GoalAccepted
<1>13. ASSUME NEW m \in Messages, GoalQueuedAccepted(m) PROVE ProofInv'
  BY <1>9, <1>13 DEF GoalQueuedAccepted
<1>14. CASE UNCHANGED vars \/ GoalReplanned \/ TicketIssued
  BY <1>1, <1>14 DEF vars, scope, GoalReplanned, TicketIssued
<1>15. ASSUME NEW i, TicketConsumed(i) PROVE ProofInv'
  BY <1>1, <1>15 DEF scope, TicketConsumed
<1>16. ASSUME NEW r, NEW usd, UnitUsageReconciled(r, usd) PROVE ProofInv'
  BY <1>1, <1>16 DEF scope, UnitUsageReconciled
<1>17. ASSUME NEW k, NEW limit, NEW reopen, ValidationAdmitted(k, limit, reopen) PROVE ProofInv'
  BY <1>1, <1>17 DEF scope, ValidationAdmitted
<1>18. ASSUME NEW k, NEW outcome, ValidationSettled(k, outcome) PROVE ProofInv'
  BY <1>1, <1>18 DEF scope, ValidationSettled
<1> QED
  BY <1>4, <1>5, <1>6, <1>7, <1>8, <1>10, <1>11, <1>12, <1>13, <1>14, <1>15, <1>16, <1>17, <1>18
     DEF Next

\* A succeeded goal has evidence from a settled unit for each of its criteria.
THEOREM GoalAcceptedWithProof == Spec => []AcceptedWithProof
<1>1. Init => Quiescent /\ ProofInv
  BY DEF Init, Quiescent, ProofInv
<1>2. TypeOK /\ ProofInv => AcceptedWithProof
  BY DEF ProofInv, AcceptedWithProof, AllAccepted
<1> QED
  BY <1>1, <1>2, InitTyped, NextTyped, QuiescentNext, ProofNext, PTL DEF Spec

-----------------------------------------------------------------------------
(* The end of a goal *)

\* The goal's own message is used up, so no acceptance event repeats it.
MessageUsed == goal # None => goal \in accepted

\* No step forgets a used message.
LEMMA MessageNext == MessageUsed /\ [Next]_vars => MessageUsed'
<1> SUFFICES ASSUME MessageUsed, [Next]_vars PROVE MessageUsed'
  OBVIOUS
<1>1. CASE UNCHANGED <<goal, accepted>>
  BY <1>1 DEF MessageUsed
<1>2. ASSUME NEW m \in Messages, goal' = m, accepted' = accepted \cup {m} PROVE MessageUsed'
  BY <1>2 DEF MessageUsed
<1>3. ASSUME NEW r \in Reservations, NEW i \in 0..Len(tickets), DispatchReserved(r, i)
      PROVE MessageUsed'
  BY <1>1, <1>3 DEF DispatchReserved, turn
<1>4. CASE \/ \E m \in Messages, b \in Budgets, C \in SUBSET Criteria : GoalAccepted(m, b, C)
           \/ \E m \in Messages : GoalQueuedAccepted(m)
           \/ \E m \in Messages : GoalUserContinued(m)
           \/ \E m \in Messages, b \in Budgets, C \in SUBSET Criteria, reset \in {"yes", "no", "absent"} :
                GoalRevised(m, b, C, reset)
  BY <1>1, <1>2, <1>4 DEF GoalAccepted, FreshGoal, GoalQueuedAccepted, GoalUserContinued, GoalRevised
<1>5. CASE \/ \E r \in Reservations, c \in Criteria : GoalValidationRegistered(r, c)
           \/ GoalReplanned
  BY <1>1, <1>5 DEF GoalValidationRegistered, GoalReplanned, turn
<1>6. CASE \/ \E status \in {"succeeded", "stopped"}, units \in SUBSET unitIds, refs \in SUBSET evidence :
                GoalTerminal(status, units, refs)
           \/ TicketIssued
           \/ \E i \in 1..Len(tickets) : TicketConsumed(i)
  BY <1>1, <1>6 DEF GoalTerminal, TicketIssued, TicketConsumed, turn
<1>7. CASE \E r \in Reservations, result \in Results, E \in SUBSET Criteria,
              ms \in Usage(Elapsed), usd \in Usage(Costs) : UnitSettled(r, result, E, ms, usd)
  BY <1>1, <1>7 DEF UnitSettled, turn
<1>8. CASE \/ \E r \in Reservations, usd \in Costs : UnitUsageReconciled(r, usd)
           \/ \E old \in recoverable, E \in SUBSET Criteria : UnitEvidenceReconciled(old, E)
  BY <1>1, <1>8 DEF UnitUsageReconciled, UnitEvidenceReconciled, turn
<1>9. CASE \/ \E k \in Keys, limit \in Limits, reopen \in BOOLEAN : ValidationAdmitted(k, limit, reopen)
           \/ \E k \in Keys, outcome \in Outcomes \ {"none"} : ValidationSettled(k, outcome)
  BY <1>1, <1>9 DEF ValidationAdmitted, ValidationSettled, turn
<1>10. CASE UNCHANGED vars
  BY <1>1, <1>10 DEF vars, turn
<1> QED
  BY <1>3, <1>4, <1>5, <1>6, <1>7, <1>8, <1>9, <1>10, Zenon DEF Next

\* Only another goal follows a terminal one.
LEMMA TerminalStep ==
  Quiescent /\ MessageUsed /\ [Next]_vars =>
    (phase = "terminal" /\ goal' = goal =>
       phase' = "terminal" /\ UNCHANGED <<receipt, scope, consumed, evidence>>)
<1> SUFFICES ASSUME Quiescent, MessageUsed, [Next]_vars, phase = "terminal", goal' = goal
             PROVE  phase' = "terminal" /\ UNCHANGED <<receipt, scope, consumed, evidence>>
  OBVIOUS
<1>1. ASSUME NEW m \in Messages, m \notin accepted PROVE goal' # m
  BY <1>1 DEF MessageUsed
<1>2. outstanding = {}
  BY DEF Quiescent
<1>3. ~Active /\ ~Open
  BY DEF Active, Open
<1>4. CASE \/ \E m \in Messages, b \in Budgets, C \in SUBSET Criteria : GoalAccepted(m, b, C)
           \/ \E m \in Messages : GoalQueuedAccepted(m)
           \/ \E m \in Messages : GoalUserContinued(m)
           \/ \E m \in Messages, b \in Budgets, C \in SUBSET Criteria, reset \in {"yes", "no", "absent"} :
                GoalRevised(m, b, C, reset)
  BY <1>1, <1>3, <1>4 DEF GoalAccepted, FreshGoal, GoalQueuedAccepted, GoalUserContinued, GoalRevised
<1>5. CASE \/ \E r \in Reservations, c \in Criteria : GoalValidationRegistered(r, c)
           \/ GoalReplanned
  BY <1>2, <1>3, <1>5 DEF GoalValidationRegistered, GoalReplanned
<1>6. CASE \/ \E status \in {"succeeded", "stopped"}, units \in SUBSET unitIds, refs \in SUBSET evidence :
                GoalTerminal(status, units, refs)
           \/ TicketIssued
           \/ \E i \in 1..Len(tickets) : TicketConsumed(i)
  BY <1>3, <1>6 DEF GoalTerminal, TicketIssued, TicketConsumed
<1>7. CASE \E r \in Reservations, i \in 0..Len(tickets) : DispatchReserved(r, i)
  BY <1>3, <1>7 DEF DispatchReserved
<1>8. CASE \E r \in Reservations, result \in Results, E \in SUBSET Criteria,
              ms \in Usage(Elapsed), usd \in Usage(Costs) : UnitSettled(r, result, E, ms, usd)
  BY <1>2, <1>8 DEF UnitSettled, Settleable
<1>9. CASE \/ \E r \in Reservations, usd \in Costs : UnitUsageReconciled(r, usd)
           \/ \E old \in recoverable, E \in SUBSET Criteria : UnitEvidenceReconciled(old, E)
  BY <1>3, <1>9 DEF UnitUsageReconciled, UnitEvidenceReconciled, proof
<1>10. CASE \/ \E k \in Keys, limit \in Limits, reopen \in BOOLEAN : ValidationAdmitted(k, limit, reopen)
            \/ \E k \in Keys, outcome \in Outcomes \ {"none"} : ValidationSettled(k, outcome)
  BY <1>10 DEF ValidationAdmitted, ValidationSettled, usage, proof
<1>11. CASE UNCHANGED vars
  BY <1>11 DEF vars, usage, proof
<1> QED
  BY <1>4, <1>5, <1>6, <1>7, <1>8, <1>9, <1>10, <1>11, Zenon DEF Next

\* A succeeded goal is never reopened, revised or charged.
THEOREM GoalTerminalFinal == Spec => TerminalIsFinal
<1>1. Init => Quiescent /\ MessageUsed
  BY DEF Init, Quiescent, MessageUsed
<1> QED
  BY <1>1, QuiescentNext, MessageNext, TerminalStep, PTL DEF Spec, TerminalIsFinal

-----------------------------------------------------------------------------
(* Charging *)

\* A reservation id is used once: what runs and what was charged has been seen.
ChargeInv ==
  /\ UnitsChargedOnce
  /\ IsFiniteSet(DOMAIN unitCosts)
  /\ DOMAIN unitCosts \subseteq reserved /\ outstanding \subseteq reserved

\* Only a settlement charges, and it charges the reservation it closes.
LEMMA ChargeNext == ChargeInv /\ [Next]_vars => ChargeInv'
<1> SUFFICES ASSUME ChargeInv, [Next]_vars PROVE ChargeInv'
  OBVIOUS
<1> USE DEF ChargeInv, UnitsChargedOnce
<1>1. CASE UNCHANGED <<outstanding, reserved, consumed, unitCosts>>
  BY <1>1
<1>2. ASSUME NEW m \in Messages, NEW b \in Budgets, NEW C \in SUBSET Criteria,
              GoalAccepted(m, b, C) PROVE ChargeInv'
  <2>1. DOMAIN unitCosts' = {} /\ consumed' = 0 /\ outstanding' = {}
    BY <1>2 DEF GoalAccepted, FreshGoal, NoCosts
  <2> QED
    BY <2>1, FS_EmptySet
<1>3. ASSUME NEW m \in Messages, GoalQueuedAccepted(m) PROVE ChargeInv'
  BY <1>3 DEF GoalQueuedAccepted, FreshGoal, usage
<1>4. ASSUME NEW r \in Reservations, NEW i \in 0..Len(tickets), DispatchReserved(r, i)
      PROVE ChargeInv'
  BY <1>4 DEF DispatchReserved, usage
<1>5. ASSUME NEW r \in Reservations, NEW result \in Results, NEW E \in SUBSET Criteria,
             NEW ms \in Usage(Elapsed), NEW usd \in Usage(Costs), UnitSettled(r, result, E, ms, usd)
      PROVE ChargeInv'
  <2>1. /\ DOMAIN unitCosts' = DOMAIN unitCosts \cup {r} /\ consumed' = consumed + 1
        /\ outstanding' = outstanding \ {r} /\ reserved' = reserved
    BY <1>5 DEF UnitSettled
  <2>2. r \in outstanding /\ r \notin DOMAIN unitCosts
    BY <1>5 DEF UnitSettled, Settleable
  <2>3. /\ IsFiniteSet(DOMAIN unitCosts \cup {r})
        /\ Cardinality(DOMAIN unitCosts \cup {r}) = Cardinality(DOMAIN unitCosts) + 1
    BY <2>2, FS_AddElement
  <2> QED
    BY <2>1, <2>2, <2>3
<1>6. ASSUME NEW r \in Reservations, NEW usd \in Costs, UnitUsageReconciled(r, usd)
      PROVE ChargeInv'
  <2>1. DOMAIN unitCosts' = DOMAIN unitCosts /\ UNCHANGED <<outstanding, reserved, consumed>>
    BY <1>6 DEF UnitUsageReconciled, dispatch
  <2> QED
    BY <2>1
<1> QED
  BY <1>1, <1>2, <1>3, <1>4, <1>5, <1>6 DEF Next, vars, dispatch, usage, GoalUserContinued,
     GoalRevised, GoalValidationRegistered, GoalReplanned, GoalTerminal, TicketIssued,
     TicketConsumed, UnitEvidenceReconciled, ValidationAdmitted, ValidationSettled

\* Every settled unit of a budget lineage is charged exactly once.
THEOREM GoalChargedOnce == Spec => []UnitsChargedOnce
<1>1. Init => ChargeInv
  BY FS_EmptySet DEF Init, ChargeInv, UnitsChargedOnce, NoCosts
<1> QED
  BY <1>1, ChargeNext, PTL DEF Spec, ChargeInv

-----------------------------------------------------------------------------
(* Cost *)

\* A total is unknown exactly when a price is.
LEMMA TotalKnown ==
  ASSUME NEW costs, IsFiniteSet(DOMAIN costs), \A s \in DOMAIN costs : costs[s] \in Usage(Nat)
  PROVE  /\ (\E s \in DOMAIN costs : costs[s] = Unknown) => Total(costs) = Unknown
         /\ (\A s \in DOMAIN costs : costs[s] # Unknown) =>
              Total(costs) = SumFunctionOnSet(costs, DOMAIN costs) /\ Total(costs) \in Nat
<1>1. CASE \E s \in DOMAIN costs : costs[s] = Unknown
  BY <1>1 DEF Total
<1>2. CASE \A s \in DOMAIN costs : costs[s] # Unknown
  <2>1. Total(costs) = SumFunctionOnSet(costs, DOMAIN costs)
    BY <1>2 DEF Total, FoldFunction, SumFunctionOnSet
  <2>2. \A s \in DOMAIN costs : costs[s] \in Nat
    BY <1>2 DEF Usage
  <2>3. SumFunctionOnSet(costs, DOMAIN costs) \in Nat
    BY <2>2, SumNatural
  <2> QED
    BY <1>2, <2>1, <2>3
<1> QED
  BY <1>1, <1>2

\* Nothing settled costs nothing.
LEMMA TotalNone ==
  ASSUME NEW costs, DOMAIN costs = {}
  PROVE  Total(costs) = 0
<1>1. Total(costs) = SumFunctionOnSet(costs, {})
  BY DEF Total, FoldFunction, SumFunctionOnSet
<1> QED
  BY <1>1, SumPicks, FS_EmptySet

\* A new unit adds its price.
LEMMA TotalAdds ==
  ASSUME NEW costs, IsFiniteSet(DOMAIN costs), \A s \in DOMAIN costs : costs[s] \in Usage(Nat),
         NEW r, r \notin DOMAIN costs, NEW usd \in Usage(Nat)
  PROVE  Total([s \in DOMAIN costs \cup {r} |-> IF s = r THEN usd ELSE costs[s]]) = Plus(Total(costs), usd)
<1> DEFINE new == [s \in DOMAIN costs \cup {r} |-> IF s = r THEN usd ELSE costs[s]]
<1>1. DOMAIN new = DOMAIN costs \cup {r} /\ new[r] = usd /\ \A s \in DOMAIN costs : new[s] = costs[s]
  OBVIOUS
<1> HIDE DEF new
<1>2. IsFiniteSet(DOMAIN new) /\ \A s \in DOMAIN new : new[s] \in Usage(Nat)
  BY <1>1, FS_AddElement
<1>3. CASE usd = Unknown \/ \E s \in DOMAIN costs : costs[s] = Unknown
  <2>1. Total(new) = Unknown
    BY <1>1, <1>2, <1>3, TotalKnown
  <2>2. usd = Unknown \/ Total(costs) = Unknown
    BY <1>3, TotalKnown
  <2> QED
    BY <2>1, <2>2 DEF Plus, new
<1>4. CASE usd # Unknown /\ \A s \in DOMAIN costs : costs[s] # Unknown
  <2>1. Total(costs) = SumFunctionOnSet(costs, DOMAIN costs) /\ Total(costs) \in Nat
    BY <1>4, TotalKnown
  <2>2. Total(new) = SumFunctionOnSet(new, DOMAIN new) /\ \A s \in DOMAIN new : new[s] \in Nat
    <3>1. \A s \in DOMAIN new : new[s] # Unknown
      BY <1>1, <1>4
    <3> QED
      BY <1>2, <3>1, TotalKnown DEF Usage
  <2>3. SumFunctionOnSet(new, DOMAIN new) = new[r] + SumFunctionOnSet(new, DOMAIN new \ {r})
    BY <1>1, <1>2, <2>2, SumRemoves
  <2>4. DOMAIN new \ {r} = DOMAIN costs
    BY <1>1
  <2>5. SumFunctionOnSet(new, DOMAIN costs) = SumFunctionOnSet(costs, DOMAIN costs)
    BY <1>1, SumAgrees
  <2>6. Total(new) = usd + Total(costs)
    BY <1>1, <2>1, <2>2, <2>3, <2>4, <2>5
  <2>7. usd \in Nat /\ Total(costs) # Unknown
    BY <1>4, <2>1 DEF Usage
  <2>8. Plus(Total(costs), usd) = usd + Total(costs)
    BY <1>4, <2>1, <2>7 DEF Plus
  <2> QED
    BY <2>6, <2>8 DEF new
<1> QED
  BY <1>3, <1>4

\* Settlements and late prices keep the cost equal to the total; nothing else touches either.
LEMMA CostNext == TypeOK /\ ChargeInv /\ CostAgrees /\ [Next]_vars => CostAgrees'
<1> SUFFICES ASSUME TypeOK, ChargeInv, CostAgrees, [Next]_vars PROVE CostAgrees'
  OBVIOUS
<1>1. CASE UNCHANGED <<cost, unitCosts>>
  BY <1>1 DEF CostAgrees
<1>2. ASSUME NEW m \in Messages, NEW b \in Budgets, NEW C \in SUBSET Criteria,
              GoalAccepted(m, b, C) PROVE CostAgrees'
  <2>1. DOMAIN NoCosts = {}
    BY DEF NoCosts
  <2> QED
    BY <1>2, <2>1, TotalNone DEF GoalAccepted, CostAgrees
<1>3. ASSUME NEW r \in Reservations, NEW result \in Results, NEW E \in SUBSET Criteria,
             NEW ms \in Usage(Elapsed), NEW usd \in Usage(Costs), UnitSettled(r, result, E, ms, usd)
      PROVE CostAgrees'
  <2>1. /\ cost' = Plus(cost, usd)
        /\ unitCosts' = [s \in DOMAIN unitCosts \cup {r} |-> IF s = r THEN usd ELSE unitCosts[s]]
        /\ r \in outstanding
    BY <1>3 DEF UnitSettled, Settleable
  <2>2. IsFiniteSet(DOMAIN unitCosts) /\ r \notin DOMAIN unitCosts
    BY <2>1 DEF ChargeInv, UnitsChargedOnce
  <2>3. usd \in Usage(Nat) /\ \A s \in DOMAIN unitCosts : unitCosts[s] \in Usage(Nat)
    BY DEF Usage, TypeOK, WorkOK
  <2>4. Total(unitCosts') = Plus(Total(unitCosts), usd)
    BY <2>1, <2>2, <2>3, TotalAdds
  <2> QED
    BY <2>1, <2>4 DEF CostAgrees
<1>4. ASSUME NEW r \in Reservations, NEW usd \in Costs, UnitUsageReconciled(r, usd)
      PROVE CostAgrees'
  BY <1>4 DEF UnitUsageReconciled, CostAgrees
<1> QED
  BY <1>1, <1>2, <1>3, <1>4 DEF Next, vars, dispatch, usage, GoalQueuedAccepted, GoalUserContinued,
     GoalRevised, GoalValidationRegistered, GoalReplanned, GoalTerminal, TicketIssued,
     TicketConsumed, DispatchReserved, UnitEvidenceReconciled, ValidationAdmitted, ValidationSettled

\* The cost of a budget lineage is the sum of its units' prices, whatever the order in which
\* units settle and prices become known, and unknown exactly while a price is (unit_settled
\* adds to it, unit_usage_reconciled computes it anew).
THEOREM GoalCostAgrees == Spec => []CostAgrees
<1>1. Init => ChargeInv /\ CostAgrees
  <2> SUFFICES ASSUME Init PROVE ChargeInv /\ CostAgrees
    OBVIOUS
  <2>1. DOMAIN unitCosts = {} /\ consumed = 0 /\ outstanding = {} /\ cost = 0
    BY DEF Init, NoCosts
  <2>2. ChargeInv
    BY <2>1, FS_EmptySet DEF ChargeInv, UnitsChargedOnce
  <2>3. CostAgrees
    BY <2>1, TotalNone DEF CostAgrees
  <2> QED
    BY <2>2, <2>3
<1> QED
  BY <1>1, InitTyped, NextTyped, ChargeNext, CostNext, PTL DEF Spec

-----------------------------------------------------------------------------
(* Validations *)

\* The admissions add up, and a set of running keys can be counted.
BalanceInv == ValidationBalanced /\ IsFiniteSet(validation.inFlight)

\* An unused interruption is the latest result of a key that is not running and
\* has not passed.
RetryInv ==
  /\ PassedNeverRerun
  /\ \A k \in validation.interrupted \ validation.reopened :
       /\ validation.latest[k] = "interrupted"
       /\ k \notin validation.inFlight /\ k \notin validation.passed

\* Revisions and queued goals keep the retained capacity above the admissions.
LEMMA BalanceNext == TypeOK /\ BalanceInv /\ [Next]_vars => BalanceInv'
<1> SUFFICES ASSUME TypeOK, BalanceInv, [Next]_vars PROVE BalanceInv'
  OBVIOUS
<1> USE DEF BalanceInv, ValidationBalanced
<1>1. validation \in ValidationRecord
  BY DEF TypeOK, ValidationOK
<1>2. CASE UNCHANGED validation
  BY <1>2
<1>3. ASSUME NEW m \in Messages, NEW b \in Budgets, NEW C \in SUBSET Criteria,
              GoalAccepted(m, b, C) PROVE BalanceInv'
  BY <1>3, FS_EmptySet DEF GoalAccepted, FreshValidation
<1>4. ASSUME NEW m \in Messages, GoalQueuedAccepted(m) PROVE BalanceInv'
  BY <1>1, <1>4, FS_EmptySet DEF GoalQueuedAccepted, FreshValidation, ValidationRecord
<1>5. ASSUME NEW m \in Messages, NEW b \in Budgets, NEW C \in SUBSET Criteria,
             NEW reset \in {"yes", "no", "absent"}, GoalRevised(m, b, C, reset)
      PROVE BalanceInv'
  <2>1. /\ validation'.completed = validation.completed
        /\ validation'.inFlight = validation.inFlight
        /\ validation'.consumed = validation.consumed
        /\ validation'.limit = RevisedLimit(b.units)
        /\ validation'.admission = IF validation.admission = 0 THEN 0
                                    ELSE Larger(b.units, validation.consumed)
    BY <1>1, <1>5 DEF GoalRevised, ValidationRecord
  <2>2. b.units \in Nat /\ validation.limit \in Nat /\ validation.consumed \in Nat
        /\ validation.admission \in Nat
    BY <1>1 DEF ValidationRecord
  <2> QED
    BY <2>1, <2>2 DEF RevisedLimit, Larger
<1>6. ASSUME NEW k \in Keys, NEW limit \in Limits, NEW reopen \in BOOLEAN,
             ValidationAdmitted(k, limit, reopen)
      PROVE BalanceInv'
  <2>1. /\ validation'.completed = validation.completed
        /\ validation'.inFlight = validation.inFlight \cup {k}
        /\ validation'.consumed = validation.consumed + 1
        /\ validation'.limit = Larger(validation.limit, limit)
        /\ validation'.admission = limit
        /\ k \notin validation.inFlight /\ validation.consumed + 1 <= limit
    BY <1>1, <1>6 DEF ValidationAdmitted, ValidationRecord
  <2>2. limit \in Nat /\ validation.limit \in Nat /\ validation.consumed \in Nat
        /\ validation.completed \in Nat
    BY <1>1 DEF ValidationRecord
  <2>3. /\ IsFiniteSet(validation.inFlight \cup {k})
        /\ Cardinality(validation.inFlight \cup {k}) = Cardinality(validation.inFlight) + 1
        /\ Cardinality(validation.inFlight) \in Nat
    BY <2>1, FS_AddElement, FS_CardinalityType
  <2> QED
    BY <2>1, <2>2, <2>3 DEF Larger
<1>7. ASSUME NEW k \in Keys, NEW outcome \in Outcomes \ {"none"}, ValidationSettled(k, outcome)
      PROVE BalanceInv'
  <2>1. /\ validation'.completed = validation.completed + 1
        /\ validation'.inFlight = validation.inFlight \ {k}
        /\ validation'.consumed = validation.consumed
        /\ validation'.limit = validation.limit
        /\ validation'.admission = validation.admission
        /\ k \in validation.inFlight
    BY <1>1, <1>7 DEF ValidationSettled, ValidationRecord
  <2>2. /\ IsFiniteSet(validation.inFlight \ {k})
        /\ Cardinality(validation.inFlight \ {k}) = Cardinality(validation.inFlight) - 1
        /\ Cardinality(validation.inFlight) \in Nat /\ validation.completed \in Nat
    BY <1>1, <2>1, FS_RemoveElement, FS_CardinalityType DEF ValidationRecord
  <2> QED
    BY <2>1, <2>2
<1>8. ASSUME NEW r, NEW i, DispatchReserved(r, i) PROVE BalanceInv'
  BY <1>2, <1>8 DEF DispatchReserved
<1>9. ASSUME NEW r, NEW result, NEW E, NEW ms, NEW usd, UnitSettled(r, result, E, ms, usd)
      PROVE BalanceInv'
  BY <1>2, <1>9 DEF UnitSettled
<1> QED
  BY <1>2, <1>3, <1>4, <1>5, <1>6, <1>7, <1>8, <1>9 DEF Next, vars, GoalUserContinued,
     GoalValidationRegistered, GoalReplanned, GoalTerminal, TicketIssued, TicketConsumed,
     UnitUsageReconciled, UnitEvidenceReconciled

\* Every admission is running or settled, within the retained capacity.
THEOREM GoalValidationBalanced == Spec => []ValidationBalanced
<1>1. Init => BalanceInv
  BY FS_EmptySet DEF Init, BalanceInv, ValidationBalanced, FreshValidation
<1> QED
  BY <1>1, InitTyped, NextTyped, BalanceNext, PTL DEF Spec, BalanceInv

\* A retry uses up its interruption, so no passed key is admitted again.
LEMMA RetryNext == TypeOK /\ RetryInv /\ [Next]_vars => RetryInv'
<1> SUFFICES ASSUME TypeOK, RetryInv, [Next]_vars PROVE RetryInv'
  OBVIOUS
<1> USE DEF RetryInv, PassedNeverRerun
<1>1. validation \in ValidationRecord
  BY DEF TypeOK, ValidationOK
<1>2. CASE UNCHANGED validation
  BY <1>2
<1>3. ASSUME NEW m \in Messages, NEW b \in Budgets, NEW C \in SUBSET Criteria,
              GoalAccepted(m, b, C) PROVE RetryInv'
  BY <1>3 DEF GoalAccepted, FreshValidation
<1>4. ASSUME NEW m \in Messages, GoalQueuedAccepted(m) PROVE RetryInv'
  BY <1>1, <1>4 DEF GoalQueuedAccepted, FreshValidation, ValidationRecord
<1>5. ASSUME NEW m \in Messages, NEW b \in Budgets, NEW C \in SUBSET Criteria,
             NEW reset \in {"yes", "no", "absent"}, GoalRevised(m, b, C, reset)
      PROVE RetryInv'
  BY <1>1, <1>5 DEF GoalRevised, ValidationRecord
<1>6. ASSUME NEW k \in Keys, NEW limit \in Limits, NEW reopen \in BOOLEAN,
             ValidationAdmitted(k, limit, reopen)
      PROVE RetryInv'
  <2>1. /\ validation'.inFlight = validation.inFlight \cup {k}
        /\ validation'.reopened = IF reopen THEN validation.reopened \cup {k} ELSE validation.reopened
        /\ validation'.passed = validation.passed /\ validation'.latest = validation.latest
        /\ validation'.interrupted = validation.interrupted
    BY <1>1, <1>6 DEF ValidationAdmitted, ValidationRecord
  <2>2. IF reopen THEN MayReopen(k) ELSE MayRun(k)
    BY <1>6 DEF ValidationAdmitted
  <2> QED
    BY <2>1, <2>2 DEF MayReopen, MayRun
<1>7. ASSUME NEW k \in Keys, NEW outcome \in Outcomes \ {"none"}, ValidationSettled(k, outcome)
      PROVE RetryInv'
  <2>1. /\ validation'.inFlight = validation.inFlight \ {k}
        /\ validation'.reopened = validation.reopened
        /\ validation'.passed = IF outcome = "passed" THEN validation.passed \cup {k} ELSE validation.passed
        /\ validation'.latest = [validation.latest EXCEPT ![k] = outcome]
        /\ validation'.interrupted = IF outcome = "interrupted" THEN validation.interrupted \cup {k}
                                     ELSE validation.interrupted
        /\ k \in validation.inFlight
    BY <1>1, <1>7 DEF ValidationSettled, ValidationRecord
  <2>2. DOMAIN validation.latest = Keys
    BY <1>1 DEF ValidationRecord
  <2>3. k \notin validation.passed /\ k \notin validation.interrupted \ validation.reopened
    BY <2>1
  <2> QED
    BY <1>1, <2>1, <2>2, <2>3 DEF ValidationRecord
<1>8. ASSUME NEW r, NEW i, DispatchReserved(r, i) PROVE RetryInv'
  BY <1>2, <1>8 DEF DispatchReserved
<1>9. ASSUME NEW r, NEW result, NEW E, NEW ms, NEW usd, UnitSettled(r, result, E, ms, usd)
      PROVE RetryInv'
  BY <1>2, <1>9 DEF UnitSettled
<1> QED
  BY <1>2, <1>3, <1>4, <1>5, <1>6, <1>7, <1>8, <1>9 DEF Next, vars, GoalUserContinued,
     GoalValidationRegistered, GoalReplanned, GoalTerminal, TicketIssued, TicketConsumed,
     UnitUsageReconciled, UnitEvidenceReconciled

\* A validation that passed never runs again in its goal.
THEOREM GoalPassedNeverRerun == Spec => []PassedNeverRerun
<1>1. Init => RetryInv
  BY DEF Init, RetryInv, PassedNeverRerun, FreshValidation
<1> QED
  BY <1>1, InitTyped, NextTyped, RetryNext, PTL DEF Spec, RetryInv
=============================================================================
