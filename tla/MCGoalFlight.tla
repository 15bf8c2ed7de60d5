---------------------------- MODULE MCGoalFlight ----------------------------
(* Instances of GoalFlight for TLC: small budgets and a unit map. *)
EXTENDS GoalFlight, TLC

CONSTANTS r1, r2, r3, u1, u2

\* Two calls for one unit (a retry) and one for another.
MCUnitOf == [r \in Reservations |-> IF r = r3 THEN u2 ELSE u1]

\* One unit without further limits, or two of which one may cost something.
MCBudgets == {[units |-> 1, time |-> None, cost |-> None],
              [units |-> 2, time |-> None, cost |-> 1]}

\* Messages are interchangeable, and so are the two calls of one unit and the evidence keys.
WorkSymmetry == Permutations(Messages) \cup Permutations({r1, r2})
ValidationSymmetry == Permutations(Messages) \cup Permutations(Keys)
=============================================================================
