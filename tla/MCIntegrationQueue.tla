------------------------- MODULE MCIntegrationQueue -------------------------
(* Instances of IntegrationQueue for TLC. *)
EXTENDS IntegrationQueue, TLC

CONSTANTS r1, r2

MCTasks == [r \in Runs |-> IF r = r1 THEN 2 ELSE 1]

\* The second task of r1 conflicts; on a target that moved both do, so that its
\* remediation is exhausted.  r2 has no conflicts.
MCConflicting ==
  [c \in Runs \X (0..MaxHistory) |-> IF c[1] = r2 THEN {} ELSE IF c[2] = 0 THEN {2} ELSE {1, 2}]
MCSymmetry == Permutations(Procs)
=============================================================================
