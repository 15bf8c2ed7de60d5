------------------------- MODULE MCParallelDispatch -------------------------
(* Two independent units and one that depends on both: two waves. *)
EXTENDS ParallelDispatch, TLC

CONSTANTS a, b, c

MCUnits == {a, b, c}
MCDeps == [u \in {a, b, c} |-> IF u = c THEN {a, b} ELSE {}]
Siblings == Permutations({a, b})
=============================================================================
