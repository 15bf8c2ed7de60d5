------------------------ MODULE LunaFabricScheduler ------------------------
(***************************************************************************)
(* The waves of a Luna fabric contract (src/core/luna-fabric-scheduler.ts).  *)
(* A wave is the greedy choice of nextWave among the units whose             *)
(* dependencies are completed: deepest first, none that conflicts with one   *)
(* already chosen, at most MaxActive.  Scopes, shared paths and exclusive    *)
(* resources are one relation, Conflicts; lanes are left out, and the order  *)
(* of two units of equal depth, which is that of their names, is any order.  *)
(***************************************************************************)
EXTENDS Integers, FiniteSets, FiniteSetsExt

CONSTANTS
  Units,       \* the contract's units
  Deps,        \* Deps[u]: the units u depends on
  Conflicts,   \* pairs of units whose scopes or resources overlap
  MaxActive    \* LUNA_FABRIC_MAX_ACTIVE

ASSUME ContractAssumption ==
  /\ IsFiniteSet(Units)
  /\ Deps \in [Units -> SUBSET Units]
  /\ \A u \in Units : u \notin Deps[u]

Conflicting(u, v) == {u, v} \in Conflicts

\* remainingDepth: the longest chain of dependents that starts with the unit.
Depth[u \in Units] == 1 + Max({0} \cup {Depth[v] : v \in {w \in Units : u \in Deps[w]}})

ReadyUnits(completed) == {u \in Units \ completed : Deps[u] \subseteq completed}

\* The waves nextWave may choose: what is left out conflicts with a unit that was
\* chosen no later, or comes after a full wave.
NextWaves(completed) ==
  {wave \in SUBSET ReadyUnits(completed) :
    /\ Cardinality(wave) <= MaxActive
    /\ \A u, v \in wave : u # v => ~Conflicting(u, v)
    /\ \A u \in ReadyUnits(completed) \ wave :
         \/ \E v \in wave : Conflicting(u, v) /\ Depth[v] >= Depth[u]
         \/ Cardinality(wave) = MaxActive /\ \A v \in wave : Depth[v] >= Depth[u]}
=============================================================================
