---------------------------- MODULE DeliveryTable ----------------------------
(***************************************************************************)
(* What a run of the fabric promises, whatever becomes of its workers, its  *)
(* worktrees and its process: a unit is integrated once, after the units it *)
(* depends on; the target gets all that was integrated, or nothing; and the *)
(* run ends once, as cancelled exactly if a cancellation was accepted,      *)
(* which nothing is integrated or delivered after.                          *)
(***************************************************************************)
EXTENDS FiniteSets

CONSTANTS
  Units, Deps,   \* the contract
  Attempts       \* a unit's implementation is made by one of its attempts

VARIABLES
  integrated,   \* the implementations the candidate of record holds
  target,       \* those the target branch holds
  cancelled,
  status        \* open, or how the run ended

delivery == <<integrated, target, cancelled, status>>

UnitsOf(S) == {t[1] : t \in S}
Whole == UnitsOf(integrated) = Units

Init == integrated = {} /\ target = {} /\ cancelled = FALSE /\ status = "open"

\* One wave: no unit of it twice, none that is integrated already, each with its dependencies.
Integrate(wave) ==
  /\ status = "open" /\ ~cancelled /\ target = {}
  /\ wave # {} /\ \A s, t \in wave : s[1] = t[1] => s = t
  /\ \A t \in wave : t[1] \notin UnitsOf(integrated) /\ Deps[t[1]] \subseteq UnitsOf(integrated)
  /\ integrated' = integrated \cup wave
  /\ UNCHANGED <<target, cancelled, status>>
Deliver ==
  /\ status = "open" /\ ~cancelled /\ target = {} /\ Whole
  /\ target' = integrated
  /\ UNCHANGED <<integrated, cancelled, status>>
\* The run ends at once if nothing of it is still running.
Cancel ==
  /\ status = "open" /\ ~cancelled /\ target = {}
  /\ cancelled' = TRUE /\ status' \in {"open", "cancelled"}
  /\ UNCHANGED <<integrated, target>>
End(s) ==
  /\ status = "open" /\ status' = s
  /\ (s = "cancelled") <=> cancelled
  /\ IF s = "completed" THEN Whole /\ target = integrated ELSE target = {}
  /\ UNCHANGED <<integrated, target, cancelled>>

Next ==
  \/ \E wave \in SUBSET (Units \X Attempts) : Integrate(wave)
  \/ Deliver \/ Cancel \/ \E s \in {"completed", "failed", "cancelled"} : End(s)

Spec == Init /\ [][Next]_delivery
=============================================================================
