---------------------------- MODULE MCRunFlight ----------------------------
(* Instance of RunFlight for TLC: the profiles, outcomes and their sets. *)
EXTENDS RunFlight, TLC

\* A first implementation, a charged remediation and a charged rescue.
MCProfiles == {[role |-> "implementation", kind |-> "implementation", charge |-> 0],
               [role |-> "implementation", kind |-> "normal_remediation", charge |-> 1],
               [role |-> "rescue", kind |-> "model_rescue", charge |-> 1]}

MCOutcomes == {[disposition |-> "succeeded", failure |-> None],
               [disposition |-> "failed", failure |-> "implementation"],
               [disposition |-> "continue", failure |-> "other"]}

Symmetric == Permutations(Attempts) \cup Permutations(Units) \cup Permutations(Lanes)
             \cup Permutations(Candidates)
=============================================================================
