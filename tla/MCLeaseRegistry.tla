--------------------------- MODULE MCLeaseRegistry ---------------------------
(* Instances of LeaseRegistry for TLC. *)
EXTENDS LeaseRegistry, TLC

CONSTANTS h1, s, t

\* s and t are disjoint parts of a tree.
MCClashes == {{s}, {t}}
\* The chain matters on one handle, the others call one operation at a time.
MCQueue == [h \in Handles |-> IF h = h1 THEN 2 ELSE 1]
\* One handle is called with everything, the others renew and move their lease.
MCCalled == [h \in Handles |-> IF h = h1 THEN {"heartbeat", "assert", "replace", "release", "abandon"}
                               ELSE {"heartbeat", "replace"}]
=============================================================================
