---------------------------- MODULE MCLeaseMutex ----------------------------
(* Instances of LeaseMutex for TLC. *)
EXTENDS LeaseMutex, TLC

CONSTANTS c1, c2, c3

\* One pair of conflicting scopes; c1 and c2 can hold their leases together.
MCClashes == {{c2, c3}}
\* One call may come back after a recovery, the others give up at once.
MCRetries == [c \in Calls |-> IF c = c1 THEN 1 ELSE 0]
=============================================================================
