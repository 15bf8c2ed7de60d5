----------------------------- MODULE LeaseTable -----------------------------
(***************************************************************************)
(* What acquiring a scope lease promises, whatever the file system does:    *)
(* the lease file is a table that calls enter one at a time, a lease never  *)
(* joins one it conflicts with, and a call's answer tells whether it is in. *)
(***************************************************************************)
EXTENDS FiniteSets

CONSTANTS
  Calls,    \* calls of ScopeLeaseRegistry.acquire, one lease each
  Clashes   \* the pairs {c, d} whose scopes conflict

VARIABLES
  table,    \* the leases of scope-leases.json
  answer    \* what each call returned

tableVars == <<table, answer>>

Clash(c, S) == \E d \in S : {c, d} \in Clashes

TableInit == table = {} /\ answer = [c \in Calls |-> "pending"]

Answer(c, a) ==
  /\ answer[c] = "pending"
  /\ answer' = [answer EXCEPT ![c] = a]
  /\ UNCHANGED table

Record(c) ==
  /\ answer[c] = "pending" /\ c \notin table /\ ~Clash(c, table)
  /\ table' = table \cup {c}
  /\ UNCHANGED answer
Grant(c) == c \in table /\ Answer(c, "granted")
Refuse(c) == c \notin table /\ Clash(c, table) /\ Answer(c, "refused")
Fail(c) == c \notin table /\ Answer(c, "failed")
\* The process dies; its lease stays in the table if it got there.
Die(c) == Answer(c, "crashed")

TableNext == \E c \in Calls : Record(c) \/ Grant(c) \/ Refuse(c) \/ Fail(c) \/ Die(c)
TableSpec == TableInit /\ [][TableNext]_tableVars

=============================================================================
