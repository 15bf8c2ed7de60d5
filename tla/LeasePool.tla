------------------------------ MODULE LeasePool ------------------------------
(***************************************************************************)
(* What the handles of scope leases promise over time: the leases held at   *)
(* any moment are disjoint; a handle is given one lease or none, moves it   *)
(* only to a scope that is free, and has lost it for good once it lapsed.   *)
(***************************************************************************)
CONSTANTS
  Handles, Scopes,
  Clashes,   \* the sets of scopes that conflict: {s} or {s, t}
  None       \* no scope

VARIABLES
  waiting,   \* the handles that have not been answered yet
  covers     \* the scope each handle's lease covers, None without one

pool == <<waiting, covers>>

Held == {h \in Handles : covers[h] # None}
Free(s, h) == \A g \in Held \ {h} : {s, covers[g]} \notin Clashes

Init == waiting = Handles /\ covers = [h \in Handles |-> None]

Answer(h) == h \in waiting /\ waiting' = waiting \ {h}
Grant(h, s) == Answer(h) /\ Free(s, h) /\ covers' = [covers EXCEPT ![h] = s]
Refuse(h) == Answer(h) /\ UNCHANGED covers
Move(h, s) == h \in Held /\ Free(s, h) /\ covers' = [covers EXCEPT ![h] = s] /\ UNCHANGED waiting
\* Leases end: they expire, or are released or abandoned.
Lapse(gone) == covers' = [h \in Handles |-> IF h \in gone THEN None ELSE covers[h]] /\ UNCHANGED waiting

Next ==
  \/ \E h \in Handles : Refuse(h) \/ \E s \in Scopes : Grant(h, s) \/ Move(h, s)
  \/ \E gone \in SUBSET Held : Lapse(gone)

Spec == Init /\ [][Next]_pool
=============================================================================
