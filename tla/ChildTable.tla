----------------------------- MODULE ChildTable -----------------------------
(***************************************************************************)
(* What the child lifecycle promises about one dispatched child: it is      *)
(* registered once, gives up its resources before it ends, ends once and    *)
(* for good, and its place is given to a replacement only after its end.    *)
(***************************************************************************)
CONSTANTS Dispositions, None

VARIABLES
  registered,
  held,      \* its gate, its lease and its worktree
  end,       \* how it ended, None before
  replaced

table == <<registered, held, end, replaced>>

Init == registered = FALSE /\ held = TRUE /\ end = None /\ replaced = FALSE

Register ==
  /\ ~registered /\ registered' = TRUE
  /\ UNCHANGED <<held, end, replaced>>
Release ==
  /\ registered /\ held /\ held' = FALSE
  /\ UNCHANGED <<registered, end, replaced>>
End(d) ==
  /\ registered /\ ~held /\ end = None /\ end' = d
  /\ UNCHANGED <<registered, held, replaced>>
Replace ==
  /\ end # None /\ ~replaced /\ replaced' = TRUE
  /\ UNCHANGED <<registered, held, end>>

Next == Register \/ Release \/ (\E d \in Dispositions : End(d)) \/ Replace

Spec == Init /\ [][Next]_table
=============================================================================
